------------------------- MODULE HTLCManager_proofs -------------------------
(***************************************************************************)
(* What the methods of HTLCManager keep, whatever the ids, amounts and     *)
(* feerates, and whoever calls them: h is a log and g the log after a      *)
(* call.  The state machines that call them, HTLCManagerSM and LNChannel,  *)
(* are proved about from here.                                             *)
(*                                                                         *)
(* For each method there is a relation between h and g (IsAdded, IsRemoved *)
(* and so on), which says which fields change and to what, and a lemma     *)
(* that it keeps each part of ConsistentLog.  send_rev and recv_rev share  *)
(* IsRevoked, settling and failing share IsRemoved.                        *)
(***************************************************************************)
EXTENDS HTLCManager, FiniteSums, FiniteSetTheorems, WellFoundedInduction, TLAPS

Fields == {"ctn", "revack", "next", "adds", "locked", "settles", "fails", "fees",
           "initiator", "unacked", "revokeLast", "active", "delta"}

\* What only matters for a replay after a reconnection
Aside == {"unacked", "revokeLast"}

\* n differs from m in the fields F at most.
OnlyChanges(F, m, n) == DOMAIN n = Fields /\ \A f \in Fields \ F : n[f] = m[f]

\* p proposes an htlc of this amount: add_htlc.
IsAdded(h, g, p, amount) ==
    LET i == h.next[p]
        s == Other(p)
    IN  /\ i \in HtlcIds /\ amount \in Amounts
        /\ OnlyChanges({"next", "adds", "locked", "active"} \cup Aside, h, g)
        /\ g.next = [h.next EXCEPT ![p] = @ + 1]
        /\ g.adds = [h.adds EXCEPT ![p][i] = amount]
        /\ g.locked = [h.locked EXCEPT ![p][i] = Entered(s, next_ctn(h, s))]
        /\ g.active = [h.active EXCEPT ![p] = @ \cup {i}]

\* p's htlc i is removed: settle_htlc or fail_htlc.
IsSettled(h, g, p, i) ==
    /\ i \in Known(h, p) /\ can_remove_htlc(h, p, i)
    /\ OnlyChanges({"settles"} \cup Aside, h, g)
    /\ g.settles = [h.settles EXCEPT ![p][i] = Entered(p, next_ctn(h, p))]
IsFailed(h, g, p, i) ==
    /\ i \in Known(h, p) /\ can_remove_htlc(h, p, i)
    /\ OnlyChanges({"fails"} \cup Aside, h, g)
    /\ g.fails = [h.fails EXCEPT ![p][i] = Entered(p, next_ctn(h, p))]
IsRemoved(h, g, p, i) == IsSettled(h, g, p, i) \/ IsFailed(h, g, p, i)

\* The initiator proposes a feerate: update_fee.
IsFeeUpdated(h, g, rate) ==
    LET s   == Other(h.initiator)
        n   == NumFees(h)
        new == [rate |-> rate, ctn |-> Entered(s, next_ctn(h, s))]
    IN  /\ rate \in Rates
        /\ OnlyChanges({"fees"} \cup Aside, h, g)
        /\ \/ /\ \E t \in Owner : InCtx(h.fees[n - 1].ctn, t, ctn_latest(h, t))
              /\ g.fees = [k \in 0 .. n |-> IF k = n THEN new ELSE h.fees[k]]
           \/ /\ \A t \in Owner : ~InCtx(h.fees[n - 1].ctn, t, ctn_latest(h, t))
              /\ g.fees = [h.fees EXCEPT ![n - 1] = new]

\* s's next ctx is signed: send_ctx, recv_ctx.
IsSigned(h, g, s) ==
    /\ can_sign(h, s)
    /\ OnlyChanges({"revack"} \cup Aside, h, g)
    /\ g.revack = [h.revack EXCEPT ![s] = TRUE]

\* s revokes its oldest ctx: send_rev, recv_rev.
IsRevoked(h, g, s) ==
    can_revoke(h, s) /\ OnlyChanges(Aside, Revoked(h, s), g)

\* A restart: init_maybe_active_htlc_ids.
IsReloaded(h, g) == g = init_maybe_active_htlc_ids(h)

\* A reconnection: discard_unsigned_remote_updates.
IsDiscarded(h, g) == g = discard_unsigned_remote_updates(h)

-----------------------------------------------------------------------------

LEMMA LogFieldsAre == ASSUME NEW h, TypedLog(h) PROVE DOMAIN h = Fields
  BY DEF TypedLog, NewLog, Fields

\* The two sides, and entries of the log that are in no ctx or in one.
LEMMA EntryFacts ==
    /\ Local # Remote
    /\ \A s \in Owner : Other(s) \in Owner /\ Other(s) # s /\ Other(Other(s)) = s
    /\ \A s \in Owner, t \in Owner : t = s \/ t = Other(s)
    /\ Absent \in Entry
    /\ \A s \in Owner, c \in Nat : Entered(s, c) \in Entry
    /\ \A s \in Owner, c \in Nat : Entered(s, c)[s] = c /\ Entered(s, c)[Other(s)] = None
    /\ \A e \in Entry : (e # Absent) <=> \E s \in Owner : e[s] # None
  BY DEF Local, Remote, Owner, Other, Absent, Entry, Ctn, None, Entered

LogOK(m) == m.ctn \in [Owner -> Nat] /\ m.revack \in [Owner -> BOOLEAN]

\* The commitment numbers are numbers.
LEMMA CtnTypes ==
    ASSUME NEW m, LogOK(m), NEW s \in Owner
    PROVE  /\ m.ctn[s] \in Nat
           /\ ctn_latest(m, s) \in Nat
           /\ next_ctn(m, s) = ctn_latest(m, s) + 1
           /\ ctn_latest(m, s) = (IF m.revack[s] THEN m.ctn[s] + 1 ELSE m.ctn[s])
  BY DEF LogOK, next_ctn, ctn_latest

\* TypeOK says that the keys of the feerates are 0 .. NumFees - 1.
LEMMA NumFeesNat ==
    ASSUME NEW h, TypedLog(h) PROVE NumFees(h) \in Nat \ {0} /\ NumFees(h) - 1 \in Nat
<1>1. NumFees(h) \in Nat \ {0}
  BY DEF TypedLog
<1>2. QED BY <1>1

\* The types of single entries
LEMMA EntryTypes ==
    ASSUME NEW h, TypedLog(h), NEW p \in Owner, NEW i \in HtlcIds
    PROVE  /\ h.locked[p][i] \in Entry
           /\ h.settles[p][i] \in Entry
           /\ h.fails[p][i] \in Entry
           /\ h.next[p] \in Nat
           /\ i \in Nat
<1>1. /\ h.locked \in [Owner -> [HtlcIds -> Entry]]
      /\ h.settles \in [Owner -> [HtlcIds -> Entry]]
      /\ h.fails \in [Owner -> [HtlcIds -> Entry]]
      /\ h.next \in [Owner -> Nat]
  BY DEF TypedLog
<1>2. QED BY <1>1, HtlcIdsAssumption

\* What TypeOK says of the commitment numbers
LEMMA TypedLogOK == ASSUME NEW h, TypedLog(h) PROVE LogOK(h)
  BY DEF TypedLog, LogOK

\* An update that was just proposed is in order.
LEMMA NewEntryOK ==
    ASSUME NEW m, LogOK(m), NEW s \in Owner
    PROVE  LET e == Entered(s, next_ctn(m, s))
           IN  e \in Entry /\ e # Absent /\ EntryOK(m, e, s)
<1>1. s \in Owner /\ Other(s) \in Owner /\ next_ctn(m, s) \in Nat /\ next_ctn(m, s) > m.ctn[s]
      /\ next_ctn(m, s) > 0 /\ next_ctn(m, Other(s)) \in Nat /\ next_ctn(m, Other(s)) > 0
  BY CtnTypes, EntryFacts
<1> DEFINE e == Entered(s, next_ctn(m, s))
<1>2. e \in Entry /\ e[s] = next_ctn(m, s) /\ e[Other(s)] = None /\ e # Absent
  BY <1>1, EntryFacts DEF None
<1> HIDE DEF e
<1>3. EntryOK(m, e, s)
  BY <1>1, <1>2 DEF EntryOK, None
<1>4. QED BY <1>2, <1>3 DEF e

\* Entries stay in order when a ctx is signed.
LEMMA EntryStaysOK ==
    ASSUME NEW m, NEW n, LogOK(m), LogOK(n), n.ctn = m.ctn,
           \A s \in Owner : m.revack[s] => n.revack[s],
           NEW f \in Owner, NEW e \in Entry, EntryOK(m, e, f)
    PROVE  EntryOK(n, e, f)
<1>1. \A s \in Owner : next_ctn(n, s) >= next_ctn(m, s) /\ next_ctn(n, s) \in Nat /\ next_ctn(m, s) \in Nat
  BY CtnTypes
<1>2. Other(f) \in Owner /\ e[f] \in Nat \cup {-1} /\ e[Other(f)] \in Nat \cup {-1}
  BY EntryFacts DEF Entry, Ctn, None
<1>3. QED BY <1>1, <1>2 DEF EntryOK, None

\* send_htlc and recv_htlc keep the log consistent.
LEMMA AddHtlcPreserves ==
    ASSUME NEW h, NEW g, ConsistentLog(h), NEW p \in Owner, NEW amount, IsAdded(h, g, p, amount)
    PROVE  ConsistentLog(g)
<1> DEFINE id == h.next[p]
           s == Other(p)
           e == Entered(s, next_ctn(h, s))
<1>1. /\ TypedLog(h)
      /\ ContiguousIds(h)
      /\ OrderedEntries(h)
      /\ AddedFirst(h)
      /\ RemovedOnce(h)
      /\ SoundCache(h)
      /\ OrderedAdds(h)
      /\ OrderedFees(h)
  BY DEF ConsistentLog
<1>2. amount \in Amounts /\ g.adds = [h.adds EXCEPT ![p][id] = amount]
  BY DEF IsAdded
<1>3. /\ DOMAIN g = Fields
      /\ g.ctn = h.ctn
      /\ g.revack = h.revack
      /\ g.fees = h.fees
      /\ g.initiator = h.initiator
  BY DEF IsAdded, OnlyChanges, Fields, Aside
<1>4. g.settles = h.settles /\ g.fails = h.fails
  BY DEF IsAdded, OnlyChanges, Fields, Aside
<1>5. g.next = [h.next EXCEPT ![p] = @ + 1] /\ id \in HtlcIds
  BY DEF IsAdded
<1>6. g.locked = [h.locked EXCEPT ![p][id] = e]
  BY DEF IsAdded
<1>7. g.active = [h.active EXCEPT ![p] = @ \cup {id}]
  BY DEF IsAdded
<1>8. s \in Owner /\ s # p /\ next_ctn(h, s) \in Nat \ {0}
  BY <1>1, EntryFacts DEF TypedLog, next_ctn, ctn_latest
<1>9. e \in Entry /\ e[s] = next_ctn(h, s) /\ e[p] = None /\ e # Absent
  BY <1>8, EntryFacts DEF None
<1> HIDE DEF e
<1>10. TypedLog(g)
  <2>1. /\ h.next \in [Owner -> Nat]
        /\ h.adds \in [Owner -> [HtlcIds -> Amounts \cup {0}]]
        /\ h.locked \in [Owner -> [HtlcIds -> Entry]]
        /\ h.active \in [Owner -> SUBSET HtlcIds]
    BY <1>1 DEF TypedLog
  <2>2. g.next \in [Owner -> Nat]
    BY <1>5, <2>1
  <2>3. g.adds \in [Owner -> [HtlcIds -> Amounts \cup {0}]]
    <3>1. [h.adds[p] EXCEPT ![id] = amount] \in [HtlcIds -> Amounts \cup {0}]
      BY <1>2, <2>1
    <3>2. g.adds = [h.adds EXCEPT ![p] = [h.adds[p] EXCEPT ![id] = amount]]
      BY <1>2, <2>1
    <3> HIDE DEF id
    <3>3. QED BY <2>1, <3>1, <3>2
  <2>4. g.locked \in [Owner -> [HtlcIds -> Entry]]
    <3>1. [h.locked[p] EXCEPT ![id] = e] \in [HtlcIds -> Entry]
      BY <1>9, <2>1
    <3>2. g.locked = [h.locked EXCEPT ![p] = [h.locked[p] EXCEPT ![id] = e]]
      BY <1>6, <2>1
    <3> HIDE DEF id
    <3>3. QED BY <2>1, <3>1, <3>2
  <2>5. g.active \in [Owner -> SUBSET HtlcIds]
    BY <1>5, <1>7, <2>1
  <2>6. DOMAIN g = DOMAIN NewLog(Local, CHOOSE r \in Rates : TRUE)
    BY <1>3 DEF Fields, NewLog
  <2>7. NumFees(g) = NumFees(h)
    BY <1>3 DEF NumFees
  <2>8. QED BY <1>1, <1>3, <1>4, <2>2, <2>3, <2>4, <2>5, <2>6, <2>7 DEF TypedLog
<1>11. ContiguousIds(g)
  <2> SUFFICES ASSUME NEW q \in Owner, NEW i \in HtlcIds
               PROVE  /\ (i < g.next[q]) <=> (g.adds[q][i] # 0)
                      /\ (i < g.next[q]) <=> (g.locked[q][i] # Absent)
                      /\ i >= g.next[q] => g.settles[q][i] = Absent /\ g.fails[q][i] = Absent
    BY DEF ContiguousIds
  <2>1. /\ (i < h.next[q]) <=> (h.adds[q][i] # 0)
        /\ (i < h.next[q]) <=> (h.locked[q][i] # Absent)
        /\ i >= h.next[q] => h.settles[q][i] = Absent /\ h.fails[q][i] = Absent
    BY <1>1 DEF ContiguousIds
  <2>2. i \in Nat /\ amount # 0 /\ h.next[q] \in Nat
    BY <1>1, <1>2, HtlcIdsAssumption, AmountsAssumption DEF TypedLog
  <2>3. CASE q = p /\ i = id
    BY <1>1, <1>2, <1>4, <1>5, <1>6, <1>9, <2>1, <2>2, <2>3 DEF TypedLog
  <2>4. CASE q # p \/ i # id
    BY <1>1, <1>2, <1>4, <1>5, <1>6, <2>1, <2>2, <2>4 DEF TypedLog
  <2>5. QED BY <2>3, <2>4
<1>12. OrderedEntries(g)
  <2>1. LogOK(h) /\ LogOK(g) /\ g.ctn = h.ctn /\ g.revack = h.revack
    BY <1>1, <1>3 DEF LogOK, TypedLog
  <2> SUFFICES ASSUME NEW q \in Owner, NEW i \in HtlcIds
               PROVE  /\ EntryOK(g, g.locked[q][i], Other(q))
                      /\ EntryOK(g, g.settles[q][i], q)
                      /\ EntryOK(g, g.fails[q][i], q)
    BY DEF OrderedEntries
  <2>2. /\ h.locked[q][i] \in Entry /\ EntryOK(h, h.locked[q][i], Other(q))
        /\ h.settles[q][i] \in Entry /\ EntryOK(h, h.settles[q][i], q)
        /\ h.fails[q][i] \in Entry /\ EntryOK(h, h.fails[q][i], q)
    <3>1. h.locked[q][i] \in Entry /\ h.settles[q][i] \in Entry /\ h.fails[q][i] \in Entry
      BY <1>1 DEF TypedLog
    <3>2. /\ EntryOK(h, h.locked[q][i], Other(q))
          /\ EntryOK(h, h.settles[q][i], q) /\ EntryOK(h, h.fails[q][i], q)
      BY <1>1 DEF OrderedEntries
    <3> QED BY <3>1, <3>2
  <2>3. Other(q) \in Owner
    BY EntryFacts
  <2>4. /\ EntryOK(g, h.locked[q][i], Other(q))
        /\ EntryOK(g, h.settles[q][i], q)
        /\ EntryOK(g, h.fails[q][i], q)
    BY <2>1, <2>2, <2>3, EntryStaysOK
  <2>5. EntryOK(g, e, s)
    <3>1. EntryOK(h, e, s)
      BY <1>8, <2>1, NewEntryOK DEF e
    <3>2. QED BY <1>8, <1>9, <2>1, <3>1, EntryStaysOK
  <2>6. g.locked[q][i] = IF q = p /\ i = id THEN e ELSE h.locked[q][i]
    BY <1>1, <1>5, <1>6 DEF TypedLog
  <2>7. QED BY <1>4, <2>4, <2>5, <2>6
<1>13. AddedFirst(g)
  <2> SUFFICES ASSUME NEW q \in Owner, NEW i \in HtlcIds,
                      h.settles[q][i] # Absent \/ h.fails[q][i] # Absent, NEW t \in Owner
               PROVE  g.locked[q][i][t] # None
    BY <1>4 DEF AddedFirst
  <2>1. h.locked[q][i][t] # None
    BY <1>1 DEF AddedFirst
  <2>2. ~(q = p /\ i = id)
    <3>1. i >= h.next[q] => h.settles[q][i] = Absent /\ h.fails[q][i] = Absent
      BY <1>1 DEF ContiguousIds
    <3>2. QED BY <1>1, <3>1 DEF TypedLog
  <2>3. QED BY <1>1, <1>6, <2>1, <2>2 DEF TypedLog
<1>14. RemovedOnce(g)
  BY <1>1, <1>4 DEF RemovedOnce
<1>15. SoundCache(g)
  <2> SUFFICES ASSUME NEW q \in Owner
               PROVE  /\ g.active[q] \subseteq Known(g, q)
                      /\ \A i \in Known(g, q) \ g.active[q] :
                            LongGone(g, g.settles[q][i]) \/ LongGone(g, g.fails[q][i])
    BY DEF SoundCache
  <2>1. /\ h.active[q] \subseteq Known(h, q)
        /\ \A i \in Known(h, q) \ h.active[q] :
              LongGone(h, h.settles[q][i]) \/ LongGone(h, h.fails[q][i])
    BY <1>1 DEF SoundCache
  <2>2. Known(g, q) = IF q = p THEN Known(h, q) \cup {id} ELSE Known(h, q)
    <3>1. \A i \in HtlcIds : g.adds[q][i] = IF q = p /\ i = id THEN amount ELSE h.adds[q][i]
      BY <1>1, <1>2, <1>5 DEF TypedLog
    <3>2. amount # 0
      BY <1>2, AmountsAssumption
    <3>3. QED BY <1>5, <3>1, <3>2 DEF Known
  <2>3. g.active[q] = IF q = p THEN h.active[q] \cup {id} ELSE h.active[q]
    BY <1>1, <1>7 DEF TypedLog
  <2>4. QED BY <1>3, <1>4, <2>1, <2>2, <2>3 DEF LongGone, InCtx
<1>16. OrderedAdds(g)
  <2> SUFFICES ASSUME NEW q \in Owner, NEW i \in HtlcIds, NEW j \in HtlcIds, i < j, j < g.next[q]
               PROVE  g.locked[q][i][Other(q)] <= g.locked[q][j][Other(q)]
    BY DEF OrderedAdds
  <2>1. h.next[q] \in Nat /\ i \in Nat /\ j \in Nat /\ id \in Nat
    BY <1>1, <1>5, HtlcIdsAssumption DEF TypedLog
  <2>2. CASE q = p /\ j = id
    <3>1. i # id /\ i < h.next[q]
      BY <2>1, <2>2
    <3>2. h.locked[q][i] # Absent /\ h.locked[q][i] \in Entry
      BY <1>1, <3>1 DEF ContiguousIds, TypedLog
    <3>3. h.locked[q][i][s] \in 1 .. next_ctn(h, s)
      BY <1>1, <2>2, <3>2 DEF OrderedEntries, EntryOK
    <3>4. g.locked[q][j] = e /\ g.locked[q][i] = h.locked[q][i]
      BY <1>1, <1>5, <1>6, <2>2, <3>1 DEF TypedLog
    <3>5. QED BY <1>8, <1>9, <2>2, <3>3, <3>4
  <2>3. CASE ~(q = p /\ j = id)
    <3>1. j < h.next[q]
      BY <1>1, <1>5, <2>1, <2>3 DEF TypedLog
    <3>2. h.locked[q][i][Other(q)] <= h.locked[q][j][Other(q)]
      BY <1>1, <3>1 DEF OrderedAdds
    <3>3. g.locked[q][i] = h.locked[q][i] /\ g.locked[q][j] = h.locked[q][j]
      BY <1>1, <1>6, <2>1, <3>1, <2>3 DEF TypedLog
    <3>4. QED BY <3>2, <3>3
  <2>4. QED BY <2>2, <2>3
<1>17. OrderedFees(g)
  BY <1>1, <1>3 DEF OrderedFees, NumFees, EntryOK, next_ctn, ctn_latest
<1>18. QED
  BY <1>10, <1>11, <1>12, <1>13, <1>14, <1>15, <1>16, <1>17 DEF ConsistentLog

-----------------------------------------------------------------------------

\* An htlc that can be removed is in both ctxs, in the cache, and not removed.
LEMMA RemovableFacts ==
    ASSUME NEW h, ConsistentLog(h), NEW p \in Owner, NEW i \in HtlcIds,
           i \in Known(h, p), can_remove_htlc(h, p, i)
    PROVE  /\ h.settles[p][i] = Absent
           /\ h.fails[p][i] = Absent
           /\ \A t \in Owner : h.locked[p][i][t] # None
           /\ i < h.next[p]
           /\ i \in h.active[p]
<1>1. /\ TypedLog(h)
      /\ ContiguousIds(h)
      /\ OrderedEntries(h)
      /\ SoundCache(h)
  BY DEF ConsistentLog
<1>2. LogOK(h) /\ Other(p) \in Owner
  BY <1>1, EntryFacts DEF TypedLog, LogOK
<1>3. /\ i \in Known(h, p)
      /\ i < h.next[p]
      /\ h.locked[p][i][p] # None
      /\ ~InCtx(h.settles[p][i], p, next_ctn(h, p))
      /\ ~InCtx(h.fails[p][i], p, next_ctn(h, p))
  BY DEF can_remove_htlc, is_htlc_active_at_ctn, InCtx
<1>4. /\ next_ctn(h, p) \in Nat
      /\ next_ctn(h, Other(p)) \in Nat
      /\ h.locked[p][i] \in Entry
      /\ h.settles[p][i] \in Entry
      /\ h.fails[p][i] \in Entry
  BY <1>1, <1>2, CtnTypes, EntryTypes
<1>5. \A e \in Entry : EntryOK(h, e, p) /\ ~InCtx(e, p, next_ctn(h, p)) => e = Absent
  BY <1>4 DEF EntryOK, InCtx, None
<1>6. h.settles[p][i] = Absent /\ h.fails[p][i] = Absent
  BY <1>1, <1>3, <1>4, <1>5 DEF OrderedEntries
<1>7. h.locked[p][i] # Absent /\ EntryOK(h, h.locked[p][i], Other(p))
  BY <1>1, <1>3 DEF ContiguousIds, OrderedEntries
<1>8. h.locked[p][i][Other(p)] # None
  BY <1>7, <1>4 DEF EntryOK, None
<1>9. \A t \in Owner : h.locked[p][i][t] # None
  BY <1>3, <1>8, EntryFacts
<1>10. i \in h.active[p]
  <2>1. ~LongGone(h, Absent)
    BY EntryFacts DEF LongGone, InCtx, Absent, Owner
  <2>2. QED BY <1>1, <1>3, <1>6, <2>1 DEF SoundCache
<1>11. QED BY <1>3, <1>6, <1>9, <1>10

\* settle_htlc and fail_htlc enter `e' into one of two tables, and keep the log
\* consistent.
LEMMA RemovalPreserves ==
    ASSUME NEW h, NEW g, ConsistentLog(h), NEW p \in Owner, NEW id \in HtlcIds,
           IsRemoved(h, g, p, id)
    PROVE  ConsistentLog(g)
<1> SUFFICES ASSUME NEW e, e = Entered(p, next_ctn(h, p)),
                    \/ g.settles = [h.settles EXCEPT ![p][id] = e] /\ g.fails = h.fails
                    \/ g.settles = h.settles /\ g.fails = [h.fails EXCEPT ![p][id] = e]
             PROVE  ConsistentLog(g)
  BY DEF IsRemoved, IsSettled, IsFailed, OnlyChanges, Fields, Aside
<1>1. /\ TypedLog(h)
      /\ ContiguousIds(h)
      /\ OrderedEntries(h)
      /\ AddedFirst(h)
      /\ RemovedOnce(h)
      /\ SoundCache(h)
      /\ OrderedAdds(h)
      /\ OrderedFees(h)
  BY DEF ConsistentLog
<1>2. /\ DOMAIN g = Fields
      /\ g.ctn = h.ctn
      /\ g.revack = h.revack
      /\ g.fees = h.fees
      /\ g.initiator = h.initiator
  BY DEF IsRemoved, IsSettled, IsFailed, OnlyChanges, Fields, Aside
<1>3. /\ g.next = h.next
      /\ g.adds = h.adds
      /\ g.locked = h.locked
      /\ g.active = h.active
  BY DEF IsRemoved, IsSettled, IsFailed, OnlyChanges, Fields, Aside
<1>4. LogOK(h) /\ LogOK(g)
  BY <1>1, <1>2 DEF LogOK, TypedLog
<1>5. e \in Entry /\ e # Absent /\ EntryOK(h, e, p)
  BY <1>4, NewEntryOK
<1>6. /\ h.settles[p][id] = Absent
      /\ h.fails[p][id] = Absent
      /\ \A t \in Owner : h.locked[p][id][t] # None
      /\ id < h.next[p]
      /\ id \in h.active[p]
  BY RemovableFacts DEF IsRemoved, IsSettled, IsFailed
<1>7. /\ g.settles \in [Owner -> [HtlcIds -> Entry]]
      /\ g.fails \in [Owner -> [HtlcIds -> Entry]]
  <2>1. /\ h.settles \in [Owner -> [HtlcIds -> Entry]]
        /\ h.fails \in [Owner -> [HtlcIds -> Entry]]
    BY <1>1 DEF TypedLog
  <2>2. /\ [h.settles EXCEPT ![p][id] = e] \in [Owner -> [HtlcIds -> Entry]]
        /\ [h.fails EXCEPT ![p][id] = e] \in [Owner -> [HtlcIds -> Entry]]
    BY <1>5, <2>1
  <2>3. QED BY <2>1, <2>2
<1>8. ASSUME NEW q \in Owner, NEW i \in HtlcIds, ~(q = p /\ i = id)
      PROVE  g.settles[q][i] = h.settles[q][i] /\ g.fails[q][i] = h.fails[q][i]
  BY <1>1, <1>8 DEF TypedLog
<1>9. \/ g.settles[p][id] = e /\ g.fails[p][id] = Absent
      \/ g.settles[p][id] = Absent /\ g.fails[p][id] = e
  BY <1>1, <1>6 DEF TypedLog
<1>10. TypedLog(g)
  BY <1>1, <1>2, <1>3, <1>7 DEF TypedLog, Fields, NewLog, NumFees
<1>11. ContiguousIds(g)
  <2> SUFFICES ASSUME NEW q \in Owner, NEW i \in HtlcIds, i >= h.next[q]
               PROVE  g.settles[q][i] = Absent /\ g.fails[q][i] = Absent
    BY <1>1, <1>3 DEF ContiguousIds
  <2>1. ~(q = p /\ i = id)
    BY <1>1, <1>6, HtlcIdsAssumption DEF TypedLog
  <2>2. QED BY <1>1, <1>8, <2>1 DEF ContiguousIds
<1>12. OrderedEntries(g)
  <2> SUFFICES ASSUME NEW q \in Owner, NEW i \in HtlcIds
               PROVE  /\ EntryOK(g, g.locked[q][i], Other(q))
                      /\ EntryOK(g, g.settles[q][i], q)
                      /\ EntryOK(g, g.fails[q][i], q)
    BY DEF OrderedEntries
  <2>1. \A x, f : EntryOK(g, x, f) <=> EntryOK(h, x, f)
    BY <1>2 DEF EntryOK, next_ctn, ctn_latest
  <2>2. EntryOK(h, Absent, q)
    BY DEF EntryOK
  <2>3. QED BY <1>1, <1>3, <1>5, <1>8, <1>9, <2>1, <2>2 DEF OrderedEntries
<1>13. AddedFirst(g)
  <2> SUFFICES ASSUME NEW q \in Owner, NEW i \in HtlcIds,
                      g.settles[q][i] # Absent \/ g.fails[q][i] # Absent, NEW t \in Owner
               PROVE  h.locked[q][i][t] # None
    BY <1>3 DEF AddedFirst
  <2>1. CASE q = p /\ i = id
    BY <1>6, <2>1
  <2>2. CASE ~(q = p /\ i = id)
    <3>1. h.settles[q][i] # Absent \/ h.fails[q][i] # Absent
      BY <1>8, <2>2
    <3>2. QED BY <1>1, <3>1 DEF AddedFirst
  <2>3. QED BY <2>1, <2>2
<1>14. RemovedOnce(g)
  <2> SUFFICES ASSUME NEW q \in Owner, NEW i \in HtlcIds
               PROVE  g.settles[q][i] = Absent \/ g.fails[q][i] = Absent
    BY DEF RemovedOnce
  <2>1. CASE q = p /\ i = id
    BY <1>9, <2>1
  <2>2. CASE ~(q = p /\ i = id)
    BY <1>1, <1>8, <2>2 DEF RemovedOnce
  <2>3. QED BY <2>1, <2>2
<1>15. SoundCache(g)
  <2> SUFFICES ASSUME NEW q \in Owner, NEW i \in Known(h, q) \ h.active[q]
               PROVE  LongGone(g, g.settles[q][i]) \/ LongGone(g, g.fails[q][i])
    BY <1>1, <1>3 DEF SoundCache, Known
  <2>1. i \in HtlcIds /\ ~(q = p /\ i = id)
    BY <1>6 DEF Known
  <2>2. LongGone(h, h.settles[q][i]) \/ LongGone(h, h.fails[q][i])
    BY <1>1 DEF SoundCache
  <2>3. QED BY <1>2, <1>8, <2>1, <2>2 DEF LongGone, InCtx
<1>16. OrderedAdds(g)
  BY <1>1, <1>3 DEF OrderedAdds
<1>17. OrderedFees(g)
  BY <1>1, <1>2 DEF OrderedFees, NumFees, EntryOK, next_ctn, ctn_latest
<1>18. QED
  BY <1>10, <1>11, <1>12, <1>13, <1>14, <1>15, <1>16, <1>17 DEF ConsistentLog

-----------------------------------------------------------------------------
\* The htlc part of the invariant survives whatever only signs.
LEMMA SigningPreserves ==
    ASSUME NEW h, NEW g, ConsistentLog(h), LogOK(g), g.ctn = h.ctn, \A s \in Owner : h.revack[s] => g.revack[s],
           g.next = h.next, g.adds = h.adds, g.locked = h.locked,
           g.settles = h.settles, g.fails = h.fails, g.active = h.active
    PROVE  /\ ContiguousIds(g)
           /\ OrderedEntries(g)
           /\ AddedFirst(g)
           /\ RemovedOnce(g)
           /\ SoundCache(g)
           /\ OrderedAdds(g)
<1>1. /\ TypedLog(h)
      /\ ContiguousIds(h)
      /\ OrderedEntries(h)
      /\ AddedFirst(h)
      /\ RemovedOnce(h)
      /\ SoundCache(h)
      /\ OrderedAdds(h)
  BY DEF ConsistentLog
<1>2. ContiguousIds(g)
  BY <1>1 DEF ContiguousIds
<1>3. OrderedEntries(g)
  <2> SUFFICES ASSUME NEW q \in Owner, NEW i \in HtlcIds
               PROVE  /\ EntryOK(g, h.locked[q][i], Other(q))
                      /\ EntryOK(g, h.settles[q][i], q)
                      /\ EntryOK(g, h.fails[q][i], q)
    BY DEF OrderedEntries
  <2>1. /\ h.locked[q][i] \in Entry /\ EntryOK(h, h.locked[q][i], Other(q))
        /\ h.settles[q][i] \in Entry /\ EntryOK(h, h.settles[q][i], q)
        /\ h.fails[q][i] \in Entry /\ EntryOK(h, h.fails[q][i], q)
    <3>1. h.locked[q][i] \in Entry /\ h.settles[q][i] \in Entry /\ h.fails[q][i] \in Entry
      BY <1>1 DEF TypedLog
    <3>2. /\ EntryOK(h, h.locked[q][i], Other(q))
          /\ EntryOK(h, h.settles[q][i], q) /\ EntryOK(h, h.fails[q][i], q)
      BY <1>1 DEF OrderedEntries
    <3> QED BY <3>1, <3>2
  <2>2. LogOK(h) /\ Other(q) \in Owner
    BY <1>1, EntryFacts DEF LogOK, TypedLog
  <2>3. QED BY <2>1, <2>2, EntryStaysOK
<1>4. AddedFirst(g) /\ RemovedOnce(g) /\ OrderedAdds(g)
  BY <1>1 DEF AddedFirst, RemovedOnce, OrderedAdds
<1>5. SoundCache(g)
  BY <1>1 DEF SoundCache, Known, LongGone, InCtx
<1>6. QED BY <1>2, <1>3, <1>4, <1>5

\* So does the feerate part.
LEMMA SigningPreservesFees ==
    ASSUME NEW h, NEW g, ConsistentLog(h), LogOK(g), g.ctn = h.ctn, \A s \in Owner : h.revack[s] => g.revack[s],
           g.fees = h.fees, g.initiator = h.initiator
    PROVE  OrderedFees(g)
<1> DEFINE first == Other(h.initiator)
           last  == NumFees(h) - 1
<1>1. /\ LogOK(h)
      /\ first \in Owner
      /\ h.fees \in [0 .. last -> FeeUpdate]
      /\ last \in Nat
  BY EntryFacts, NumFeesNat DEF ConsistentLog, TypedLog, LogOK
<1>2. /\ \A s \in Owner : h.fees[0].ctn[s] = 0
      /\ \A k \in 1 .. last : h.fees[k].ctn # Absent /\ EntryOK(h, h.fees[k].ctn, first)
      /\ \A k \in 0 .. last - 1 : h.fees[k].ctn[first] <= ctn_latest(h, first)
  BY DEF ConsistentLog, OrderedFees
<1>3. NumFees(g) = NumFees(h)
  BY DEF NumFees
<1> HIDE DEF first, last
<1>4. \A k \in 0 .. last : h.fees[k].ctn \in Entry
  BY <1>1 DEF FeeUpdate
<1>5. \A k \in 1 .. last : EntryOK(g, h.fees[k].ctn, first)
  BY <1>1, <1>2, <1>4, EntryStaysOK
<1>6. \A k \in 0 .. last - 1 : h.fees[k].ctn[first] <= ctn_latest(g, first)
  <2>1. /\ ctn_latest(h, first) \in Nat /\ ctn_latest(g, first) \in Nat
        /\ ctn_latest(h, first) <= ctn_latest(g, first)
    BY <1>1, CtnTypes
  <2>2. \A k \in 0 .. last - 1 : h.fees[k].ctn[first] \in Int
    BY <1>1, <1>4 DEF Entry, Ctn, None
  <2>3. QED BY <1>1, <1>2, <2>1, <2>2
<1>7. QED BY <1>2, <1>3, <1>5, <1>6 DEF OrderedFees, first, last

\* send_update_fee and recv_update_fee keep the log consistent.
LEMMA UpdateFeePreserves ==
    ASSUME NEW h, NEW g, ConsistentLog(h), NEW rate \in Rates, IsFeeUpdated(h, g, rate)
    PROVE  ConsistentLog(g)
<1> DEFINE first == Other(h.initiator)
           last  == NumFees(h) - 1
           e     == Entered(first, next_ctn(h, first))
           new   == [rate |-> rate, ctn |-> e]
<1>1. TypedLog(h) /\ LogOK(h) /\ first \in Owner /\ last \in Nat
  BY NumFeesNat, TypedLogOK, EntryFacts DEF ConsistentLog, TypedLog
<1>3. /\ DOMAIN g = Fields
      /\ g.ctn = h.ctn
      /\ g.revack = h.revack
      /\ g.next = h.next
      /\ g.adds = h.adds
      /\ g.locked = h.locked
      /\ g.settles = h.settles
      /\ g.fails = h.fails
      /\ g.initiator = h.initiator
      /\ g.active = h.active
  BY DEF IsFeeUpdated, OnlyChanges, Fields, Aside
<1>4. LogOK(g) /\ next_ctn(g, first) = next_ctn(h, first)
      /\ \A t : ctn_latest(g, t) = ctn_latest(h, t)
  BY <1>1, <1>3 DEF LogOK, next_ctn, ctn_latest
<1>5. e \in Entry /\ e # Absent /\ EntryOK(h, e, first)
  BY <1>1, NewEntryOK
<1>6. \A x, f : EntryOK(g, x, f) <=> EntryOK(h, x, f)
  BY <1>3 DEF EntryOK, next_ctn, ctn_latest
<1>7. /\ h.fees \in [0 .. last -> FeeUpdate]
      /\ \A k \in 0 .. last : h.fees[k].ctn \in Entry
  <2>1. h.fees \in [0 .. last -> FeeUpdate]
    BY <1>1 DEF TypedLog
  <2>2. QED BY <2>1 DEF FeeUpdate
<1>8. /\ \A s \in Owner : h.fees[0].ctn[s] = 0
      /\ \A k \in 1 .. last : h.fees[k].ctn # Absent /\ EntryOK(h, h.fees[k].ctn, first)
      /\ \A k \in 0 .. last - 1 : h.fees[k].ctn[first] <= ctn_latest(h, first)
  BY DEF ConsistentLog, OrderedFees
<1>9. new \in FeeUpdate /\ new.ctn = e
  BY <1>5 DEF FeeUpdate
<1>10. /\ ContiguousIds(g)
       /\ OrderedEntries(g)
       /\ AddedFirst(g)
       /\ RemovedOnce(g)
       /\ SoundCache(g)
       /\ OrderedAdds(g)
  BY <1>3, <1>4, SigningPreserves
<1> DEFINE signedFor == \E t \in Owner : InCtx(h.fees[last].ctn, t, ctn_latest(h, t))
<1>11. \/ signedFor /\ g.fees = [k \in 0 .. last + 1 |-> IF k = last + 1 THEN new ELSE h.fees[k]]
       \/ ~signedFor /\ g.fees = [h.fees EXCEPT ![last] = new]
  <2>1. NumFees(h) = last + 1
    BY <1>1, NumFeesNat
  <2>2. QED BY <2>1 DEF IsFeeUpdated
<1> HIDE DEF e, new, first, last
<1>12. signedFor => h.fees[last].ctn[first] <= ctn_latest(h, first)
  <2> SUFFICES ASSUME NEW t \in Owner, InCtx(h.fees[last].ctn, t, ctn_latest(h, t))
               PROVE  h.fees[last].ctn[first] <= ctn_latest(h, first)
    OBVIOUS
  <2>1. /\ ctn_latest(h, first) \in Nat /\ h.ctn[first] \in Nat
        /\ h.ctn[first] <= ctn_latest(h, first)
    BY <1>1, CtnTypes
  <2>2. CASE last = 0
    BY <1>1, <1>8, <2>1, <2>2
  <2>3. CASE last # 0 /\ t # first
    <3>1. EntryOK(h, h.fees[last].ctn, first) /\ h.fees[last].ctn # Absent
          /\ h.fees[last].ctn \in Entry
      BY <1>1, <1>7, <1>8, <2>3
    <3>2. h.fees[last].ctn[Other(first)] # None
      BY <1>1, <2>3, EntryFacts DEF InCtx
    <3>3. h.fees[last].ctn[first] <= h.ctn[first] /\ h.fees[last].ctn[first] \in Int
      BY <1>1, <2>1, <3>1, <3>2 DEF EntryOK, Entry, Ctn, None
    <3>4. QED BY <2>1, <3>3
  <2>4. CASE t = first
    BY <2>4 DEF InCtx
  <2>5. QED BY <2>2, <2>3, <2>4
<1>13. ~signedFor => last # 0
  <2>1. InCtx(h.fees[0].ctn, first, ctn_latest(h, first))
    BY <1>1, <1>8, CtnTypes DEF InCtx, None
  <2>2. QED BY <1>1, <2>1
<1>14. \/ /\ NumFees(g) = last + 2
          /\ g.fees \in [0 .. last + 1 -> FeeUpdate]
          /\ g.fees[last + 1] = new
          /\ \A k \in 0 .. last : g.fees[k] = h.fees[k]
          /\ h.fees[last].ctn[first] <= ctn_latest(h, first)
       \/ /\ NumFees(g) = last + 1
          /\ last # 0
          /\ g.fees \in [0 .. last -> FeeUpdate]
          /\ g.fees[last] = new
          /\ \A k \in 0 .. last - 1 : g.fees[k] = h.fees[k]
  <2>1. CASE signedFor
    <3>1. g.fees = [k \in 0 .. last + 1 |-> IF k = last + 1 THEN new ELSE h.fees[k]]
      BY <1>11, <2>1
    <3>2. /\ g.fees \in [0 .. last + 1 -> FeeUpdate]
          /\ g.fees[last + 1] = new
          /\ \A k \in 0 .. last : g.fees[k] = h.fees[k]
      BY <1>1, <1>7, <1>9, <3>1
    <3>3. Cardinality(0 .. last + 1) = last + 2
      BY <1>1, FS_Interval
    <3>4. NumFees(g) = last + 2
      BY <3>2, <3>3 DEF NumFees
    <3>5. QED BY <1>12, <2>1, <3>2, <3>4
  <2>2. CASE ~signedFor
    <3>1. g.fees = [h.fees EXCEPT ![last] = new]
      BY <1>11, <2>2
    <3>2. /\ g.fees \in [0 .. last -> FeeUpdate]
          /\ g.fees[last] = new
          /\ \A k \in 0 .. last - 1 : g.fees[k] = h.fees[k]
      BY <1>1, <1>7, <1>9, <3>1
    <3>3. Cardinality(0 .. last) = last + 1
      BY <1>1, FS_Interval
    <3>4. NumFees(g) = last + 1
      BY <3>2, <3>3 DEF NumFees
    <3>5. QED BY <1>13, <2>2, <3>2, <3>4
  <2>3. QED BY <2>1, <2>2
<1>15. /\ NumFees(g) \in Nat \ {0}
       /\ g.fees \in [0 .. NumFees(g) - 1 -> FeeUpdate]
  BY <1>1, <1>14
<1>16. TypedLog(g)
  BY <1>1, <1>3, <1>15 DEF TypedLog, Fields, NewLog
<1>17. OrderedFees(g)
  <2>1. /\ \A s \in Owner : g.fees[0].ctn[s] = 0
        /\ \A k \in 1 .. NumFees(g) - 1 : g.fees[k].ctn # Absent /\ EntryOK(h, g.fees[k].ctn, first)
        /\ \A k \in 0 .. NumFees(g) - 2 : g.fees[k].ctn[first] <= ctn_latest(h, first)
    <3>1. new.ctn # Absent /\ EntryOK(h, new.ctn, first)
      BY <1>5, <1>9
    <3>2. CASE NumFees(g) = last + 2
      <4>1. /\ g.fees[last + 1] = new
            /\ \A k \in 0 .. last : g.fees[k] = h.fees[k]
            /\ h.fees[last].ctn[first] <= ctn_latest(h, first)
        BY <1>1, <1>14, <3>2
      <4>2. g.fees[0] = h.fees[0]
        BY <1>1, <4>1
      <4>3. \A k \in 1 .. last + 1 : g.fees[k].ctn # Absent /\ EntryOK(h, g.fees[k].ctn, first)
        BY <1>1, <1>8, <3>1, <4>1
      <4>4. \A k \in 0 .. last : g.fees[k].ctn[first] <= ctn_latest(h, first)
        BY <1>1, <1>8, <4>1
      <4>5. QED BY <1>1, <1>8, <3>2, <4>2, <4>3, <4>4
    <3>3. CASE NumFees(g) = last + 1
      <4>1. /\ last # 0
            /\ g.fees[last] = new
            /\ \A k \in 0 .. last - 1 : g.fees[k] = h.fees[k]
        BY <1>1, <1>14, <3>3
      <4>2. g.fees[0] = h.fees[0]
        BY <1>1, <4>1
      <4>3. \A k \in 1 .. last : g.fees[k].ctn # Absent /\ EntryOK(h, g.fees[k].ctn, first)
        BY <1>1, <1>8, <3>1, <4>1
      <4>4. \A k \in 0 .. last - 1 : g.fees[k].ctn[first] <= ctn_latest(h, first)
        BY <1>1, <1>8, <4>1
      <4>5. QED BY <1>1, <1>8, <3>3, <4>2, <4>3, <4>4
    <3>4. QED BY <1>14, <3>2, <3>3
  <2>2. Other(g.initiator) = first
    BY <1>3 DEF first
  <2>3. NumFees(g) - 2 = NumFees(g) - 1 - 1
    BY <1>15
  <2>4. QED BY <1>4, <1>6, <2>1, <2>2, <2>3 DEF OrderedFees
<1>18. QED BY <1>10, <1>16, <1>17 DEF ConsistentLog

\* send_ctx and recv_ctx keep the log consistent.
LEMMA SignedPreserves ==
    ASSUME NEW h, NEW g, ConsistentLog(h), NEW s \in Owner, IsSigned(h, g, s)
    PROVE  ConsistentLog(g)
<1>1. TypedLog(h) /\ LogOK(h)
  BY TypedLogOK DEF ConsistentLog
<1>2. g.revack = [h.revack EXCEPT ![s] = TRUE]
  BY DEF IsSigned
<1>3. /\ g.revack \in [Owner -> BOOLEAN]
      /\ \A t \in Owner : h.revack[t] => g.revack[t]
  BY <1>1, <1>2 DEF LogOK
<1>4. /\ DOMAIN g = Fields
      /\ g.ctn = h.ctn
      /\ g.next = h.next
      /\ g.adds = h.adds
      /\ g.locked = h.locked
      /\ g.settles = h.settles
      /\ g.fails = h.fails
      /\ g.fees = h.fees
      /\ g.initiator = h.initiator
      /\ g.active = h.active
  BY DEF IsSigned, OnlyChanges, Fields, Aside
<1>5. LogOK(g)
  BY <1>1, <1>3, <1>4 DEF LogOK
<1>6. /\ ContiguousIds(g)
      /\ OrderedEntries(g)
      /\ AddedFirst(g)
      /\ RemovedOnce(g)
      /\ SoundCache(g)
      /\ OrderedAdds(g)
  BY <1>3, <1>4, <1>5, SigningPreserves
<1>7. OrderedFees(g)
  BY <1>3, <1>4, <1>5, SigningPreservesFees
<1>8. TypedLog(g)
  BY <1>1, <1>3, <1>4 DEF TypedLog, Fields, NewLog, NumFees
<1>9. QED BY <1>6, <1>7, <1>8 DEF ConsistentLog

-----------------------------------------------------------------------------
\* The cache loses only what is long gone.
LEMMA CacheEffect ==
    ASSUME NEW m, DOMAIN m = Fields
    PROVE  LET n == update_maybe_active_htlc_ids(m)
           IN  /\ OnlyChanges({"active", "delta"}, m, n)
               /\ n.active = [p \in Owner |->
                     {i \in m.active[p] : ~LongGone(m, m.settles[p][i]) /\ ~LongGone(m, m.fails[p][i])}]
<1> DEFINE settled == [p \in Owner |-> {i \in m.active[p] : LongGone(m, m.settles[p][i])}]
           failed  == [p \in Owner |-> {i \in m.active[p] : LongGone(m, m.fails[p][i])}]
           n == update_maybe_active_htlc_ids(m)
<1>1. OnlyChanges({"active", "delta"}, m, n)
      /\ n.active = [p \in Owner |-> m.active[p] \ (settled[p] \cup failed[p])]
  <2> HIDE DEF settled, failed
  <2>1. n = [m EXCEPT
               !.active = [p \in Owner |-> m.active[p] \ (settled[p] \cup failed[p])],
               !.delta  = @ - AmountOf(m, Local, settled[Local])
                            + AmountOf(m, Remote, settled[Remote])]
    BY DEF update_maybe_active_htlc_ids, settled, failed
  <2> HIDE DEF n
  <2>2. QED BY <2>1 DEF OnlyChanges, Fields
<1>2. \A p \in Owner : m.active[p] \ (settled[p] \cup failed[p]) =
          {i \in m.active[p] : ~LongGone(m, m.settles[p][i]) /\ ~LongGone(m, m.fails[p][i])}
  OBVIOUS
<1> HIDE DEF settled, failed, n
<1>3. QED BY <1>1, <1>2 DEF n

\* Building the cache anew on a restart keeps the log consistent.
LEMMA ReloadPreserves ==
    ASSUME NEW h, NEW g, ConsistentLog(h), IsReloaded(h, g)
    PROVE  ConsistentLog(g)
<1> DEFINE m == [h EXCEPT !.active = [p \in Owner |-> Known(h, p)], !.delta = 0]
<1>1. TypedLog(h) /\ DOMAIN h = Fields /\ LogOK(h)
  BY LogFieldsAre, TypedLogOK DEF ConsistentLog
<1>2. OnlyChanges({"active", "delta"}, h, m) /\ m.active = [p \in Owner |-> Known(h, p)]
      /\ DOMAIN m = Fields
  BY <1>1 DEF OnlyChanges, Fields
<1>3. g = update_maybe_active_htlc_ids(m)
  BY DEF IsReloaded, init_maybe_active_htlc_ids
<1> HIDE DEF m
<1>4. /\ OnlyChanges({"active", "delta"}, m, g)
      /\ g.active = [p \in Owner |->
            {i \in m.active[p] : ~LongGone(m, m.settles[p][i]) /\ ~LongGone(m, m.fails[p][i])}]
  BY <1>2, <1>3, CacheEffect
<1>5. /\ DOMAIN g = Fields
      /\ g.ctn = h.ctn
      /\ g.revack = h.revack
      /\ g.next = h.next
      /\ g.adds = h.adds
      /\ g.locked = h.locked
      /\ g.settles = h.settles
      /\ g.fails = h.fails
      /\ g.fees = h.fees
      /\ g.initiator = h.initiator
      /\ m.ctn = h.ctn /\ m.settles = h.settles /\ m.fails = h.fails
  BY <1>2, <1>4 DEF OnlyChanges, Fields
<1>6. \A p \in Owner : g.active[p] =
         {i \in Known(h, p) : ~LongGone(g, g.settles[p][i]) /\ ~LongGone(g, g.fails[p][i])}
  <2>1. \A e : LongGone(m, e) <=> LongGone(g, e)
    BY <1>5 DEF LongGone
  <2>2. QED BY <1>2, <1>4, <1>5, <2>1
<1>7. g.active \in [Owner -> SUBSET HtlcIds]
  BY <1>2, <1>4 DEF Known
<1>8. TypedLog(g)
  BY <1>1, <1>3, <1>5, <1>7 DEF TypedLog, Fields, NewLog, NumFees
<1>9. ContiguousIds(g) /\ AddedFirst(g) /\ RemovedOnce(g) /\ OrderedAdds(g)
  BY <1>5 DEF ConsistentLog, ContiguousIds, AddedFirst, RemovedOnce, OrderedAdds
<1>10. OrderedEntries(g)
  BY <1>5 DEF ConsistentLog, OrderedEntries, EntryOK, next_ctn, ctn_latest
<1>11. OrderedFees(g)
  BY <1>5 DEF ConsistentLog, OrderedFees, NumFees, EntryOK, next_ctn, ctn_latest
<1>12. SoundCache(g)
  <2>1. \A p : Known(g, p) = Known(h, p)
    BY <1>5 DEF Known
  <2>2. QED BY <1>6, <2>1 DEF SoundCache
<1>13. QED BY <1>8, <1>9, <1>10, <1>11, <1>12 DEF ConsistentLog

-----------------------------------------------------------------------------
(* Revocations *)

\* n is m after s has revoked a ctx.
CtnMoved(m, n, s) ==
    /\ n.ctn = [m.ctn EXCEPT ![s] = @ + 1]
    /\ n.revack = [m.revack EXCEPT ![s] = FALSE]

\* A revocation moves the oldest unrevoked ctn to the latest one, which stays.
LEMMA CtnMovedFacts ==
    ASSUME NEW m, NEW n, LogOK(m), NEW s \in Owner, can_revoke(m, s), CtnMoved(m, n, s)
    PROVE  /\ LogOK(n)
           /\ n.ctn[s] = m.ctn[s] + 1
           /\ n.ctn[Other(s)] = m.ctn[Other(s)]
           /\ \A t \in Owner : ctn_latest(n, t) = ctn_latest(m, t)
           /\ \A t \in Owner : next_ctn(n, t) = next_ctn(m, t)
           /\ ctn_latest(m, s) = m.ctn[s] + 1
<1>1. Other(s) \in Owner /\ Other(s) # s
  BY EntryFacts
<1>2. /\ LogOK(n)
      /\ n.ctn[s] = m.ctn[s] + 1 /\ m.revack[s] = TRUE /\ n.revack[s] = FALSE
      /\ \A t \in Owner : t # s => n.ctn[t] = m.ctn[t] /\ n.revack[t] = m.revack[t]
  BY DEF LogOK, CtnMoved, can_revoke
<1>3. \A t \in Owner : ctn_latest(n, t) = ctn_latest(m, t)
  <2> SUFFICES ASSUME NEW t \in Owner PROVE ctn_latest(n, t) = ctn_latest(m, t)
    OBVIOUS
  <2>1. CASE t = s
    BY <1>2, <2>1, CtnTypes
  <2>2. CASE t # s
    BY <1>2, <2>2, CtnTypes
  <2>3. QED BY <2>1, <2>2
<1>4. QED BY <1>1, <1>2, <1>3, CtnTypes

\* e became c: it kept what it had, and entered at most ctxs nobody has signed.
Grown(m, e, c, first) ==
    /\ c \in Entry
    /\ c = Absent <=> e = Absent
    /\ c[first] = e[first]
    /\ \A t \in Owner : e[t] # None => c[t] = e[t]
    /\ \A t \in Owner : c[t] # e[t] => c[t] = next_ctn(m, t)

\* An entry that does not change has Grown.
LEMMA GrownSame == ASSUME NEW m, NEW f, NEW e \in Entry PROVE Grown(m, e, e, f)
  BY DEF Grown

\* CarryOver keeps an entry in order when the ctn has moved on, and only adds to it.
LEMMA CarriedEntry ==
    ASSUME NEW m, NEW n, LogOK(m), NEW s \in Owner, can_revoke(m, s), CtnMoved(m, n, s),
           NEW e \in Entry, EntryOK(m, e, s)
    PROVE  LET c == CarryOver(n, s, e)
           IN  Grown(m, e, c, s) /\ EntryOK(n, c, s)
<1> DEFINE o == Other(s)
           c == CarryOver(n, s, e)
<1>1. /\ o \in Owner /\ o # s /\ \A t \in Owner : t = s \/ t = o
      /\ e[s] \in Nat \cup {-1} /\ e[o] \in Nat \cup {-1}
  BY EntryFacts DEF Entry, Ctn, None
<1>2. /\ LogOK(n)
      /\ n.ctn[s] = m.ctn[s] + 1 /\ m.ctn[s] \in Nat
      /\ ctn_latest(n, s) = m.ctn[s] + 1
      /\ next_ctn(n, s) = next_ctn(m, s) /\ next_ctn(m, s) \in Nat
      /\ next_ctn(n, o) = next_ctn(m, o) /\ next_ctn(m, o) \in Nat \ {0}
  BY <1>1, CtnMovedFacts, CtnTypes
<1>3. CASE e[s] # None /\ e[s] <= m.ctn[s] + 1 /\ e[o] = None
  <2>1. c = [e EXCEPT ![o] = next_ctn(m, o)]
    BY <1>2, <1>3 DEF CarryOver, InCtx
  <2> HIDE DEF c
  <2>2. c \in Entry /\ c[s] = e[s] /\ c[o] = next_ctn(m, o)
    BY <1>1, <1>2, <2>1 DEF Entry, Ctn
  <2>3. c # Absent /\ e # Absent
    BY <1>1, <1>3, <2>2, EntryFacts
  <2>4. EntryOK(n, c, s)
    BY <1>1, <1>2, <1>3, <2>2, <2>3 DEF EntryOK, None
  <2>5. Grown(m, e, c, s)
    BY <1>1, <1>3, <2>2, <2>3 DEF Grown
  <2>6. QED BY <2>4, <2>5 DEF c
<1>4. CASE ~(e[s] # None /\ e[s] <= m.ctn[s] + 1 /\ e[o] = None)
  <2>1. c = e
    BY <1>2, <1>4 DEF CarryOver, InCtx
  <2> HIDE DEF c
  <2>2. EntryOK(n, e, s)
    BY <1>1, <1>2, <1>4 DEF EntryOK, None
  <2>3. QED BY <2>1, <2>2, GrownSame DEF c
<1>5. QED BY <1>3, <1>4

\* An entry that starts in the ctx of the other side need not be carried over.
LEMMA OtherEntryStaysOK ==
    ASSUME NEW m, NEW n, LogOK(m), NEW s \in Owner, can_revoke(m, s), CtnMoved(m, n, s),
           NEW e \in Entry, EntryOK(m, e, Other(s))
    PROVE  EntryOK(n, e, Other(s))
<1>1. /\ Other(s) \in Owner /\ Other(Other(s)) = s
      /\ e[s] \in Nat \cup {-1} /\ e[Other(s)] \in Nat \cup {-1}
  BY EntryFacts DEF Entry, Ctn, None
<1>2. /\ n.ctn[Other(s)] = m.ctn[Other(s)]
      /\ next_ctn(n, s) = next_ctn(m, s)
      /\ next_ctn(n, Other(s)) = next_ctn(m, Other(s))
  BY <1>1, CtnMovedFacts
<1>3. QED BY <1>1, <1>2 DEF EntryOK

\* An entry that is in both ctxs already need not be carried over.
LEMMA CompleteEntryStaysOK ==
    ASSUME NEW m, NEW n, LogOK(m), NEW s \in Owner, can_revoke(m, s), CtnMoved(m, n, s),
           NEW e \in Entry, EntryOK(m, e, s), e = Absent \/ e[Other(s)] # None
    PROVE  EntryOK(n, e, s)
<1>1. /\ Other(s) \in Owner
      /\ e[s] \in Nat \cup {-1} /\ e[Other(s)] \in Nat \cup {-1}
  BY EntryFacts DEF Entry, Ctn, None
<1>2. /\ n.ctn[s] = m.ctn[s] + 1 /\ m.ctn[s] \in Nat
      /\ next_ctn(n, s) = next_ctn(m, s)
      /\ next_ctn(n, Other(s)) = next_ctn(m, Other(s))
  BY <1>1, CtnMovedFacts, CtnTypes
<1>3. QED BY <1>1, <1>2 DEF EntryOK

\* What m's cache keeps, once the log is n
StillActive(m, n) ==
    [p \in Owner |->
        {i \in m.active[p] : ~LongGone(n, n.settles[p][i]) /\ ~LongGone(n, n.fails[p][i])}]

\* Revoked, field by field, in terms of the log after it.
LEMMA RevokedEffect ==
    ASSUME NEW h, TypedLog(h), NEW s \in Owner
    PROVE  LET n == Revoked(h, s)
               o == Other(s)
               Carried(table, ids) == [i \in HtlcIds |->
                   IF i \in ids THEN CarryOver(n, s, table[i]) ELSE table[i]]
           IN  /\ DOMAIN n = Fields
               /\ \A f \in {"next", "adds", "initiator", "unacked", "revokeLast"} : n[f] = h[f]
               /\ CtnMoved(h, n, s)
               /\ n.locked = [h.locked EXCEPT ![o] = Carried(@, h.active[o])]
               /\ n.settles = [h.settles EXCEPT ![s] = Carried(@, h.active[s])]
               /\ n.fails = [h.fails EXCEPT ![s] = Carried(@, h.active[s])]
               /\ n.active = StillActive(h, n)
               /\ n.fees = IF h.initiator = o
                           THEN [k \in DOMAIN h.fees |-> CarryOverFee(n, s, h.fees[k])]
                           ELSE h.fees
<1> DEFINE o == Other(s)
           r == [h EXCEPT !.ctn[s] = @ + 1, !.revack[s] = FALSE]
           CarriedR(table, ids) == [i \in HtlcIds |->
               IF i \in ids THEN CarryOver(r, s, table[i]) ELSE table[i]]
           moved == [r EXCEPT !.locked[o]  = CarriedR(@, h.active[o]),
                              !.settles[s] = CarriedR(@, h.active[s]),
                              !.fails[s]   = CarriedR(@, h.active[s])]
           u == update_maybe_active_htlc_ids(moved)
           n == Revoked(h, s)
           fees == IF h.initiator = o
                   THEN [k \in DOMAIN u.fees |-> CarryOverFee(r, s, u.fees[k])]
                   ELSE u.fees
<1>1. n = [u EXCEPT !.fees = fees]
  BY DEF Revoked
<1> HIDE DEF n
<1>2. DOMAIN h = Fields
  BY LogFieldsAre
<1>3. OnlyChanges({"ctn", "revack"}, h, r) /\ CtnMoved(h, r, s)
  BY <1>2 DEF OnlyChanges, Fields, CtnMoved
<1> HIDE DEF r
<1>4. /\ OnlyChanges({"locked", "settles", "fails"}, r, moved)
      /\ moved.locked = [r.locked EXCEPT ![o] = CarriedR(@, h.active[o])]
      /\ moved.settles = [r.settles EXCEPT ![s] = CarriedR(@, h.active[s])]
      /\ moved.fails = [r.fails EXCEPT ![s] = CarriedR(@, h.active[s])]
  <2> HIDE DEF CarriedR
  <2> QED BY <1>3 DEF OnlyChanges, Fields
<1>5. DOMAIN moved = Fields
  BY <1>4 DEF OnlyChanges
<1> HIDE DEF moved
<1>6. /\ OnlyChanges({"active", "delta"}, moved, u)
      /\ u.active = [p \in Owner |->
            {i \in moved.active[p] : ~LongGone(moved, moved.settles[p][i])
                                     /\ ~LongGone(moved, moved.fails[p][i])}]
  BY <1>5, CacheEffect
<1> HIDE DEF u
<1>7. /\ OnlyChanges({"fees"}, u, n)
      /\ n.fees = IF h.initiator = o
                  THEN [k \in DOMAIN u.fees |-> CarryOverFee(r, s, u.fees[k])]
                  ELSE u.fees
  <2> HIDE DEF fees
  <2>1. OnlyChanges({"fees"}, u, n) /\ n.fees = fees
    BY <1>1, <1>6 DEF OnlyChanges, Fields
  <2>2. QED BY <2>1 DEF fees
<1>8. /\ DOMAIN n = Fields
      /\ \A f \in {"next", "adds", "initiator", "unacked", "revokeLast"} : n[f] = h[f]
      /\ n.ctn = r.ctn /\ n.revack = r.revack
      /\ n.ctn = moved.ctn
      /\ n.locked = moved.locked /\ n.settles = moved.settles /\ n.fails = moved.fails
      /\ r.locked = h.locked /\ r.settles = h.settles /\ r.fails = h.fails
      /\ u.fees = h.fees
      /\ n.active = u.active /\ moved.active = h.active
  BY <1>3, <1>4, <1>6, <1>7 DEF OnlyChanges, Fields
<1>9. CtnMoved(h, n, s)
  BY <1>3, <1>8 DEF CtnMoved
<1>10. \A e : CarryOver(r, s, e) = CarryOver(n, s, e)
  <2>1. r.ctn = n.ctn /\ r.revack = n.revack
    BY <1>8
  <2>2. QED BY <2>1 DEF CarryOver, InCtx, next_ctn, ctn_latest
<1>11. \A e : LongGone(moved, e) <=> LongGone(n, e)
  BY <1>8 DEF LongGone
<1>12. n.active = [p \in Owner |->
          {i \in h.active[p] : ~LongGone(n, n.settles[p][i]) /\ ~LongGone(n, n.fails[p][i])}]
  BY <1>6, <1>8, <1>11
<1> DEFINE Carried(table, ids) == [i \in HtlcIds |->
               IF i \in ids THEN CarryOver(n, s, table[i]) ELSE table[i]]
<1>13. \A table, ids : CarriedR(table, ids) = Carried(table, ids)
  BY <1>10
<1>14. /\ n.locked = [h.locked EXCEPT ![o] = Carried(@, h.active[o])]
       /\ n.settles = [h.settles EXCEPT ![s] = Carried(@, h.active[s])]
       /\ n.fails = [h.fails EXCEPT ![s] = Carried(@, h.active[s])]
  <2> HIDE DEF CarriedR, Carried
  <2> QED BY <1>4, <1>8, <1>13
<1>15. n.fees = IF h.initiator = o
                THEN [k \in DOMAIN h.fees |-> CarryOverFee(n, s, h.fees[k])]
                ELSE h.fees
  BY <1>7, <1>8, <1>10 DEF CarryOverFee
<1>16. n.active = StillActive(h, n)
  BY <1>12 DEF StillActive
<1>17. QED BY <1>8, <1>9, <1>14, <1>15, <1>16 DEF n

\* An entry that CarryOver reaches only if its id is cached
LEMMA CarriedTable ==
    ASSUME NEW m, NEW n, LogOK(m), NEW s \in Owner, can_revoke(m, s), CtnMoved(m, n, s),
           NEW e \in Entry, EntryOK(m, e, s), NEW ids, NEW i,
           i \notin ids => e = Absent \/ e[Other(s)] # None
    PROVE  LET c == IF i \in ids THEN CarryOver(n, s, e) ELSE e
           IN  Grown(m, e, c, s) /\ EntryOK(n, c, s)
<1>1. CASE i \in ids
  BY <1>1, CarriedEntry
<1>2. CASE i \notin ids
  <2>1. e = Absent \/ e[Other(s)] # None
    BY <1>2
  <2>2. EntryOK(n, e, s)
    BY <2>1, CompleteEntryStaysOK
  <2>3. Grown(m, e, e, s)
    BY GrownSame
  <2>4. QED BY <1>2, <2>2, <2>3
<1>3. QED BY <1>1, <1>2

\* What is not cached does not have to be carried over.
LEMMA UncachedIsComplete ==
    ASSUME NEW h, ConsistentLog(h), NEW p \in Owner, NEW i \in HtlcIds, i \notin h.active[p]
    PROVE  /\ h.locked[p][i] = Absent \/ \A t \in Owner : h.locked[p][i][t] # None
           /\ h.settles[p][i] = Absent \/ \A t \in Owner : h.settles[p][i][t] # None
           /\ h.fails[p][i] = Absent \/ \A t \in Owner : h.fails[p][i][t] # None
<1>1. /\ TypedLog(h)
      /\ ContiguousIds(h)
      /\ AddedFirst(h)
      /\ RemovedOnce(h)
      /\ SoundCache(h)
  BY DEF ConsistentLog
<1>2. CASE i \notin Known(h, p)
  <2>1. h.adds[p][i] = 0
    BY <1>2 DEF Known
  <2>2. ~(i < h.next[p]) /\ h.next[p] \in Nat /\ i \in Nat
    BY <1>1, <2>1, EntryTypes DEF ContiguousIds
  <2>3. QED BY <1>1, <2>2 DEF ContiguousIds
<1>3. CASE i \in Known(h, p)
  <2>1. LongGone(h, h.settles[p][i]) \/ LongGone(h, h.fails[p][i])
    BY <1>1, <1>3 DEF SoundCache
  <2>2. \A e \in Entry : LongGone(h, e) => e # Absent /\ \A t \in Owner : e[t] # None
    BY EntryFacts DEF LongGone, InCtx, Owner
  <2>3. CASE LongGone(h, h.settles[p][i])
    <3>1. h.settles[p][i] # Absent /\ \A t \in Owner : h.settles[p][i][t] # None
      BY <1>1, <2>2, <2>3, EntryTypes
    <3>2. QED BY <1>1, <3>1 DEF AddedFirst, RemovedOnce
  <2>4. CASE LongGone(h, h.fails[p][i])
    <3>1. h.fails[p][i] # Absent /\ \A t \in Owner : h.fails[p][i][t] # None
      BY <1>1, <2>2, <2>4, EntryTypes
    <3>2. QED BY <1>1, <3>1 DEF AddedFirst, RemovedOnce
  <2>5. QED BY <2>1, <2>3, <2>4
<1>4. QED BY <1>2, <1>3

\* All entries after a revocation
LEMMA RevokedEntries ==
    ASSUME NEW h, ConsistentLog(h), NEW s \in Owner, can_revoke(h, s),
           NEW q \in Owner, NEW i \in HtlcIds
    PROVE  LET n == Revoked(h, s)
           IN  /\ Grown(h, h.locked[q][i], n.locked[q][i], Other(q))
               /\ EntryOK(n, n.locked[q][i], Other(q))
               /\ Grown(h, h.settles[q][i], n.settles[q][i], q)
               /\ EntryOK(n, n.settles[q][i], q)
               /\ Grown(h, h.fails[q][i], n.fails[q][i], q)
               /\ EntryOK(n, n.fails[q][i], q)
<1> DEFINE n == Revoked(h, s)
           o == Other(s)
           Carried(table, ids) == [j \in HtlcIds |->
               IF j \in ids THEN CarryOver(n, s, table[j]) ELSE table[j]]
<1>1. TypedLog(h) /\ LogOK(h) /\ OrderedEntries(h)
  BY TypedLogOK DEF ConsistentLog
<1>2. /\ o \in Owner /\ o # s /\ Other(o) = s
      /\ q = s \/ q = o
  BY EntryFacts
<1>3. /\ h.locked[q][i] \in Entry /\ EntryOK(h, h.locked[q][i], Other(q))
      /\ h.settles[q][i] \in Entry /\ EntryOK(h, h.settles[q][i], q)
      /\ h.fails[q][i] \in Entry /\ EntryOK(h, h.fails[q][i], q)
  BY <1>1, EntryTypes DEF OrderedEntries
<1>4. /\ CtnMoved(h, n, s)
      /\ n.locked = [h.locked EXCEPT ![o] = Carried(@, h.active[o])]
      /\ n.settles = [h.settles EXCEPT ![s] = Carried(@, h.active[s])]
      /\ n.fails = [h.fails EXCEPT ![s] = Carried(@, h.active[s])]
  BY <1>1, RevokedEffect
<1> HIDE DEF n
<1>5. /\ h.locked \in [Owner -> [HtlcIds -> Entry]]
      /\ h.settles \in [Owner -> [HtlcIds -> Entry]]
      /\ h.fails \in [Owner -> [HtlcIds -> Entry]]
  BY <1>1 DEF TypedLog
<1>6. i \notin h.active[q] =>
          /\ h.locked[q][i] = Absent \/ h.locked[q][i][o] # None
          /\ h.settles[q][i] = Absent \/ h.settles[q][i][o] # None
          /\ h.fails[q][i] = Absent \/ h.fails[q][i][o] # None
  BY <1>2, UncachedIsComplete
<1>7. CASE q = s
  <2>1. /\ n.locked[q][i] = h.locked[q][i]
        /\ n.settles[q][i] = IF i \in h.active[q] THEN CarryOver(n, s, h.settles[q][i]) ELSE h.settles[q][i]
        /\ n.fails[q][i] = IF i \in h.active[q] THEN CarryOver(n, s, h.fails[q][i]) ELSE h.fails[q][i]
    BY <1>2, <1>4, <1>5, <1>7
  <2>2. EntryOK(h, h.locked[q][i], o) /\ EntryOK(h, h.settles[q][i], s) /\ EntryOK(h, h.fails[q][i], s)
    BY <1>3, <1>7
  <2>3. Grown(h, h.locked[q][i], h.locked[q][i], o) /\ EntryOK(n, h.locked[q][i], o)
    <3>1. Grown(h, h.locked[q][i], h.locked[q][i], o)
      BY <1>3, GrownSame
    <3>2. EntryOK(n, h.locked[q][i], o)
      BY <1>1, <1>3, <1>4, <2>2, OtherEntryStaysOK
    <3>3. QED BY <3>1, <3>2
  <2>4. Grown(h, h.settles[q][i], n.settles[q][i], s) /\ EntryOK(n, n.settles[q][i], s)
    <3>1. i \notin h.active[q] => h.settles[q][i] = Absent \/ h.settles[q][i][o] # None
      BY <1>6
    <3>2. QED BY <1>1, <1>3, <1>4, <2>1, <2>2, <3>1, CarriedTable
  <2>5. Grown(h, h.fails[q][i], n.fails[q][i], s) /\ EntryOK(n, n.fails[q][i], s)
    <3>1. i \notin h.active[q] => h.fails[q][i] = Absent \/ h.fails[q][i][o] # None
      BY <1>6
    <3>2. QED BY <1>1, <1>3, <1>4, <2>1, <2>2, <3>1, CarriedTable
  <2>6. QED BY <1>7, <2>1, <2>3, <2>4, <2>5 DEF n
<1>8. CASE q = o
  <2>1. /\ n.locked[q][i] = IF i \in h.active[q] THEN CarryOver(n, s, h.locked[q][i]) ELSE h.locked[q][i]
        /\ n.settles[q][i] = h.settles[q][i]
        /\ n.fails[q][i] = h.fails[q][i]
    BY <1>2, <1>4, <1>5, <1>8
  <2>2. EntryOK(h, h.locked[q][i], s) /\ EntryOK(h, h.settles[q][i], o) /\ EntryOK(h, h.fails[q][i], o)
    BY <1>2, <1>3, <1>8
  <2>3. Grown(h, h.settles[q][i], h.settles[q][i], o) /\ EntryOK(n, h.settles[q][i], o)
    <3>1. Grown(h, h.settles[q][i], h.settles[q][i], o)
      BY <1>3, GrownSame
    <3>2. EntryOK(n, h.settles[q][i], o)
      BY <1>1, <1>3, <1>4, <2>2, OtherEntryStaysOK
    <3>3. QED BY <3>1, <3>2
  <2>4. Grown(h, h.fails[q][i], h.fails[q][i], o) /\ EntryOK(n, h.fails[q][i], o)
    <3>1. Grown(h, h.fails[q][i], h.fails[q][i], o)
      BY <1>3, GrownSame
    <3>2. EntryOK(n, h.fails[q][i], o)
      BY <1>1, <1>3, <1>4, <2>2, OtherEntryStaysOK
    <3>3. QED BY <3>1, <3>2
  <2>5. Grown(h, h.locked[q][i], n.locked[q][i], s) /\ EntryOK(n, n.locked[q][i], s)
    <3>1. i \notin h.active[q] => h.locked[q][i] = Absent \/ h.locked[q][i][o] # None
      BY <1>6
    <3>2. QED BY <1>1, <1>3, <1>4, <2>1, <2>2, <3>1, CarriedTable
  <2>6. QED BY <1>2, <1>8, <2>1, <2>3, <2>4, <2>5 DEF n
<1>9. QED BY <1>2, <1>7, <1>8

\* A table with another row
LEMMA UpdatedTable ==
    ASSUME NEW t \in [Owner -> [HtlcIds -> Entry]], NEW p \in Owner,
           NEW row, row = [i \in HtlcIds |-> row[i]], NEW u, u = [t EXCEPT ![p] = row],
           \A q \in Owner, i \in HtlcIds : u[q][i] \in Entry
    PROVE  u \in [Owner -> [HtlcIds -> Entry]]
<1>1. u[p] = row
  OBVIOUS
<1>2. \A i \in HtlcIds : row[i] \in Entry
  BY <1>1
<1>3. row \in [HtlcIds -> Entry]
  BY <1>2
<1>4. QED BY <1>3

\* The tables of the log keep their types on a revocation.
LEMMA RevokedTables ==
    ASSUME NEW h, ConsistentLog(h), NEW s \in Owner, can_revoke(h, s)
    PROVE  LET n == Revoked(h, s)
           IN  /\ n.locked \in [Owner -> [HtlcIds -> Entry]]
               /\ n.settles \in [Owner -> [HtlcIds -> Entry]]
               /\ n.fails \in [Owner -> [HtlcIds -> Entry]]
<1> DEFINE n == Revoked(h, s)
           o == Other(s)
           Carried(table, ids) == [j \in HtlcIds |->
               IF j \in ids THEN CarryOver(n, s, table[j]) ELSE table[j]]
           lockedRow == Carried(h.locked[o], h.active[o])
           settlesRow == Carried(h.settles[s], h.active[s])
           failsRow == Carried(h.fails[s], h.active[s])
<1>1. TypedLog(h) /\ o \in Owner
  BY EntryFacts DEF ConsistentLog
<1>2. /\ n.locked = [h.locked EXCEPT ![o] = lockedRow]
      /\ n.settles = [h.settles EXCEPT ![s] = settlesRow]
      /\ n.fails = [h.fails EXCEPT ![s] = failsRow]
  BY <1>1, RevokedEffect
<1>3. \A q \in Owner, i \in HtlcIds :
          n.locked[q][i] \in Entry /\ n.settles[q][i] \in Entry /\ n.fails[q][i] \in Entry
  BY RevokedEntries DEF Grown
<1> HIDE DEF n
<1>4. /\ lockedRow = [i \in HtlcIds |-> lockedRow[i]]
      /\ settlesRow = [i \in HtlcIds |-> settlesRow[i]]
      /\ failsRow = [i \in HtlcIds |-> failsRow[i]]
  OBVIOUS
<1> HIDE DEF lockedRow, settlesRow, failsRow
<1>5. /\ h.locked \in [Owner -> [HtlcIds -> Entry]]
      /\ h.settles \in [Owner -> [HtlcIds -> Entry]]
      /\ h.fails \in [Owner -> [HtlcIds -> Entry]]
  BY <1>1 DEF TypedLog
<1>6. n.locked \in [Owner -> [HtlcIds -> Entry]]
  BY <1>1, <1>2, <1>3, <1>4, <1>5, UpdatedTable
<1>7. n.settles \in [Owner -> [HtlcIds -> Entry]]
  BY <1>1, <1>2, <1>3, <1>4, <1>5, UpdatedTable
<1>8. n.fails \in [Owner -> [HtlcIds -> Entry]]
  BY <1>1, <1>2, <1>3, <1>4, <1>5, UpdatedTable
<1>9. QED BY <1>6, <1>7, <1>8 DEF n

\* Feerates stay in order on a revocation.
LEMMA RevokedFees ==
    ASSUME NEW h, NEW g, ConsistentLog(h), NEW s \in Owner, can_revoke(h, s),
           g.fees = Revoked(h, s).fees, g.ctn = Revoked(h, s).ctn,
           g.revack = Revoked(h, s).revack, g.initiator = h.initiator
    PROVE  /\ OrderedFees(g)
           /\ NumFees(g) = NumFees(h)
           /\ g.fees \in [0 .. NumFees(h) - 1 -> FeeUpdate]
<1> DEFINE first == Other(h.initiator)
           last  == NumFees(h) - 1
           o     == Other(s)
           n     == Revoked(h, s)
<1>1. /\ TypedLog(h) /\ LogOK(h) /\ last \in Nat /\ h.initiator \in Owner
      /\ first \in Owner /\ o \in Owner /\ Other(o) = s /\ o # s
      /\ first = s \/ first = o
      /\ Other(first) = h.initiator
  BY NumFeesNat, TypedLogOK, EntryFacts DEF ConsistentLog, TypedLog
<1>2. /\ h.fees \in [0 .. last -> FeeUpdate]
      /\ \A k \in 0 .. last : h.fees[k].ctn \in Entry /\ h.fees[k].rate \in Rates
                              /\ DOMAIN h.fees[k] = {"rate", "ctn"}
  <2>1. h.fees \in [0 .. last -> FeeUpdate]
    BY <1>1 DEF TypedLog
  <2>2. QED BY <2>1 DEF FeeUpdate
<1>3. /\ \A t \in Owner : h.fees[0].ctn[t] = 0
      /\ \A k \in 1 .. last : h.fees[k].ctn # Absent /\ EntryOK(h, h.fees[k].ctn, first)
      /\ \A k \in 0 .. last - 1 : h.fees[k].ctn[first] <= ctn_latest(h, first)
  BY DEF ConsistentLog, OrderedFees
<1>4. /\ CtnMoved(h, n, s)
      /\ n.fees = IF h.initiator = o
                  THEN [k \in DOMAIN h.fees |-> CarryOverFee(n, s, h.fees[k])]
                  ELSE h.fees
  BY <1>1, RevokedEffect
<1> HIDE DEF n
<1>5. /\ CtnMoved(h, g, s)
      /\ \A t, e : CarryOver(n, t, e) = CarryOver(g, t, e)
      /\ \A e, f : EntryOK(n, e, f) <=> EntryOK(g, e, f)
      /\ \A t : ctn_latest(n, t) = ctn_latest(g, t)
  <2>1. g.ctn = n.ctn /\ g.revack = n.revack
    BY DEF n
  <2>2. CtnMoved(h, g, s)
    BY <1>4, <2>1 DEF CtnMoved
  <2>3. \A t : ctn_latest(n, t) = ctn_latest(g, t) /\ next_ctn(n, t) = next_ctn(g, t)
    BY <2>1 DEF next_ctn, ctn_latest
  <2>4. \A t, e : CarryOver(n, t, e) = CarryOver(g, t, e)
    <3> SUFFICES ASSUME NEW t, NEW e PROVE CarryOver(n, t, e) = CarryOver(g, t, e)
      OBVIOUS
    <3>1. ctn_latest(n, t) = ctn_latest(g, t) /\ next_ctn(n, Other(t)) = next_ctn(g, Other(t))
      BY <2>3
    <3>2. QED BY <3>1, Zenon DEF CarryOver, InCtx
  <2>5. \A e, f : EntryOK(n, e, f) <=> EntryOK(g, e, f)
    BY <2>1, <2>3 DEF EntryOK
  <2>6. QED BY <2>2, <2>3, <2>4, <2>5
<1>6. \A t \in Owner : ctn_latest(g, t) = ctn_latest(h, t)
  <2>1. LogOK(h) /\ CtnMoved(h, g, s)
    BY <1>1, <1>5
  <2>2. QED BY <2>1, CtnMovedFacts
<1> HIDE DEF first, last
\* Each feerate grows as an htlc does.
<1>7. /\ DOMAIN g.fees = 0 .. last
      /\ \A k \in 0 .. last : g.fees[k] \in FeeUpdate
      /\ g.fees[0].ctn = h.fees[0].ctn
      /\ \A k \in 1 .. last : g.fees[k].ctn # Absent /\ EntryOK(g, g.fees[k].ctn, first)
      /\ \A k \in 0 .. last : g.fees[k].ctn[first] = h.fees[k].ctn[first]
  <2>1. CASE first = s
    <3>1. g.fees = [k \in 0 .. last |-> CarryOverFee(n, s, h.fees[k])]
      BY <1>1, <1>2, <1>4, <2>1 DEF n
    <3>2. ASSUME NEW k \in 0 .. last
          PROVE  /\ g.fees[k].rate = h.fees[k].rate
                 /\ g.fees[k].ctn = CarryOver(n, s, h.fees[k].ctn)
                 /\ DOMAIN g.fees[k] = {"rate", "ctn"}
                 /\ g.fees[k] = [rate |-> g.fees[k].rate, ctn |-> g.fees[k].ctn]
      <4>1. g.fees[k] = [h.fees[k] EXCEPT !.ctn = CarryOver(n, s, h.fees[k].ctn)]
        BY <3>1 DEF CarryOverFee
      <4>2. h.fees[k] \in FeeUpdate /\ DOMAIN h.fees[k] = {"rate", "ctn"}
        BY <1>2
      <4>3. QED BY <4>1, <4>2 DEF FeeUpdate
    <3>3. \A k \in 1 .. last : Grown(h, h.fees[k].ctn, g.fees[k].ctn, s)
                               /\ EntryOK(g, g.fees[k].ctn, s)
      <4> SUFFICES ASSUME NEW k \in 1 .. last
                   PROVE  Grown(h, h.fees[k].ctn, g.fees[k].ctn, s)
                          /\ EntryOK(g, g.fees[k].ctn, s)
        OBVIOUS
      <4> DEFINE e == h.fees[k].ctn
      <4>1. k \in 0 .. last /\ e \in Entry /\ EntryOK(h, e, s)
        BY <1>1, <1>2, <1>3, <2>1
      <4>2. g.fees[k].ctn = CarryOver(g, s, e)
        BY <1>5, <3>2, <4>1
      <4>3. LogOK(h) /\ CtnMoved(h, g, s)
        BY <1>1, <1>5
      <4> HIDE DEF e
      <4>4. Grown(h, e, CarryOver(g, s, e), s) /\ EntryOK(g, CarryOver(g, s, e), s)
        BY <4>1, <4>3, CarriedEntry
      <4>5. QED BY <4>2, <4>4 DEF e
    <3>4. g.fees[0].ctn = h.fees[0].ctn
      <4>1. h.fees[0].ctn[Other(s)] # None
        BY <1>1, <1>3 DEF None
      <4>2. CarryOver(n, s, h.fees[0].ctn) = h.fees[0].ctn
        BY <4>1 DEF CarryOver
      <4>3. 0 \in 0 .. last
        BY <1>1
      <4>4. g.fees[0].ctn = CarryOver(n, s, h.fees[0].ctn)
        BY <3>2, <4>3
      <4>5. QED BY <4>2, <4>4
    <3>5. \A k \in 1 .. last : g.fees[k].ctn \in Entry /\ g.fees[k].ctn # Absent
                               /\ g.fees[k].ctn[first] = h.fees[k].ctn[first]
      <4> SUFFICES ASSUME NEW k \in 1 .. last
                   PROVE  g.fees[k].ctn \in Entry /\ g.fees[k].ctn # Absent
                          /\ g.fees[k].ctn[s] = h.fees[k].ctn[s]
        BY <2>1
      <4>1. Grown(h, h.fees[k].ctn, g.fees[k].ctn, s) /\ h.fees[k].ctn # Absent
        BY <1>3, <3>3
      <4>2. QED BY <4>1 DEF Grown
    <3>6. \A k \in 0 .. last : k = 0 \/ k \in 1 .. last
      BY <1>1
    <3>7. \A k \in 0 .. last : g.fees[k].ctn \in Entry
      BY <1>1, <1>2, <3>4, <3>5, <3>6
    <3>8. \A k \in 0 .. last : g.fees[k] \in FeeUpdate
      <4> SUFFICES ASSUME NEW k \in 0 .. last PROVE g.fees[k] \in FeeUpdate
        OBVIOUS
      <4>1. g.fees[k] = [rate |-> g.fees[k].rate, ctn |-> g.fees[k].ctn]
        BY <3>2
      <4>2. g.fees[k].rate \in Rates
        BY <1>2, <3>2
      <4>3. g.fees[k].ctn \in Entry
        BY <3>7
      <4>4. \A x \in Rates, y \in Entry : [rate |-> x, ctn |-> y] \in FeeUpdate
        BY DEF FeeUpdate
      <4>5. QED BY <4>1, <4>2, <4>3, <4>4
    <3>9. \A k \in 1 .. last : g.fees[k].ctn # Absent /\ EntryOK(g, g.fees[k].ctn, first)
      BY <2>1, <3>3, <3>5
    <3>10. \A k \in 0 .. last : g.fees[k].ctn[first] = h.fees[k].ctn[first]
      BY <3>4, <3>5, <3>6
    <3>11. DOMAIN g.fees = 0 .. last
      BY <3>1
    <3>12. QED BY <3>4, <3>8, <3>9, <3>10, <3>11
  <2>2. CASE first = o
    <3>1. g.fees = h.fees
      BY <1>1, <1>4, <2>2 DEF n
    <3>2. \A k \in 1 .. last : EntryOK(g, h.fees[k].ctn, o)
      <4> SUFFICES ASSUME NEW k \in 1 .. last PROVE EntryOK(g, h.fees[k].ctn, o)
        OBVIOUS
      <4>1. h.fees[k].ctn \in Entry /\ EntryOK(h, h.fees[k].ctn, o)
        BY <1>1, <1>2, <1>3, <2>2
      <4>2. QED BY <1>1, <1>5, <4>1, OtherEntryStaysOK
    <3>3. QED BY <1>1, <1>2, <1>3, <2>2, <3>1, <3>2
  <2>3. QED BY <1>1, <2>1, <2>2
<1>8. NumFees(g) = NumFees(h)
  <2>1. DOMAIN g.fees = DOMAIN h.fees
    BY <1>2, <1>7
  <2>2. QED BY <2>1 DEF NumFees
<1>9. g.fees \in [0 .. last -> FeeUpdate]
  <2>1. \/ g.fees = h.fees
        \/ g.fees = [k \in 0 .. last |-> CarryOverFee(n, s, h.fees[k])]
    BY <1>2, <1>4 DEF n
  <2>2. QED BY <1>2, <1>7, <2>1
<1>10. OrderedFees(g)
  <2>1. \A k \in 0 .. last - 1 : g.fees[k].ctn[first] <= ctn_latest(g, first)
    BY <1>1, <1>3, <1>6, <1>7
  <2>2. /\ \A t \in Owner : g.fees[0].ctn[t] = 0
        /\ \A k \in 1 .. last : g.fees[k].ctn # Absent /\ EntryOK(g, g.fees[k].ctn, first)
    BY <1>3, <1>7
  <2>3. QED BY <1>8, <2>1, <2>2 DEF OrderedFees, first, last
<1>11. QED BY <1>8, <1>9, <1>10 DEF last

\* What send_rev and recv_rev share keeps the log consistent.
LEMMA RevokedPreserves ==
    ASSUME NEW h, NEW g, ConsistentLog(h), NEW s \in Owner, IsRevoked(h, g, s)
    PROVE  ConsistentLog(g)
<1> DEFINE n == Revoked(h, s)
<1>0. can_revoke(h, s) /\ OnlyChanges(Aside, n, g)
  BY DEF IsRevoked
<1>1. /\ TypedLog(h)
      /\ ContiguousIds(h)
      /\ AddedFirst(h)
      /\ RemovedOnce(h)
      /\ SoundCache(h)
      /\ OrderedAdds(h)
  BY DEF ConsistentLog
<1>2. /\ \A f \in {"next", "adds", "initiator"} : n[f] = h[f]
      /\ CtnMoved(h, n, s)
      /\ n.active = [p \in Owner |->
            {i \in h.active[p] : ~LongGone(n, n.settles[p][i]) /\ ~LongGone(n, n.fails[p][i])}]
  <2>1. \A f \in {"next", "adds", "initiator", "unacked", "revokeLast"} : n[f] = h[f]
    BY <1>1, RevokedEffect
  <2>2. CtnMoved(h, n, s)
    BY <1>1, RevokedEffect
  <2>3. n.active = [p \in Owner |->
            {i \in h.active[p] : ~LongGone(n, n.settles[p][i]) /\ ~LongGone(n, n.fails[p][i])}]
    <3>1. n.active = StillActive(h, n)
      BY <1>1, RevokedEffect
    <3>2. QED BY <3>1 DEF StillActive
  <2>4. QED BY <2>1, <2>2, <2>3
<1>3. /\ DOMAIN g = Fields
      /\ g.ctn = n.ctn
      /\ g.revack = n.revack
      /\ g.next = n.next
      /\ g.adds = n.adds
      /\ g.initiator = n.initiator
      /\ g.locked = n.locked
      /\ g.settles = n.settles
      /\ g.fails = n.fails
      /\ g.fees = n.fees
      /\ g.active = n.active
  BY <1>0 DEF OnlyChanges, Fields, Aside
<1>4. g.next = h.next /\ g.adds = h.adds /\ g.initiator = h.initiator
  BY <1>2, <1>3
<1>5. /\ CtnMoved(h, g, s)
      /\ LogOK(h)
      /\ LogOK(g)
      /\ \A t \in Owner : h.ctn[t] \in Nat /\ g.ctn[t] \in Nat /\ h.ctn[t] <= g.ctn[t]
  <2>1. CtnMoved(h, g, s) /\ LogOK(h)
    BY <1>0, <1>1, <1>2, <1>3, TypedLogOK DEF CtnMoved
  <2>2. LogOK(g) /\ g.ctn[s] = h.ctn[s] + 1 /\ g.ctn[Other(s)] = h.ctn[Other(s)]
    BY <1>0, <2>1, CtnMovedFacts
  <2>3. \A t \in Owner : t = s \/ t = Other(s)
    BY EntryFacts
  <2>4. \A t \in Owner : h.ctn[t] \in Nat /\ g.ctn[t] \in Nat
    BY <2>1, <2>2 DEF LogOK
  <2>5. QED BY <2>1, <2>2, <2>3, <2>4
<1>6. /\ n.locked \in [Owner -> [HtlcIds -> Entry]]
      /\ n.settles \in [Owner -> [HtlcIds -> Entry]]
      /\ n.fails \in [Owner -> [HtlcIds -> Entry]]
  BY <1>0, RevokedTables
<1>7. ASSUME NEW q \in Owner, NEW i \in HtlcIds
      PROVE  /\ Grown(h, h.locked[q][i], g.locked[q][i], Other(q))
             /\ EntryOK(g, g.locked[q][i], Other(q))
             /\ Grown(h, h.settles[q][i], g.settles[q][i], q)
             /\ EntryOK(g, g.settles[q][i], q)
             /\ Grown(h, h.fails[q][i], g.fails[q][i], q)
             /\ EntryOK(g, g.fails[q][i], q)
  <2>1. /\ Grown(h, h.locked[q][i], n.locked[q][i], Other(q))
        /\ EntryOK(n, n.locked[q][i], Other(q))
        /\ Grown(h, h.settles[q][i], n.settles[q][i], q)
        /\ EntryOK(n, n.settles[q][i], q)
        /\ Grown(h, h.fails[q][i], n.fails[q][i], q)
        /\ EntryOK(n, n.fails[q][i], q)
    BY <1>0, RevokedEntries
  <2>2. \A e, f : EntryOK(n, e, f) <=> EntryOK(g, e, f)
    <3>1. \A t : next_ctn(n, t) = next_ctn(g, t)
      BY <1>3 DEF next_ctn, ctn_latest
    <3>2. QED BY <1>3, <3>1 DEF EntryOK
  <2>3. QED BY <1>3, <2>1, <2>2
<1>8. /\ OrderedFees(g)
      /\ NumFees(g) = NumFees(h)
      /\ g.fees \in [0 .. NumFees(h) - 1 -> FeeUpdate]
  BY <1>0, <1>3, <1>4, RevokedFees
<1> HIDE DEF n
<1>9. g.active \in [Owner -> SUBSET HtlcIds]
  <2>1. h.active \in [Owner -> SUBSET HtlcIds]
    BY <1>1 DEF TypedLog
  <2>2. ASSUME NEW q \in Owner
        PROVE  {i \in h.active[q] : ~LongGone(n, n.settles[q][i]) /\ ~LongGone(n, n.fails[q][i])}
                   \in SUBSET HtlcIds
    <3>1. h.active[q] \subseteq HtlcIds
      BY <2>1
    <3>2. QED BY <3>1
  <2>3. g.active = [q \in Owner |->
            {i \in h.active[q] : ~LongGone(n, n.settles[q][i]) /\ ~LongGone(n, n.fails[q][i])}]
    BY <1>2, <1>3
  <2>4. QED BY <2>2, <2>3
<1>10. TypedLog(g)
  <2>1. g.ctn \in [Owner -> Nat] /\ g.revack \in [Owner -> BOOLEAN]
    BY <1>5 DEF LogOK
  <2>2. g.next \in [Owner -> Nat] /\ g.adds \in [Owner -> [HtlcIds -> Amounts \cup {0}]]
        /\ g.initiator \in Owner
    BY <1>1, <1>4 DEF TypedLog
  <2>3. g.fees \in [0 .. NumFees(g) - 1 -> FeeUpdate] /\ NumFees(g) \in Nat \ {0}
    BY <1>1, <1>8, NumFeesNat
  <2>4. DOMAIN g = DOMAIN NewLog(Local, CHOOSE r \in Rates : TRUE)
    BY <1>3 DEF Fields, NewLog
  <2>5. /\ g.locked \in [Owner -> [HtlcIds -> Entry]]
        /\ g.settles \in [Owner -> [HtlcIds -> Entry]]
        /\ g.fails \in [Owner -> [HtlcIds -> Entry]]
    BY <1>3, <1>6
  <2>6. QED BY <1>9, <2>1, <2>2, <2>3, <2>4, <2>5 DEF TypedLog
<1>11. \A q \in Owner, i \in HtlcIds :
           /\ g.locked[q][i] = Absent <=> h.locked[q][i] = Absent
           /\ g.settles[q][i] = Absent <=> h.settles[q][i] = Absent
           /\ g.fails[q][i] = Absent <=> h.fails[q][i] = Absent
  BY <1>7 DEF Grown
<1>12. ContiguousIds(g) /\ RemovedOnce(g)
  BY <1>1, <1>4, <1>11 DEF ContiguousIds, RemovedOnce
<1>13. OrderedEntries(g)
  BY <1>7 DEF OrderedEntries
<1>14. AddedFirst(g)
  <2> SUFFICES ASSUME NEW q \in Owner, NEW i \in HtlcIds,
                      g.settles[q][i] # Absent \/ g.fails[q][i] # Absent, NEW t \in Owner
               PROVE  g.locked[q][i][t] # None
    BY DEF AddedFirst
  <2>1. h.locked[q][i][t] # None
    BY <1>1, <1>11 DEF AddedFirst
  <2>2. Grown(h, h.locked[q][i], g.locked[q][i], Other(q))
    BY <1>7
  <2>3. QED BY <2>1, <2>2 DEF Grown
<1>15. SoundCache(g)
  <2> SUFFICES ASSUME NEW q \in Owner
               PROVE  /\ g.active[q] \subseteq Known(g, q)
                      /\ \A i \in Known(g, q) \ g.active[q] :
                            LongGone(g, g.settles[q][i]) \/ LongGone(g, g.fails[q][i])
    BY DEF SoundCache
  <2>1. Known(g, q) = Known(h, q) /\ Known(h, q) \subseteq HtlcIds
    BY <1>4 DEF Known
  <2>2. h.active[q] \subseteq Known(h, q)
    BY <1>1 DEF SoundCache
  <2>3. g.active[q] = {i \in h.active[q] :
            ~LongGone(n, g.settles[q][i]) /\ ~LongGone(n, g.fails[q][i])}
    BY <1>2, <1>3
  <2>4. \A e : LongGone(n, e) <=> LongGone(g, e)
    BY <1>3 DEF LongGone
  <2>5. ASSUME NEW i \in Known(h, q), i \notin g.active[q]
        PROVE  LongGone(g, g.settles[q][i]) \/ LongGone(g, g.fails[q][i])
    <3>1. CASE i \in h.active[q]
      BY <2>3, <2>4, <2>5, <3>1
    <3>2. CASE i \notin h.active[q]
      <4>1. i \in HtlcIds /\ h.settles[q][i] \in Entry /\ h.fails[q][i] \in Entry
        BY <1>1, <2>1, EntryTypes
      <4>2. LongGone(h, h.settles[q][i]) \/ LongGone(h, h.fails[q][i])
        BY <1>1, <3>2 DEF SoundCache
      <4>3. ASSUME NEW e \in Entry, NEW c, NEW f, Grown(h, e, c, f), LongGone(h, e)
            PROVE  LongGone(g, c)
        <5> SUFFICES ASSUME NEW t \in Owner PROVE InCtx(c, t, g.ctn[t] - 1)
          BY DEF LongGone
        <5>1. e[t] # None /\ e[t] <= h.ctn[t] - 1
          BY <4>3 DEF LongGone, InCtx
        <5>2. c[t] = e[t]
          BY <4>3, <5>1 DEF Grown
        <5>3. e[t] \in Nat \cup {None} /\ None = -1
          BY DEF Entry, Ctn, None
        <5>4. h.ctn[t] \in Nat /\ g.ctn[t] \in Nat /\ h.ctn[t] <= g.ctn[t]
          BY <1>5
        <5>5. QED BY <5>1, <5>2, <5>3, <5>4 DEF InCtx
      <4>4. Grown(h, h.settles[q][i], g.settles[q][i], q)
            /\ Grown(h, h.fails[q][i], g.fails[q][i], q)
        BY <1>7, <4>1
      <4>5. QED BY <4>1, <4>2, <4>3, <4>4
    <3>3. QED BY <3>1, <3>2
  <2>6. g.active[q] \subseteq Known(g, q)
    BY <2>1, <2>2, <2>3
  <2>7. QED BY <2>1, <2>5, <2>6
<1>16. OrderedAdds(g)
  <2> SUFFICES ASSUME NEW q \in Owner, NEW i \in HtlcIds, NEW j \in HtlcIds, i < j, j < g.next[q]
               PROVE  g.locked[q][i][Other(q)] <= g.locked[q][j][Other(q)]
    BY DEF OrderedAdds
  <2>1. h.locked[q][i][Other(q)] <= h.locked[q][j][Other(q)]
    BY <1>1, <1>4 DEF OrderedAdds
  <2>2. g.locked[q][i][Other(q)] = h.locked[q][i][Other(q)]
        /\ g.locked[q][j][Other(q)] = h.locked[q][j][Other(q)]
    BY <1>7 DEF Grown
  <2>3. QED BY <2>1, <2>2
<1>17. QED
  BY <1>8, <1>10, <1>12, <1>13, <1>14, <1>15, <1>16 DEF ConsistentLog

-----------------------------------------------------------------------------
(* Discarding what is not signed *)

LessThan == {ss \in Nat \X Nat : ss[1] < ss[2]}

\* The order of the naturals, as a relation, is well-founded.
LEMMA LessThanWellFounded == IsWellFoundedOn(LessThan, Nat)
<1>1. LessThan = OpToRel(<, Nat)
  BY DEF LessThan, OpToRel
<1>2. QED BY <1>1, NatLessThanWellFounded

\* A non-empty set of numbers with a bound has a maximum.
LEMMA MaxOfNaturals ==
    ASSUME NEW S \in SUBSET Nat, S # {}, NEW n \in Nat, \A x \in S : x <= n
    PROVE  Max(S) \in S /\ \A y \in S : y <= Max(S)
<1> DEFINE T == {k \in Nat : \E x \in S : k = n - x}
<1>1. T \subseteq Nat
  OBVIOUS
<1>2. T # {}
  <2>1. PICK x \in S : TRUE
    OBVIOUS
  <2>2. n - x \in T
    BY <2>1
  <2>3. QED BY <2>2
<1>3. PICK m \in T : \A y \in T : <<y, m>> \notin LessThan
  <2> HIDE DEF T
  <2> QED BY <1>1, <1>2, WFMin, LessThanWellFounded
<1>4. PICK x \in S : m = n - x
  OBVIOUS
<1>5. ASSUME NEW y \in S PROVE x >= y
  <2>1. n - y \in T
    OBVIOUS
  <2>2. ~ (n - y < m)
    <3>1. <<n - y, m>> \notin LessThan
      BY <2>1, <1>3
    <3>2. n - y \in Nat /\ m \in Nat
      BY <2>1
    <3> QED BY <3>1, <3>2 DEF LessThan
  <2>3. QED BY <2>2, <1>4
<1>6. QED BY <1>4, <1>5 DEF Max

\* The ctx of Local that e would enter is not signed yet.
UnsignedByRemote(m, e) == e[Local] > ctn_latest(m, Local)

DroppedIds(m) == {i \in Known(m, Remote) : UnsignedByRemote(m, m.locked[Remote][i])}

\* discard_unsigned_remote_updates, field by field
LEMMA DiscardEffect ==
    ASSUME NEW h, NEW g, TypedLog(h), IsDiscarded(h, g)
    PROVE  LET Signed(table) == [i \in HtlcIds |->
                   IF UnsignedByRemote(h, table[i]) THEN Absent ELSE table[i]]
               kept == Known(h, Remote) \ DroppedIds(h)
           IN  /\ OnlyChanges({"next", "adds", "locked", "settles", "fails", "active", "fees"}, h, g)
               /\ g.adds = [h.adds EXCEPT ![Remote] =
                     [i \in HtlcIds |-> IF i \in DroppedIds(h) THEN 0 ELSE h.adds[Remote][i]]]
               /\ g.next = [h.next EXCEPT ![Remote] = IF kept = {} THEN 0 ELSE Max(kept) + 1]
               /\ g.locked = [h.locked EXCEPT ![Remote] = Signed(h.locked[Remote])]
               /\ g.settles = [h.settles EXCEPT ![Local] = Signed(h.settles[Local])]
               /\ g.fails = [h.fails EXCEPT ![Local] = Signed(h.fails[Local])]
               /\ g.active = [h.active EXCEPT ![Remote] = @ \ DroppedIds(h)]
               /\ g.fees = IF h.initiator = Remote
                     THEN Restrict(h.fees, {k \in DOMAIN h.fees : ~UnsignedByRemote(h, h.fees[k].ctn)})
                     ELSE h.fees
<1> DEFINE Signed(table) == [i \in HtlcIds |->
               IF UnsignedByRemote(h, table[i]) THEN Absent ELSE table[i]]
           kept == Known(h, Remote) \ DroppedIds(h)
           addsRow == [i \in HtlcIds |-> IF i \in DroppedIds(h) THEN 0 ELSE h.adds[Remote][i]]
           next == IF kept = {} THEN 0 ELSE Max(kept) + 1
           lockedRow == Signed(h.locked[Remote])
           settlesRow == Signed(h.settles[Local])
           failsRow == Signed(h.fails[Local])
           dropped == DroppedIds(h)
           fees == IF h.initiator = Remote
                   THEN Restrict(h.fees, {k \in DOMAIN h.fees : ~UnsignedByRemote(h, h.fees[k].ctn)})
                   ELSE h.fees
<1>1. g = [h EXCEPT
                !.adds[Remote]   = addsRow,
                !.locked[Remote] = lockedRow,
                !.active[Remote] = @ \ dropped,
                !.next[Remote]   = next,
                !.settles[Local] = settlesRow,
                !.fails[Local]   = failsRow,
                !.fees = fees]
  BY DEF IsDiscarded, discard_unsigned_remote_updates, UnsignedByRemote, DroppedIds
<1> HIDE DEF addsRow, next, lockedRow, settlesRow, failsRow, dropped, fees
<1>2. DOMAIN h = Fields
  BY LogFieldsAre
<1>3. /\ OnlyChanges({"next", "adds", "locked", "settles", "fails", "active", "fees"}, h, g)
      /\ g.adds = [h.adds EXCEPT ![Remote] = addsRow]
      /\ g.next = [h.next EXCEPT ![Remote] = next]
      /\ g.locked = [h.locked EXCEPT ![Remote] = lockedRow]
      /\ g.settles = [h.settles EXCEPT ![Local] = settlesRow]
      /\ g.fails = [h.fails EXCEPT ![Local] = failsRow]
      /\ g.active = [h.active EXCEPT ![Remote] = @ \ dropped]
      /\ g.fees = fees
  BY <1>1, <1>2 DEF OnlyChanges, Fields
<1>4. QED BY <1>1, <1>3 DEF addsRow, next, lockedRow, settlesRow, failsRow, dropped, fees

\* The ids that are kept are those below the new next id.
LEMMA KeptIds ==
    ASSUME NEW h, ConsistentLog(h)
    PROVE  LET kept == Known(h, Remote) \ DroppedIds(h)
               next == IF kept = {} THEN 0 ELSE Max(kept) + 1
           IN  next \in Nat /\ next <= h.next[Remote] /\ \A i \in HtlcIds : i < next <=> i \in kept
<1> DEFINE kept == Known(h, Remote) \ DroppedIds(h)
           next == IF kept = {} THEN 0 ELSE Max(kept) + 1
<1>1. /\ TypedLog(h) /\ ContiguousIds(h) /\ OrderedAdds(h) /\ LogOK(h)
      /\ Remote \in Owner /\ Local \in Owner /\ Other(Remote) = Local
      /\ h.next[Remote] \in Nat
  BY TypedLogOK DEF ConsistentLog, TypedLog, Owner, Other, Local, Remote
<1>2. \A i \in HtlcIds : i \in Nat /\ h.locked[Remote][i] \in Entry
  BY <1>1, EntryTypes
<1>3. \A i \in HtlcIds : i \in Known(h, Remote) <=> i < h.next[Remote]
  BY <1>1 DEF Known, ContiguousIds
<1>4. kept \subseteq HtlcIds
  BY DEF Known
<1>5. CASE kept = {}
  <2>1. next = 0
    BY <1>5
  <2>2. QED BY <1>1, <1>2, <1>5, <2>1
<1>6. CASE kept # {}
  <2>1. kept \in SUBSET Nat /\ \A i \in kept : i <= h.next[Remote]
    BY <1>1, <1>2, <1>3, <1>4
  <2> DEFINE top == Max(kept)
  <2>2. top \in kept /\ \A i \in kept : i <= top
    <3> HIDE DEF kept
    <3> QED BY <1>1, <1>6, <2>1, MaxOfNaturals
  <2> HIDE DEF top
  <2>3. /\ top \in HtlcIds /\ top \in Nat /\ top < h.next[Remote]
        /\ ~(h.locked[Remote][top][Local] > ctn_latest(h, Local))
    BY <1>2, <1>3, <2>2 DEF DroppedIds, UnsignedByRemote, Known
  <2>4. ASSUME NEW i \in HtlcIds, i < top
        PROVE  i \in kept
    <3>1. i \in Nat /\ i < h.next[Remote]
      BY <1>1, <1>2, <2>3, <2>4
    <3>2. h.locked[Remote][i][Local] <= h.locked[Remote][top][Local]
      BY <1>1, <2>3, <2>4 DEF OrderedAdds
    <3>3. /\ h.locked[Remote][i][Local] \in Int
          /\ h.locked[Remote][top][Local] \in Int
          /\ ctn_latest(h, Local) \in Int
      BY <1>1, <1>2, <2>3, CtnTypes DEF Entry, Ctn, None
    <3>4. ~(h.locked[Remote][i][Local] > ctn_latest(h, Local))
      BY <2>3, <3>2, <3>3
    <3>5. QED BY <1>3, <3>1, <3>4 DEF DroppedIds, UnsignedByRemote
  <2>5. next = top + 1
    BY <1>6 DEF top
  <2>6. \A i \in HtlcIds : i < next <=> i \in kept
    <3> HIDE DEF kept, next
    <3> SUFFICES ASSUME NEW i \in HtlcIds PROVE i < next <=> i \in kept
      OBVIOUS
    <3>1. i \in Nat /\ (i < next <=> i < top \/ i = top)
      <4>1. i \in Nat /\ top \in Nat
        BY <1>2, <2>3
      <4> QED BY <2>5, <4>1
    <3>2. i \in kept => i <= top
      BY <2>2
    <3>3. QED BY <2>2, <2>3, <2>4, <3>1, <3>2
  <2>7. next \in Nat /\ next <= h.next[Remote]
    <3> HIDE DEF kept, next
    <3> QED BY <1>1, <2>3, <2>5
  <2>8. QED BY <2>6, <2>7
<1>7. QED BY <1>5, <1>6

\* Only the last feerate can be dropped.
LEMMA DiscardedFees ==
    ASSUME NEW h, NEW g, ConsistentLog(h), g.ctn = h.ctn, g.revack = h.revack, g.initiator = h.initiator,
           g.fees = IF h.initiator = Remote
                      THEN Restrict(h.fees, {k \in DOMAIN h.fees : ~UnsignedByRemote(h, h.fees[k].ctn)})
                      ELSE h.fees
    PROVE  /\ OrderedFees(g)
           /\ NumFees(g) \in Nat \ {0}
           /\ g.fees \in [0 .. NumFees(g) - 1 -> FeeUpdate]
<1> DEFINE first == Other(h.initiator)
           last  == NumFees(h) - 1
           ids   == {k \in DOMAIN h.fees : ~UnsignedByRemote(h, h.fees[k].ctn)}
<1>1. /\ TypedLog(h) /\ LogOK(h) /\ last \in Nat
      /\ h.initiator = Remote => first = Local
      /\ Local \in Owner /\ first \in Owner
  BY NumFeesNat, TypedLogOK, EntryFacts DEF ConsistentLog, TypedLog, Other, Owner, Local, Remote
<1>2. /\ h.fees \in [0 .. last -> FeeUpdate]
      /\ \A k \in 0 .. last : h.fees[k].ctn[first] \in Int
      /\ ctn_latest(h, first) \in Nat
  <2>1. h.fees \in [0 .. last -> FeeUpdate]
    BY <1>1 DEF TypedLog
  <2>2. \A k \in 0 .. last : h.fees[k].ctn \in Entry
    BY <2>1 DEF FeeUpdate
  <2>3. QED BY <1>1, <2>1, <2>2, CtnTypes DEF Entry, Ctn, None
<1>3. /\ \A t \in Owner : h.fees[0].ctn[t] = 0
      /\ \A k \in 1 .. last : h.fees[k].ctn # Absent /\ EntryOK(h, h.fees[k].ctn, first)
      /\ \A k \in 0 .. last - 1 : h.fees[k].ctn[first] <= ctn_latest(h, first)
  BY DEF ConsistentLog, OrderedFees
<1>4. \A e, f : EntryOK(g, e, f) <=> EntryOK(h, e, f)
  BY DEF EntryOK, next_ctn, ctn_latest
<1>5. ctn_latest(g, first) = ctn_latest(h, first)
  BY DEF ctn_latest
<1> HIDE DEF last, first
<1>6. PICK l \in 0 .. last : /\ l = last \/ l = last - 1
                             /\ g.fees = Restrict(h.fees, 0 .. l)
  <2>1. CASE h.initiator = Remote
    <3>1. ids \subseteq 0 .. last /\ g.fees = Restrict(h.fees, ids)
      BY <1>2, <2>1
    <3>2. \A k \in 0 .. last : k \in ids <=> h.fees[k].ctn[first] <= ctn_latest(h, first)
      BY <1>1, <1>2, <2>1 DEF UnsignedByRemote
    <3>3. \A k \in 0 .. last - 1 : k \in ids
      BY <1>1, <1>3, <3>2
    <3>4. 0 \in ids
      <4>1. h.fees[0].ctn[first] = 0
        BY <1>1, <1>3
      <4>2. QED BY <1>1, <1>2, <3>2, <4>1
    <3> HIDE DEF ids
    <3>5. \A k \in 0 .. last : k = last \/ k \in 0 .. last - 1
      BY <1>1
    <3>6. CASE last \in ids
      <4>1. ids = 0 .. last
        <5>1. \A k \in 0 .. last : k \in ids
          BY <3>3, <3>5, <3>6
        <5>2. QED BY <3>1, <5>1
      <4>2. last \in 0 .. last
        BY <1>1
      <4>3. g.fees = Restrict(h.fees, 0 .. last)
        BY <3>1, <4>1
      <4>4. QED BY <4>2, <4>3
    <3>7. CASE last \notin ids
      <4>1. last # 0
        BY <3>4, <3>7
      <4>2. ids = 0 .. last - 1
        <5>1. \A k \in 0 .. last - 1 : k \in 0 .. last /\ k # last
          BY <1>1
        <5>2. \A k \in ids : k \in 0 .. last - 1
          BY <3>1, <3>5, <3>7
        <5>3. QED BY <3>3, <5>2
      <4>3. last - 1 \in 0 .. last
        BY <1>1, <4>1
      <4>4. g.fees = Restrict(h.fees, 0 .. last - 1)
        BY <3>1, <4>2
      <4>5. QED BY <4>3, <4>4
    <3>8. QED BY <3>6, <3>7
  <2>2. CASE h.initiator # Remote
    <3>1. g.fees = h.fees
      BY <2>2
    <3>2. h.fees = [k \in 0 .. last |-> h.fees[k]]
      BY <1>2
    <3>3. last \in 0 .. last
      BY <1>1
    <3>4. g.fees = Restrict(h.fees, 0 .. last)
      BY <3>1, <3>2, Zenon DEF Restrict
    <3>5. QED BY <3>3, <3>4
  <2>3. QED BY <2>1, <2>2
<1>7. /\ DOMAIN g.fees = 0 .. l
      /\ \A k \in 0 .. l : g.fees[k] = h.fees[k]
      /\ g.fees \in [0 .. l -> FeeUpdate]
  <2>1. g.fees = [k \in 0 .. l |-> h.fees[k]]
    BY <1>6 DEF Restrict
  <2>2. \A k \in 0 .. l : k \in 0 .. last
    BY <1>1, <1>6
  <2>3. QED BY <1>2, <2>1, <2>2
<1>8. NumFees(g) = l + 1
  <2>1. Cardinality(0 .. l) = l + 1
    BY <1>1, FS_Interval
  <2>2. QED BY <1>7, <2>1 DEF NumFees
<1>9. /\ NumFees(g) \in Nat \ {0}
      /\ g.fees \in [0 .. NumFees(g) - 1 -> FeeUpdate]
  BY <1>1, <1>7, <1>8
<1>10. OrderedFees(g)
  <2>1. \A t \in Owner : g.fees[0].ctn[t] = 0
    <3>1. g.fees[0] = h.fees[0]
      BY <1>1, <1>7
    <3>2. QED BY <1>3, <3>1
  <2>2. \A k \in 1 .. l : g.fees[k].ctn # Absent /\ EntryOK(g, g.fees[k].ctn, first)
    <3>1. \A k \in 1 .. l : k \in 1 .. last /\ g.fees[k] = h.fees[k]
      BY <1>1, <1>7
    <3>2. QED BY <1>3, <1>4, <3>1
  <2>3. \A k \in 0 .. l - 1 : g.fees[k].ctn[first] <= ctn_latest(g, first)
    <3>1. \A k \in 0 .. l - 1 : k \in 0 .. last - 1 /\ g.fees[k] = h.fees[k]
      BY <1>1, <1>6, <1>7
    <3>2. QED BY <1>3, <1>5, <3>1
  <2>4. Other(g.initiator) = first /\ NumFees(g) - 1 = l
    BY <1>1, <1>8 DEF first
  <2>5. QED BY <2>1, <2>2, <2>3, <2>4 DEF OrderedFees
<1>11. QED BY <1>9, <1>10

\* A function with another value has the same type.
LEMMA UpdatedRow ==
    ASSUME NEW S, NEW t \in [Owner -> S], NEW p, NEW row \in S
    PROVE  [t EXCEPT ![p] = row] \in [Owner -> S]
  OBVIOUS

\* discard_unsigned_remote_updates keeps the log consistent.
LEMMA DiscardPreserves ==
    ASSUME NEW h, NEW g, ConsistentLog(h), IsDiscarded(h, g)
    PROVE  ConsistentLog(g)
<1> DEFINE dropped == DroppedIds(h)
           kept == Known(h, Remote) \ dropped
           next == IF kept = {} THEN 0 ELSE Max(kept) + 1
           U(e) == UnsignedByRemote(h, e)
           Signed(table) == [i \in HtlcIds |-> IF U(table[i]) THEN Absent ELSE table[i]]
           addsRow == [i \in HtlcIds |-> IF i \in dropped THEN 0 ELSE h.adds[Remote][i]]
           lockedRow == Signed(h.locked[Remote])
           settlesRow == Signed(h.settles[Local])
           failsRow == Signed(h.fails[Local])
<1>1. /\ TypedLog(h)
      /\ ContiguousIds(h)
      /\ OrderedEntries(h)
      /\ AddedFirst(h)
      /\ RemovedOnce(h)
      /\ SoundCache(h)
      /\ OrderedAdds(h)
  BY DEF ConsistentLog
<1>2. /\ OnlyChanges({"next", "adds", "locked", "settles", "fails", "active", "fees"}, h, g)
      /\ g.adds = [h.adds EXCEPT ![Remote] = addsRow]
      /\ g.next = [h.next EXCEPT ![Remote] = next]
      /\ g.locked = [h.locked EXCEPT ![Remote] = lockedRow]
      /\ g.settles = [h.settles EXCEPT ![Local] = settlesRow]
      /\ g.fails = [h.fails EXCEPT ![Local] = failsRow]
      /\ g.active = [h.active EXCEPT ![Remote] = @ \ dropped]
  BY <1>1, DiscardEffect
<1>3. /\ DOMAIN g = Fields
      /\ g.ctn = h.ctn
      /\ g.revack = h.revack
      /\ g.initiator = h.initiator
  BY <1>2 DEF OnlyChanges, Fields
<1>4. /\ OrderedFees(g)
      /\ NumFees(g) \in Nat \ {0}
      /\ g.fees \in [0 .. NumFees(g) - 1 -> FeeUpdate]
  BY <1>1, <1>3, DiscardEffect, DiscardedFees
<1>5. next \in Nat /\ next <= h.next[Remote] /\ \A i \in HtlcIds : i < next <=> i \in kept
  BY KeptIds
<1>6. /\ Local \in Owner /\ Remote \in Owner /\ Local # Remote
      /\ Other(Remote) = Local /\ Other(Local) = Remote
      /\ \A q \in Owner : q = Local \/ q = Remote
      /\ LogOK(h) /\ ctn_latest(h, Local) \in Nat
      /\ h.ctn[Local] \in Nat /\ h.ctn[Local] <= ctn_latest(h, Local)
  <2>1. LogOK(h) /\ Local \in Owner
    BY <1>1, TypedLogOK DEF Owner
  <2>2. /\ ctn_latest(h, Local) \in Nat
        /\ h.ctn[Local] \in Nat /\ h.ctn[Local] <= ctn_latest(h, Local)
    BY <2>1, CtnTypes
  <2>3. QED BY <2>1, <2>2 DEF Owner, Other, Local, Remote
<1>7. \A i \in HtlcIds : i \in dropped <=> U(h.locked[Remote][i])
  <2> SUFFICES ASSUME NEW i \in HtlcIds, U(h.locked[Remote][i]) PROVE i \in Known(h, Remote)
    BY DEF DroppedIds
  <2>1. h.locked[Remote][i] # Absent
    BY <1>6 DEF UnsignedByRemote, Absent, None
  <2>2. QED BY <1>1, <1>6, <2>1 DEF ContiguousIds, Known
<1>8. ~U(Absent)
  BY <1>6 DEF UnsignedByRemote, Absent, None
<1> HIDE DEF dropped, next, U
\* Everything else in terms of single entries
<1>9. /\ h.adds \in [Owner -> [HtlcIds -> Amounts \cup {0}]]
      /\ h.locked \in [Owner -> [HtlcIds -> Entry]]
      /\ h.settles \in [Owner -> [HtlcIds -> Entry]]
      /\ h.fails \in [Owner -> [HtlcIds -> Entry]]
      /\ h.next \in [Owner -> Nat]
      /\ h.active \in [Owner -> SUBSET HtlcIds]
  BY <1>1 DEF TypedLog
<1>10. ASSUME NEW i \in HtlcIds
       PROVE  /\ g.adds[Remote][i] = IF i \in dropped THEN 0 ELSE h.adds[Remote][i]
              /\ g.locked[Remote][i] = IF i \in dropped THEN Absent ELSE h.locked[Remote][i]
              /\ g.settles[Local][i] = IF U(h.settles[Local][i]) THEN Absent ELSE h.settles[Local][i]
              /\ g.fails[Local][i] = IF U(h.fails[Local][i]) THEN Absent ELSE h.fails[Local][i]
  <2>1. /\ g.adds[Remote] = addsRow /\ g.locked[Remote] = lockedRow
        /\ g.settles[Local] = settlesRow /\ g.fails[Local] = failsRow
    <3> HIDE DEF addsRow, lockedRow, settlesRow, failsRow
    <3> QED BY <1>2, <1>6, <1>9
  <2>2. QED BY <1>7, <2>1
<1>11. /\ g.adds[Local] = h.adds[Local] /\ g.locked[Local] = h.locked[Local]
       /\ g.settles[Remote] = h.settles[Remote] /\ g.fails[Remote] = h.fails[Remote]
       /\ g.next[Local] = h.next[Local] /\ g.next[Remote] = next
       /\ g.active[Local] = h.active[Local]
       /\ g.active[Remote] = h.active[Remote] \ dropped
  <2> HIDE DEF addsRow, lockedRow, settlesRow, failsRow
  <2> QED BY <1>2, <1>6, <1>9
<1>12. /\ addsRow \in [HtlcIds -> Amounts \cup {0}]
       /\ lockedRow \in [HtlcIds -> Entry]
       /\ settlesRow \in [HtlcIds -> Entry]
       /\ failsRow \in [HtlcIds -> Entry]
  <2>1. \A i \in HtlcIds : /\ h.adds[Remote][i] \in Amounts \cup {0}
                           /\ h.locked[Remote][i] \in Entry
                           /\ h.settles[Local][i] \in Entry
                           /\ h.fails[Local][i] \in Entry
    BY <1>6, <1>9
  <2>2. Absent \in Entry
    BY EntryFacts
  <2>3. QED BY <2>1, <2>2
<1>13. TypedLog(g)
  <2>1. /\ g.adds \in [Owner -> [HtlcIds -> Amounts \cup {0}]]
        /\ g.locked \in [Owner -> [HtlcIds -> Entry]]
        /\ g.settles \in [Owner -> [HtlcIds -> Entry]]
        /\ g.fails \in [Owner -> [HtlcIds -> Entry]]
    <3> HIDE DEF addsRow, lockedRow, settlesRow, failsRow
    <3>1. g.adds \in [Owner -> [HtlcIds -> Amounts \cup {0}]]
      <4>1. g.adds = [h.adds EXCEPT ![Remote] = addsRow]
        BY <1>2
      <4>2. h.adds \in [Owner -> [HtlcIds -> Amounts \cup {0}]] /\ addsRow \in [HtlcIds -> Amounts \cup {0}]
        BY <1>9, <1>12
      <4>3. QED BY <4>1, <4>2
    <3>2. g.locked \in [Owner -> [HtlcIds -> Entry]]
      <4>1. g.locked = [h.locked EXCEPT ![Remote] = lockedRow]
        BY <1>2
      <4>2. h.locked \in [Owner -> [HtlcIds -> Entry]] /\ lockedRow \in [HtlcIds -> Entry]
        BY <1>9, <1>12
      <4>3. QED BY <4>1, <4>2
    <3>3. g.settles \in [Owner -> [HtlcIds -> Entry]]
      <4>1. g.settles = [h.settles EXCEPT ![Local] = settlesRow]
        BY <1>2
      <4>2. h.settles \in [Owner -> [HtlcIds -> Entry]] /\ settlesRow \in [HtlcIds -> Entry]
        BY <1>9, <1>12
      <4>3. QED BY <4>1, <4>2
    <3>4. g.fails \in [Owner -> [HtlcIds -> Entry]]
      <4>1. g.fails = [h.fails EXCEPT ![Local] = failsRow]
        BY <1>2
      <4>2. h.fails \in [Owner -> [HtlcIds -> Entry]] /\ failsRow \in [HtlcIds -> Entry]
        BY <1>9, <1>12
      <4>3. QED BY <4>1, <4>2
    <3>5. QED BY <3>1, <3>2, <3>3, <3>4
  <2>2. g.next \in [Owner -> Nat] /\ g.active \in [Owner -> SUBSET HtlcIds]
    <3>1. h.active[Remote] \ dropped \in SUBSET HtlcIds
      BY <1>6, <1>9
    <3>2. g.active = [h.active EXCEPT ![Remote] = h.active[Remote] \ dropped]
      BY <1>2
    <3>3. g.active \in [Owner -> SUBSET HtlcIds]
      BY <1>9, <3>1, <3>2, UpdatedRow
    <3>4. g.next \in [Owner -> Nat]
      BY <1>2, <1>5, <1>9, UpdatedRow
    <3>5. QED BY <3>3, <3>4
  <2>3. DOMAIN g = DOMAIN NewLog(Local, CHOOSE r \in Rates : TRUE)
    BY <1>3 DEF Fields, NewLog
  <2>4. /\ g.ctn \in [Owner -> Nat]
        /\ g.revack \in [Owner -> BOOLEAN]
        /\ g.initiator \in Owner
    BY <1>1, <1>2, <1>3 DEF TypedLog
  <2>5. QED BY <1>4, <2>1, <2>2, <2>3, <2>4 DEF TypedLog
<1> HIDE DEF addsRow, lockedRow, settlesRow, failsRow
\* What is dropped was not removed.
<1>14. ASSUME NEW i \in dropped
       PROVE  h.settles[Remote][i] = Absent /\ h.fails[Remote][i] = Absent
  <2>1. i \in HtlcIds /\ U(h.locked[Remote][i])
    BY <1>7 DEF dropped, DroppedIds, Known
  <2>2. h.locked[Remote][i] \in Entry /\ EntryOK(h, h.locked[Remote][i], Local)
        /\ h.locked[Remote][i][Local] \in Int
    BY <1>1, <1>6, <2>1, EntryTypes DEF OrderedEntries, Entry, Ctn, None
  <2>3. h.locked[Remote][i] # Absent
    BY <1>8, <2>1
  <2>4. h.locked[Remote][i][Local] > h.ctn[Local]
    BY <1>6, <2>1, <2>2 DEF U, UnsignedByRemote
  <2>5. h.locked[Remote][i][Remote] = None
    BY <1>6, <2>2, <2>3, <2>4 DEF EntryOK
  <2>6. QED BY <1>1, <1>6, <2>1, <2>5 DEF AddedFirst
<1>15. \A q \in Owner, i \in HtlcIds :
           /\ g.locked[q][i] = h.locked[q][i] \/ g.locked[q][i] = Absent
           /\ g.settles[q][i] = h.settles[q][i] \/ g.settles[q][i] = Absent
           /\ g.fails[q][i] = h.fails[q][i] \/ g.fails[q][i] = Absent
  <2> SUFFICES ASSUME NEW q \in Owner, NEW i \in HtlcIds
               PROVE  /\ g.locked[q][i] = h.locked[q][i] \/ g.locked[q][i] = Absent
                      /\ g.settles[q][i] = h.settles[q][i] \/ g.settles[q][i] = Absent
                      /\ g.fails[q][i] = h.fails[q][i] \/ g.fails[q][i] = Absent
    OBVIOUS
  <2>1. CASE q = Local
    BY <1>10, <1>11, <2>1
  <2>2. CASE q = Remote
    BY <1>10, <1>11, <2>2
  <2>3. QED BY <1>6, <2>1, <2>2
<1>16. RemovedOnce(g)
  BY <1>1, <1>15 DEF RemovedOnce
<1>17. OrderedEntries(g)
  <2>1. \A f : EntryOK(g, Absent, f)
    BY DEF EntryOK
  <2>2. \A e, f : EntryOK(g, e, f) <=> EntryOK(h, e, f)
    BY <1>3 DEF EntryOK, next_ctn, ctn_latest
  <2> SUFFICES ASSUME NEW q \in Owner, NEW i \in HtlcIds
               PROVE  /\ EntryOK(g, g.locked[q][i], Other(q))
                      /\ EntryOK(g, g.settles[q][i], q)
                      /\ EntryOK(g, g.fails[q][i], q)
    BY DEF OrderedEntries
  <2>3. /\ EntryOK(h, h.locked[q][i], Other(q))
        /\ EntryOK(h, h.settles[q][i], q)
        /\ EntryOK(h, h.fails[q][i], q)
    BY <1>1 DEF OrderedEntries
  <2>4. QED BY <1>15, <2>1, <2>2, <2>3
<1>18. ContiguousIds(g)
  <2> SUFFICES ASSUME NEW q \in Owner, NEW i \in HtlcIds
               PROVE  /\ (i < g.next[q]) <=> (g.adds[q][i] # 0)
                      /\ (i < g.next[q]) <=> (g.locked[q][i] # Absent)
                      /\ i >= g.next[q] => g.settles[q][i] = Absent /\ g.fails[q][i] = Absent
    BY DEF ContiguousIds
  <2>1. /\ (i < h.next[q]) <=> (h.adds[q][i] # 0)
        /\ (i < h.next[q]) <=> (h.locked[q][i] # Absent)
        /\ i >= h.next[q] => h.settles[q][i] = Absent /\ h.fails[q][i] = Absent
    BY <1>1 DEF ContiguousIds
  <2>2. CASE q = Local
    BY <1>11, <1>15, <2>1, <2>2
  <2>3. CASE q = Remote
    <3>1. i < next <=> i \in kept
      BY <1>5
    <3>2. i \in kept <=> (h.adds[q][i] # 0 /\ i \notin dropped)
      BY <2>3 DEF Known
    <3>3. i \in Nat /\ next \in Nat /\ h.next[q] \in Nat
      BY <1>1, <1>5, EntryTypes
    <3>4. g.adds[q][i] # 0 <=> i \in kept
      BY <1>10, <2>3, <3>2
    <3>5. g.locked[q][i] # Absent <=> i \in kept
      BY <1>10, <2>1, <2>3, <3>2
    <3>6. i \notin kept => h.settles[q][i] = Absent /\ h.fails[q][i] = Absent
      BY <1>14, <2>1, <2>3, <3>2, <3>3
    <3> HIDE DEF kept
    <3>7. QED BY <1>11, <2>3, <3>1, <3>3, <3>4, <3>5, <3>6
  <2>4. QED BY <1>6, <2>2, <2>3
<1>19. AddedFirst(g)
  <2> SUFFICES ASSUME NEW q \in Owner, NEW i \in HtlcIds,
                      g.settles[q][i] # Absent \/ g.fails[q][i] # Absent, NEW t \in Owner
               PROVE  g.locked[q][i][t] # None
    BY DEF AddedFirst
  <2>1. h.settles[q][i] # Absent \/ h.fails[q][i] # Absent
    BY <1>15
  <2>2. h.locked[q][i][t] # None
    BY <1>1, <2>1 DEF AddedFirst
  <2>3. g.locked[q][i] = h.locked[q][i]
    BY <1>6, <1>10, <1>11, <1>14, <2>1
  <2>4. QED BY <2>2, <2>3
<1>20. SoundCache(g)
  <2>1. \A e : LongGone(g, e) <=> LongGone(h, e)
    BY <1>3 DEF LongGone
  <2>2. ASSUME NEW q \in Owner
        PROVE  /\ h.active[q] \subseteq Known(h, q)
               /\ \A i \in Known(h, q) \ h.active[q] :
                     LongGone(h, h.settles[q][i]) \/ LongGone(h, h.fails[q][i])
    BY <1>1 DEF SoundCache
  <2>3. /\ g.active[Local] \subseteq Known(g, Local)
        /\ \A i \in Known(g, Local) \ g.active[Local] :
              LongGone(g, g.settles[Local][i]) \/ LongGone(g, g.fails[Local][i])
    <3>1. Known(g, Local) = Known(h, Local) /\ Known(h, Local) \subseteq HtlcIds
      BY <1>11 DEF Known
    <3>2. ASSUME NEW e \in Entry, LongGone(h, e) PROVE ~U(e)
      <4>1. e[Local] <= h.ctn[Local] - 1 /\ e[Local] \in Int
        BY <1>6, <3>2 DEF LongGone, InCtx, Entry, Ctn, None
      <4>2. QED BY <1>6, <4>1 DEF U, UnsignedByRemote
    <3>3. ASSUME NEW i \in Known(h, Local), i \notin h.active[Local]
          PROVE  LongGone(g, g.settles[Local][i]) \/ LongGone(g, g.fails[Local][i])
      <4>1. i \in HtlcIds /\ h.settles[Local][i] \in Entry /\ h.fails[Local][i] \in Entry
        BY <1>1, <1>6, <3>1, EntryTypes
      <4>2. LongGone(h, h.settles[Local][i]) \/ LongGone(h, h.fails[Local][i])
        BY <1>6, <2>2, <3>3
      <4>3. QED BY <1>10, <2>1, <3>2, <4>1, <4>2
    <3>4. QED BY <1>6, <1>11, <2>2, <3>1, <3>3
  <2>4. /\ g.active[Remote] \subseteq Known(g, Remote)
        /\ \A i \in Known(g, Remote) \ g.active[Remote] :
              LongGone(g, g.settles[Remote][i]) \/ LongGone(g, g.fails[Remote][i])
    <3>1. Known(g, Remote) = Known(h, Remote) \ dropped
      BY <1>10 DEF Known
    <3>2. QED BY <1>6, <1>11, <2>1, <2>2, <3>1
  <2>5. \A q \in Owner : q = Local \/ q = Remote
    BY <1>6
  <2>6. QED BY <2>3, <2>4, <2>5 DEF SoundCache
<1>21. OrderedAdds(g)
  <2> SUFFICES ASSUME NEW q \in Owner, NEW i \in HtlcIds, NEW j \in HtlcIds, i < j, j < g.next[q]
               PROVE  g.locked[q][i][Other(q)] <= g.locked[q][j][Other(q)]
    BY DEF OrderedAdds
  <2>1. CASE q = Local
    BY <1>1, <1>11, <2>1 DEF OrderedAdds
  <2>2. CASE q = Remote
    <3>1. i \in Nat /\ j \in Nat /\ next \in Nat /\ h.next[Remote] \in Nat /\ next <= h.next[Remote]
      BY <1>1, <1>5, <1>6, EntryTypes
    <3>2. j < next /\ i < next /\ j < h.next[Remote]
      BY <1>11, <2>2, <3>1
    <3>3. i \notin dropped /\ j \notin dropped
      BY <1>5, <3>2
    <3>4. h.locked[Remote][i][Local] <= h.locked[Remote][j][Local]
      BY <1>1, <1>6, <3>2 DEF OrderedAdds
    <3>5. QED BY <1>6, <1>10, <2>2, <3>3, <3>4
  <2>3. QED BY <1>6, <2>1, <2>2
<1>22. QED
  BY <1>4, <1>13, <1>16, <1>17, <1>18, <1>19, <1>20, <1>21 DEF ConsistentLog

-----------------------------------------------------------------------------
(* Every call *)

\* An empty log is consistent.
LEMMA NewLogIsConsistent ==
    ASSUME NEW s \in Owner, NEW rate \in Rates
    PROVE  ConsistentLog(NewLog(s, rate))
<1> SUFFICES ASSUME NEW h, h = NewLog(s, rate)
             PROVE  ConsistentLog(h)
  OBVIOUS
<1>1. s \in Owner /\ Absent \in Entry /\ Absent # [t \in Owner |-> 0]
      /\ [t \in Owner |-> 0] \in Entry
  BY EntryFacts DEF Absent, None, Owner, Entry, Ctn
<1>2. /\ h.ctn = [t \in Owner |-> 0]
      /\ h.revack = [t \in Owner |-> FALSE]
      /\ h.next = [p \in Owner |-> 0]
      /\ h.adds = [p \in Owner |-> [i \in HtlcIds |-> 0]]
      /\ h.locked = [p \in Owner |-> [i \in HtlcIds |-> Absent]]
      /\ h.settles = [p \in Owner |-> [i \in HtlcIds |-> Absent]]
      /\ h.fails = [p \in Owner |-> [i \in HtlcIds |-> Absent]]
      /\ h.fees = [k \in {0} |-> [rate |-> rate, ctn |-> [t \in Owner |-> 0]]]
      /\ h.initiator = s
      /\ h.active = [p \in Owner |-> {}]
  BY DEF NewLog
<1>3. NumFees(h) = 1
  <2>1. DOMAIN h.fees = {0}
    BY <1>2
  <2>2. QED BY <2>1, FS_Singleton DEF NumFees
<1>4. TypedLog(h)
  <2>1. DOMAIN h = DOMAIN NewLog(Local, CHOOSE r \in Rates : TRUE)
    BY DEF NewLog
  <2>2. h.fees \in [0 .. NumFees(h) - 1 -> FeeUpdate] /\ NumFees(h) \in Nat \ {0}
    <3>1. [rate |-> rate, ctn |-> [t \in Owner |-> 0]] \in FeeUpdate
      BY <1>1 DEF FeeUpdate
    <3>2. 0 .. 0 = {0}
      OBVIOUS
    <3>3. QED BY <1>2, <1>3, <3>1, <3>2
  <2>4. /\ h.locked \in [Owner -> [HtlcIds -> Entry]]
        /\ h.settles \in [Owner -> [HtlcIds -> Entry]]
        /\ h.fails \in [Owner -> [HtlcIds -> Entry]]
    <3>1. [i \in HtlcIds |-> Absent] \in [HtlcIds -> Entry]
      BY <1>1
    <3>2. QED BY <1>2, <3>1
  <2>5. /\ h.ctn \in [Owner -> Nat]
        /\ h.revack \in [Owner -> BOOLEAN]
        /\ h.next \in [Owner -> Nat]
    <3>1. h.ctn \in [Owner -> Nat] /\ h.next \in [Owner -> Nat]
      BY <1>2
    <3>2. h.revack \in [Owner -> BOOLEAN]
      <4>1. h.revack = [t \in Owner |-> FALSE]
        BY <1>2
      <4>2. QED BY <4>1
    <3>3. QED BY <3>1, <3>2
  <2>6. h.initiator \in Owner
    BY <1>1, <1>2
  <2>7. /\ h.adds \in [Owner -> [HtlcIds -> Amounts \cup {0}]]
        /\ h.active \in [Owner -> SUBSET HtlcIds]
    BY <1>2
  <2>8. QED BY <2>1, <2>2, <2>4, <2>5, <2>6, <2>7 DEF TypedLog
<1>5. ContiguousIds(h)
  BY <1>2, HtlcIdsAssumption DEF ContiguousIds
<1>6. OrderedEntries(h)
  BY <1>2 DEF OrderedEntries, EntryOK
<1>7. AddedFirst(h) /\ RemovedOnce(h)
  BY <1>2 DEF AddedFirst, RemovedOnce
<1>8. SoundCache(h)
  BY <1>2 DEF SoundCache, Known
<1>9. OrderedAdds(h)
  BY <1>2, HtlcIdsAssumption DEF OrderedAdds
<1>10. OrderedFees(h)
  <2>1. \A t \in Owner : h.fees[0].ctn[t] = 0
    BY <1>2
  <2>2. QED BY <1>3, <2>1 DEF OrderedFees
<1>11. QED BY <1>4, <1>5, <1>6, <1>7, <1>8, <1>9, <1>10 DEF ConsistentLog

\* What a log becomes by one call, or by none
IsCall(h, g) ==
    \/ \E p \in Owner, amount \in Amounts : IsAdded(h, g, p, amount)
    \/ \E p \in Owner, i \in HtlcIds : IsRemoved(h, g, p, i)
    \/ \E rate \in Rates : IsFeeUpdated(h, g, rate)
    \/ \E s \in Owner : IsSigned(h, g, s) \/ IsRevoked(h, g, s)
    \/ IsReloaded(h, g) \/ IsDiscarded(h, g)
    \/ OnlyChanges(Aside, h, g)

\* What is kept for a replay does not matter.
LEMMA AsidePreserves ==
    ASSUME NEW h, NEW g, ConsistentLog(h), OnlyChanges(Aside, h, g)
    PROVE  ConsistentLog(g)
<1>1. /\ DOMAIN g = Fields
      /\ g.ctn = h.ctn /\ g.revack = h.revack
      /\ g.next = h.next /\ g.adds = h.adds /\ g.locked = h.locked
      /\ g.settles = h.settles /\ g.fails = h.fails
      /\ g.fees = h.fees /\ g.initiator = h.initiator /\ g.active = h.active
  BY DEF OnlyChanges, Fields, Aside
<1>2. TypedLog(g)
  BY <1>1 DEF ConsistentLog, TypedLog, Fields, NewLog, NumFees
<1>3. LogOK(g) /\ \A s \in Owner : h.revack[s] => g.revack[s]
  BY <1>1, TypedLogOK DEF ConsistentLog, LogOK
<1>4. QED BY <1>1, <1>2, <1>3, SigningPreserves, SigningPreservesFees DEF ConsistentLog

\* Whatever is called, the log stays consistent.
LEMMA CallPreserves ==
    ASSUME NEW h, NEW g, ConsistentLog(h), IsCall(h, g)
    PROVE  ConsistentLog(g)
<1>1. ASSUME NEW p \in Owner, NEW amount, IsAdded(h, g, p, amount) PROVE ConsistentLog(g)
  BY <1>1, AddHtlcPreserves
<1>2. ASSUME NEW p \in Owner, NEW i \in HtlcIds, IsRemoved(h, g, p, i) PROVE ConsistentLog(g)
  BY <1>2, RemovalPreserves
<1>3. ASSUME NEW rate \in Rates, IsFeeUpdated(h, g, rate) PROVE ConsistentLog(g)
  BY <1>3, UpdateFeePreserves
<1>4. ASSUME NEW s \in Owner, IsSigned(h, g, s) PROVE ConsistentLog(g)
  BY <1>4, SignedPreserves
<1>5. ASSUME NEW s \in Owner, IsRevoked(h, g, s) PROVE ConsistentLog(g)
  BY <1>5, RevokedPreserves
<1>6. CASE IsReloaded(h, g)
  BY <1>6, ReloadPreserves
<1>7. CASE IsDiscarded(h, g)
  BY <1>7, DiscardPreserves
<1>8. CASE OnlyChanges(Aside, h, g)
  BY <1>8, AsidePreserves
<1>9. QED BY <1>1, <1>2, <1>3, <1>4, <1>5, <1>6, <1>7, <1>8 DEF IsCall

\* What is known of the cache gives what the comment about the cache claims.
LEMMA SoundCacheIsComplete ==
    ASSUME NEW h, ConsistentLog(h), NEW s \in Owner, NEW p \in Owner,
           NEW c \in h.ctn[s] .. next_ctn(h, s), NEW i \in Known(h, p),
           is_htlc_active_at_ctn(h, s, c, p, i)
    PROVE  i \in h.active[p]
<1> SUFFICES ASSUME i \notin h.active[p] PROVE FALSE
  OBVIOUS
<1>1. TypedLog(h) /\ SoundCache(h) /\ LogOK(h) /\ i \in HtlcIds
  BY TypedLogOK DEF ConsistentLog, Known
<1>2. h.ctn[s] \in Nat /\ c \in Int /\ h.ctn[s] <= c
  BY <1>1, CtnTypes
<1>3. h.settles[p][i] \in Entry /\ h.fails[p][i] \in Entry
  BY <1>1, EntryTypes
<1>4. ASSUME NEW e \in Entry, LongGone(h, e) PROVE InCtx(e, s, c)
  <2>1. e[s] # None /\ e[s] <= h.ctn[s] - 1 /\ e[s] \in Int
    BY <1>4 DEF LongGone, InCtx, Entry, Ctn, None
  <2>2. QED BY <1>2, <2>1 DEF InCtx
<1>5. LongGone(h, h.settles[p][i]) \/ LongGone(h, h.fails[p][i])
  BY <1>1 DEF SoundCache
<1>6. InCtx(h.settles[p][i], s, c) \/ InCtx(h.fails[p][i], s, c)
  BY <1>3, <1>4, <1>5
<1>7. QED BY <1>6 DEF is_htlc_active_at_ctn

-----------------------------------------------------------------------------
\* Only the cache is built again on a restart.
LEMMA ReloadEffect ==
    ASSUME NEW h, NEW g, TypedLog(h), IsReloaded(h, g)
    PROVE  OnlyChanges({"active", "delta"}, h, g)
<1> DEFINE m == [h EXCEPT !.active = [p \in Owner |-> Known(h, p)], !.delta = 0]
<1>1. OnlyChanges({"active", "delta"}, h, m) /\ DOMAIN m = Fields
  BY LogFieldsAre DEF OnlyChanges, Fields
<1>2. g = update_maybe_active_htlc_ids(m)
  BY DEF IsReloaded, init_maybe_active_htlc_ids
<1> HIDE DEF m
<1>3. OnlyChanges({"active", "delta"}, m, g)
  BY <1>1, <1>2, CacheEffect
<1>4. QED BY <1>1, <1>3 DEF OnlyChanges, Fields

(* The signed part of an entry stays as it is *)

\* An entry e that became c says the same of every ctx that is signed.
Frozen(m, e, c) ==
    \A s \in Owner :
        InCtx(e, s, ctn_latest(m, s)) \/ InCtx(c, s, ctn_latest(m, s)) => c[s] = e[s]

\* The htlc with entry e is in no ctx that is signed.
InNoSigned(m, e) == \A s \in Owner : ~InCtx(e, s, ctn_latest(m, s))

\* Nothing is Frozen so well as what stays.
LEMMA SameIsFrozen == ASSUME NEW m, NEW e PROVE Frozen(m, e, e)
  BY DEF Frozen

\* An update that is carried over, or is in one ctx more, is Frozen.
LEMMA GrownIsFrozen ==
    ASSUME NEW m, LogOK(m), NEW e \in Entry, NEW c, NEW f, Grown(m, e, c, f)
    PROVE  Frozen(m, e, c)
<1> SUFFICES ASSUME NEW s \in Owner, c[s] # e[s]
             PROVE  ~InCtx(e, s, ctn_latest(m, s)) /\ ~InCtx(c, s, ctn_latest(m, s))
  BY DEF Frozen
<1>1. e[s] = None /\ c[s] = next_ctn(m, s)
  BY DEF Grown
<1>2. ctn_latest(m, s) \in Nat /\ next_ctn(m, s) = ctn_latest(m, s) + 1
  BY CtnTypes
<1> QED BY <1>1, <1>2 DEF InCtx

\* A new update enters a ctx that is not signed.
LEMMA NewIsFrozen ==
    ASSUME NEW m, LogOK(m), NEW p \in Owner
    PROVE  Frozen(m, Absent, Entered(p, next_ctn(m, p)))
<1> SUFFICES ASSUME NEW s \in Owner
             PROVE  \/ ~InCtx(Absent, s, ctn_latest(m, s))
                       /\ ~InCtx(Entered(p, next_ctn(m, p)), s, ctn_latest(m, s))
                    \/ Entered(p, next_ctn(m, p))[s] = Absent[s]
  BY DEF Frozen
<1>1. Absent[s] = None
  BY DEF Absent
<1>2. ctn_latest(m, p) \in Nat /\ next_ctn(m, p) = ctn_latest(m, p) + 1
  BY CtnTypes
<1>3. CASE s = p
  <2>1. Entered(p, next_ctn(m, p))[s] = next_ctn(m, p)
    BY <1>2, <1>3, EntryFacts
  <2> QED BY <1>1, <1>2, <1>3, <2>1 DEF InCtx
<1>4. CASE s # p
  <2>1. Entered(p, next_ctn(m, p))[s] = None
    BY <1>2, <1>4, EntryFacts
  <2> QED BY <1>1, <2>1
<1> QED BY <1>3, <1>4

\* What Remote did not sign for is in no ctx that is signed, so it can be dropped.
LEMMA DroppedIsFrozen ==
    ASSUME NEW m, LogOK(m), NEW e \in Entry, EntryOK(m, e, Local), UnsignedByRemote(m, e)
    PROVE  InNoSigned(m, e) /\ Frozen(m, e, Absent)
<1>1. /\ Local \in Owner /\ Remote \in Owner /\ Other(Local) = Remote
      /\ \A s \in Owner : s = Local \/ s = Remote
  BY DEF Owner, Other
<1>2. /\ m.ctn[Local] \in Nat /\ ctn_latest(m, Local) \in Nat
      /\ ctn_latest(m, Local) >= m.ctn[Local]
      /\ e[Local] \in Int
  BY <1>1, CtnTypes DEF Entry, Ctn, None
<1>3. e[Local] > ctn_latest(m, Local) /\ e # Absent
  BY <1>1, <1>2 DEF UnsignedByRemote, Absent, None
<1>4. e[Remote] = None
  BY <1>1, <1>2, <1>3 DEF EntryOK
<1>5. InNoSigned(m, e)
  BY <1>1, <1>2, <1>3, <1>4 DEF InNoSigned, InCtx
<1>6. \A s \in Owner : ~InCtx(Absent, s, ctn_latest(m, s))
  BY DEF InCtx, Absent
<1> QED BY <1>5, <1>6 DEF Frozen, InNoSigned

-----------------------------------------------------------------------------
(* What each step does to the tables *)

CtnsGrow(h, g) == \A s \in Owner : h.ctn[s] <= g.ctn[s] /\ ctn_latest(h, s) <= ctn_latest(g, s)

EntriesFrozen(h, g) ==
    \A p \in Owner, i \in HtlcIds :
        /\ Frozen(h, h.locked[p][i], g.locked[p][i])
        /\ Frozen(h, h.settles[p][i], g.settles[p][i])
        /\ Frozen(h, h.fails[p][i], g.fails[p][i])
        /\ g.adds[p][i] = h.adds[p][i] \/ InNoSigned(h, h.locked[p][i])

\* Steps that leave the ctns alone
LEMMA SameCtnsGrow ==
    ASSUME NEW h, NEW g, ConsistentLog(h), g.ctn = h.ctn, g.revack = h.revack
    PROVE  CtnsGrow(h, g)
<1> SUFFICES ASSUME NEW s \in Owner PROVE h.ctn[s] <= h.ctn[s] /\ ctn_latest(h, s) <= ctn_latest(g, s)
  BY DEF CtnsGrow
<1>1. LogOK(h)
  BY TypedLogOK DEF ConsistentLog
<1>2. ctn_latest(g, s) = ctn_latest(h, s)
  BY DEF ctn_latest
<1> QED BY <1>1, <1>2, CtnTypes

\* A step that signs
LEMMA SigningCtnsGrow ==
    ASSUME NEW h, NEW g, ConsistentLog(h), LogOK(g), g.ctn = h.ctn, \A s \in Owner : h.revack[s] => g.revack[s]
    PROVE  CtnsGrow(h, g)
<1> SUFFICES ASSUME NEW s \in Owner
             PROVE  h.ctn[s] <= h.ctn[s] /\ ctn_latest(h, s) <= ctn_latest(g, s)
  BY DEF CtnsGrow
<1>1. LogOK(h)
  BY TypedLogOK DEF ConsistentLog
<1>2. /\ h.ctn[s] \in Nat
      /\ ctn_latest(h, s) = IF h.revack[s] THEN h.ctn[s] + 1 ELSE h.ctn[s]
      /\ ctn_latest(g, s) = IF g.revack[s] THEN h.ctn[s] + 1 ELSE h.ctn[s]
  BY <1>1, CtnTypes
<1> QED BY <1>2

\* The tables may stay as they are.
LEMMA SameTablesFrozen ==
    ASSUME NEW h, NEW g, g.adds = h.adds, g.locked = h.locked, g.settles = h.settles, g.fails = h.fails
    PROVE  EntriesFrozen(h, g)
  BY SameIsFrozen DEF EntriesFrozen

\* send_htlc and recv_htlc take an id that had no entry.
LEMMA AddHtlcFreezes ==
    ASSUME NEW h, NEW g, ConsistentLog(h), NEW p \in Owner, NEW amount, IsAdded(h, g, p, amount)
    PROVE  CtnsGrow(h, g) /\ EntriesFrozen(h, g)
<1> DEFINE id == h.next[p]
           s  == Other(p)
           e  == Entered(s, next_ctn(h, s))
<1>1. TypedLog(h) /\ ContiguousIds(h) /\ LogOK(h) /\ s \in Owner
  BY TypedLogOK, EntryFacts DEF ConsistentLog
<1>2. /\ OnlyChanges({"next", "adds", "locked", "active"} \cup Aside, h, g)
      /\ g.adds = [h.adds EXCEPT ![p][id] = amount]
      /\ g.locked = [h.locked EXCEPT ![p][id] = e]
      /\ id \in HtlcIds
  BY DEF IsAdded
<1> HIDE DEF id
<1>3. g.ctn = h.ctn /\ g.revack = h.revack /\ g.settles = h.settles /\ g.fails = h.fails
  BY <1>2 DEF OnlyChanges, Fields, Aside
<1>4. h.locked[p][id] = Absent
  <2>1. ~(id < h.next[p])
    BY <1>1 DEF id, TypedLog
  <2> QED BY <1>1, <1>2, <2>1 DEF ContiguousIds
<1>5. Frozen(h, Absent, e)
  BY <1>1, NewIsFrozen
<1> HIDE DEF e
<1>6. EntriesFrozen(h, g)
  <2> SUFFICES ASSUME NEW q \in Owner, NEW i \in HtlcIds
               PROVE  /\ Frozen(h, h.locked[q][i], g.locked[q][i])
                      /\ g.adds[q][i] = h.adds[q][i] \/ InNoSigned(h, h.locked[q][i])
    BY <1>3, SameIsFrozen DEF EntriesFrozen
  <2>1. h.locked \in [Owner -> [HtlcIds -> Entry]] /\ h.adds \in [Owner -> [HtlcIds -> Amounts \cup {0}]]
    BY <1>1 DEF TypedLog
  <2>2. CASE q = p /\ i = id
    <3>1. g.locked[q][i] = e
      BY <1>2, <2>1, <2>2
    <3>2. InNoSigned(h, Absent)
      BY DEF InNoSigned, InCtx, Absent
    <3> QED BY <1>4, <1>5, <2>2, <3>1, <3>2
  <2>3. CASE ~(q = p /\ i = id)
    <3>1. g.locked[q][i] = h.locked[q][i] /\ g.adds[q][i] = h.adds[q][i]
      BY <1>2, <2>1, <2>3
    <3> QED BY <3>1, SameIsFrozen
  <2> QED BY <2>2, <2>3
<1> QED BY <1>3, <1>6, SameCtnsGrow

\* send_settle, recv_settle, send_fail and recv_fail, which enter `e' into a table
LEMMA RemovalFreezes ==
    ASSUME NEW h, NEW g, ConsistentLog(h), NEW p \in Owner, NEW id \in HtlcIds,
           IsRemoved(h, g, p, id)
    PROVE  CtnsGrow(h, g) /\ EntriesFrozen(h, g)
<1> SUFFICES ASSUME NEW e, e = Entered(p, next_ctn(h, p)),
                    \/ g.settles = [h.settles EXCEPT ![p][id] = e] /\ g.fails = h.fails
                    \/ g.settles = h.settles /\ g.fails = [h.fails EXCEPT ![p][id] = e]
             PROVE  CtnsGrow(h, g) /\ EntriesFrozen(h, g)
  BY DEF IsRemoved, IsSettled, IsFailed, OnlyChanges, Fields, Aside
<1>1. TypedLog(h) /\ LogOK(h)
  BY TypedLogOK DEF ConsistentLog
<1>2. g.ctn = h.ctn /\ g.revack = h.revack /\ g.locked = h.locked /\ g.adds = h.adds
  BY DEF IsRemoved, IsSettled, IsFailed, OnlyChanges, Fields, Aside
<1>3. h.settles[p][id] = Absent /\ h.fails[p][id] = Absent
  BY RemovableFacts DEF IsRemoved, IsSettled, IsFailed
<1>4. Frozen(h, Absent, e)
  BY <1>1, NewIsFrozen
<1>5. EntriesFrozen(h, g)
  <2> SUFFICES ASSUME NEW q \in Owner, NEW i \in HtlcIds
               PROVE  /\ Frozen(h, h.settles[q][i], g.settles[q][i])
                      /\ Frozen(h, h.fails[q][i], g.fails[q][i])
    BY <1>2, SameIsFrozen DEF EntriesFrozen
  <2>1. h.settles \in [Owner -> [HtlcIds -> Entry]] /\ h.fails \in [Owner -> [HtlcIds -> Entry]]
    BY <1>1 DEF TypedLog
  <2>2. /\ g.settles[q][i] = h.settles[q][i] \/ (h.settles[q][i] = Absent /\ g.settles[q][i] = e)
        /\ g.fails[q][i] = h.fails[q][i] \/ (h.fails[q][i] = Absent /\ g.fails[q][i] = e)
    <3>1. CASE q = p /\ i = id
      BY <1>3, <2>1, <3>1
    <3>2. CASE ~(q = p /\ i = id)
      BY <2>1, <3>2
    <3> QED BY <3>1, <3>2
  <2> QED BY <1>4, <2>2, SameIsFrozen
<1> QED BY <1>2, <1>5, SameCtnsGrow

\* send_rev and recv_rev carry entries over to a ctx that is not signed.
LEMMA RevokedFreezes ==
    ASSUME NEW h, NEW g, ConsistentLog(h), NEW s \in Owner, IsRevoked(h, g, s)
    PROVE  CtnsGrow(h, g) /\ EntriesFrozen(h, g)
<1> DEFINE n == Revoked(h, s)
<1>1. TypedLog(h) /\ LogOK(h) /\ can_revoke(h, s)
  BY TypedLogOK DEF ConsistentLog, IsRevoked
<1>2. /\ CtnMoved(h, n, s)
      /\ \A f \in {"next", "adds", "initiator", "unacked", "revokeLast"} : n[f] = h[f]
  BY <1>1, RevokedEffect
<1>3. \A q \in Owner, i \in HtlcIds :
          /\ Grown(h, h.locked[q][i], n.locked[q][i], Other(q))
          /\ Grown(h, h.settles[q][i], n.settles[q][i], q)
          /\ Grown(h, h.fails[q][i], n.fails[q][i], q)
  BY <1>1, RevokedEntries
<1> HIDE DEF n
<1>4. /\ g.ctn = n.ctn /\ g.revack = n.revack /\ g.adds = n.adds
      /\ g.locked = n.locked /\ g.settles = n.settles /\ g.fails = n.fails
  BY DEF IsRevoked, OnlyChanges, Fields, Aside, n
<1>5. CtnsGrow(h, g)
  <2> SUFFICES ASSUME NEW t \in Owner
               PROVE  h.ctn[t] <= g.ctn[t] /\ ctn_latest(h, t) <= ctn_latest(g, t)
    BY DEF CtnsGrow
  <2>1. CtnMoved(h, g, s)
    BY <1>2, <1>4 DEF CtnMoved
  <2>2. /\ g.ctn[s] = h.ctn[s] + 1 /\ g.ctn[Other(s)] = h.ctn[Other(s)]
        /\ ctn_latest(g, t) = ctn_latest(h, t)
    BY <1>1, <2>1, CtnMovedFacts
  <2>3. h.ctn[t] \in Nat /\ ctn_latest(h, t) \in Nat /\ (t = s \/ t = Other(s))
    BY <1>1, CtnTypes, EntryFacts
  <2> QED BY <2>2, <2>3
<1>6. EntriesFrozen(h, g)
  <2> SUFFICES ASSUME NEW q \in Owner, NEW i \in HtlcIds
               PROVE  /\ Frozen(h, h.locked[q][i], n.locked[q][i])
                      /\ Frozen(h, h.settles[q][i], n.settles[q][i])
                      /\ Frozen(h, h.fails[q][i], n.fails[q][i])
                      /\ n.adds[q][i] = h.adds[q][i]
    BY <1>4 DEF EntriesFrozen
  <2>1. h.locked[q][i] \in Entry /\ h.settles[q][i] \in Entry /\ h.fails[q][i] \in Entry
    BY <1>1, EntryTypes
  <2> QED BY <1>1, <1>2, <1>3, <2>1, GrownIsFrozen
<1> QED BY <1>5, <1>6

\* discard_unsigned_remote_updates drops what is in no ctx that is signed.
LEMMA DiscardFreezes ==
    ASSUME NEW h, NEW g, ConsistentLog(h), IsDiscarded(h, g)
    PROVE  CtnsGrow(h, g) /\ EntriesFrozen(h, g)
<1>1. TypedLog(h) /\ LogOK(h) /\ OrderedEntries(h)
  BY TypedLogOK DEF ConsistentLog
<1> DEFINE U(e) == UnsignedByRemote(h, e)
           dropped == DroppedIds(h)
           Signed(table) == [i \in HtlcIds |-> IF U(table[i]) THEN Absent ELSE table[i]]
           addsRow == [i \in HtlcIds |-> IF i \in dropped THEN 0 ELSE h.adds[Remote][i]]
<1>2. /\ OnlyChanges({"next", "adds", "locked", "settles", "fails", "active", "fees"}, h, g)
      /\ g.adds = [h.adds EXCEPT ![Remote] = addsRow]
      /\ g.locked = [h.locked EXCEPT ![Remote] = Signed(h.locked[Remote])]
      /\ g.settles = [h.settles EXCEPT ![Local] = Signed(h.settles[Local])]
      /\ g.fails = [h.fails EXCEPT ![Local] = Signed(h.fails[Local])]
  BY <1>1, DiscardEffect
<1>3. g.ctn = h.ctn /\ g.revack = h.revack
  BY <1>2 DEF OnlyChanges, Fields
<1>4. ASSUME NEW e \in Entry, EntryOK(h, e, Local), U(e)
      PROVE  InNoSigned(h, e) /\ Frozen(h, e, Absent)
  BY <1>1, <1>4, DroppedIsFrozen
<1>5. /\ h.locked \in [Owner -> [HtlcIds -> Entry]]
      /\ h.settles \in [Owner -> [HtlcIds -> Entry]]
      /\ h.fails \in [Owner -> [HtlcIds -> Entry]]
      /\ h.adds \in [Owner -> [HtlcIds -> Amounts \cup {0}]]
  BY <1>1 DEF TypedLog
<1>6. ASSUME NEW q \in Owner, NEW i \in HtlcIds
      PROVE  /\ Frozen(h, h.locked[q][i], g.locked[q][i])
             /\ Frozen(h, h.settles[q][i], g.settles[q][i])
             /\ Frozen(h, h.fails[q][i], g.fails[q][i])
             /\ g.adds[q][i] = h.adds[q][i] \/ InNoSigned(h, h.locked[q][i])
  <2>1. /\ h.locked[q][i] \in Entry /\ EntryOK(h, h.locked[q][i], Other(q))
        /\ h.settles[q][i] \in Entry /\ EntryOK(h, h.settles[q][i], q)
        /\ h.fails[q][i] \in Entry /\ EntryOK(h, h.fails[q][i], q)
    BY <1>1, EntryTypes DEF OrderedEntries
  <2>2. Local # Remote /\ Other(Remote) = Local /\ q \in {Local, Remote}
    BY DEF Owner, Other, Local, Remote
  <2>3. CASE q = Local
    <3>1. g.locked[q][i] = h.locked[q][i] /\ g.adds[q][i] = h.adds[q][i]
      BY <1>2, <1>5, <2>2, <2>3
    <3>2. /\ g.settles[q][i] = IF U(h.settles[q][i]) THEN Absent ELSE h.settles[q][i]
          /\ g.fails[q][i] = IF U(h.fails[q][i]) THEN Absent ELSE h.fails[q][i]
      BY <1>2, <1>5, <2>3
    <3> QED BY <1>4, <2>1, <2>3, <3>1, <3>2, SameIsFrozen
  <2>4. CASE q = Remote
    <3>1. g.settles[q][i] = h.settles[q][i] /\ g.fails[q][i] = h.fails[q][i]
      BY <1>2, <1>5, <2>2, <2>4
    <3>2. /\ g.locked[q][i] = IF U(h.locked[q][i]) THEN Absent ELSE h.locked[q][i]
          /\ g.adds[q][i] = IF i \in dropped THEN 0 ELSE h.adds[q][i]
      BY <1>2, <1>5, <2>4
    <3>3. i \in dropped => U(h.locked[q][i])
      BY <2>4 DEF DroppedIds
    <3>4. U(h.locked[q][i]) => InNoSigned(h, h.locked[q][i]) /\ Frozen(h, h.locked[q][i], Absent)
      BY <1>4, <2>1, <2>2, <2>4
    <3> QED BY <3>1, <3>2, <3>3, <3>4, SameIsFrozen
  <2> QED BY <2>2, <2>3, <2>4
<1>7. EntriesFrozen(h, g)
  BY <1>6 DEF EntriesFrozen
<1> QED BY <1>3, <1>7, SameCtnsGrow

\* Whatever is called, of the ctxs that are signed the log says what it said.
LEMMA CallFreezes ==
    ASSUME NEW h, NEW g, ConsistentLog(h), IsCall(h, g)
    PROVE  CtnsGrow(h, g) /\ EntriesFrozen(h, g)
<1>1. ASSUME NEW p \in Owner, NEW amount, IsAdded(h, g, p, amount)
      PROVE  CtnsGrow(h, g) /\ EntriesFrozen(h, g)
  BY <1>1, AddHtlcFreezes
<1>2. ASSUME NEW p \in Owner, NEW i \in HtlcIds, IsRemoved(h, g, p, i)
      PROVE  CtnsGrow(h, g) /\ EntriesFrozen(h, g)
  BY <1>2, RemovalFreezes
<1>3. ASSUME \/ \E rate \in Rates : IsFeeUpdated(h, g, rate)
             \/ OnlyChanges(Aside, h, g) \/ IsReloaded(h, g)
      PROVE  CtnsGrow(h, g) /\ EntriesFrozen(h, g)
  <2>1. /\ g.ctn = h.ctn /\ g.revack = h.revack /\ g.adds = h.adds
        /\ g.locked = h.locked /\ g.settles = h.settles /\ g.fails = h.fails
    <3>1. CASE IsReloaded(h, g)
      BY <3>1, ReloadEffect DEF ConsistentLog, OnlyChanges, Fields
    <3>2. CASE \/ \E rate \in Rates : IsFeeUpdated(h, g, rate)
               \/ OnlyChanges(Aside, h, g)
      BY <3>2 DEF IsFeeUpdated, OnlyChanges, Fields, Aside
    <3> QED BY <1>3, <3>1, <3>2
  <2> QED BY <2>1, SameCtnsGrow, SameTablesFrozen
<1>4. ASSUME NEW s \in Owner, IsSigned(h, g, s)
      PROVE  CtnsGrow(h, g) /\ EntriesFrozen(h, g)
  <2>1. /\ g.ctn = h.ctn /\ g.revack = [h.revack EXCEPT ![s] = TRUE] /\ g.adds = h.adds
        /\ g.locked = h.locked /\ g.settles = h.settles /\ g.fails = h.fails
    BY <1>4 DEF IsSigned, OnlyChanges, Fields, Aside
  <2>2. LogOK(h) /\ LogOK(g)
    BY <1>4, TypedLogOK, SignedPreserves DEF ConsistentLog
  <2>3. \A t \in Owner : h.revack[t] => g.revack[t]
    BY <2>1, <2>2 DEF LogOK
  <2> QED BY <2>1, <2>2, <2>3, SigningCtnsGrow, SameTablesFrozen
<1>5. ASSUME NEW s \in Owner, IsRevoked(h, g, s)
      PROVE  CtnsGrow(h, g) /\ EntriesFrozen(h, g)
  BY <1>5, RevokedFreezes
<1>6. CASE IsDiscarded(h, g)
  BY <1>6, DiscardFreezes
<1>7. QED BY <1>1, <1>2, <1>3, <1>4, <1>5, <1>6 DEF IsCall

-----------------------------------------------------------------------------
(* What is signed is final *)

\* An htlc is active in a ctx that is signed iff it was.
LEMMA ActiveIsFinal ==
    ASSUME NEW h, NEW g, ConsistentLog(h), ConsistentLog(g), CtnsGrow(h, g), EntriesFrozen(h, g), NEW s \in Owner, NEW c \in 0 .. ctn_latest(h, s),
           NEW p \in Owner, NEW i \in HtlcIds
    PROVE  /\ is_htlc_active_at_ctn(g, s, c, p, i) <=> is_htlc_active_at_ctn(h, s, c, p, i)
           /\ is_htlc_active_at_ctn(h, s, c, p, i) => g.adds[p][i] = h.adds[p][i]
<1>1. /\ TypedLog(h) /\ TypedLog(g) /\ LogOK(h) /\ ContiguousIds(h) /\ ContiguousIds(g)
  BY TypedLogOK DEF ConsistentLog
<1>2. /\ h.locked[p][i] \in Entry /\ h.settles[p][i] \in Entry /\ h.fails[p][i] \in Entry
      /\ g.locked[p][i] \in Entry /\ g.settles[p][i] \in Entry /\ g.fails[p][i] \in Entry
  BY <1>1 DEF TypedLog
<1>3. c \in Int /\ ctn_latest(h, s) \in Nat /\ c <= ctn_latest(h, s)
  BY <1>1, CtnTypes
<1>4. ASSUME NEW e \in Entry, NEW d \in Entry, Frozen(h, e, d)
      PROVE  InCtx(d, s, c) <=> InCtx(e, s, c)
  <2>1. e[s] \in Int /\ d[s] \in Int
    BY DEF Entry, Ctn, None
  <2> QED BY <1>3, <1>4, <2>1 DEF Frozen, InCtx
<1>5. /\ InCtx(g.locked[p][i], s, c) <=> InCtx(h.locked[p][i], s, c)
      /\ InCtx(g.settles[p][i], s, c) <=> InCtx(h.settles[p][i], s, c)
      /\ InCtx(g.fails[p][i], s, c) <=> InCtx(h.fails[p][i], s, c)
  BY <1>2, <1>4 DEF EntriesFrozen
<1>6. /\ InCtx(h.locked[p][i], s, c) => i < h.next[p]
      /\ InCtx(g.locked[p][i], s, c) => i < g.next[p]
  <2>1. ~InCtx(Absent, s, c)
    BY DEF InCtx, Absent
  <2> QED BY <1>1, <2>1 DEF ContiguousIds
<1>7. InCtx(h.locked[p][i], s, c) => ~InNoSigned(h, h.locked[p][i])
  <2>1. h.locked[p][i][s] \in Int
    BY <1>2 DEF Entry, Ctn, None
  <2> QED BY <1>3, <2>1 DEF InNoSigned, InCtx
<1> QED BY <1>5, <1>6, <1>7 DEF is_htlc_active_at_ctn, EntriesFrozen

\* htlcs_by_proposer finds in the cache what it would find in the whole log.
CacheIsEnough(h) ==
    \A s, p \in Owner : \A c \in 0 .. next_ctn(h, s) :
        htlcs_by_proposer(h, s, c, p) = {i \in HtlcIds : is_htlc_active_at_ctn(h, s, c, p, i)}

LEMMA CacheSuffices ==
    ASSUME NEW h, ConsistentLog(h)
    PROVE  CacheIsEnough(h)
<1> SUFFICES ASSUME NEW s \in Owner, NEW p \in Owner, NEW c \in 0 .. next_ctn(h, s)
             PROVE  htlcs_by_proposer(h, s, c, p) =
                        {i \in HtlcIds : is_htlc_active_at_ctn(h, s, c, p, i)}
  BY DEF CacheIsEnough
<1>1. ContiguousIds(h) /\ SoundCache(h) /\ LogOK(h)
  BY TypedLogOK DEF ConsistentLog
<1>2. Known(h, p) \subseteq HtlcIds /\ h.active[p] \subseteq HtlcIds
  BY <1>1 DEF Known, SoundCache
<1>3. \A i \in HtlcIds : is_htlc_active_at_ctn(h, s, c, p, i) => i \in Known(h, p)
  BY <1>1 DEF is_htlc_active_at_ctn, ContiguousIds, Known
<1>4. h.ctn[s] \in Nat /\ next_ctn(h, s) \in Nat
  BY <1>1, CtnTypes
<1>5. CASE c >= h.ctn[s]
  <2>1. c \in h.ctn[s] .. next_ctn(h, s)
    BY <1>4, <1>5
  <2>2. \A i \in Known(h, p) : is_htlc_active_at_ctn(h, s, c, p, i) => i \in h.active[p]
    BY <2>1, SoundCacheIsComplete
  <2> QED BY <1>2, <1>3, <1>5, <2>2 DEF htlcs_by_proposer, considered_htlc_ids
<1>6. CASE ~(c >= h.ctn[s])
  BY <1>2, <1>3, <1>6 DEF htlcs_by_proposer, considered_htlc_ids
<1> QED BY <1>5, <1>6

SignedHtlcsStay(h, g) ==
    \A s \in Owner : \A c \in 0 .. ctn_latest(h, s) : htlcs(g, s, c) = htlcs(h, s, c)

LEMMA SignedHtlcsFinal ==
    ASSUME NEW h, NEW g, ConsistentLog(h), ConsistentLog(g), CtnsGrow(h, g), EntriesFrozen(h, g)
    PROVE  SignedHtlcsStay(h, g)
<1> SUFFICES ASSUME NEW s \in Owner, NEW c \in 0 .. ctn_latest(h, s)
             PROVE  htlcs(g, s, c) = htlcs(h, s, c)
  BY DEF SignedHtlcsStay
<1>2. LogOK(h) /\ LogOK(g)
  BY TypedLogOK DEF ConsistentLog, TypedLog, LogOK
<1>3. c \in 0 .. next_ctn(h, s) /\ c \in 0 .. next_ctn(g, s)
  <2>1. /\ ctn_latest(h, s) \in Nat /\ next_ctn(h, s) = ctn_latest(h, s) + 1
        /\ ctn_latest(g, s) \in Nat /\ next_ctn(g, s) = ctn_latest(g, s) + 1
        /\ ctn_latest(h, s) <= ctn_latest(g, s)
    BY <1>2, CtnTypes DEF CtnsGrow
  <2> QED BY <2>1
<1>4. ASSUME NEW p \in Owner
      PROVE  /\ htlcs_by_proposer(g, s, c, p) = htlcs_by_proposer(h, s, c, p)
             /\ \A i \in htlcs_by_proposer(h, s, c, p) : g.adds[p][i] = h.adds[p][i]
  <2>1. /\ htlcs_by_proposer(h, s, c, p) = {i \in HtlcIds : is_htlc_active_at_ctn(h, s, c, p, i)}
        /\ htlcs_by_proposer(g, s, c, p) = {i \in HtlcIds : is_htlc_active_at_ctn(g, s, c, p, i)}
    BY <1>3, CacheSuffices DEF CacheIsEnough
  <2>2. \A i \in HtlcIds :
            /\ is_htlc_active_at_ctn(g, s, c, p, i) <=> is_htlc_active_at_ctn(h, s, c, p, i)
            /\ is_htlc_active_at_ctn(h, s, c, p, i) => g.adds[p][i] = h.adds[p][i]
    BY ActiveIsFinal
  <2> QED BY <2>1, <2>2
<1>5. ASSUME NEW p \in Owner
      PROVE  {<<i, g.adds[p][i]>> : i \in htlcs_by_proposer(g, s, c, p)} =
             {<<i, h.adds[p][i]>> : i \in htlcs_by_proposer(h, s, c, p)}
  BY <1>4
<1> QED BY <1>5 DEF htlcs

\* In each ctx, an htlc that is irrevocably removed left it with its one removal.
RemovedByEntry(h) ==
    \A s, p \in Owner, i \in HtlcIds :
        irrevocably_removed(h, s, p, i) <=>
            InCtx(h.settles[p][i], s, h.ctn[s]) \/ InCtx(h.fails[p][i], s, h.ctn[s])

LEMMA RemovedWhen ==
    ASSUME NEW h, ConsistentLog(h)
    PROVE  RemovedByEntry(h)
<1> SUFFICES ASSUME NEW s \in Owner, NEW p \in Owner, NEW i \in HtlcIds
             PROVE  irrevocably_removed(h, s, p, i) <=>
                        InCtx(h.settles[p][i], s, h.ctn[s]) \/ InCtx(h.fails[p][i], s, h.ctn[s])
  BY DEF RemovedByEntry
<1>1. TypedLog(h) /\ ContiguousIds(h) /\ OrderedEntries(h) /\ RemovedOnce(h)
  BY DEF ConsistentLog
<1>2. h.settles[p][i] \in Entry /\ h.fails[p][i] \in Entry /\ h.next[p] \in Nat /\ i \in Nat
  BY <1>1, EntryTypes
<1>3. ASSUME NEW e \in Entry, EntryOK(h, e, p) PROVE e[s] # 0
  <2>1. s = p \/ s = Other(p)
    BY EntryFacts
  <2>2. e = Absent => e[s] # 0
    BY DEF Absent, None
  <2>3. \A t \in Owner : next_ctn(h, t) \in Nat
    BY <1>1, TypedLogOK, CtnTypes
  <2> QED BY <1>3, <2>1, <2>2, <2>3 DEF EntryOK
<1>4. h.settles[p][i][s] # 0 /\ h.fails[p][i][s] # 0
  BY <1>1, <1>2, <1>3 DEF OrderedEntries
<1>5. h.settles[p][i][s] = None \/ h.fails[p][i][s] = None
  BY <1>1 DEF RemovedOnce, Absent
<1>6. InCtx(h.settles[p][i], s, h.ctn[s]) \/ InCtx(h.fails[p][i], s, h.ctn[s]) => i < h.next[p]
  <2>1. ~InCtx(Absent, s, h.ctn[s])
    BY DEF InCtx, Absent
  <2> QED BY <1>1, <1>2, <2>1 DEF ContiguousIds
<1> QED BY <1>4, <1>5, <1>6 DEF irrevocably_removed, InCtx

\* What is in a ctx that is revoked stays there.
LEMMA RevokedStays ==
    ASSUME NEW h, NEW g, ConsistentLog(h), ConsistentLog(g), CtnsGrow(h, g), NEW s \in Owner, NEW e \in Entry, NEW d \in Entry,
           Frozen(h, e, d), InCtx(e, s, h.ctn[s])
    PROVE  InCtx(d, s, g.ctn[s])
<1>1. LogOK(h) /\ LogOK(g)
  BY TypedLogOK DEF ConsistentLog, TypedLog, LogOK
<1>2. /\ h.ctn[s] \in Nat /\ g.ctn[s] \in Nat /\ h.ctn[s] <= g.ctn[s]
      /\ ctn_latest(h, s) \in Nat /\ h.ctn[s] <= ctn_latest(h, s)
      /\ e[s] \in Int
  BY <1>1, CtnTypes DEF CtnsGrow, Entry, Ctn, None
<1> QED BY <1>2 DEF Frozen, InCtx

IrrevocableStays(h, g) ==
    \A p \in Owner, i \in HtlcIds :
        /\ is_htlc_irrevocably_added_yet(h, p, i) => is_htlc_irrevocably_added_yet(g, p, i)
        /\ is_htlc_irrevocably_removed_yet(h, p, i) => is_htlc_irrevocably_removed_yet(g, p, i)

LEMMA IrrevocableIsFinal ==
    ASSUME NEW h, NEW g, ConsistentLog(h), ConsistentLog(g), CtnsGrow(h, g), EntriesFrozen(h, g)
    PROVE  IrrevocableStays(h, g)
<1> SUFFICES ASSUME NEW p \in Owner, NEW i \in HtlcIds, NEW s \in Owner
             PROVE  /\ irrevocably_added(h, s, p, i) => irrevocably_added(g, s, p, i)
                    /\ irrevocably_removed(h, s, p, i) => irrevocably_removed(g, s, p, i)
  BY DEF IrrevocableStays, is_htlc_irrevocably_added_yet, is_htlc_irrevocably_removed_yet
<1>2. TypedLog(h) /\ TypedLog(g) /\ ContiguousIds(g)
  BY DEF ConsistentLog
<1>3. /\ h.locked[p][i] \in Entry /\ h.settles[p][i] \in Entry /\ h.fails[p][i] \in Entry
      /\ g.locked[p][i] \in Entry /\ g.settles[p][i] \in Entry /\ g.fails[p][i] \in Entry
  BY <1>2 DEF TypedLog
<1>4. /\ InCtx(h.locked[p][i], s, h.ctn[s]) => InCtx(g.locked[p][i], s, g.ctn[s])
      /\ InCtx(h.settles[p][i], s, h.ctn[s]) => InCtx(g.settles[p][i], s, g.ctn[s])
      /\ InCtx(h.fails[p][i], s, h.ctn[s]) => InCtx(g.fails[p][i], s, g.ctn[s])
  BY <1>3, RevokedStays DEF EntriesFrozen
<1>5. InCtx(g.locked[p][i], s, g.ctn[s]) => i < g.next[p]
  <2>1. ~InCtx(Absent, s, g.ctn[s])
    BY DEF InCtx, Absent
  <2> QED BY <1>2, <2>1 DEF ContiguousIds
<1>6. irrevocably_added(h, s, p, i) => irrevocably_added(g, s, p, i)
  BY <1>4, <1>5 DEF irrevocably_added
<1>7. irrevocably_removed(h, s, p, i) => irrevocably_removed(g, s, p, i)
  BY <1>4, RemovedWhen DEF RemovedByEntry
<1> QED BY <1>6, <1>7

-----------------------------------------------------------------------------
(* Balances *)

\* The amounts of HTLCManager are sums.
LEMMA AmountIsTotal == \A m, p, ids : AmountOf(m, p, ids) = Total(m.adds[p], ids)
  BY DEF AmountOf, MapThenSumSet, MapThenFoldSet, Total, First

\* The settled htlcs that are in no cache, and so in no sum over it
Uncached(m, p) == {i \in Known(m, p) \ m.active[p] : LongGone(m, m.settles[p][i])}

\* _balance_delta stands for them.
DeltaOf(m, S) == AmountOf(m, Remote, S[Remote]) - AmountOf(m, Local, S[Local])
ExactDelta(h) == h.delta = DeltaOf(h, [p \in Owner |-> Uncached(h, p)])

\* What _balance_delta should be, as sums
LEMMA DeltaIsTotal ==
    ASSUME NEW m, NEW S
    PROVE  DeltaOf(m, S) = Total(m.adds[Remote], S[Remote]) - Total(m.adds[Local], S[Local])
  BY AmountIsTotal DEF DeltaOf

\* What the log sums up is finite, although its ids need not be.
LEMMA KnownTotals ==
    ASSUME NEW h, ConsistentLog(h), NEW p \in Owner, NEW S \in SUBSET Known(h, p)
    PROVE  OfInts(h.adds[p], S) /\ Total(h.adds[p], S) \in Int
<1>1. TypedLog(h) /\ ContiguousIds(h)
  BY DEF ConsistentLog
<1>2. h.next[p] \in Nat /\ h.adds[p] \in [HtlcIds -> Amounts \cup {0}]
  BY <1>1 DEF TypedLog
<1>3. S \subseteq HtlcIds /\ S \subseteq 0 .. h.next[p]
  BY <1>1, <1>2, HtlcIdsAssumption DEF Known, ContiguousIds
<1>4. IsFiniteSet(S)
  <2>1. IsFiniteSet(0 .. h.next[p])
    BY <1>2, FS_Interval
  <2> QED BY <1>3, <2>1, FS_Subset
<1>5. \A i \in S : h.adds[p][i] \in Int
  <2>1. \A a \in Amounts \cup {0} : a \in Int
    BY AmountsAssumption
  <2> QED BY <1>2, <1>3, <2>1
<1>6. OfInts(h.adds[p], S)
  BY <1>4, <1>5 DEF OfInts
<1> QED BY <1>6, TotalSplit

\* A settled htlc that is not cached is Uncached, so it is in every ctx's balance.
LEMMA UncachedIsSettled ==
    ASSUME NEW h, ConsistentLog(h), NEW p \in Owner, NEW i \in Known(h, p) \ h.active[p], h.settles[p][i] # Absent
    PROVE  LongGone(h, h.settles[p][i])
<1>1. SoundCache(h) /\ RemovedOnce(h) /\ i \in HtlcIds
  BY DEF ConsistentLog, Known
<1>2. h.fails[p][i] = Absent
  BY <1>1 DEF RemovedOnce
<1>3. ~LongGone(h, Absent)
  BY DEF LongGone, InCtx, Absent, Owner
<1> QED BY <1>1, <1>2, <1>3 DEF SoundCache

\* The sum over the log is that over the cache and of what is Uncached.
LEMMA MovedIsSplit ==
    ASSUME NEW h, ConsistentLog(h), NEW s \in Owner, NEW c \in h.ctn[s] .. next_ctn(h, s), NEW p \in Owner
    PROVE  /\ SettledIn(h, s, c, p, Known(h, p)) \in SUBSET Known(h, p)
           /\ AmountOf(h, p, SettledIn(h, s, c, p, Known(h, p)))
                = AmountOf(h, p, SettledIn(h, s, c, p, h.active[p])) + AmountOf(h, p, Uncached(h, p))
<1> DEFINE all == SettledIn(h, s, c, p, Known(h, p))
           some == SettledIn(h, s, c, p, h.active[p])
           rest == Uncached(h, p)
<1>1. TypedLog(h) /\ SoundCache(h) /\ LogOK(h)
  BY TypedLogOK DEF ConsistentLog
<1>2. h.active[p] \subseteq Known(h, p) /\ Known(h, p) \subseteq HtlcIds
  BY <1>1 DEF SoundCache, Known
<1>3. c \in Int /\ h.ctn[s] \in Nat /\ h.ctn[s] <= c
  BY <1>1, CtnTypes
<1>4. ASSUME NEW i \in HtlcIds, InCtx(h.settles[p][i], s, c)
      PROVE  h.settles[p][i] # Absent
  BY <1>4 DEF InCtx, Absent
<1>5. ASSUME NEW i \in HtlcIds, LongGone(h, h.settles[p][i])
      PROVE  InCtx(h.settles[p][i], s, c)
  <2>1. h.settles[p][i] \in Entry
    BY <1>1, EntryTypes
  <2>2. h.settles[p][i][s] \in Int
    BY <2>1 DEF Entry, Ctn, None
  <2> QED BY <1>3, <1>5, <2>2 DEF LongGone, InCtx
<1>6. all = some \cup rest /\ some \cap rest = {}
  <2>1. ASSUME NEW i \in all PROVE i \in some \cup rest
    <3>1. i \in HtlcIds /\ i \in Known(h, p) /\ InCtx(h.settles[p][i], s, c)
      BY <1>2 DEF SettledIn
    <3>2. i \notin h.active[p] => LongGone(h, h.settles[p][i])
      BY <1>4, <3>1, UncachedIsSettled
    <3> QED BY <3>1, <3>2 DEF SettledIn, Uncached
  <2>2. some \subseteq all /\ some \cap rest = {}
    BY <1>2 DEF SettledIn, Uncached
  <2>3. rest \subseteq all
    BY <1>2, <1>5 DEF SettledIn, Uncached
  <2> QED BY <2>1, <2>2, <2>3
<1>7. all \in SUBSET Known(h, p)
  BY DEF SettledIn
<1> HIDE DEF all, some, rest
<1>8. OfInts(h.adds[p], some) /\ OfInts(h.adds[p], rest)
  BY <1>6, <1>7, KnownTotals
<1>9. Total(h.adds[p], all) = Total(h.adds[p], some) + Total(h.adds[p], rest)
  BY <1>6, <1>8, TotalUnion
<1>10. all \in SUBSET Known(h, p) /\ AmountOf(h, p, all) = AmountOf(h, p, some) + AmountOf(h, p, rest)
  BY <1>7, <1>9, AmountIsTotal
<1> QED BY <1>10 DEF all, some, rest

\* What a ctx's balance is by the whole log
BalanceOf(m, whose, s, c) ==
    LET Moved(p) == AmountOf(m, p, SettledIn(m, s, c, p, Known(m, p)))
    IN  Moved(Other(whose)) - Moved(whose)

\* In a ctx that is not revoked, _balance_delta makes up for what the cache lacks.
LEMMA BalanceIsExact ==
    ASSUME NEW h, ConsistentLog(h), ExactDelta(h), NEW s \in Owner, NEW whose \in Owner,
           NEW c \in h.ctn[s] .. next_ctn(h, s)
    PROVE  get_balance_msat(h, whose, s, c, 0) = BalanceOf(h, whose, s, c)
<1> DEFINE all(p) == AmountOf(h, p, SettledIn(h, s, c, p, Known(h, p)))
           some(p) == AmountOf(h, p, SettledIn(h, s, c, p, h.active[p]))
           rest(p) == AmountOf(h, p, Uncached(h, p))
           gained == IF whose = Local THEN h.delta ELSE -h.delta
           o == Other(whose)
<1>1. o \in Owner /\ o # whose /\ whose \in {Local, Remote} /\ Local # Remote
      /\ Local \in Owner /\ Remote \in Owner
  BY EntryFacts DEF Owner
<1>2. h.ctn[s] \in Nat /\ c \in Int /\ c >= h.ctn[s]
  <2>1. LogOK(h)
    BY TypedLogOK DEF ConsistentLog
  <2> QED BY <2>1, CtnTypes
<1>3. ASSUME NEW p \in Owner
      PROVE  all(p) = some(p) + rest(p) /\ some(p) \in Int /\ rest(p) \in Int
  <2>1. /\ SettledIn(h, s, c, p, Known(h, p)) \in SUBSET Known(h, p)
        /\ Uncached(h, p) \in SUBSET Known(h, p)
        /\ h.active[p] \subseteq Known(h, p)
    BY DEF SettledIn, Uncached, ConsistentLog, SoundCache
  <2>2. SettledIn(h, s, c, p, h.active[p]) \in SUBSET Known(h, p)
    BY <2>1 DEF SettledIn
  <2>3. rest(p) \in Int /\ some(p) \in Int
    BY <2>1, <2>2, KnownTotals, AmountIsTotal
  <2> QED BY <2>3, MovedIsSplit
<1>4. h.delta = rest(Remote) - rest(Local)
  BY <1>1 DEF ExactDelta, DeltaOf
<1>5. get_balance_msat(h, whose, s, c, 0) = 0 + gained - some(whose) + some(o)
  BY <1>2 DEF get_balance_msat, considered_htlc_ids
<1>6. BalanceOf(h, whose, s, c) = all(o) - all(whose)
  BY DEF BalanceOf
<1> HIDE DEF all, some, rest
<1>7. CASE whose = Local
  <2>1. o = Remote
    BY <1>1, <1>7 DEF Other
  <2> HIDE DEF o
  <2> QED BY <1>1, <1>3, <1>4, <1>5, <1>6, <1>7, <2>1
<1>8. CASE whose = Remote
  <2>1. o = Local
    BY <1>1, <1>8 DEF Other
  <2> HIDE DEF o
  <2> QED BY <1>1, <1>3, <1>4, <1>5, <1>6, <1>8, <2>1
<1> QED BY <1>1, <1>7, <1>8

-----------------------------------------------------------------------------
(* _balance_delta stays exact *)

\* A step that moves nothing out of the cache
LEMMA DeltaStays ==
    ASSUME NEW h, NEW g, ConsistentLog(h), ExactDelta(h), g.delta = h.delta,
           \A p \in Owner : /\ Uncached(g, p) = Uncached(h, p)
                           /\ \A i \in Uncached(h, p) : g.adds[p][i] = h.adds[p][i]
    PROVE  ExactDelta(g)
<1>1. ASSUME NEW p \in Owner
      PROVE  Total(g.adds[p], Uncached(g, p)) = Total(h.adds[p], Uncached(h, p))
  <2>1. OfInts(h.adds[p], Uncached(h, p))
    BY KnownTotals DEF Uncached
  <2> QED BY <2>1, TotalSame
<1>2. Local \in Owner /\ Remote \in Owner
  BY DEF Owner
<1>3. g.delta = Total(g.adds[Remote], Uncached(g, Remote)) - Total(g.adds[Local], Uncached(g, Local))
  BY <1>1, <1>2, DeltaIsTotal DEF ExactDelta
<1> QED BY <1>2, <1>3, DeltaIsTotal DEF ExactDelta

\* What an update forgets of the cache is settled for good.
Forgotten(n, active, p) == {i \in active[p] : LongGone(n, n.settles[p][i])}

\* update_maybe_active_htlc_ids adds to _balance_delta what it forgets.
LEMMA CacheDelta ==
    ASSUME NEW m, DOMAIN m = Fields
    PROVE  update_maybe_active_htlc_ids(m).delta
             = m.delta - Total(m.adds[Local], Forgotten(m, m.active, Local))
                       + Total(m.adds[Remote], Forgotten(m, m.active, Remote))
<1> DEFINE settled == [p \in Owner |-> {i \in m.active[p] : LongGone(m, m.settles[p][i])}]
           failed  == [p \in Owner |-> {i \in m.active[p] : LongGone(m, m.fails[p][i])}]
<1>1. settled[Local] = Forgotten(m, m.active, Local) /\ settled[Remote] = Forgotten(m, m.active, Remote)
  BY DEF Forgotten, Owner
<1>2. update_maybe_active_htlc_ids(m)
        = [m EXCEPT !.active = [p \in Owner |-> m.active[p] \ (settled[p] \cup failed[p])],
                    !.delta  = @ - AmountOf(m, Local, settled[Local])
                                 + AmountOf(m, Remote, settled[Remote])]
  BY DEF update_maybe_active_htlc_ids
<1> HIDE DEF settled, failed
<1>3. update_maybe_active_htlc_ids(m).delta
        = m.delta - AmountOf(m, Local, settled[Local]) + AmountOf(m, Remote, settled[Remote])
  BY <1>2 DEF Fields
<1> QED BY <1>1, <1>3, AmountIsTotal

\* send_rev and recv_rev do so with what is long gone at the new ctn.
LEMMA RevokedDelta ==
    ASSUME NEW h, TypedLog(h), NEW s \in Owner
    PROVE  LET n == Revoked(h, s)
           IN  n.delta = h.delta - Total(h.adds[Local], Forgotten(n, h.active, Local))
                                  + Total(h.adds[Remote], Forgotten(n, h.active, Remote))
<1> DEFINE o == Other(s)
           r == [h EXCEPT !.ctn[s] = @ + 1, !.revack[s] = FALSE]
           Carried(table, ids) == [i \in HtlcIds |->
               IF i \in ids THEN CarryOver(r, s, table[i]) ELSE table[i]]
           locked  == [r.locked EXCEPT ![o] = Carried(@, h.active[o])]
           settles == [r.settles EXCEPT ![s] = Carried(@, h.active[s])]
           fails   == [r.fails EXCEPT ![s] = Carried(@, h.active[s])]
           moved == [r EXCEPT !.locked[o]  = Carried(@, h.active[o]),
                              !.settles[s] = Carried(@, h.active[s]),
                              !.fails[s]   = Carried(@, h.active[s])]
           u == update_maybe_active_htlc_ids(moved)
           n == Revoked(h, s)
           fees == IF h.initiator = o
                   THEN [k \in DOMAIN u.fees |-> CarryOverFee(r, s, u.fees[k])]
                   ELSE u.fees
<1>1. n = [u EXCEPT !.fees = fees]
  BY DEF Revoked
<1> HIDE DEF n, fees
<1>2. DOMAIN h = Fields
  BY LogFieldsAre
<1>3. OnlyChanges({"ctn", "revack"}, h, r)
  BY <1>2 DEF OnlyChanges, Fields
<1> HIDE DEF r
<1>4. OnlyChanges({"locked", "settles", "fails"}, r, moved)
  <2> HIDE DEF Carried
  <2> QED BY <1>3 DEF OnlyChanges, Fields
<1>5. DOMAIN moved = Fields
  BY <1>4 DEF OnlyChanges
<1> HIDE DEF moved
<1>6. OnlyChanges({"active", "delta"}, moved, u)
  BY <1>5, CacheEffect
<1>7. u.delta = moved.delta - Total(moved.adds[Local], Forgotten(moved, moved.active, Local))
                            + Total(moved.adds[Remote], Forgotten(moved, moved.active, Remote))
  BY <1>5, CacheDelta
<1> HIDE DEF u
<1>8. OnlyChanges({"fees"}, u, n)
  BY <1>1, <1>6 DEF OnlyChanges, Fields
<1>9. /\ n.delta = u.delta /\ moved.delta = h.delta /\ moved.adds = h.adds /\ moved.active = h.active
      /\ n.ctn = moved.ctn /\ n.settles = moved.settles
  BY <1>3, <1>4, <1>6, <1>8 DEF OnlyChanges, Fields
<1>10. \A p : Forgotten(moved, h.active, p) = Forgotten(n, h.active, p)
  BY <1>9 DEF Forgotten, LongGone, InCtx
<1>11. n.delta = h.delta - Total(h.adds[Local], Forgotten(n, h.active, Local))
                          + Total(h.adds[Remote], Forgotten(n, h.active, Remote))
  BY <1>7, <1>9, <1>10
<1> QED BY <1>11 DEF n

\* A revocation moves from the cache to _balance_delta what is now long gone.
LEMMA RevokedKeepsDelta ==
    ASSUME NEW h, NEW g, ConsistentLog(h), ExactDelta(h), NEW s \in Owner, IsRevoked(h, g, s)
    PROVE  ExactDelta(g)
<1> DEFINE n == Revoked(h, s)
           o == Other(s)
           F(p) == Forgotten(n, h.active, p)
<1>1. TypedLog(h) /\ LogOK(h) /\ SoundCache(h) /\ can_revoke(h, s)
  BY TypedLogOK DEF ConsistentLog, IsRevoked
<1>2. /\ CtnMoved(h, n, s)
      /\ n.adds = h.adds
      /\ n.settles = [h.settles EXCEPT ![s] =
            [i \in HtlcIds |-> IF i \in h.active[s] THEN CarryOver(n, s, h.settles[s][i])
                                                   ELSE h.settles[s][i]]]
      /\ n.active = [p \in Owner |->
            {i \in h.active[p] : ~LongGone(n, n.settles[p][i]) /\ ~LongGone(n, n.fails[p][i])}]
  <2> HIDE DEF n
  <2>1. n.active = StillActive(h, n)
    BY <1>1, RevokedEffect DEF n
  <2>2. n.active = [p \in Owner |->
            {i \in h.active[p] : ~LongGone(n, n.settles[p][i]) /\ ~LongGone(n, n.fails[p][i])}]
    BY <2>1 DEF StillActive
  <2> QED BY <1>1, <2>2, RevokedEffect DEF n
<1>3. n.delta = h.delta - Total(h.adds[Local], F(Local)) + Total(h.adds[Remote], F(Remote))
  BY <1>1, RevokedDelta
<1> HIDE DEF n
<1>4. /\ g.ctn = n.ctn /\ g.adds = n.adds /\ g.settles = n.settles
      /\ g.active = n.active /\ g.delta = n.delta
  BY DEF IsRevoked, OnlyChanges, Fields, Aside, n
<1>5. \A t \in Owner : h.ctn[t] \in Nat /\ n.ctn[t] \in Nat /\ h.ctn[t] <= n.ctn[t]
  <2>1. n.ctn[s] = h.ctn[s] + 1 /\ n.ctn[o] = h.ctn[o]
    BY <1>1, <1>2, CtnMovedFacts
  <2>2. \A t \in Owner : h.ctn[t] \in Nat /\ (t = s \/ t = o)
    BY <1>1, CtnTypes, EntryFacts
  <2> QED BY <2>1, <2>2
<1>6. ASSUME NEW e \in Entry, LongGone(h, e) PROVE LongGone(n, e)
  <2> SUFFICES ASSUME NEW t \in Owner PROVE InCtx(e, t, n.ctn[t] - 1)
    BY DEF LongGone
  <2>1. e[t] \in Int
    BY DEF Entry, Ctn, None
  <2>2. InCtx(e, t, h.ctn[t] - 1)
    BY <1>6 DEF LongGone
  <2> QED BY <1>5, <2>1, <2>2 DEF InCtx
<1>7. ASSUME NEW p \in Owner
      PROVE  /\ Uncached(g, p) = Uncached(h, p) \cup F(p)
             /\ Uncached(h, p) \cap F(p) = {}
             /\ Uncached(h, p) \in SUBSET Known(h, p) /\ F(p) \in SUBSET Known(h, p)
  <2>1. h.active[p] \subseteq Known(h, p) /\ Known(h, p) \subseteq HtlcIds
    BY <1>1 DEF SoundCache, Known
  <2>2. Known(g, p) = Known(h, p)
    BY <1>2, <1>4 DEF Known
  <2>3. \A e : LongGone(g, e) <=> LongGone(n, e)
    BY <1>4 DEF LongGone
  <2>4. g.active[p] =
            {i \in h.active[p] : ~LongGone(n, n.settles[p][i]) /\ ~LongGone(n, n.fails[p][i])}
    BY <1>2, <1>4
  <2>5. ASSUME NEW i \in HtlcIds, i \notin h.active[p]
        PROVE  n.settles[p][i] = h.settles[p][i] /\ h.settles[p][i] \in Entry
    <3>1. h.settles \in [Owner -> [HtlcIds -> Entry]]
      BY <1>1 DEF TypedLog
    <3>2. CASE p = s
      BY <1>2, <2>5, <3>1, <3>2
    <3>3. CASE p # s
      BY <1>2, <3>1, <3>3
    <3> QED BY <3>1, <3>2, <3>3
  <2>6. ASSUME NEW i \in Uncached(g, p) PROVE i \in Uncached(h, p) \cup F(p)
    <3>1. i \in Known(h, p) /\ i \in HtlcIds /\ LongGone(n, n.settles[p][i])
      BY <1>4, <2>1, <2>2, <2>3 DEF Uncached
    <3>2. CASE i \in h.active[p]
      BY <3>1, <3>2 DEF Forgotten
    <3>3. CASE i \notin h.active[p]
      <4>1. h.settles[p][i] # Absent
        <5>1. ~LongGone(n, Absent)
          BY DEF LongGone, InCtx, Absent, Owner
        <5> QED BY <2>5, <3>1, <3>3, <5>1
      <4>2. LongGone(h, h.settles[p][i])
        BY <3>1, <3>3, <4>1, UncachedIsSettled
      <4> QED BY <3>1, <3>3, <4>2 DEF Uncached
    <3> QED BY <3>2, <3>3
  <2>7. ASSUME NEW i \in Uncached(h, p) PROVE i \in Uncached(g, p)
    <3>1. i \in Known(h, p) /\ i \in HtlcIds /\ i \notin h.active[p] /\ LongGone(h, h.settles[p][i])
      BY <2>1 DEF Uncached
    <3>2. LongGone(n, n.settles[p][i])
      BY <1>6, <2>5, <3>1
    <3> QED BY <1>4, <2>2, <2>3, <2>4, <3>1, <3>2 DEF Uncached
  <2>8. ASSUME NEW i \in F(p) PROVE i \in Uncached(g, p)
    <3>1. i \in h.active[p] /\ LongGone(n, n.settles[p][i])
      BY DEF Forgotten
    <3> QED BY <1>4, <2>1, <2>2, <2>3, <2>4, <3>1 DEF Uncached
  <2>9. Uncached(h, p) \cap F(p) = {} /\ F(p) \subseteq h.active[p] /\ Uncached(h, p) \subseteq Known(h, p)
    BY DEF Uncached, Forgotten
  <2> HIDE DEF F
  <2> QED BY <2>1, <2>6, <2>7, <2>8, <2>9
<1> HIDE DEF F
<1>8. ASSUME NEW p \in Owner
      PROVE  /\ Total(g.adds[p], Uncached(g, p)) = Total(h.adds[p], Uncached(h, p)) + Total(h.adds[p], F(p))
             /\ Total(h.adds[p], Uncached(h, p)) \in Int /\ Total(h.adds[p], F(p)) \in Int
  <2>1. /\ OfInts(h.adds[p], Uncached(h, p)) /\ OfInts(h.adds[p], F(p))
        /\ Total(h.adds[p], Uncached(h, p)) \in Int /\ Total(h.adds[p], F(p)) \in Int
    BY <1>7, KnownTotals
  <2>2. Total(h.adds[p], Uncached(h, p) \cup F(p)) = Total(h.adds[p], Uncached(h, p)) + Total(h.adds[p], F(p))
    BY <1>7, <2>1, TotalUnion
  <2>3. g.adds = h.adds
    BY <1>2, <1>4
  <2> QED BY <1>7, <2>1, <2>2, <2>3
<1>9. Local \in Owner /\ Remote \in Owner
  BY DEF Owner
<1>10. h.delta = Total(h.adds[Remote], Uncached(h, Remote)) - Total(h.adds[Local], Uncached(h, Local))
  BY <1>9, DeltaIsTotal DEF ExactDelta
<1>11. g.delta = Total(g.adds[Remote], Uncached(g, Remote)) - Total(g.adds[Local], Uncached(g, Local))
  BY <1>3, <1>4, <1>8, <1>9, <1>10
<1> QED BY <1>9, <1>11, DeltaIsTotal DEF ExactDelta

\* A restart forgets the cache and _balance_delta, and counts both anew.
LEMMA ReloadKeepsDelta ==
    ASSUME NEW h, NEW g, ConsistentLog(h), IsReloaded(h, g)
    PROVE  ExactDelta(g)
<1> DEFINE known == [p \in Owner |-> Known(h, p)]
           m == [h EXCEPT !.active = known, !.delta = 0]
<1>1. TypedLog(h) /\ DOMAIN h = Fields
  BY LogFieldsAre DEF ConsistentLog
<1>2. /\ OnlyChanges({"active", "delta"}, h, m) /\ DOMAIN m = Fields
      /\ m.active = known /\ m.delta = 0
  <2> HIDE DEF known
  <2> QED BY <1>1 DEF OnlyChanges, Fields
<1>3. g = update_maybe_active_htlc_ids(m)
  BY DEF IsReloaded, init_maybe_active_htlc_ids
<1> HIDE DEF m
<1>4. /\ OnlyChanges({"active", "delta"}, m, g)
      /\ g.active = [p \in Owner |->
            {i \in m.active[p] : ~LongGone(m, m.settles[p][i]) /\ ~LongGone(m, m.fails[p][i])}]
      /\ g.delta = m.delta - Total(m.adds[Local], Forgotten(m, m.active, Local))
                             + Total(m.adds[Remote], Forgotten(m, m.active, Remote))
  BY <1>2, <1>3, CacheEffect, CacheDelta
<1>5. /\ g.adds = h.adds /\ m.adds = h.adds /\ g.settles = m.settles /\ g.ctn = m.ctn
  BY <1>2, <1>4 DEF OnlyChanges, Fields
<1>6. ASSUME NEW p \in Owner PROVE Uncached(g, p) = Forgotten(m, m.active, p) /\ Uncached(g, p) \in SUBSET Known(h, p)
  <2>1. Known(g, p) = Known(h, p) /\ m.active[p] = Known(h, p)
    BY <1>2, <1>5 DEF Known
  <2>2. \A e : LongGone(g, e) <=> LongGone(m, e)
    BY <1>5 DEF LongGone
  <2>3. g.active[p] = {i \in Known(h, p) : ~LongGone(m, m.settles[p][i]) /\ ~LongGone(m, m.fails[p][i])}
    BY <1>4, <2>1
  <2>4. Uncached(g, p) = {i \in Known(h, p) : LongGone(m, m.settles[p][i])}
    BY <1>5, <2>1, <2>2, <2>3 DEF Uncached
  <2> QED BY <2>1, <2>4 DEF Forgotten
<1>7. Local \in Owner /\ Remote \in Owner
  BY DEF Owner
<1>8. /\ Total(h.adds[Local], Uncached(g, Local)) \in Int
      /\ Total(h.adds[Remote], Uncached(g, Remote)) \in Int
  BY <1>6, <1>7, KnownTotals
<1>9. g.delta = Total(g.adds[Remote], Uncached(g, Remote)) - Total(g.adds[Local], Uncached(g, Local))
  BY <1>2, <1>4, <1>5, <1>6, <1>7, <1>8
<1> QED BY <1>7, <1>9, DeltaIsTotal DEF ExactDelta

\* What a discard drops was not settled.
LEMMA DiscardKeepsDelta ==
    ASSUME NEW h, NEW g, ConsistentLog(h), ExactDelta(h), IsDiscarded(h, g)
    PROVE  ExactDelta(g)
<1>1. TypedLog(h) /\ LogOK(h) /\ OrderedEntries(h) /\ AddedFirst(h)
  BY TypedLogOK DEF ConsistentLog
<1> DEFINE U(e) == UnsignedByRemote(h, e)
           dropped == DroppedIds(h)
           Signed(table) == [i \in HtlcIds |-> IF U(table[i]) THEN Absent ELSE table[i]]
           addsRow == [i \in HtlcIds |-> IF i \in dropped THEN 0 ELSE h.adds[Remote][i]]
<1>2. /\ OnlyChanges({"next", "adds", "locked", "settles", "fails", "active", "fees"}, h, g)
      /\ g.adds = [h.adds EXCEPT ![Remote] = addsRow]
      /\ g.settles = [h.settles EXCEPT ![Local] = Signed(h.settles[Local])]
      /\ g.active = [h.active EXCEPT ![Remote] = @ \ dropped]
  BY <1>1, DiscardEffect
<1>3. g.ctn = h.ctn /\ g.delta = h.delta
  BY <1>2 DEF OnlyChanges, Fields
<1>4. /\ h.settles \in [Owner -> [HtlcIds -> Entry]]
      /\ h.adds \in [Owner -> [HtlcIds -> Amounts \cup {0}]]
      /\ h.active \in [Owner -> SUBSET HtlcIds]
  BY <1>1 DEF TypedLog
<1>5. /\ Local \in Owner /\ Remote \in Owner /\ Local # Remote /\ Other(Remote) = Local
      /\ \A p \in Owner : p = Local \/ p = Remote
  BY DEF Owner, Other, Local, Remote
<1>6. \A e : LongGone(g, e) <=> LongGone(h, e)
  BY <1>3 DEF LongGone
<1>7. ~LongGone(h, Absent)
  BY DEF LongGone, InCtx, Absent, Owner
<1>8. ASSUME NEW e \in Entry, EntryOK(h, e, Local), U(e) PROVE ~LongGone(h, e)
  <2>1. InNoSigned(h, e)
    BY <1>1, <1>8, DroppedIsFrozen
  <2>2. ~InCtx(e, Local, ctn_latest(h, Local))
    BY <1>5, <2>1 DEF InNoSigned
  <2>3. e[Local] \in Int /\ h.ctn[Local] \in Nat /\ ctn_latest(h, Local) >= h.ctn[Local]
    BY <1>1, <1>5, CtnTypes DEF Entry, Ctn, None
  <2>4. ctn_latest(h, Local) \in Nat
    BY <1>1, <1>5, CtnTypes
  <2>5. ~InCtx(e, Local, h.ctn[Local] - 1)
    BY <2>2, <2>3, <2>4 DEF InCtx
  <2> QED BY <1>5, <2>5 DEF LongGone
<1>9. ASSUME NEW p \in Owner, NEW i \in HtlcIds
      PROVE  LongGone(h, g.settles[p][i]) <=> LongGone(h, h.settles[p][i])
  <2>1. CASE p = Local
    <3>1. h.settles[p][i] \in Entry /\ EntryOK(h, h.settles[p][i], Local)
      BY <1>1, <2>1, EntryTypes DEF OrderedEntries
    <3>2. g.settles[p][i] = IF U(h.settles[p][i]) THEN Absent ELSE h.settles[p][i]
      BY <1>2, <1>4, <2>1
    <3> QED BY <1>7, <1>8, <3>1, <3>2
  <2>2. CASE p = Remote
    <3>1. g.settles[p][i] = h.settles[p][i]
      BY <1>2, <1>4, <1>5, <2>2
    <3> QED BY <3>1
  <2> QED BY <1>5, <2>1, <2>2
<1>10. ASSUME NEW i \in dropped PROVE i \in HtlcIds /\ ~LongGone(h, h.settles[Remote][i])
  <2>1. i \in HtlcIds /\ U(h.locked[Remote][i])
    BY DEF DroppedIds, Known
  <2>2. h.locked[Remote][i] \in Entry /\ EntryOK(h, h.locked[Remote][i], Local)
    BY <1>1, <1>5, <2>1, EntryTypes DEF OrderedEntries
  <2>3. InNoSigned(h, h.locked[Remote][i]) /\ h.locked[Remote][i] # Absent
    <3>1. h.locked[Remote][i][Local] # None
      <4>1. h.locked[Remote][i][Local] > ctn_latest(h, Local) /\ ctn_latest(h, Local) \in Nat
        BY <1>1, <1>5, <2>1, CtnTypes DEF UnsignedByRemote
      <4> QED BY <4>1 DEF None
    <3> QED BY <1>1, <1>5, <2>1, <2>2, <3>1, DroppedIsFrozen DEF Absent
  <2>4. h.locked[Remote][i][Remote] = None
    <3>1. h.locked[Remote][i][Local] > ctn_latest(h, Local) /\ ctn_latest(h, Local) \in Nat
      BY <1>1, <1>5, <2>1, CtnTypes DEF UnsignedByRemote
    <3>2. /\ h.ctn[Local] \in Nat /\ ctn_latest(h, Local) >= h.ctn[Local]
          /\ h.locked[Remote][i][Local] \in Int /\ Other(Local) = Remote
      BY <1>1, <1>5, <2>2, CtnTypes DEF Entry, Ctn, None, Other
    <3>3. h.locked[Remote][i][Local] > h.ctn[Local]
      BY <3>1, <3>2
    <3> QED BY <2>2, <2>3, <3>2, <3>3 DEF EntryOK
  <2>5. h.settles[Remote][i] = Absent
    BY <1>1, <1>5, <2>1, <2>4 DEF AddedFirst
  <2> QED BY <1>7, <2>1, <2>5
<1>11. ASSUME NEW p \in Owner
       PROVE  /\ Uncached(g, p) = Uncached(h, p)
              /\ \A i \in Uncached(h, p) : g.adds[p][i] = h.adds[p][i]
  <2>1. CASE p = Local
    <3>1. g.adds[p] = h.adds[p] /\ g.active[p] = h.active[p]
      BY <1>2, <1>4, <1>5, <2>1
    <3>2. Known(g, p) = Known(h, p) /\ Known(h, p) \subseteq HtlcIds
      BY <3>1 DEF Known
    <3> QED BY <1>6, <1>9, <3>1, <3>2 DEF Uncached
  <2>2. CASE p = Remote
    <3>1. /\ g.active[p] = h.active[p] \ dropped
          /\ \A i \in HtlcIds : g.adds[p][i] = IF i \in dropped THEN 0 ELSE h.adds[p][i]
      BY <1>2, <1>4, <1>5, <2>2
    <3>2. Known(g, p) = Known(h, p) \ dropped /\ Known(h, p) \subseteq HtlcIds
      BY <3>1 DEF Known
    <3>3. \A i \in Known(h, p) : LongGone(h, h.settles[p][i]) => i \notin dropped
      BY <1>10, <2>2
    <3>4. \A i \in Known(h, p) : LongGone(g, g.settles[p][i]) <=> LongGone(h, h.settles[p][i])
      BY <1>6, <1>9, <3>2
    <3> HIDE DEF dropped
    <3>5. Uncached(g, p) = Uncached(h, p)
      BY <3>1, <3>2, <3>3, <3>4 DEF Uncached
    <3> QED BY <3>1, <3>2, <3>3, <3>5 DEF Uncached
  <2> QED BY <1>5, <2>1, <2>2
<1> QED BY <1>3, <1>11, DeltaStays


\* Nothing is settled in a new log.
LEMMA NewLogDelta ==
    ASSUME NEW s \in Owner, NEW rate \in Rates
    PROVE  ExactDelta(NewLog(s, rate))
<1> DEFINE m == NewLog(s, rate)
<1>1. m.delta = 0 /\ \A p \in Owner, i \in HtlcIds : m.adds[p][i] = 0
  BY DEF NewLog
<1> HIDE DEF m
<1>2. ASSUME NEW p \in Owner PROVE Total(m.adds[p], Uncached(m, p)) = 0
  <2>1. Uncached(m, p) = {}
    BY <1>1 DEF Uncached, Known
  <2>2. OfInts(m.adds[p], Uncached(m, p))
    BY <2>1, FS_EmptySet DEF OfInts
  <2> QED BY <2>1, <2>2, TotalSplit
<1>3. ExactDelta(m)
  BY <1>1, <1>2, DeltaIsTotal DEF ExactDelta, Owner
<1> QED BY <1>3 DEF m

\* A new htlc is cached.
LEMMA AddHtlcKeepsDelta ==
    ASSUME NEW h, NEW g, ConsistentLog(h), ExactDelta(h),
           NEW p \in Owner, NEW amount, IsAdded(h, g, p, amount)
    PROVE  ExactDelta(g)
<1> DEFINE id == h.next[p]
<1>1. /\ g.adds = [h.adds EXCEPT ![p][id] = amount]
      /\ g.active = [h.active EXCEPT ![p] = @ \cup {id}]
      /\ id \in HtlcIds
  BY DEF IsAdded
<1>2. g.ctn = h.ctn /\ g.settles = h.settles /\ g.delta = h.delta
  BY DEF IsAdded, OnlyChanges, Fields, Aside
<1>3. /\ h.adds \in [Owner -> [HtlcIds -> Amounts \cup {0}]]
      /\ h.active \in [Owner -> SUBSET HtlcIds] /\ id \in Nat
  BY DEF ConsistentLog, TypedLog
<1>4. h.adds[p][id] = 0
  BY <1>1, <1>3 DEF ConsistentLog, ContiguousIds
<1> HIDE DEF id
<1>5. \A q \in Owner, i \in HtlcIds : ~(q = p /\ i = id) => g.adds[q][i] = h.adds[q][i]
  BY <1>1, <1>3
<1>6. \A e : LongGone(g, e) <=> LongGone(h, e)
  BY <1>2 DEF LongGone
<1>7. ASSUME NEW q \in Owner
      PROVE  /\ Uncached(g, q) = Uncached(h, q)
             /\ \A i \in Uncached(h, q) : g.adds[q][i] = h.adds[q][i]
  <2>1. CASE q = p
    <3>1. g.active[q] = h.active[q] \cup {id}
      BY <1>1, <1>3, <2>1
    <3>2. Known(g, q) \ {id} = Known(h, q) \ {id} /\ id \notin Known(h, q)
      BY <1>4, <1>5, <2>1 DEF Known
    <3>3. Known(g, q) \ g.active[q] = Known(h, q) \ h.active[q]
      BY <3>1, <3>2
    <3>4. Uncached(g, q) = Uncached(h, q)
      BY <1>2, <1>6, <3>3 DEF Uncached
    <3>5. \A i \in Uncached(h, q) : i \in HtlcIds /\ i # id
      BY <3>2 DEF Uncached, Known
    <3> QED BY <1>5, <3>4, <3>5
  <2>2. CASE q # p
    <3>1. g.active[q] = h.active[q]
      BY <1>1, <1>3, <2>2
    <3>2. Known(g, q) = Known(h, q) /\ Known(h, q) \subseteq HtlcIds
      BY <1>5, <2>2 DEF Known
    <3>3. Uncached(g, q) = Uncached(h, q)
      BY <1>2, <1>6, <3>1, <3>2 DEF Uncached
    <3> QED BY <1>5, <2>2, <3>2, <3>3 DEF Uncached
  <2> QED BY <2>1, <2>2
<1> QED BY <1>2, <1>7, DeltaStays

\* What is settled is cached.
LEMMA RemovalKeepsDelta ==
    ASSUME NEW h, NEW g, ConsistentLog(h), ExactDelta(h),
           NEW p \in Owner, NEW i \in HtlcIds, IsRemoved(h, g, p, i)
    PROVE  ExactDelta(g)
<1>1. i \in Known(h, p) /\ can_remove_htlc(h, p, i)
  BY DEF IsRemoved, IsSettled, IsFailed
<1>2. g.ctn = h.ctn /\ g.adds = h.adds /\ g.active = h.active /\ g.delta = h.delta
  BY DEF IsRemoved, IsSettled, IsFailed, OnlyChanges, Fields, Aside
<1>3. i \in h.active[p]
  BY <1>1, RemovableFacts
<1>4. h.settles \in [Owner -> [HtlcIds -> Entry]]
  BY DEF ConsistentLog, TypedLog
<1> DEFINE e == Entered(p, next_ctn(h, p))
<1>5. g.settles = h.settles \/ g.settles = [h.settles EXCEPT ![p][i] = e]
  BY DEF IsRemoved, IsSettled, IsFailed, OnlyChanges, Fields, Aside
<1> HIDE DEF e
<1>6. ASSUME NEW q \in Owner PROVE Uncached(g, q) = Uncached(h, q)
  <2>1. \A j \in Known(h, q) \ h.active[q] : g.settles[q][j] = h.settles[q][j]
    BY <1>3, <1>4, <1>5 DEF Known
  <2>2. Known(g, q) = Known(h, q)
    BY <1>2 DEF Known
  <2>3. \A d : LongGone(g, d) <=> LongGone(h, d)
    BY <1>2 DEF LongGone
  <2> QED BY <1>2, <2>1, <2>2, <2>3 DEF Uncached
<1> QED BY <1>2, <1>6, DeltaStays

\* No call makes the cache and _balance_delta differ from the log.
LEMMA CallKeepsDelta ==
    ASSUME NEW h, NEW g, ConsistentLog(h), ExactDelta(h), IsCall(h, g)
    PROVE  ExactDelta(g)
<1>1. ASSUME g.ctn = h.ctn, g.adds = h.adds, g.settles = h.settles,
             g.active = h.active, g.delta = h.delta
      PROVE  ExactDelta(g)
  <2>1. \A p \in Owner : Uncached(g, p) = Uncached(h, p)
    BY <1>1 DEF Uncached, Known, LongGone, InCtx
  <2> QED BY <1>1, <2>1, DeltaStays
<1>2. CASE \E rate \in Rates : IsFeeUpdated(h, g, rate)
  BY <1>1, <1>2 DEF IsFeeUpdated, OnlyChanges, Fields, Aside
<1>3. ASSUME NEW s \in Owner, IsSigned(h, g, s) PROVE ExactDelta(g)
  BY <1>1, <1>3 DEF IsSigned, OnlyChanges, Fields, Aside
<1>4. CASE OnlyChanges(Aside, h, g)
  BY <1>1, <1>4 DEF OnlyChanges, Fields, Aside
<1> QED
  BY <1>2, <1>3, <1>4, AddHtlcKeepsDelta, RemovalKeepsDelta, RevokedKeepsDelta,
     ReloadKeepsDelta, DiscardKeepsDelta DEF IsCall

-----------------------------------------------------------------------------
(* The order of the feerates *)

\* Entry d reaches each ctx not after e.
Before(d, e) == \A s \in Owner : e[s] # None => d[s] # None /\ d[s] <= e[s]

\* "Nones can only be on the right end", and what reaches a ctx does so in order: get_feerate,
\* a binary search, rests on this.
SortedFees(h) ==
    \A j \in DOMAIN h.fees : \A k \in DOMAIN h.fees :
        k < j => Before(h.fees[k].ctn, h.fees[j].ctn)

\* Signed feerates stay, and what comes or goes is not signed.
FeesFrozen(h, g) ==
    /\ \A k \in DOMAIN h.fees \cap DOMAIN g.fees :
          /\ Frozen(h, h.fees[k].ctn, g.fees[k].ctn)
          /\ \/ g.fees[k].rate = h.fees[k].rate
             \/ InNoSigned(h, h.fees[k].ctn) /\ InNoSigned(h, g.fees[k].ctn)
    /\ \A k \in DOMAIN h.fees \ DOMAIN g.fees : InNoSigned(h, h.fees[k].ctn)
    /\ \A k \in DOMAIN g.fees \ DOMAIN h.fees : InNoSigned(h, g.fees[k].ctn)

\* What ConsistentLog says of the feerates
LEMMA FeeFacts ==
    ASSUME NEW h, ConsistentLog(h)
    PROVE  /\ NumFees(h) \in Nat \ {0} /\ DOMAIN h.fees = 0 .. NumFees(h) - 1
           /\ \A k \in DOMAIN h.fees :
                /\ h.fees[k] = [rate |-> h.fees[k].rate, ctn |-> h.fees[k].ctn]
                /\ h.fees[k].ctn \in Entry /\ k \in Nat
                /\ IF k = 0 THEN \A s \in Owner : h.fees[k].ctn[s] = 0
                   ELSE EntryOK(h, h.fees[k].ctn, Other(h.initiator)) /\ h.fees[k].ctn # Absent
           /\ Other(h.initiator) \in Owner /\ Other(Other(h.initiator)) = h.initiator
<1>1. TypedLog(h) /\ OrderedFees(h)
  BY DEF ConsistentLog
<1>2. NumFees(h) \in Nat \ {0} /\ h.fees \in [0 .. NumFees(h) - 1 -> FeeUpdate] /\ h.initiator \in Owner
  BY <1>1 DEF TypedLog
<1>3. ASSUME NEW k \in 0 .. NumFees(h) - 1
      PROVE  /\ h.fees[k] = [rate |-> h.fees[k].rate, ctn |-> h.fees[k].ctn]
             /\ h.fees[k].ctn \in Entry
  <2>1. h.fees[k] \in FeeUpdate
    BY <1>2
  <2> QED BY <2>1 DEF FeeUpdate
<1>4. ASSUME NEW k \in 0 .. NumFees(h) - 1, k # 0
      PROVE  EntryOK(h, h.fees[k].ctn, Other(h.initiator)) /\ h.fees[k].ctn # Absent
  BY <1>1, <1>2, <1>4 DEF OrderedFees
<1>5. \A s \in Owner : h.fees[0].ctn[s] = 0
  BY <1>1 DEF OrderedFees
<1>6. Other(h.initiator) \in Owner /\ Other(Other(h.initiator)) = h.initiator
  BY <1>2, EntryFacts
<1> QED BY <1>2, <1>3, <1>4, <1>5, <1>6

\* A feerate that was just proposed comes last, and is not signed.
LEMMA NewFeeIsLast ==
    ASSUME NEW h, ConsistentLog(h), NEW first, first = Other(h.initiator), NEW k \in DOMAIN h.fees
    PROVE  /\ Before(h.fees[k].ctn, Entered(first, next_ctn(h, first)))
           /\ InNoSigned(h, Entered(first, next_ctn(h, first)))
<1> DEFINE e == Entered(first, next_ctn(h, first))
           d == h.fees[k].ctn
<1>1. LogOK(h) /\ first \in Owner
  BY TypedLogOK, FeeFacts DEF ConsistentLog
<1>2. /\ ctn_latest(h, first) \in Nat /\ next_ctn(h, first) = ctn_latest(h, first) + 1
      /\ next_ctn(h, first) \in Nat
  BY <1>1, CtnTypes
<1>3. /\ e[first] = next_ctn(h, first) /\ e[Other(first)] = None
      /\ \A s \in Owner : s = first \/ s = Other(first)
  BY <1>1, <1>2, EntryFacts
<1>4. d[first] # None /\ d[first] <= next_ctn(h, first)
  <2>1. CASE k = 0
    <3>1. d[first] = 0
      BY <1>1, <2>1, FeeFacts
    <3> QED BY <1>2, <3>1 DEF None
  <2>2. CASE k # 0
    <3>1. EntryOK(h, d, first) /\ d # Absent
      BY <2>2, FeeFacts
    <3>2. d[first] \in 1 .. next_ctn(h, first)
      BY <3>1 DEF EntryOK
    <3> QED BY <1>2, <3>2 DEF None
  <2> QED BY <2>1, <2>2
<1> HIDE DEF d, e
<1>5. Before(d, e)
  BY <1>3, <1>4 DEF Before
<1>6. InNoSigned(h, e)
  BY <1>2, <1>3 DEF InNoSigned, InCtx
<1> QED BY <1>5, <1>6 DEF d, e

\* What is in no signed ctx before and after is Frozen.
LEMMA InNoSignedIsFrozen ==
    ASSUME NEW h, NEW d, NEW e, InNoSigned(h, d), InNoSigned(h, e)
    PROVE  Frozen(h, d, e)
  BY DEF InNoSigned, Frozen

\* The feerates may stay as they are.
LEMMA SameFees ==
    ASSUME NEW h, NEW g, g.fees = h.fees
    PROVE  FeesFrozen(h, g) /\ (SortedFees(h) => SortedFees(g))
  BY SameIsFrozen DEF FeesFrozen, SortedFees

\* update_fee adds one that is not signed, or replaces one that is not.
LEMMA UpdateFeeFreezes ==
    ASSUME NEW h, NEW g, ConsistentLog(h), SortedFees(h), NEW rate \in Rates, IsFeeUpdated(h, g, rate)
    PROVE  FeesFrozen(h, g) /\ SortedFees(g)
<1> DEFINE first == Other(h.initiator)
           n     == NumFees(h)
           e     == Entered(first, next_ctn(h, first))
           new   == [rate |-> rate, ctn |-> e]
<1>1. \/ g.fees = [k \in 0 .. n |-> IF k = n THEN new ELSE h.fees[k]]
      \/ /\ \A t \in Owner : ~InCtx(h.fees[n - 1].ctn, t, ctn_latest(h, t))
         /\ g.fees = [h.fees EXCEPT ![n - 1] = new]
  BY DEF IsFeeUpdated
<1>2. n \in Nat \ {0} /\ DOMAIN h.fees = 0 .. n - 1
  BY FeeFacts
<1>3. \A k \in DOMAIN h.fees : Before(h.fees[k].ctn, e)
  BY NewFeeIsLast
<1>4. InNoSigned(h, e)
  <2>1. 0 \in DOMAIN h.fees
    BY <1>2
  <2> QED BY <2>1, NewFeeIsLast
<1>5. new.ctn = e
  OBVIOUS
<1> HIDE DEF n, e, new
<1>6. CASE g.fees = [k \in 0 .. n |-> IF k = n THEN new ELSE h.fees[k]]
  <2>1. /\ DOMAIN g.fees = 0 .. n /\ g.fees[n] = new
        /\ \A k \in 0 .. n - 1 : g.fees[k] = h.fees[k]
    BY <1>2, <1>6
  <2>2. \A k \in 0 .. n : k \in 0 .. n - 1 \/ k = n
    BY <1>2
  <2>3. FeesFrozen(h, g)
    BY <1>2, <1>4, <1>5, <2>1, <2>2, SameIsFrozen DEF FeesFrozen
  <2>4. SortedFees(g)
    <3> SUFFICES ASSUME NEW j \in 0 .. n, NEW k \in 0 .. n, k < j
                 PROVE  Before(g.fees[k].ctn, g.fees[j].ctn)
      BY <2>1 DEF SortedFees
    <3>1. k \in 0 .. n - 1
      BY <1>2
    <3>2. CASE j = n
      BY <1>2, <1>3, <1>5, <2>1, <3>1, <3>2
    <3>3. CASE j # n
      <4>1. j \in 0 .. n - 1
        BY <2>2, <3>3
      <4> QED BY <1>2, <2>1, <3>1, <4>1 DEF SortedFees
    <3> QED BY <3>2, <3>3
  <2> QED BY <2>3, <2>4
<1>7. CASE /\ \A t \in Owner : ~InCtx(h.fees[n - 1].ctn, t, ctn_latest(h, t))
           /\ g.fees = [h.fees EXCEPT ![n - 1] = new]
  <2>1. /\ DOMAIN g.fees = 0 .. n - 1 /\ g.fees[n - 1] = new
        /\ \A k \in 0 .. n - 1 : k # n - 1 => g.fees[k] = h.fees[k]
    BY <1>2, <1>7
  <2>2. InNoSigned(h, h.fees[n - 1].ctn)
    BY <1>7 DEF InNoSigned
  <2>3. FeesFrozen(h, g)
    <3> SUFFICES ASSUME NEW k \in 0 .. n - 1
                 PROVE  /\ Frozen(h, h.fees[k].ctn, g.fees[k].ctn)
                        /\ \/ g.fees[k].rate = h.fees[k].rate
                           \/ InNoSigned(h, h.fees[k].ctn) /\ InNoSigned(h, g.fees[k].ctn)
      BY <1>2, <2>1 DEF FeesFrozen
    <3>1. CASE k = n - 1
      BY <1>4, <1>5, <2>1, <2>2, <3>1, InNoSignedIsFrozen
    <3>2. CASE k # n - 1
      BY <2>1, <3>2, SameIsFrozen
    <3> QED BY <3>1, <3>2
  <2>4. SortedFees(g)
    <3> SUFFICES ASSUME NEW j \in 0 .. n - 1, NEW k \in 0 .. n - 1, k < j
                 PROVE  Before(g.fees[k].ctn, g.fees[j].ctn)
      BY <2>1 DEF SortedFees
    <3>1. g.fees[k] = h.fees[k]
      BY <1>2, <2>1
    <3>2. CASE j = n - 1
      BY <1>2, <1>3, <1>5, <2>1, <3>1, <3>2
    <3>3. CASE j # n - 1
      BY <1>2, <2>1, <3>1, <3>3 DEF SortedFees
    <3> QED BY <3>2, <3>3
  <2> QED BY <2>3, <2>4
<1> QED BY <1>1, <1>6, <1>7 DEF n, e, new

\* What carries over does so in order.
LEMMA CarriedBefore ==
    ASSUME NEW m, LogOK(m), NEW s \in Owner, NEW d \in Entry, NEW e \in Entry, Before(d, e),
           d[Other(s)] <= next_ctn(m, Other(s))
    PROVE  Before(CarryOver(m, s, d), CarryOver(m, s, e))
<1> DEFINE o == Other(s)
           c == next_ctn(m, o)
           l == ctn_latest(m, s)
           D == CarryOver(m, s, d)
           E == CarryOver(m, s, e)
<1>1. o \in Owner /\ o # s /\ \A t \in Owner : t = s \/ t = o
  BY EntryFacts
<1>2. d \in [Owner -> Int] /\ e \in [Owner -> Int] /\ l \in Nat /\ c \in Nat
  BY <1>1, CtnTypes DEF Entry, Ctn, None
<1>3. /\ D = IF d[s] # None /\ d[s] <= l /\ d[o] = None THEN [d EXCEPT ![o] = c] ELSE d
      /\ E = IF e[s] # None /\ e[s] <= l /\ e[o] = None THEN [e EXCEPT ![o] = c] ELSE e
  BY DEF CarryOver, InCtx
<1>4. /\ e[s] # None => d[s] # None /\ d[s] <= e[s]
      /\ e[o] # None => d[o] # None /\ d[o] <= e[o]
  BY <1>1 DEF Before
<1> HIDE DEF o, c, l, D, E
<1>5. D[s] = d[s] /\ E[s] = e[s]
  BY <1>1, <1>2, <1>3
<1>6. /\ D[o] = IF d[s] # None /\ d[s] <= l /\ d[o] = None THEN c ELSE d[o]
      /\ E[o] = IF e[s] # None /\ e[s] <= l /\ e[o] = None THEN c ELSE e[o]
  BY <1>1, <1>2, <1>3
<1>7. d[o] <= c
  BY DEF o, c
<1>8. d[s] \in Int /\ e[s] \in Int /\ d[o] \in Int /\ e[o] \in Int
  BY <1>1, <1>2
<1>9. E[o] # None => D[o] # None /\ D[o] <= E[o]
  BY <1>2, <1>4, <1>6, <1>7, <1>8 DEF None
<1>10. Before(D, E)
  BY <1>1, <1>4, <1>5, <1>9 DEF Before
<1> QED BY <1>10 DEF D, E

\* A revocation carries feerates over.
LEMMA RevokedFeesFreeze ==
    ASSUME NEW h, NEW g, ConsistentLog(h), SortedFees(h), NEW s \in Owner, IsRevoked(h, g, s)
    PROVE  FeesFrozen(h, g) /\ SortedFees(g)
<1> DEFINE n == Revoked(h, s)
           o == Other(s)
<1>1. TypedLog(h) /\ LogOK(h) /\ o \in Owner /\ h.initiator \in Owner /\ can_revoke(h, s)
  BY TypedLogOK, EntryFacts DEF ConsistentLog, TypedLog, IsRevoked
<1>2. /\ CtnMoved(h, n, s)
      /\ n.fees = IF h.initiator = o
                  THEN [k \in DOMAIN h.fees |-> CarryOverFee(n, s, h.fees[k])]
                  ELSE h.fees
  BY <1>1, RevokedEffect
<1> HIDE DEF n
<1>3. g.fees = n.fees
  BY DEF IsRevoked, OnlyChanges, Fields, Aside, n
<1>4. CASE h.initiator # o
  BY <1>2, <1>3, <1>4, SameFees
<1>5. CASE h.initiator = o
  <2>1. Other(h.initiator) = s
    BY <1>5, EntryFacts
  <2>2. DOMAIN g.fees = DOMAIN h.fees
    BY <1>2, <1>3, <1>5
  <2>3. ASSUME NEW k \in DOMAIN h.fees
        PROVE  /\ g.fees[k].rate = h.fees[k].rate
               /\ g.fees[k].ctn = CarryOver(n, s, h.fees[k].ctn)
               /\ h.fees[k].ctn \in Entry
    <3>1. /\ h.fees[k] = [rate |-> h.fees[k].rate, ctn |-> h.fees[k].ctn]
          /\ h.fees[k].ctn \in Entry
      BY FeeFacts
    <3>2. g.fees[k] = [h.fees[k] EXCEPT !.ctn = CarryOver(n, s, @)]
      BY <1>2, <1>3, <1>5 DEF CarryOverFee
    <3> HIDE DEF CarryOver
    <3> QED BY <3>1, <3>2
  <2>4. /\ LogOK(n) /\ next_ctn(n, o) = next_ctn(h, o)
        /\ next_ctn(h, o) \in Nat
    BY <1>1, <1>2, CtnMovedFacts, CtnTypes
  <2>5. ASSUME NEW k \in DOMAIN h.fees
        PROVE  /\ Frozen(h, h.fees[k].ctn, CarryOver(n, s, h.fees[k].ctn))
               /\ h.fees[k].ctn[o] <= next_ctn(n, o)
    <3>1. CASE k = 0
      <4>1. h.fees[k].ctn[o] = 0
        BY <1>1, <3>1, FeeFacts
      <4>2. CarryOver(n, s, h.fees[k].ctn) = h.fees[k].ctn
        BY <4>1 DEF CarryOver, None
      <4> QED BY <2>4, <4>1, <4>2, SameIsFrozen
    <3>2. CASE k # 0
      <4>1. EntryOK(h, h.fees[k].ctn, s) /\ h.fees[k].ctn # Absent
        BY <2>1, <3>2, FeeFacts
      <4>2. Grown(h, h.fees[k].ctn, CarryOver(n, s, h.fees[k].ctn), s)
        BY <1>1, <1>2, <2>3, <4>1, CarriedEntry
      <4>3. Frozen(h, h.fees[k].ctn, CarryOver(n, s, h.fees[k].ctn))
        BY <1>1, <2>3, <4>2, GrownIsFrozen
      <4> QED BY <2>4, <4>1, <4>3 DEF EntryOK
    <3> QED BY <3>1, <3>2
  <2>6. FeesFrozen(h, g)
    BY <2>2, <2>3, <2>5 DEF FeesFrozen
  <2>7. SortedFees(g)
    <3> SUFFICES ASSUME NEW j \in DOMAIN h.fees, NEW k \in DOMAIN h.fees, k < j
                 PROVE  Before(g.fees[k].ctn, g.fees[j].ctn)
      BY <2>2 DEF SortedFees
    <3>1. Before(h.fees[k].ctn, h.fees[j].ctn)
      BY DEF SortedFees
    <3>2. Before(CarryOver(n, s, h.fees[k].ctn), CarryOver(n, s, h.fees[j].ctn))
      BY <2>3, <2>4, <2>5, <3>1, CarriedBefore
    <3> QED BY <2>3, <3>2
  <2> QED BY <2>6, <2>7
<1> QED BY <1>4, <1>5

\* A discard drops the one that Remote did not sign for.
LEMMA DiscardFeesFreeze ==
    ASSUME NEW h, NEW g, ConsistentLog(h), SortedFees(h), IsDiscarded(h, g)
    PROVE  FeesFrozen(h, g) /\ SortedFees(g)
<1> DEFINE kept == {k \in DOMAIN h.fees : ~UnsignedByRemote(h, h.fees[k].ctn)}
<1>1. TypedLog(h) /\ LogOK(h)
  BY TypedLogOK DEF ConsistentLog
<1>2. g.fees = IF h.initiator = Remote THEN Restrict(h.fees, kept) ELSE h.fees
  BY <1>1, DiscardEffect
<1>3. CASE h.initiator # Remote
  BY <1>2, <1>3, SameFees
<1>4. CASE h.initiator = Remote
  <2>1. DOMAIN g.fees = kept /\ \A k \in kept : g.fees[k] = h.fees[k]
    BY <1>2, <1>4 DEF Restrict
  <2>2. ASSUME NEW k \in DOMAIN h.fees, UnsignedByRemote(h, h.fees[k].ctn)
        PROVE  InNoSigned(h, h.fees[k].ctn)
    <3>1. k # 0
      <4>1. SUFFICES ASSUME k = 0 PROVE FALSE
        OBVIOUS
      <4>2. h.fees[k].ctn[Local] = 0
        BY <4>1, FeeFacts DEF Owner
      <4>3. ctn_latest(h, Local) \in Nat
        BY <1>1, CtnTypes DEF Owner
      <4> QED BY <2>2, <4>2, <4>3 DEF UnsignedByRemote
    <3>2. Other(h.initiator) = Local
      BY <1>4 DEF Other, Local, Remote
    <3>3. EntryOK(h, h.fees[k].ctn, Local) /\ h.fees[k].ctn \in Entry
      BY <3>1, <3>2, FeeFacts
    <3> QED BY <1>1, <2>2, <3>3, DroppedIsFrozen
  <2>3. FeesFrozen(h, g)
    BY <2>1, <2>2, SameIsFrozen DEF FeesFrozen
  <2>4. SortedFees(g)
    BY <2>1 DEF SortedFees
  <2> QED BY <2>3, <2>4
<1> QED BY <1>3, <1>4

\* A new log has one feerate.
LEMMA NewLogFees ==
    ASSUME NEW s \in Owner, NEW rate \in Rates
    PROVE  SortedFees(NewLog(s, rate))
<1>1. DOMAIN NewLog(s, rate).fees = {0}
  BY DEF NewLog
<1> QED BY <1>1 DEF SortedFees

\* No call changes a signed feerate, or puts one out of order.
LEMMA CallKeepsFees ==
    ASSUME NEW h, NEW g, ConsistentLog(h), SortedFees(h), IsCall(h, g)
    PROVE  FeesFrozen(h, g) /\ SortedFees(g)
<1>1. ASSUME NEW p \in Owner, NEW amount \in Amounts, IsAdded(h, g, p, amount) PROVE g.fees = h.fees
  BY <1>1 DEF IsAdded, OnlyChanges, Fields, Aside
<1>2. ASSUME NEW p \in Owner, NEW i \in HtlcIds, IsRemoved(h, g, p, i) PROVE g.fees = h.fees
  BY <1>2 DEF IsRemoved, IsSettled, IsFailed, OnlyChanges, Fields, Aside
<1>3. ASSUME NEW s \in Owner, IsSigned(h, g, s) PROVE g.fees = h.fees
  BY <1>3 DEF IsSigned, OnlyChanges, Fields, Aside
<1>4. CASE IsReloaded(h, g)
  <2>1. g.fees = h.fees
    BY <1>4, ReloadEffect DEF ConsistentLog, OnlyChanges, Fields
  <2> QED BY <2>1, SameFees
<1>5. CASE OnlyChanges(Aside, h, g)
  <2>1. g.fees = h.fees
    BY <1>5 DEF OnlyChanges, Fields, Aside
  <2> QED BY <2>1, SameFees
<1> QED
  BY <1>1, <1>2, <1>3, <1>4, <1>5, SameFees, UpdateFeeFreezes, RevokedFeesFreeze, DiscardFeesFreeze
  DEF IsCall

-----------------------------------------------------------------------------
(* The binary search of get_feerate *)

SearchBounds(n) == (0 .. n) \X (0 .. n)
Middle(b) == (b[1] + b[2]) \div 2

\* Where the search, g, goes from the bounds b, if P are the feerates in the ctx
Found(g, P, b) ==
    IF b[2] - b[1] <= 1 THEN Middle(b)
    ELSE IF Middle(b) \in P THEN g[<<Middle(b), b[2]>>]
    ELSE g[<<b[1], Middle(b)>>]

IsSearch(g, P, n) == g = [b \in SearchBounds(n) |-> Found(g, P, b)]
Search(P, n) == CHOOSE g : g = [b \in SearchBounds(n) |-> Found(g, P, b)]

\* get_feerate, with the test of a feerate as membership in P
LEMMA GetFeerateIsSearch ==
    ASSUME NEW m, NEW s, NEW c, NEW n, n = NumFees(m), NEW P, P = {k \in 0 .. n : InCtx(m.fees[k].ctn, s, c)},
           n \in Nat
    PROVE  get_feerate(m, s, c) = m.fees[Search(P, n)[<<0, n>>]].rate
<1> DEFINE Step(g, b) == IF b[2] - b[1] <= 1 THEN Middle(b)
                         ELSE IF InCtx(m.fees[Middle(b)].ctn, s, c) THEN g[<<Middle(b), b[2]>>]
                         ELSE g[<<b[1], Middle(b)>>]
<1>1. get_feerate(m, s, c) = m.fees[(CHOOSE g : g = [b \in SearchBounds(n) |-> Step(g, b)])[<<0, n>>]].rate
  BY DEF get_feerate, SearchBounds, Middle
<1>2. ASSUME NEW b \in SearchBounds(n) PROVE Middle(b) \in 0 .. n
  BY DEF SearchBounds, Middle
<1>3. ASSUME NEW g, NEW b \in SearchBounds(n) PROVE Step(g, b) = Found(g, P, b)
  BY <1>2 DEF Found
<1> HIDE DEF Step
<1>4. ASSUME NEW g PROVE [b \in SearchBounds(n) |-> Step(g, b)] = [b \in SearchBounds(n) |-> Found(g, P, b)]
  BY <1>3
<1>5. (CHOOSE g : g = [b \in SearchBounds(n) |-> Step(g, b)]) = Search(P, n)
  BY <1>4 DEF Search
<1> QED BY <1>1, <1>5

\* Halving ends.
LEMMA SearchExists ==
    ASSUME NEW n \in Nat, NEW P
    PROVE  IsSearch(Search(P, n), P, n)
<1> DEFINE Upto(g, w) == \A b \in SearchBounds(n) : b[2] - b[1] <= w => g[b] = Found(g, P, b)
           G == {w \in Nat : \E g : Upto(g, w)}
<1>1. ASSUME NEW b \in SearchBounds(n), b[2] - b[1] > 1
      PROVE  /\ <<Middle(b), b[2]>> \in SearchBounds(n) /\ b[2] - Middle(b) < b[2] - b[1]
             /\ <<b[1], Middle(b)>> \in SearchBounds(n) /\ Middle(b) - b[1] < b[2] - b[1]
             /\ Middle(b) \in Int /\ b[1] \in Int /\ b[2] \in Int
  <2>1. b[1] \in 0 .. n /\ b[2] \in 0 .. n
    BY DEF SearchBounds
  <2>2. Middle(b) \in 0 .. n /\ b[1] < Middle(b) /\ Middle(b) < b[2]
    BY <1>1, <2>1 DEF Middle
  <2> QED BY <2>1, <2>2 DEF SearchBounds
<1>2. ASSUME NEW w \in Nat, NEW g, NEW h, \A b \in SearchBounds(n) : b[2] - b[1] <= w => g[b] = h[b],
             NEW b \in SearchBounds(n), b[2] - b[1] <= w + 1
      PROVE  Found(g, P, b) = Found(h, P, b)
  <2>1. CASE b[2] - b[1] <= 1
    BY <2>1 DEF Found
  <2>2. CASE ~(b[2] - b[1] <= 1)
    <3>0. b[1] \in Int /\ b[2] \in Int
      BY DEF SearchBounds
    <3>1. b[2] - b[1] > 1
      BY <2>2, <3>0
    <3> DEFINE x == <<Middle(b), b[2]>>
               y == <<b[1], Middle(b)>>
    <3>2. x \in SearchBounds(n) /\ y \in SearchBounds(n) /\ x[2] - x[1] <= w /\ y[2] - y[1] <= w
      BY <1>1, <1>2, <3>1
    <3>3. g[x] = h[x] /\ g[y] = h[y]
      BY <1>2, <3>2
    <3> QED BY <2>2, <3>3 DEF Found
  <2> QED BY <2>1, <2>2
<1>3. ASSUME NEW w \in Nat, \A k \in Nat : k < w => k \in G
      PROVE  w \in G
  <2>1. PICK h : w = 0 \/ Upto(h, w - 1)
    <3>1. CASE w = 0
      BY <3>1
    <3>2. CASE w # 0
      <4>1. w - 1 \in G
        BY <1>3, <3>2
      <4> QED BY <4>1
    <3> QED BY <3>1, <3>2
  <2> DEFINE g == [b \in SearchBounds(n) |-> Found(h, P, b)]
  <2>2. CASE w = 0
    <3>1. \A b \in SearchBounds(n) : b[2] - b[1] <= w => g[b] = Middle(b) /\ Found(g, P, b) = Middle(b)
      BY <2>2 DEF Found, SearchBounds
    <3>2. Upto(g, w)
      BY <3>1
    <3> QED BY <3>2
  <2>3. CASE w # 0
    <3>1. w - 1 \in Nat /\ w - 1 + 1 = w
      BY <2>3
    <3>2. \A b \in SearchBounds(n) : b[2] - b[1] <= w - 1 => g[b] = h[b]
      BY <2>1, <2>3
    <3>3. ASSUME NEW b \in SearchBounds(n), b[2] - b[1] <= w PROVE g[b] = Found(g, P, b)
      <4>1. g[b] = Found(h, P, b)
        OBVIOUS
      <4> HIDE DEF g
      <4>2. Found(g, P, b) = Found(h, P, b)
        BY <1>2, <3>1, <3>2, <3>3
      <4> QED BY <4>1, <4>2
    <3> QED BY <3>3
  <2> QED BY <2>2, <2>3
<1>4. n \in G
  <2>1. Nat \subseteq G
    <3> HIDE DEF G
    <3> QED BY <1>3, NumberInduction
  <2> QED BY <2>1
<1>5. PICK h : Upto(h, n)
  BY <1>4
<1>6. \A b \in SearchBounds(n) : b[2] - b[1] <= n
  BY DEF SearchBounds
<1> DEFINE g == [b \in SearchBounds(n) |-> h[b]]
<1>7. ASSUME NEW b \in SearchBounds(n) PROVE g[b] = Found(g, P, b)
  <2>1. g[b] = Found(h, P, b)
    BY <1>5, <1>6
  <2>2. \A a \in SearchBounds(n) : a[2] - a[1] <= n => g[a] = h[a]
    OBVIOUS
  <2>3. b[2] - b[1] <= n + 1
    BY <1>6 DEF SearchBounds
  <2> HIDE DEF g
  <2> QED BY <1>2, <2>1, <2>2, <2>3
<1>8. g = [b \in SearchBounds(n) |-> Found(g, P, b)]
  <2>1. g = [b \in SearchBounds(n) |-> g[b]]
    OBVIOUS
  <2> HIDE DEF g
  <2> QED BY <1>7, <2>1
<1>9. \E f : f = [b \in SearchBounds(n) |-> Found(f, P, b)]
  <2> HIDE DEF g
  <2> QED BY <1>8
<1> QED BY <1>9, Zenon DEF IsSearch, Search

\* Of feerates of which those in the ctx come first, the last of them is found.
LEMMA SearchFinds ==
    ASSUME NEW n \in Nat \ {0}, NEW k \in 0 .. n - 1, NEW P,
           \A j \in 0 .. n - 1 : j \in P <=> j <= k
    PROVE  Search(P, n)[<<0, n>>] = k
<1> DEFINE g == Search(P, n)
           Good(b) == b[1] <= k /\ k < b[2]
           G == {w \in Nat : \A b \in SearchBounds(n) : b[2] - b[1] = w /\ Good(b) => g[b] = k}
<1>0. ASSUME NEW b \in SearchBounds(n) PROVE g[b] = Found(g, P, b) /\ b[1] \in 0 .. n /\ b[2] \in 0 .. n
  <2>1. IsSearch(g, P, n)
    BY SearchExists
  <2> HIDE DEF g
  <2> QED BY <2>1 DEF IsSearch, SearchBounds
<1> HIDE DEF g
<1>1. ASSUME NEW w \in Nat, \A v \in Nat : v < w => v \in G
      PROVE  w \in G
  <2> SUFFICES ASSUME NEW b \in SearchBounds(n), b[2] - b[1] = w, Good(b) PROVE g[b] = k
    OBVIOUS
  <2> DEFINE i == Middle(b)
             x == <<i, b[2]>>
             y == <<b[1], i>>
  <2>1. CASE w <= 1
    <3>1. b[1] = k /\ b[2] = k + 1
      BY <1>0, <2>1
    <3>2. Middle(b) = k
      BY <3>1 DEF Middle
    <3> QED BY <1>0, <2>1, <3>2 DEF Found
  <2>2. CASE w > 1
    <3>1. i \in 0 .. n - 1 /\ i \in 0 .. n /\ b[1] < i /\ i < b[2] /\ ~(b[2] - b[1] <= 1)
      BY <1>0, <2>2 DEF Middle
    <3>5. g[b] = IF i \in P THEN g[x] ELSE g[y]
      BY <1>0, <3>1 DEF Found
    <3>6. i \in P <=> i <= k
      BY <3>1
    <3> HIDE DEF i
    <3>2. x \in SearchBounds(n) /\ y \in SearchBounds(n)
      BY <1>0, <3>1 DEF SearchBounds
    <3>3. CASE i <= k
      <4>1. g[b] = g[x]
        BY <3>3, <3>5, <3>6
      <4>2. Good(x) /\ x[2] - x[1] \in Nat /\ x[2] - x[1] < w
        BY <1>0, <3>1, <3>3
      <4>3. x[2] - x[1] \in G
        BY <1>1, <4>2
      <4> QED BY <3>2, <4>1, <4>2, <4>3
    <3>4. CASE i > k
      <4>1. g[b] = g[y]
        BY <3>1, <3>4, <3>5, <3>6
      <4>2. Good(y) /\ y[2] - y[1] \in Nat /\ y[2] - y[1] < w
        BY <1>0, <3>1, <3>4
      <4>3. y[2] - y[1] \in G
        BY <1>1, <4>2
      <4> QED BY <3>2, <4>1, <4>2, <4>3
    <3> QED BY <3>1, <3>3, <3>4
  <2> QED BY <2>1, <2>2
<1>2. n \in G
  <2>1. Nat \subseteq G
    <3> HIDE DEF G
    <3> QED BY <1>1, NumberInduction
  <2> QED BY <2>1
<1>3. <<0, n>> \in SearchBounds(n) /\ Good(<<0, n>>)
  BY DEF SearchBounds
<1> QED BY <1>2, <1>3 DEF g

FeesTyped(h) ==
    LET n == NumFees(h)
    IN  /\ n \in Nat \ {0} /\ DOMAIN h.fees = 0 .. n - 1
        /\ \A k \in 0 .. n - 1 : \A s \in Owner : h.fees[k].ctn[s] \in Int

\* The keys of the feerates, and the types of their entries
LEMMA FeesTypes ==
    ASSUME NEW h, ConsistentLog(h)
    PROVE  FeesTyped(h)
<1>1. /\ NumFees(h) \in Nat \ {0} /\ DOMAIN h.fees = 0 .. NumFees(h) - 1
      /\ \A k \in DOMAIN h.fees : h.fees[k].ctn \in Entry
  BY FeeFacts
<1>2. \A e \in Entry : \A s \in Owner : e[s] \in Int
  BY DEF Entry, Ctn, None
<1> QED BY <1>1, <1>2 DEF FeesTyped

\* The last feerate that has reached the ctx
IsNewest(m, s, c, k) ==
    /\ k \in DOMAIN m.fees
    /\ \A j \in DOMAIN m.fees : InCtx(m.fees[j].ctn, s, c) <=> j <= k

\* get_feerate gives its rate.
FeeratesAreNewest(h) ==
    \A s \in Owner : \A c \in 0 .. next_ctn(h, s) : \A k \in DOMAIN h.fees :
        IsNewest(h, s, c, k) => get_feerate(h, s, c) = h.fees[k].rate

\* There is one.
NewestExists(h) ==
    \A s \in Owner : \A c \in 0 .. next_ctn(h, s) : \E k \in DOMAIN h.fees : IsNewest(h, s, c, k)

\* The binary search finds the last feerate that has reached the ctx.
LEMMA FeeratesFound ==
    ASSUME NEW h, ConsistentLog(h)
    PROVE  FeeratesAreNewest(h)
<1> SUFFICES ASSUME NEW s \in Owner, NEW c \in 0 .. next_ctn(h, s), NEW k \in DOMAIN h.fees,
                    IsNewest(h, s, c, k)
             PROVE  get_feerate(h, s, c) = h.fees[k].rate
  BY DEF FeeratesAreNewest
<1> DEFINE n == NumFees(h)
           P == {j \in 0 .. n : InCtx(h.fees[j].ctn, s, c)}
<1>1. n \in Nat \ {0} /\ DOMAIN h.fees = 0 .. n - 1
  BY FeeFacts
<1>2. get_feerate(h, s, c) = h.fees[Search(P, n)[<<0, n>>]].rate
  BY <1>1, GetFeerateIsSearch
<1>3. k \in 0 .. n - 1 /\ \A j \in 0 .. n - 1 : j \in P <=> j <= k
  BY <1>1 DEF IsNewest
<1> HIDE DEF n, P
<1> QED BY <1>1, <1>2, <1>3, SearchFinds

\* The feerates that have reached a ctx are the first ones, the very first included.
LEMMA NewestFound ==
    ASSUME NEW h, ConsistentLog(h), SortedFees(h)
    PROVE  NewestExists(h)
<1> SUFFICES ASSUME NEW s \in Owner, NEW c \in 0 .. next_ctn(h, s)
             PROVE  \E k \in DOMAIN h.fees : IsNewest(h, s, c, k)
  BY DEF NewestExists
<1> DEFINE n == NumFees(h)
           In(j) == InCtx(h.fees[j].ctn, s, c)
           G == {w \in Nat : w < n /\ In(w) => \E k \in DOMAIN h.fees : IsNewest(h, s, c, k)}
<1>1. n \in Nat \ {0} /\ DOMAIN h.fees = 0 .. n - 1 /\ \A j \in 0 .. n - 1 : h.fees[j].ctn[s] \in Int
  BY FeesTypes DEF FeesTyped
<1>2. c \in Nat
  <2>1. next_ctn(h, s) \in Nat
    BY TypedLogOK, CtnTypes DEF ConsistentLog
  <2> QED BY <2>1
<1>3. In(0)
  <2>1. h.fees[0].ctn[s] = 0
    BY DEF ConsistentLog, OrderedFees
  <2> QED BY <1>2, <2>1 DEF InCtx, None
<1>4. ASSUME NEW j \in 0 .. n - 1, NEW k \in 0 .. n - 1, k < j, In(j) PROVE In(k)
  <2>1. Before(h.fees[k].ctn, h.fees[j].ctn)
    BY <1>1, <1>4 DEF SortedFees
  <2> QED BY <1>1, <1>2, <1>4, <2>1 DEF Before, InCtx
<1> HIDE DEF n, In
<1>5. ASSUME NEW k \in 0 .. n - 1, In(k), \A j \in 0 .. n - 1 : j > k => ~In(j) PROVE IsNewest(h, s, c, k)
  <2>1. \A j \in 0 .. n - 1 : In(j) <=> j <= k
    <3> SUFFICES ASSUME NEW j \in 0 .. n - 1 PROVE In(j) <=> j <= k
      OBVIOUS
    <3>1. CASE j = k
      BY <1>5, <3>1
    <3>2. CASE j > k
      BY <1>1, <1>5, <3>2
    <3>3. CASE j < k
      BY <1>4, <1>5, <3>3
    <3> QED BY <1>1, <3>1, <3>2, <3>3
  <2> QED BY <1>1, <2>1 DEF IsNewest, In
<1> DEFINE H == {w \in Nat : w < n /\ (\E j \in 0 .. n - 1 : j >= n - 1 - w /\ In(j))
                                => \E k \in DOMAIN h.fees : IsNewest(h, s, c, k)}
<1>6. ASSUME NEW w \in Nat, \A v \in Nat : v < w => v \in H
      PROVE  w \in H
  <2> SUFFICES ASSUME w < n, NEW j \in 0 .. n - 1, j >= n - 1 - w, In(j)
               PROVE  \E k \in DOMAIN h.fees : IsNewest(h, s, c, k)
    OBVIOUS
  <2>1. CASE \A i \in 0 .. n - 1 : i > j => ~In(i)
    BY <1>1, <1>5, <2>1
  <2>2. CASE \E i \in 0 .. n - 1 : i > j /\ In(i)
    <3>1. PICK i \in 0 .. n - 1 : i > j /\ In(i)
      BY <2>2
    <3>2. w - 1 \in Nat /\ w - 1 < w /\ w - 1 < n /\ i >= n - 1 - (w - 1)
      BY <1>1, <3>1
    <3>3. w - 1 \in H
      BY <1>6, <3>2
    <3> QED BY <3>1, <3>2, <3>3
  <2> QED BY <2>1, <2>2
<1>7. n - 1 \in H
  <2>1. Nat \subseteq H
    <3> HIDE DEF H
    <3> QED BY <1>6, NumberInduction
  <2> QED BY <1>1, <2>1
<1>8. 0 \in 0 .. n - 1 /\ 0 >= n - 1 - (n - 1) /\ n - 1 < n
  BY <1>1
<1> QED BY <1>3, <1>7, <1>8

-----------------------------------------------------------------------------
(* The terms of what is signed *)

\* The balance of every ctx, revoked ones too
LEMMA BalanceIsWhole ==
    ASSUME NEW h, ConsistentLog(h), ExactDelta(h), NEW s \in Owner, NEW q \in Owner, NEW c \in 0 .. next_ctn(h, s)
    PROVE  get_balance_msat(h, q, s, c, 0) = BalanceOf(h, q, s, c)
<1>1. h.ctn[s] \in Nat /\ c \in Int /\ next_ctn(h, s) \in Int
  <2>1. LogOK(h)
    BY TypedLogOK DEF ConsistentLog
  <2> QED BY <2>1, CtnTypes
<1>2. CASE c >= h.ctn[s]
  <2>1. c \in h.ctn[s] .. next_ctn(h, s)
    BY <1>1, <1>2
  <2> QED BY <2>1, BalanceIsExact
<1>3. CASE ~(c >= h.ctn[s])
  <2> DEFINE moved(p) == AmountOf(h, p, SettledIn(h, s, c, p, Known(h, p)))
             o == Other(q)
  <2>1. o \in Owner
    BY EntryFacts
  <2>2. moved(q) \in Int /\ moved(o) \in Int
    BY <2>1, KnownTotals, AmountIsTotal DEF SettledIn
  <2>3. get_balance_msat(h, q, s, c, 0) = 0 + 0 - moved(q) + moved(o)
    BY <1>3 DEF get_balance_msat, considered_htlc_ids
  <2>4. BalanceOf(h, q, s, c) = moved(o) - moved(q)
    BY DEF BalanceOf
  <2> HIDE DEF moved
  <2> QED BY <2>2, <2>3, <2>4
<1> QED BY <1>2, <1>3

BalancesAreWhole(h) ==
    \A s, q \in Owner : \A c \in 0 .. next_ctn(h, s) :
        get_balance_msat(h, q, s, c, 0) = BalanceOf(h, q, s, c)

\* So it is for all ctxs up to the next one.
LEMMA BalancesWhole ==
    ASSUME NEW h, ConsistentLog(h), ExactDelta(h)
    PROVE  BalancesAreWhole(h)
  BY BalanceIsWhole DEF BalancesAreWhole

\* The htlcs that are settled in a signed ctx stay the same ones, of the same amounts.
LEMMA SettledStay ==
    ASSUME NEW h, NEW g, ConsistentLog(h), ConsistentLog(g), CtnsGrow(h, g), EntriesFrozen(h, g), NEW s \in Owner, NEW c \in 0 .. ctn_latest(h, s), NEW p \in Owner
    PROVE  AmountOf(g, p, SettledIn(g, s, c, p, Known(g, p))) = AmountOf(h, p, SettledIn(h, s, c, p, Known(h, p)))
<1> DEFINE S == SettledIn(h, s, c, p, Known(h, p))
           T == SettledIn(g, s, c, p, Known(g, p))
<1>1. TypedLog(h) /\ TypedLog(g) /\ LogOK(h) /\ ContiguousIds(h) /\ ContiguousIds(g) /\ OrderedEntries(h) /\ AddedFirst(h)
  BY TypedLogOK DEF ConsistentLog
<1>2. c \in Int /\ ctn_latest(h, s) \in Nat /\ c <= ctn_latest(h, s)
  BY <1>1, CtnTypes
<1>3. ASSUME NEW i \in HtlcIds
      PROVE  /\ InCtx(g.settles[p][i], s, c) <=> InCtx(h.settles[p][i], s, c)
             /\ InCtx(h.settles[p][i], s, c) => g.adds[p][i] = h.adds[p][i] /\ i \in Known(h, p)
  <2>1. h.settles[p][i] \in Entry /\ g.settles[p][i] \in Entry /\ h.locked[p][i] \in Entry
    BY <1>1 DEF TypedLog
  <2>2. Frozen(h, h.settles[p][i], g.settles[p][i])
    BY DEF EntriesFrozen
  <2>3. h.settles[p][i][s] \in Int /\ g.settles[p][i][s] \in Int
    BY <2>1 DEF Entry, Ctn, None
  <2>4. InCtx(g.settles[p][i], s, c) <=> InCtx(h.settles[p][i], s, c)
    BY <1>2, <2>2, <2>3 DEF Frozen, InCtx
  <2>5. ASSUME InCtx(h.settles[p][i], s, c)
        PROVE  g.adds[p][i] = h.adds[p][i] /\ i \in Known(h, p)
    <3>1. h.settles[p][i] # Absent
      BY <2>5 DEF InCtx, Absent
    <3>2. h.next[p] \in Nat /\ i \in Nat
      BY <1>1, EntryTypes
    <3>3. i < h.next[p]
      BY <1>1, <3>1, <3>2 DEF ContiguousIds
    <3>4. i \in Known(h, p)
      BY <1>1, <3>3 DEF ContiguousIds, Known
    <3> DEFINE f == Other(p)
               e == h.locked[p][i]
    <3>5. f \in Owner /\ Other(f) = p
      BY EntryFacts
    <3>6. e[f] # None /\ e[p] # None /\ EntryOK(h, e, f) /\ e # Absent
      BY <1>1, <3>1, <3>5 DEF AddedFirst, OrderedEntries, Absent
    <3>7. ~(e[f] > h.ctn[f]) /\ e[f] \in Int
      BY <2>1, <3>5, <3>6 DEF EntryOK, Entry, Ctn, None
    <3>8. h.ctn[f] \in Nat /\ ctn_latest(h, f) \in Nat /\ h.ctn[f] <= ctn_latest(h, f)
      BY <1>1, <3>5, CtnTypes
    <3> HIDE DEF f, e
    <3>9. InCtx(e, f, ctn_latest(h, f))
      BY <3>6, <3>7, <3>8 DEF InCtx
    <3>10. ~InNoSigned(h, e)
      BY <3>5, <3>9 DEF InNoSigned
    <3>11. g.adds[p][i] = h.adds[p][i]
      BY <3>10 DEF EntriesFrozen, e
    <3> QED BY <3>4, <3>11
  <2> QED BY <2>4, <2>5
<1>4. T = S /\ S \in SUBSET Known(h, p) /\ \A i \in S : h.adds[p][i] = g.adds[p][i]
  BY <1>3 DEF SettledIn, Known
<1> HIDE DEF S, T
<1>5. OfInts(h.adds[p], S)
  BY <1>4, KnownTotals
<1>6. Total(h.adds[p], S) = Total(g.adds[p], S)
  BY <1>4, <1>5, TotalSame
<1> QED BY <1>4, <1>6, AmountIsTotal DEF S, T

\* The feerate that was the newest in a signed ctx still is.
LEMMA NewestStays ==
    ASSUME NEW h, NEW g, ConsistentLog(h), ConsistentLog(g), FeesFrozen(h, g), NEW s \in Owner, NEW c \in 0 .. ctn_latest(h, s),
           NEW k \in DOMAIN h.fees, IsNewest(h, s, c, k)
    PROVE  IsNewest(g, s, c, k) /\ g.fees[k].rate = h.fees[k].rate
<1> DEFINE D == DOMAIN h.fees
           E == DOMAIN g.fees
<1>1. LogOK(h) /\ c \in Int /\ ctn_latest(h, s) \in Nat /\ c <= ctn_latest(h, s)
  BY TypedLogOK, CtnTypes DEF ConsistentLog
<1>2. /\ D = 0 .. NumFees(h) - 1 /\ E = 0 .. NumFees(g) - 1 /\ NumFees(h) \in Nat /\ NumFees(g) \in Nat
      /\ \A j \in D : h.fees[j].ctn[s] \in Int
      /\ \A j \in E : g.fees[j].ctn[s] \in Int
  <2>1. FeesTyped(h) /\ FeesTyped(g)
    BY FeesTypes
  <2> QED BY <2>1 DEF FeesTyped, NumFees
<1>3. ASSUME NEW e, e[s] \in Int, InNoSigned(h, e) PROVE ~InCtx(e, s, c)
  BY <1>1, <1>3 DEF InNoSigned, InCtx
<1>4. ASSUME NEW j \in D, j \in E
      PROVE  /\ InCtx(g.fees[j].ctn, s, c) <=> InCtx(h.fees[j].ctn, s, c)
             /\ InCtx(h.fees[j].ctn, s, c) => g.fees[j].rate = h.fees[j].rate
  <2>1. Frozen(h, h.fees[j].ctn, g.fees[j].ctn)
    BY <1>4 DEF FeesFrozen
  <2>2. h.fees[j].ctn[s] \in Int /\ g.fees[j].ctn[s] \in Int
    BY <1>2, <1>4
  <2>3. InCtx(g.fees[j].ctn, s, c) <=> InCtx(h.fees[j].ctn, s, c)
    BY <1>1, <2>1, <2>2 DEF Frozen, InCtx
  <2>4. \/ g.fees[j].rate = h.fees[j].rate
        \/ InNoSigned(h, h.fees[j].ctn)
    BY <1>4 DEF FeesFrozen
  <2> QED BY <1>3, <2>2, <2>3, <2>4
<1>5. \A j \in D : j \notin E => ~InCtx(h.fees[j].ctn, s, c)
  BY <1>2, <1>3 DEF FeesFrozen
<1>6. \A j \in E : j \notin D => ~InCtx(g.fees[j].ctn, s, c)
  BY <1>2, <1>3 DEF FeesFrozen
<1>7. k \in D /\ \A j \in D : InCtx(h.fees[j].ctn, s, c) <=> j <= k
  BY DEF IsNewest
<1> HIDE DEF D, E
<1>8. k \in E /\ InCtx(h.fees[k].ctn, s, c)
  BY <1>2, <1>5, <1>7
<1>9. ASSUME NEW j \in E PROVE InCtx(g.fees[j].ctn, s, c) <=> j <= k
  <2>1. CASE j \in D
    BY <1>4, <1>7, <2>1
  <2>2. CASE j \notin D
    <3>1. ~(j <= k)
      BY <1>2, <1>7, <2>2
    <3> QED BY <1>6, <2>2, <3>1
  <2> QED BY <2>1, <2>2
<1> QED BY <1>4, <1>7, <1>8, <1>9 DEF IsNewest, E

TermsStay(h, g) ==
    \A s \in Owner : \A c \in 0 .. ctn_latest(h, s) :
        /\ get_feerate(g, s, c) = get_feerate(h, s, c)
        /\ \A q \in Owner : get_balance_msat(g, q, s, c, 0) = get_balance_msat(h, q, s, c, 0)

\* The feerate and the balances of a signed ctx stay.
LEMMA SignedTermsFinal ==
    ASSUME NEW h, NEW g, ConsistentLog(h), ConsistentLog(g), ExactDelta(h), ExactDelta(g), SortedFees(h),
           CtnsGrow(h, g), EntriesFrozen(h, g), FeesFrozen(h, g)
    PROVE  TermsStay(h, g)
<1> SUFFICES ASSUME NEW s \in Owner, NEW c \in 0 .. ctn_latest(h, s)
             PROVE  /\ get_feerate(g, s, c) = get_feerate(h, s, c)
                    /\ \A q \in Owner : get_balance_msat(g, q, s, c, 0) = get_balance_msat(h, q, s, c, 0)
  BY DEF TermsStay
<1>2. LogOK(h) /\ LogOK(g)
  BY TypedLogOK DEF ConsistentLog
<1>3. c \in 0 .. next_ctn(h, s) /\ c \in 0 .. next_ctn(g, s)
  <2>1. /\ ctn_latest(h, s) \in Nat /\ next_ctn(h, s) = ctn_latest(h, s) + 1
        /\ ctn_latest(g, s) \in Nat /\ next_ctn(g, s) = ctn_latest(g, s) + 1
        /\ ctn_latest(h, s) <= ctn_latest(g, s)
    BY <1>2, CtnTypes DEF CtnsGrow
  <2> QED BY <2>1
<1>4. get_feerate(g, s, c) = get_feerate(h, s, c)
  <2>1. PICK k \in DOMAIN h.fees : IsNewest(h, s, c, k)
    BY <1>3, NewestFound DEF NewestExists
  <2>2. get_feerate(h, s, c) = h.fees[k].rate
    BY <1>3, <2>1, FeeratesFound DEF FeeratesAreNewest
  <2>3. IsNewest(g, s, c, k) /\ g.fees[k].rate = h.fees[k].rate
    BY <2>1, NewestStays
  <2>4. k \in DOMAIN g.fees
    BY <2>3 DEF IsNewest
  <2>5. FeeratesAreNewest(g)
    BY FeeratesFound
  <2>6. get_feerate(g, s, c) = g.fees[k].rate
    BY <1>3, <2>3, <2>4, <2>5 DEF FeeratesAreNewest
  <2> QED BY <2>2, <2>3, <2>6
<1>5. ASSUME NEW q \in Owner
      PROVE  get_balance_msat(g, q, s, c, 0) = get_balance_msat(h, q, s, c, 0)
  <2>1. get_balance_msat(h, q, s, c, 0) = BalanceOf(h, q, s, c)
    BY <1>3, BalancesWhole DEF BalancesAreWhole
  <2>2. BalancesAreWhole(g)
    BY BalancesWhole
  <2>3. get_balance_msat(g, q, s, c, 0) = BalanceOf(g, q, s, c)
    BY <1>3, <2>2 DEF BalancesAreWhole
  <2>4. BalanceOf(g, q, s, c) = BalanceOf(h, q, s, c)
    BY SettledStay, EntryFacts DEF BalanceOf
  <2> QED BY <2>1, <2>3, <2>4
<1> QED BY <1>4, <1>5

-----------------------------------------------------------------------------
(* The methods, and the relations that say what they change *)

\* What is kept for a replay may change, also after a call.
LEMMA AsideAfter ==
    ASSUME NEW F, NEW h, NEW n, NEW g, OnlyChanges(F, h, n), OnlyChanges(Aside, n, g)
    PROVE  /\ OnlyChanges(F \cup Aside, h, g)
           /\ \A f \in Fields \ Aside : g[f] = n[f]
  BY DEF OnlyChanges

\* store_local_update_raw_msg
LEMMA StoreIsAside ==
    ASSUME NEW m, DOMAIN m = Fields, NEW msg, NEW b
    PROVE  LET n == store_local_update_raw_msg(m, msg, b)
           IN  OnlyChanges(Aside, m, n) /\ n.revokeLast = m.revokeLast
  BY DEF store_local_update_raw_msg, OnlyChanges, Aside, Fields

\* send_htlc and recv_htlc
LEMMA AddHtlcIsAdded ==
    ASSUME NEW h, TypedLog(h), NEW p \in Owner, NEW amount \in Amounts, h.next[p] \in HtlcIds,
           NEW g, OnlyChanges(Aside, add_htlc(h, p, amount), g)
    PROVE  IsAdded(h, g, p, amount)
<1> DEFINE i == h.next[p]
           s == Other(p)
           n == add_htlc(h, p, amount)
<1>1. DOMAIN h = Fields
  BY LogFieldsAre
<1>2. /\ OnlyChanges({"next", "adds", "locked", "active"}, h, n)
      /\ n.next = [h.next EXCEPT ![p] = @ + 1]
      /\ n.adds = [h.adds EXCEPT ![p][i] = amount]
      /\ n.locked = [h.locked EXCEPT ![p][i] = Entered(s, next_ctn(h, s))]
      /\ n.active = [h.active EXCEPT ![p] = @ \cup {i}]
  BY <1>1 DEF add_htlc, Fields, OnlyChanges
<1>0. OnlyChanges(Aside, n, g)
  OBVIOUS
<1> HIDE DEF n
<1>3. /\ OnlyChanges({"next", "adds", "locked", "active"} \cup Aside, h, g)
      /\ \A f \in Fields \ Aside : g[f] = n[f]
  BY <1>0, <1>2, AsideAfter
<1>4. g.next = n.next /\ g.adds = n.adds /\ g.locked = n.locked /\ g.active = n.active
  BY <1>3 DEF Fields, Aside
<1>5. QED BY <1>2, <1>3, <1>4 DEF IsAdded

\* send_settle and recv_settle
LEMMA SettleHtlcIsSettled ==
    ASSUME NEW h, TypedLog(h), NEW p, NEW i, i \in Known(h, p), can_remove_htlc(h, p, i),
           NEW g, OnlyChanges(Aside, settle_htlc(h, p, i), g)
    PROVE  IsSettled(h, g, p, i)
<1> DEFINE n == settle_htlc(h, p, i)
<1>1. DOMAIN h = Fields
  BY LogFieldsAre
<1>2. OnlyChanges({"settles"}, h, n) /\ n.settles = [h.settles EXCEPT ![p][i] = Entered(p, next_ctn(h, p))]
  BY <1>1 DEF settle_htlc, Fields, OnlyChanges
<1>0. OnlyChanges(Aside, n, g)
  OBVIOUS
<1> HIDE DEF n
<1>3. OnlyChanges({"settles"} \cup Aside, h, g) /\ \A f \in Fields \ Aside : g[f] = n[f]
  BY <1>0, <1>2, AsideAfter
<1>4. g.settles = n.settles
  BY <1>3 DEF Fields, Aside
<1>5. QED BY <1>2, <1>3, <1>4 DEF IsSettled

\* send_fail and recv_fail
LEMMA FailHtlcIsFailed ==
    ASSUME NEW h, TypedLog(h), NEW p, NEW i, i \in Known(h, p), can_remove_htlc(h, p, i),
           NEW g, OnlyChanges(Aside, fail_htlc(h, p, i), g)
    PROVE  IsFailed(h, g, p, i)
<1> DEFINE n == fail_htlc(h, p, i)
<1>1. DOMAIN h = Fields
  BY LogFieldsAre
<1>2. OnlyChanges({"fails"}, h, n) /\ n.fails = [h.fails EXCEPT ![p][i] = Entered(p, next_ctn(h, p))]
  BY <1>1 DEF fail_htlc, Fields, OnlyChanges
<1>0. OnlyChanges(Aside, n, g)
  OBVIOUS
<1> HIDE DEF n
<1>3. OnlyChanges({"fails"} \cup Aside, h, g) /\ \A f \in Fields \ Aside : g[f] = n[f]
  BY <1>0, <1>2, AsideAfter
<1>4. g.fails = n.fails
  BY <1>3 DEF Fields, Aside
<1>5. QED BY <1>2, <1>3, <1>4 DEF IsFailed

\* send_update_fee and recv_update_fee
LEMMA UpdateFeeIsFeeUpdated ==
    ASSUME NEW h, TypedLog(h), NEW rate \in Rates,
           NEW g, OnlyChanges(Aside, update_fee(h, Other(h.initiator), rate), g)
    PROVE  IsFeeUpdated(h, g, rate)
<1> DEFINE s   == Other(h.initiator)
           n   == NumFees(h)
           new == [rate |-> rate, ctn |-> Entered(s, next_ctn(h, s))]
           u   == update_fee(h, s, rate)
           signedFor == \E t \in Owner : InCtx(h.fees[n - 1].ctn, t, ctn_latest(h, t))
<1>1. DOMAIN h = Fields
  BY LogFieldsAre
<1>2. n \in Nat /\ DOMAIN h.fees = 0 .. n - 1
  BY NumFeesNat DEF TypedLog
<1>3. DOMAIN h.fees \cup {n} = 0 .. n
  BY <1>2
<1>4. u = IF signedFor
          THEN [h EXCEPT !.fees = [k \in DOMAIN @ \cup {n} |-> IF k = n THEN new ELSE @[k]]]
          ELSE [h EXCEPT !.fees[n - 1] = new]
  BY Zenon DEF update_fee
<1>5. OnlyChanges(Aside, u, g)
  OBVIOUS
<1> HIDE DEF n, new, signedFor, u
<1>6. /\ OnlyChanges({"fees"}, h, u)
      /\ u.fees = IF signedFor THEN [k \in 0 .. n |-> IF k = n THEN new ELSE h.fees[k]]
                               ELSE [h.fees EXCEPT ![n - 1] = new]
  <2>1. CASE signedFor
    BY <1>1, <1>3, <1>4, <2>1 DEF OnlyChanges, Fields
  <2>2. CASE ~signedFor
    BY <1>1, <1>4, <2>2 DEF OnlyChanges, Fields
  <2>3. QED BY <2>1, <2>2
<1>7. OnlyChanges({"fees"} \cup Aside, h, g) /\ \A f \in Fields \ Aside : g[f] = u[f]
  BY <1>5, <1>6, AsideAfter
<1>8. g.fees = u.fees
  BY <1>7 DEF Fields, Aside
<1>9. QED BY <1>6, <1>7, <1>8 DEF n, new, signedFor, s, IsFeeUpdated

\* send_ctx and recv_ctx
LEMMA CtxIsSigned ==
    ASSUME NEW h, TypedLog(h), NEW g
    PROVE  /\ can_sign(h, Remote) /\ OnlyChanges(Aside, send_ctx(h), g) => IsSigned(h, g, Remote)
           /\ can_sign(h, Local) /\ OnlyChanges(Aside, recv_ctx(h), g) => IsSigned(h, g, Local)
<1>1. DOMAIN h = Fields
  BY LogFieldsAre
<1>2. /\ OnlyChanges({"revack"} \cup Aside, h, send_ctx(h))
      /\ send_ctx(h).revack = [h.revack EXCEPT ![Remote] = TRUE]
  BY <1>1 DEF send_ctx, OnlyChanges, Fields, Aside
<1>3. /\ OnlyChanges({"revack"} \cup Aside, h, recv_ctx(h))
      /\ recv_ctx(h).revack = [h.revack EXCEPT ![Local] = TRUE]
  BY <1>1 DEF recv_ctx, OnlyChanges, Fields, Aside
<1>4. ASSUME NEW n, OnlyChanges({"revack"} \cup Aside, h, n), OnlyChanges(Aside, n, g)
      PROVE  OnlyChanges({"revack"} \cup Aside, h, g) /\ g.revack = n.revack
  BY <1>4 DEF OnlyChanges, Fields, Aside
<1>5. QED BY <1>2, <1>3, <1>4 DEF IsSigned

\* send_rev and recv_rev
LEMMA RevIsRevoked ==
    ASSUME NEW h, TypedLog(h), NEW g
    PROVE  /\ can_revoke(h, Local) /\ OnlyChanges(Aside, send_rev(h), g) => IsRevoked(h, g, Local)
           /\ can_revoke(h, Remote) /\ OnlyChanges(Aside, recv_rev(h), g) => IsRevoked(h, g, Remote)
<1>1. DOMAIN Revoked(h, Local) = Fields /\ DOMAIN Revoked(h, Remote) = Fields
  BY RevokedEffect DEF Owner
<1>2. OnlyChanges(Aside, Revoked(h, Local), send_rev(h))
  BY <1>1 DEF send_rev, OnlyChanges, Fields, Aside
<1>3. OnlyChanges(Aside, Revoked(h, Remote), recv_rev(h))
  BY <1>1 DEF recv_rev, OnlyChanges, Fields, Aside
<1>4. QED BY <1>2, <1>3 DEF IsRevoked, OnlyChanges

-----------------------------------------------------------------------------
(* What a side has in a ctx besides what it had at the start: the htlcs of *)
(* the other side that are settled in it, less its own that are in it or   *)
(* were settled in it.                                                     *)

Owed(m, p, s, c) ==
    {i \in Known(m, p) : \/ InCtx(m.settles[p][i], s, c)
                         \/ InCtx(m.locked[p][i], s, c) /\ ~InCtx(m.fails[p][i], s, c)}
Gained(m, p, s, c) == SettledIn(m, s, c, Other(p), Known(m, Other(p)))
Funds(m, p, s, c) ==
    AmountOf(m, Other(p), Gained(m, p, s, c)) - AmountOf(m, p, Owed(m, p, s, c))

\* No side spends in an unrevoked ctx, or in the next one, what it does not have.
Solvent(m, initial) ==
    \A p, s \in Owner : \A c \in m.ctn[s] .. next_ctn(m, s) : initial[p] + Funds(m, p, s, c) >= 0

\* What p has in t's ctx at d, in g, is at least what it has in s's ctx at c, in h.
NoWorse(h, s, c, g, t, d, p) ==
    /\ \A i \in Owed(g, p, t, d) : i \in Owed(h, p, s, c) /\ g.adds[p][i] = h.adds[p][i]
    /\ \A i \in Gained(h, p, s, c) :
          i \in Gained(g, p, t, d) /\ g.adds[Other(p)][i] = h.adds[Other(p)][i]

LEMMA OwedTotals ==
    ASSUME NEW h, ConsistentLog(h), NEW p \in Owner, NEW S \in SUBSET Known(h, p)
    PROVE  IsFiniteSet(S) /\ (\A i \in S : h.adds[p][i] \in Nat) /\ Total(h.adds[p], S) \in Nat
<1>1. OfInts(h.adds[p], S)
  BY KnownTotals
<1>2. \A a \in Amounts \cup {0} : a \in Nat
  BY AmountsAssumption
<1>3. h.adds[p] \in [HtlcIds -> Amounts \cup {0}]
  BY DEF ConsistentLog, TypedLog
<1>4. \A i \in S : h.adds[p][i] \in Nat
  BY <1>2, <1>3 DEF Known
<1>5. IsFiniteSet(S)
  BY <1>1 DEF OfInts
<1> QED BY <1>4, <1>5, TotalOfNaturals

LEMMA FundsAreTotals ==
    ASSUME NEW h, ConsistentLog(h), NEW p \in Owner, NEW s, NEW c
    PROVE  /\ Owed(h, p, s, c) \in SUBSET Known(h, p)
           /\ Gained(h, p, s, c) \in SUBSET Known(h, Other(p))
           /\ Funds(h, p, s, c) = Total(h.adds[Other(p)], Gained(h, p, s, c))
                                    - Total(h.adds[p], Owed(h, p, s, c))
           /\ Funds(h, p, s, c) \in Int
<1>1. Other(p) \in Owner
  BY EntryFacts
<1>2. Owed(h, p, s, c) \in SUBSET Known(h, p) /\ Gained(h, p, s, c) \in SUBSET Known(h, Other(p))
  BY DEF Owed, Gained, SettledIn
<1>3. Funds(h, p, s, c) = Total(h.adds[Other(p)], Gained(h, p, s, c)) - Total(h.adds[p], Owed(h, p, s, c))
  BY AmountIsTotal DEF Funds
<1>4. Total(h.adds[p], Owed(h, p, s, c)) \in Nat /\ Total(h.adds[Other(p)], Gained(h, p, s, c)) \in Nat
  BY <1>1, <1>2, OwedTotals
<1> QED BY <1>2, <1>3, <1>4

\* A part of what is summed sums to no more.
LEMMA PartOfTotal ==
    ASSUME NEW f, NEW e, NEW S, IsFiniteSet(S), \A i \in S : f[i] \in Nat,
           NEW T \in SUBSET S, \A i \in T : e[i] = f[i]
    PROVE  Total(e, T) <= Total(f, S)
<1>1. Total(f, T) <= Total(f, S)
  BY TotalOfNaturals
<1>2. OfInts(f, T)
  BY TotalOfNaturals, OfIntsSubset
<1>3. Total(f, T) = Total(e, T)
  BY <1>2, TotalSame
<1> QED BY <1>1, <1>3

LEMMA NoWorseFunds ==
    ASSUME NEW h, NEW g, ConsistentLog(h), ConsistentLog(g), NEW p \in Owner,
           NEW s, NEW c, NEW t, NEW d, NoWorse(h, s, c, g, t, d, p)
    PROVE  Funds(h, p, s, c) <= Funds(g, p, t, d)
<1> DEFINE o == Other(p)
           A == Gained(h, p, s, c)
           B == Gained(g, p, t, d)
           C == Owed(h, p, s, c)
           D == Owed(g, p, t, d)
<1>1. o \in Owner
  BY EntryFacts
<1>2. /\ C \in SUBSET Known(h, p) /\ A \in SUBSET Known(h, o)
      /\ D \in SUBSET Known(g, p) /\ B \in SUBSET Known(g, o)
      /\ Funds(h, p, s, c) = Total(h.adds[o], A) - Total(h.adds[p], C)
      /\ Funds(g, p, t, d) = Total(g.adds[o], B) - Total(g.adds[p], D)
  BY FundsAreTotals
<1>3. /\ D \in SUBSET C /\ (\A i \in D : g.adds[p][i] = h.adds[p][i])
      /\ A \in SUBSET B /\ (\A i \in A : h.adds[o][i] = g.adds[o][i])
  BY DEF NoWorse
<1> HIDE DEF A, B, C, D, o
<1>4. /\ IsFiniteSet(C) /\ (\A i \in C : h.adds[p][i] \in Nat)
      /\ IsFiniteSet(B) /\ (\A i \in B : g.adds[o][i] \in Nat)
  BY <1>1, <1>2, OwedTotals
<1>5. Total(g.adds[p], D) <= Total(h.adds[p], C)
  BY <1>3, <1>4, PartOfTotal
<1>6. Total(h.adds[o], A) <= Total(g.adds[o], B)
  BY <1>3, <1>4, PartOfTotal
<1>7. /\ Total(g.adds[p], D) \in Nat /\ Total(h.adds[p], C) \in Nat
      /\ Total(h.adds[o], A) \in Nat /\ Total(g.adds[o], B) \in Nat
  BY <1>1, <1>2, OwedTotals
<1> QED BY <1>2, <1>5, <1>6, <1>7

\* An htlc that is settled or failed, in any ctx, was in both unrevoked ones.
LEMMA RemovedIsSigned ==
    ASSUME NEW h, ConsistentLog(h), NEW p \in Owner, NEW i \in HtlcIds,
           h.settles[p][i] # Absent \/ h.fails[p][i] # Absent
    PROVE  /\ i \in Known(h, p)
           /\ \A t \in Owner : h.locked[p][i][t] # None /\ h.locked[p][i][t] <= next_ctn(h, t)
           /\ InCtx(h.locked[p][i], Other(p), h.ctn[Other(p)])
           /\ ~InNoSigned(h, h.locked[p][i])
<1> DEFINE f == Other(p)
           e == h.locked[p][i]
<1>1. TypedLog(h) /\ LogOK(h) /\ ContiguousIds(h) /\ OrderedEntries(h) /\ AddedFirst(h)
  BY TypedLogOK DEF ConsistentLog
<1>2. h.next[p] \in Nat /\ i \in Nat /\ e \in Entry
  BY <1>1, EntryTypes
<1>3. i < h.next[p]
  BY <1>1, <1>2 DEF ContiguousIds
<1>4. i \in Known(h, p)
  BY <1>1, <1>3 DEF ContiguousIds, Known
<1>5. f \in Owner /\ Other(f) = p /\ \A t \in Owner : t = f \/ t = p
  BY EntryFacts
<1>6. e[f] # None /\ e[p] # None /\ EntryOK(h, e, f) /\ e # Absent
  BY <1>1, <1>5 DEF AddedFirst, OrderedEntries, Absent
<1>7. e[f] <= h.ctn[f] /\ e[f] \in Int /\ e[f] <= next_ctn(h, f) /\ e[p] <= next_ctn(h, p)
  BY <1>1, <1>2, <1>5, <1>6, CtnTypes DEF EntryOK, Entry, Ctn, None
<1>8. h.ctn[f] \in Nat /\ ctn_latest(h, f) \in Nat /\ h.ctn[f] <= ctn_latest(h, f)
  BY <1>1, <1>5, CtnTypes
<1>9. InCtx(e, f, h.ctn[f])
  BY <1>6, <1>7 DEF InCtx
<1>10. ~InNoSigned(h, e)
  BY <1>5, <1>6, <1>7, <1>8 DEF InNoSigned, InCtx
<1>11. \A t \in Owner : e[t] # None /\ e[t] <= next_ctn(h, t)
  <2> SUFFICES ASSUME NEW t \in Owner PROVE e[t] # None /\ e[t] <= next_ctn(h, t)
    OBVIOUS
  <2>1. t = f \/ t = p
    BY <1>5
  <2> QED BY <1>6, <1>7, <2>1
<1> QED BY <1>4, <1>9, <1>10, <1>11

-----------------------------------------------------------------------------
(* Nobody has less after a call, but for who adds an htlc. *)

\* The tables of p's htlcs, as far as they concern t's ctx at d, are those of s's ctx at c.
LEMMA SameEntriesNoWorse ==
    ASSUME NEW h, NEW g, NEW p \in Owner, NEW s, NEW c, NEW t, NEW d,
           \A q \in Owner, i \in HtlcIds :
               /\ InCtx(g.locked[q][i], t, d) <=> InCtx(h.locked[q][i], s, c)
               /\ InCtx(g.settles[q][i], t, d) <=> InCtx(h.settles[q][i], s, c)
               /\ InCtx(g.fails[q][i], t, d) <=> InCtx(h.fails[q][i], s, c)
               /\ InCtx(h.locked[q][i], s, c) \/ InCtx(h.settles[q][i], s, c) =>
                     g.adds[q][i] = h.adds[q][i]
    PROVE  NoWorse(h, s, c, g, t, d, p)
<1>1. Other(p) \in Owner
  BY EntryFacts
<1>2. \A i \in Owed(g, p, t, d) : i \in Owed(h, p, s, c) /\ g.adds[p][i] = h.adds[p][i]
  BY DEF Owed, Known
<1>3. \A i \in Gained(h, p, s, c) :
        i \in Gained(g, p, t, d) /\ g.adds[Other(p)][i] = h.adds[Other(p)][i]
  BY <1>1 DEF Gained, SettledIn, Known
<1> QED BY <1>2, <1>3 DEF NoWorse

LEMMA SignedNoWorse ==
    ASSUME NEW h, NEW g, ConsistentLog(h), ConsistentLog(g), CtnsGrow(h, g), EntriesFrozen(h, g),
           NEW t \in Owner, NEW d \in 0 .. ctn_latest(h, t), NEW p \in Owner
    PROVE  NoWorse(h, t, d, g, t, d, p)
<1> SUFFICES ASSUME NEW q \in Owner, NEW i \in HtlcIds
             PROVE  /\ InCtx(g.locked[q][i], t, d) <=> InCtx(h.locked[q][i], t, d)
                    /\ InCtx(g.settles[q][i], t, d) <=> InCtx(h.settles[q][i], t, d)
                    /\ InCtx(g.fails[q][i], t, d) <=> InCtx(h.fails[q][i], t, d)
                    /\ InCtx(h.locked[q][i], t, d) \/ InCtx(h.settles[q][i], t, d) =>
                          g.adds[q][i] = h.adds[q][i]
  BY SameEntriesNoWorse
<1>1. TypedLog(h) /\ TypedLog(g) /\ LogOK(h)
  BY TypedLogOK DEF ConsistentLog
<1>2. /\ h.locked[q][i] \in Entry /\ h.settles[q][i] \in Entry /\ h.fails[q][i] \in Entry
      /\ g.locked[q][i] \in Entry /\ g.settles[q][i] \in Entry /\ g.fails[q][i] \in Entry
  BY <1>1 DEF TypedLog
<1>3. d \in Int /\ ctn_latest(h, t) \in Nat /\ d <= ctn_latest(h, t)
  BY <1>1, CtnTypes
<1>4. ASSUME NEW e \in Entry, NEW x \in Entry, Frozen(h, e, x)
      PROVE  InCtx(x, t, d) <=> InCtx(e, t, d)
  <2>1. e[t] \in Int /\ x[t] \in Int
    BY DEF Entry, Ctn, None
  <2> QED BY <1>3, <1>4, <2>1 DEF Frozen, InCtx
<1>5. /\ InCtx(g.locked[q][i], t, d) <=> InCtx(h.locked[q][i], t, d)
      /\ InCtx(g.settles[q][i], t, d) <=> InCtx(h.settles[q][i], t, d)
      /\ InCtx(g.fails[q][i], t, d) <=> InCtx(h.fails[q][i], t, d)
  BY <1>2, <1>4 DEF EntriesFrozen
<1>6. InCtx(h.locked[q][i], t, d) \/ InCtx(h.settles[q][i], t, d) => ~InNoSigned(h, h.locked[q][i])
  <2>1. h.locked[q][i][t] \in Int
    BY <1>2 DEF Entry, Ctn, None
  <2>2. InCtx(h.locked[q][i], t, d) => ~InNoSigned(h, h.locked[q][i])
    BY <1>3, <2>1 DEF InNoSigned, InCtx
  <2>3. InCtx(h.settles[q][i], t, d) => h.settles[q][i] # Absent
    BY DEF InCtx, Absent
  <2> QED BY <2>2, <2>3, RemovedIsSigned
<1> QED BY <1>5, <1>6 DEF EntriesFrozen

\* A side has at least as much in its own next ctx as in the other side's oldest one: its
\* own htlcs are there first, and so are the removals of the other side's.
LEMMA OwnNextNoWorse ==
    ASSUME NEW h, ConsistentLog(h), NEW p \in Owner
    PROVE  NoWorse(h, Other(p), h.ctn[Other(p)], h, p, next_ctn(h, p), p)
<1> DEFINE o == Other(p)
<1>1. TypedLog(h) /\ LogOK(h) /\ OrderedEntries(h) /\ AddedFirst(h) /\ RemovedOnce(h)
  BY TypedLogOK DEF ConsistentLog
<1>2. o \in Owner /\ o # p /\ Other(o) = p
  BY EntryFacts
<1>3. h.ctn[o] \in Nat /\ h.ctn[p] \in Nat /\ next_ctn(h, p) \in Nat /\ next_ctn(h, o) \in Nat
  BY <1>1, <1>2, CtnTypes
<1>4. ASSUME NEW i \in Owed(h, p, p, next_ctn(h, p))
      PROVE  i \in Owed(h, p, o, h.ctn[o])
  <2>1. i \in HtlcIds /\ i \in Known(h, p)
    BY DEF Owed, Known
  <2> DEFINE l == h.locked[p][i]
             e == h.settles[p][i]
             f == h.fails[p][i]
  <2>2. l \in Entry /\ e \in Entry /\ f \in Entry /\ EntryOK(h, l, o) /\ EntryOK(h, f, p)
    BY <1>1, <1>2, <2>1 DEF TypedLog, OrderedEntries
  <2>3. f # Absent => InCtx(f, p, next_ctn(h, p))
    BY <2>2 DEF EntryOK, InCtx, None
  <2>4. e # Absent => f = Absent
    BY <1>1, <2>1 DEF RemovedOnce
  <2>5. e # Absent \/ l[p] # None
    BY DEF Owed, InCtx, Absent
  <2>6. f = Absent
    BY <2>3, <2>4 DEF Owed, InCtx, Absent
  <2>7. l[o] # None /\ l[o] <= h.ctn[o]
    <3>1. CASE e # Absent
      BY <2>1, <3>1, RemovedIsSigned DEF InCtx
    <3>2. CASE l[p] # None
      <4>1. l # Absent
        BY <3>2 DEF Absent
      <4>2. l[o] \in Int
        BY <1>2, <2>2 DEF Entry, Ctn, None
      <4>3. l[o] \in 1 .. next_ctn(h, o) /\ ~(l[o] > h.ctn[o])
        BY <1>2, <2>2, <3>2, <4>1 DEF EntryOK
      <4> QED BY <1>3, <4>2, <4>3 DEF None
    <3> QED BY <2>5, <3>1, <3>2
  <2>8. f[o] = None
    BY <1>2, <2>6 DEF Absent
  <2> QED BY <2>1, <2>7, <2>8 DEF Owed, InCtx
<1>5. ASSUME NEW i \in Gained(h, p, o, h.ctn[o])
      PROVE  i \in Gained(h, p, p, next_ctn(h, p))
  <2> DEFINE e == h.settles[o][i]
  <2>1. i \in Known(h, o) /\ i \in HtlcIds /\ e[o] # None /\ e[o] <= h.ctn[o]
    BY DEF Gained, SettledIn, InCtx, Known
  <2>2. e \in Entry /\ EntryOK(h, e, o) /\ e # Absent
    BY <1>1, <1>2, <2>1 DEF TypedLog, OrderedEntries, Absent
  <2>3. e[o] \in Int
    BY <1>2, <2>2 DEF Entry, Ctn, None
  <2>4. e[p] # None /\ e[p] <= next_ctn(h, p)
    BY <1>2, <1>3, <2>1, <2>2, <2>3 DEF EntryOK
  <2> QED BY <2>1, <2>4 DEF Gained, SettledIn, InCtx
<1> QED BY <1>4, <1>5 DEF NoWorse

LEMMA SameTablesNoWorse ==
    ASSUME NEW h, NEW g, NEW p \in Owner, NEW t, NEW d,
           g.adds = h.adds, g.locked = h.locked, g.settles = h.settles, g.fails = h.fails
    PROVE  NoWorse(h, t, d, g, t, d, p)
  BY SameEntriesNoWorse

\* A ctx after the next one would have what the next one has.
LEMMA AfterNextNoWorse ==
    ASSUME NEW h, NEW g, ConsistentLog(h), NEW p \in Owner, NEW t \in Owner,
           g.adds = h.adds, g.locked = h.locked, g.settles = h.settles, g.fails = h.fails
    PROVE  NoWorse(h, t, next_ctn(h, t), g, t, next_ctn(h, t) + 1, p)
<1> SUFFICES ASSUME NEW q \in Owner, NEW i \in HtlcIds
             PROVE  /\ InCtx(h.locked[q][i], t, next_ctn(h, t) + 1) <=> InCtx(h.locked[q][i], t, next_ctn(h, t))
                    /\ InCtx(h.settles[q][i], t, next_ctn(h, t) + 1) <=> InCtx(h.settles[q][i], t, next_ctn(h, t))
                    /\ InCtx(h.fails[q][i], t, next_ctn(h, t) + 1) <=> InCtx(h.fails[q][i], t, next_ctn(h, t))
  BY SameEntriesNoWorse
<1>1. TypedLog(h) /\ LogOK(h) /\ OrderedEntries(h)
  BY TypedLogOK DEF ConsistentLog
<1>2. next_ctn(h, t) \in Nat
  BY <1>1, CtnTypes
<1>3. ASSUME NEW e \in Entry, NEW f \in Owner, EntryOK(h, e, f)
      PROVE  InCtx(e, t, next_ctn(h, t) + 1) <=> InCtx(e, t, next_ctn(h, t))
  <2>1. e[t] \in Int /\ (t = f \/ t = Other(f))
    BY EntryFacts DEF Entry, Ctn, None
  <2>2. e = Absent => e[t] = None
    BY DEF Absent
  <2>3. e # Absent => e[t] <= next_ctn(h, t)
    BY <2>1, <1>3 DEF EntryOK
  <2> QED BY <1>2, <2>1, <2>2, <2>3 DEF InCtx
<1>4. q \in Owner /\ Other(q) \in Owner
  BY EntryFacts
<1> QED BY <1>1, <1>3, <1>4 DEF TypedLog, OrderedEntries

\* All that has to be shown of a call is this, of the other side's next ctx.
NextIsNoWorse(h, g, p) ==
    LET o == Other(p)
    IN  \E c \in h.ctn[o] .. next_ctn(h, o) : NoWorse(h, o, c, g, o, next_ctn(g, o), p)

LEMMA AddHtlcNoWorse ==
    ASSUME NEW h, NEW g, ConsistentLog(h), ConsistentLog(g), NEW p \in Owner, NEW amount,
           IsAdded(h, g, p, amount)
    PROVE  LET o == Other(p)
           IN  /\ NextIsNoWorse(h, g, o)
               /\ next_ctn(g, o) = next_ctn(h, o)
               /\ Funds(h, p, o, next_ctn(h, o)) - amount <= Funds(g, p, o, next_ctn(g, o))
<1> DEFINE o == Other(p)
           n == h.next[p]
           k == next_ctn(h, o)
<1>1. TypedLog(h) /\ TypedLog(g) /\ LogOK(h) /\ ContiguousIds(h) /\ OrderedEntries(h)
  BY TypedLogOK DEF ConsistentLog
<1>2. o \in Owner /\ o # p /\ Other(o) = p /\ \A q \in Owner : q = p \/ q = o
  BY EntryFacts
<1>3. /\ g.ctn = h.ctn /\ g.revack = h.revack /\ g.settles = h.settles /\ g.fails = h.fails
      /\ n \in HtlcIds /\ amount \in Amounts
      /\ g.adds = [h.adds EXCEPT ![p][n] = amount]
      /\ g.locked = [h.locked EXCEPT ![p][n] = Entered(o, next_ctn(h, o))]
  BY DEF IsAdded, OnlyChanges, Fields, Aside
<1>4. /\ \A t \in Owner : next_ctn(g, t) = next_ctn(h, t)
      /\ \A t \in Owner : h.ctn[t] \in Nat /\ next_ctn(h, t) \in Nat /\ h.ctn[t] <= next_ctn(h, t)
  BY <1>1, <1>3, CtnTypes DEF next_ctn, ctn_latest
<1>5. /\ h.adds \in [Owner -> [HtlcIds -> Amounts \cup {0}]]
      /\ h.locked \in [Owner -> [HtlcIds -> Entry]]
  BY <1>1 DEF TypedLog
<1>6. /\ \A i \in HtlcIds : g.adds[o][i] = h.adds[o][i] /\ g.locked[o][i] = h.locked[o][i]
      /\ \A i \in HtlcIds : i # n => g.adds[p][i] = h.adds[p][i] /\ g.locked[p][i] = h.locked[p][i]
      /\ g.adds[p][n] = amount
  BY <1>2, <1>3, <1>5
<1>7. h.adds[p][n] = 0 /\ n \notin Known(h, p) /\ h.settles[p][n] = Absent
  <2>1. n \in Nat
    BY <1>3, HtlcIdsAssumption
  <2> QED BY <1>1, <1>3, <2>1 DEF ContiguousIds, Known
<1>8. NextIsNoWorse(h, g, o)
  <2>1. next_ctn(g, p) = next_ctn(h, p) /\ next_ctn(h, p) \in h.ctn[p] .. next_ctn(h, p)
    BY <1>4
  <2>2. \A i \in Owed(g, o, p, next_ctn(h, p)) :
          i \in Owed(h, o, p, next_ctn(h, p)) /\ g.adds[o][i] = h.adds[o][i]
    BY <1>3, <1>6 DEF Owed, Known
  <2>3. \A i \in Gained(h, o, p, next_ctn(h, p)) :
          i \in Gained(g, o, p, next_ctn(h, p)) /\ g.adds[p][i] = h.adds[p][i]
    BY <1>2, <1>3, <1>6, <1>7 DEF Gained, SettledIn, Known
  <2>4. NoWorse(h, p, next_ctn(h, p), g, p, next_ctn(g, p), o)
    BY <1>2, <2>1, <2>2, <2>3 DEF NoWorse
  <2> QED BY <1>2, <2>1, <2>4 DEF NextIsNoWorse
<1>9. Funds(h, p, o, k) - amount <= Funds(g, p, o, k)
  <2> DEFINE A == Gained(h, p, o, k)
             B == Gained(g, p, o, k)
             C == Owed(h, p, o, k)
             D == Owed(g, p, o, k)
             E == D \ {n}
  <2>1. /\ C \in SUBSET Known(h, p) /\ A \in SUBSET Known(h, o)
        /\ D \in SUBSET Known(g, p) /\ B \in SUBSET Known(g, o)
        /\ Funds(h, p, o, k) = Total(h.adds[o], A) - Total(h.adds[p], C)
        /\ Funds(g, p, o, k) = Total(g.adds[o], B) - Total(g.adds[p], D)
    BY FundsAreTotals
  <2>2. \A i \in HtlcIds : i # n => (i \in Known(g, p) <=> i \in Known(h, p))
    BY <1>6 DEF Known
  <2>3. E \in SUBSET C /\ \A i \in E : g.adds[p][i] = h.adds[p][i]
    <3>1. D \subseteq HtlcIds
      BY DEF Owed, Known
    <3> QED BY <1>3, <1>6, <2>2, <3>1 DEF Owed
  <2>4. A \in SUBSET B /\ \A i \in A : h.adds[o][i] = g.adds[o][i]
    BY <1>3, <1>6 DEF Gained, SettledIn, Known
  <2>5. amount \in Nat
    BY <1>3, AmountsAssumption
  <2>6. g.adds[p][n] = amount
    BY <1>6
  <2>7. E \in SUBSET Known(g, p)
    BY <2>1
  <2> HIDE DEF A, B, C, D, o, n, k
  <2>8. /\ IsFiniteSet(C) /\ (\A i \in C : h.adds[p][i] \in Nat) /\ Total(h.adds[p], C) \in Nat
        /\ IsFiniteSet(B) /\ (\A i \in B : g.adds[o][i] \in Nat) /\ Total(g.adds[o], B) \in Nat
        /\ Total(h.adds[o], A) \in Nat /\ Total(g.adds[p], E) \in Nat /\ Total(g.adds[p], D) \in Nat
    BY <1>2, <2>1, <2>7, OwedTotals
  <2>9. Total(g.adds[p], E) <= Total(h.adds[p], C)
    BY <2>3, <2>8, PartOfTotal
  <2>10. Total(h.adds[o], A) <= Total(g.adds[o], B)
    BY <2>4, <2>8, PartOfTotal
  <2>11. Total(g.adds[p], D) <= Total(g.adds[p], E) + amount
    <3>1. CASE n \in D
      <4>1. OfInts(g.adds[p], D)
        BY <2>1, KnownTotals
      <4>2. Total(g.adds[p], D) = g.adds[p][n] + Total(g.adds[p], E)
        BY <3>1, <4>1, TotalSplit
      <4> QED BY <2>5, <2>6, <2>8, <4>2
    <3>2. CASE n \notin D
      <4>1. E = D
        BY <3>2
      <4> QED BY <2>5, <2>8, <4>1
    <3> QED BY <3>1, <3>2
  <2> HIDE DEF E
  <2> QED BY <2>1, <2>5, <2>8, <2>9, <2>10, <2>11
<1> QED BY <1>2, <1>4, <1>8, <1>9

\* A call that removes an htlc of q
LEMMA RemovalNoWorse ==
    ASSUME NEW h, NEW g, ConsistentLog(h), ConsistentLog(g), NEW q \in Owner, NEW n \in HtlcIds,
           IsRemoved(h, g, q, n), NEW p \in Owner
    PROVE  NextIsNoWorse(h, g, p)
<1> DEFINE o == Other(p)
           k == next_ctn(h, o)
<1>1. TypedLog(h) /\ LogOK(h)
  BY TypedLogOK DEF ConsistentLog
<1>2. o \in Owner /\ o # p /\ Other(o) = p /\ (q = p \/ q = o)
  BY EntryFacts
<1>3. /\ g.ctn = h.ctn /\ g.revack = h.revack /\ g.adds = h.adds /\ g.locked = h.locked
      /\ g.settles = h.settles \/ g.settles = [h.settles EXCEPT ![q][n] = Entered(q, next_ctn(h, q))]
      /\ g.fails = h.fails \/ g.fails = [h.fails EXCEPT ![q][n] = Entered(q, next_ctn(h, q))]
  BY DEF IsRemoved, IsSettled, IsFailed, OnlyChanges, Fields, Aside
<1>4. h.settles[q][n] = Absent /\ h.fails[q][n] = Absent
  BY RemovableFacts DEF IsRemoved, IsSettled, IsFailed
<1>5. next_ctn(g, o) = k /\ k \in h.ctn[o] .. k
  BY <1>1, <1>2, <1>3, CtnTypes DEF next_ctn, ctn_latest
<1>6. h.settles \in [Owner -> [HtlcIds -> Entry]] /\ h.fails \in [Owner -> [HtlcIds -> Entry]]
  BY <1>1 DEF TypedLog
<1>7. Entered(q, next_ctn(h, q)) \in Entry /\ Entered(q, next_ctn(h, q))[q] = next_ctn(h, q)
      /\ Entered(q, next_ctn(h, q))[Other(q)] = None
  BY <1>1, CtnTypes, EntryFacts
<1>8. Absent[o] = None /\ Absent[p] = None
  BY <1>2 DEF Absent
<1>9. \A i \in HtlcIds :
        /\ InCtx(g.settles[p][i], o, k) <=> InCtx(h.settles[p][i], o, k)
        /\ InCtx(g.fails[p][i], o, k) <=> InCtx(h.fails[p][i], o, k)
        /\ InCtx(h.settles[o][i], o, k) => InCtx(g.settles[o][i], o, k)
  <2> SUFFICES ASSUME NEW i \in HtlcIds
               PROVE  /\ InCtx(g.settles[p][i], o, k) <=> InCtx(h.settles[p][i], o, k)
                      /\ InCtx(g.fails[p][i], o, k) <=> InCtx(h.fails[p][i], o, k)
                      /\ InCtx(h.settles[o][i], o, k) => InCtx(g.settles[o][i], o, k)
    OBVIOUS
  <2> HIDE DEF k
  <2>1. CASE q = p
    <3>1. g.settles[o][i] = h.settles[o][i]
      BY <1>2, <1>3, <1>6, <2>1
    <3>2. CASE i # n
      <4>1. g.settles[p][i] = h.settles[p][i] /\ g.fails[p][i] = h.fails[p][i]
        BY <1>3, <1>6, <2>1, <3>2
      <4> QED BY <3>1, <4>1
    <3>3. CASE i = n
      <4>1. g.settles[p][i] \in {Absent, Entered(q, next_ctn(h, q))} /\ g.fails[p][i] \in {Absent, Entered(q, next_ctn(h, q))}
        BY <1>3, <1>4, <1>6, <2>1, <3>3
      <4>2. g.settles[p][i][o] = None /\ g.fails[p][i][o] = None
        BY <1>7, <1>8, <2>1, <4>1
      <4> QED BY <1>4, <1>8, <2>1, <3>1, <3>3, <4>2 DEF InCtx
    <3> QED BY <3>2, <3>3
  <2>2. CASE q = o
    <3>1. g.settles[p][i] = h.settles[p][i] /\ g.fails[p][i] = h.fails[p][i]
      BY <1>2, <1>3, <1>6, <2>2
    <3>2. g.settles[o][i] = h.settles[o][i] \/ h.settles[o][i] = Absent
      BY <1>3, <1>4, <1>6, <2>2
    <3> QED BY <1>8, <3>1, <3>2 DEF InCtx
  <2> QED BY <1>2, <2>1, <2>2
<1>10. \A i \in Owed(g, p, o, k) : i \in Owed(h, p, o, k) /\ g.adds[p][i] = h.adds[p][i]
  BY <1>3, <1>9 DEF Owed, Known
<1>11. \A i \in Gained(h, p, o, k) : i \in Gained(g, p, o, k) /\ g.adds[o][i] = h.adds[o][i]
  BY <1>3, <1>9 DEF Gained, SettledIn, Known
<1>12. NoWorse(h, o, k, g, o, k, p)
  BY <1>10, <1>11 DEF NoWorse
<1> QED BY <1>5, <1>12 DEF NextIsNoWorse

LEMMA RevokedNoWorse ==
    ASSUME NEW h, NEW g, ConsistentLog(h), ConsistentLog(g), NEW s \in Owner, IsRevoked(h, g, s),
           NEW p \in Owner
    PROVE  NextIsNoWorse(h, g, p)
<1> DEFINE o == Other(p)
           k == next_ctn(h, o)
           v == Revoked(h, s)
<1>1. TypedLog(h) /\ LogOK(h) /\ AddedFirst(h) /\ RemovedOnce(h) /\ OrderedEntries(h)
  BY TypedLogOK DEF ConsistentLog
<1>2. o \in Owner /\ o # p /\ Other(o) = p /\ (s = p \/ s = o)
  BY EntryFacts
<1>3. can_revoke(h, s) /\ OnlyChanges(Aside, v, g)
  BY DEF IsRevoked
<1>4. /\ g.adds = v.adds /\ g.locked = v.locked /\ g.settles = v.settles /\ g.fails = v.fails
      /\ g.ctn = v.ctn /\ g.revack = v.revack
  BY <1>3 DEF OnlyChanges, Fields, Aside
<1>5. v.adds = h.adds /\ CtnMoved(h, v, s)
  BY <1>1, RevokedEffect DEF Fields
<1>6. next_ctn(g, o) = k /\ k \in h.ctn[o] .. k
  <2>1. next_ctn(v, o) = next_ctn(h, o)
    BY <1>1, <1>2, <1>3, <1>5, CtnMovedFacts
  <2>2. next_ctn(g, o) = next_ctn(v, o)
    BY <1>4 DEF next_ctn, ctn_latest
  <2>3. h.ctn[o] \in Nat /\ k \in Nat /\ h.ctn[o] <= k
    BY <1>1, <1>2, CtnTypes
  <2> QED BY <2>1, <2>2, <2>3
<1>7. \A q \in Owner, i \in HtlcIds :
        /\ Grown(h, h.locked[q][i], v.locked[q][i], Other(q))
        /\ Grown(h, h.settles[q][i], v.settles[q][i], q)
        /\ Grown(h, h.fails[q][i], v.fails[q][i], q)
  BY <1>1, <1>3, RevokedEntries
<1>8. \A q \in Owner : q # s => v.settles[q] = h.settles[q] /\ v.fails[q] = h.fails[q]
  <2>1. h.settles \in [Owner -> [HtlcIds -> Entry]] /\ h.fails \in [Owner -> [HtlcIds -> Entry]]
    BY <1>1 DEF TypedLog
  <2> DEFINE Carried(table) == [i \in HtlcIds |->
                 IF i \in h.active[s] THEN CarryOver(v, s, table[i]) ELSE table[i]]
  <2>2. /\ v.settles = [h.settles EXCEPT ![s] = Carried(h.settles[s])]
        /\ v.fails = [h.fails EXCEPT ![s] = Carried(h.fails[s])]
    BY <1>1, RevokedEffect
  <2> HIDE DEF Carried, v
  <2> QED BY <2>1, <2>2
<1>9. v.locked[s] = h.locked[s]
  <2>1. h.locked \in [Owner -> [HtlcIds -> Entry]]
    BY <1>1 DEF TypedLog
  <2> DEFINE Carried(table) == [i \in HtlcIds |->
                 IF i \in h.active[Other(s)] THEN CarryOver(v, s, table[i]) ELSE table[i]]
  <2>2. v.locked = [h.locked EXCEPT ![Other(s)] = Carried(h.locked[Other(s)])]
    BY <1>1, RevokedEffect
  <2> HIDE DEF Carried, v
  <2>3. Other(s) # s
    BY EntryFacts
  <2> QED BY <2>1, <2>2, <2>3
<1> HIDE DEF k, v
<1>10. ASSUME NEW i \in Owed(g, p, o, k)
       PROVE  i \in Owed(h, p, o, k) /\ g.adds[p][i] = h.adds[p][i]
  <2>1. i \in Known(h, p) /\ i \in HtlcIds /\ g.adds[p][i] = h.adds[p][i]
    BY <1>4, <1>5 DEF Owed, Known
  <2> DEFINE l == h.locked[p][i]
             e == h.settles[p][i]
             f == h.fails[p][i]
  <2>2. \/ InCtx(v.settles[p][i], o, k)
        \/ InCtx(v.locked[p][i], o, k) /\ ~InCtx(v.fails[p][i], o, k)
    BY <1>4 DEF Owed
  <2>3. CASE s = o
    <3>1. v.settles[p][i] = e /\ v.fails[p][i] = f /\ v.locked[p][i][o] = l[o]
      BY <1>2, <1>7, <1>8, <2>1, <2>3 DEF Grown
    <3> QED BY <2>1, <2>2, <3>1 DEF Owed, InCtx
  <2>4. CASE s = p
    <3>1. v.locked[p][i] = l
      BY <1>9, <2>4
    <3>2. CASE InCtx(v.settles[p][i], o, k)
      <4>1. v.settles[p][i] # Absent
        BY <1>2, <3>2 DEF InCtx, Absent
      <4>2. e # Absent
        BY <1>7, <2>1, <4>1 DEF Grown
      <4>3. InCtx(l, o, k)
        BY <1>1, <1>2, <2>1, <4>2, RemovedIsSigned DEF InCtx, k
      <4>4. f = Absent
        BY <1>1, <2>1, <4>2 DEF RemovedOnce
      <4>5. ~InCtx(f, o, k)
        BY <1>2, <4>4 DEF InCtx, Absent
      <4> QED BY <2>1, <4>3, <4>5 DEF Owed
    <3>3. CASE InCtx(v.locked[p][i], o, k) /\ ~InCtx(v.fails[p][i], o, k)
      <4>1. f[o] # None => v.fails[p][i][o] = f[o]
        BY <1>2, <1>7, <2>1 DEF Grown
      <4>2. ~InCtx(f, o, k)
        BY <3>3, <4>1 DEF InCtx
      <4> QED BY <2>1, <3>1, <3>3, <4>2 DEF Owed
    <3> QED BY <2>2, <3>2, <3>3
  <2> QED BY <1>2, <2>1, <2>3, <2>4
<1>11. ASSUME NEW i \in Gained(h, p, o, k)
       PROVE  i \in Gained(g, p, o, k) /\ g.adds[o][i] = h.adds[o][i]
  <2>1. i \in Known(h, o) /\ i \in HtlcIds /\ InCtx(h.settles[o][i], o, k)
    BY DEF Gained, SettledIn, Known
  <2>2. v.settles[o][i][o] = h.settles[o][i][o]
    BY <1>2, <1>7, <2>1 DEF Grown
  <2>3. i \in Known(g, o) /\ g.adds[o][i] = h.adds[o][i]
    BY <1>4, <1>5, <2>1 DEF Known
  <2> QED BY <1>4, <2>1, <2>2, <2>3 DEF Gained, SettledIn, InCtx
<1>12. NoWorse(h, o, k, g, o, k, p)
  BY <1>10, <1>11 DEF NoWorse
<1> QED BY <1>6, <1>12 DEF NextIsNoWorse, k

LEMMA DiscardNoWorse ==
    ASSUME NEW h, NEW g, ConsistentLog(h), ConsistentLog(g), IsDiscarded(h, g), NEW p \in Owner
    PROVE  NextIsNoWorse(h, g, p)
<1> DEFINE D == DroppedIds(h)
           k == next_ctn(h, Local)
           c == ctn_latest(h, Local)
           r == next_ctn(h, Remote)
           Gone(e) == UnsignedByRemote(h, e)
<1>1. TypedLog(h) /\ LogOK(h) /\ AddedFirst(h) /\ RemovedOnce(h) /\ OrderedEntries(h)
  BY TypedLogOK DEF ConsistentLog
<1>2. /\ Local \in Owner /\ Remote \in Owner /\ Local # Remote
      /\ Other(Local) = Remote /\ Other(Remote) = Local /\ \A q \in Owner : q = Local \/ q = Remote
  BY EntryFacts DEF Owner, Other
<1>3. /\ h.adds \in [Owner -> [HtlcIds -> Amounts \cup {0}]]
      /\ h.locked \in [Owner -> [HtlcIds -> Entry]]
      /\ h.settles \in [Owner -> [HtlcIds -> Entry]] /\ h.fails \in [Owner -> [HtlcIds -> Entry]]
  BY <1>1 DEF TypedLog
<1>4. /\ g.ctn = h.ctn /\ g.revack = h.revack
      /\ g.adds[Local] = h.adds[Local] /\ g.locked[Local] = h.locked[Local]
      /\ g.settles[Remote] = h.settles[Remote] /\ g.fails[Remote] = h.fails[Remote]
      /\ \A i \in HtlcIds :
            /\ g.adds[Remote][i] = IF i \in D THEN 0 ELSE h.adds[Remote][i]
            /\ g.locked[Remote][i] = IF Gone(h.locked[Remote][i]) THEN Absent ELSE h.locked[Remote][i]
            /\ g.settles[Local][i] = IF Gone(h.settles[Local][i]) THEN Absent ELSE h.settles[Local][i]
            /\ g.fails[Local][i] = IF Gone(h.fails[Local][i]) THEN Absent ELSE h.fails[Local][i]
  <2> HIDE DEF D
  <2>1. OnlyChanges({"next", "adds", "locked", "settles", "fails", "active", "fees"}, h, g)
    BY <1>1, DiscardEffect
  <2>2. g.adds = [h.adds EXCEPT ![Remote] = [i \in HtlcIds |-> IF i \in D THEN 0 ELSE h.adds[Remote][i]]]
    BY <1>1, DiscardEffect DEF D
  <2>3. /\ g.locked = [h.locked EXCEPT ![Remote] = [i \in HtlcIds |-> IF Gone(h.locked[Remote][i]) THEN Absent ELSE h.locked[Remote][i]]]
        /\ g.settles = [h.settles EXCEPT ![Local] = [i \in HtlcIds |-> IF Gone(h.settles[Local][i]) THEN Absent ELSE h.settles[Local][i]]]
        /\ g.fails = [h.fails EXCEPT ![Local] = [i \in HtlcIds |-> IF Gone(h.fails[Local][i]) THEN Absent ELSE h.fails[Local][i]]]
    BY <1>1, DiscardEffect
  <2> HIDE DEF Gone
  <2>4. g.ctn = h.ctn /\ g.revack = h.revack
    BY <2>1 DEF OnlyChanges, Fields
  <2>5. /\ g.adds[Local] = h.adds[Local]
        /\ \A i \in HtlcIds : g.adds[Remote][i] = IF i \in D THEN 0 ELSE h.adds[Remote][i]
    BY <1>2, <1>3, <2>2
  <2>6. /\ g.locked[Local] = h.locked[Local]
        /\ \A i \in HtlcIds : g.locked[Remote][i] = IF Gone(h.locked[Remote][i]) THEN Absent ELSE h.locked[Remote][i]
    BY <1>2, <1>3, <2>3
  <2>7. /\ g.settles[Remote] = h.settles[Remote] /\ g.fails[Remote] = h.fails[Remote]
        /\ \A i \in HtlcIds :
            /\ g.settles[Local][i] = IF Gone(h.settles[Local][i]) THEN Absent ELSE h.settles[Local][i]
            /\ g.fails[Local][i] = IF Gone(h.fails[Local][i]) THEN Absent ELSE h.fails[Local][i]
    BY <1>2, <1>3, <2>3
  <2> QED BY <2>4, <2>5, <2>6, <2>7
<1>5. /\ next_ctn(g, Local) = k /\ next_ctn(g, Remote) = r /\ k = c + 1
      /\ c \in Nat /\ h.ctn[Local] \in Nat /\ h.ctn[Local] <= c /\ r \in h.ctn[Remote] .. r
  BY <1>1, <1>2, <1>4, CtnTypes DEF next_ctn, ctn_latest
<1>6. \A i \in D : i \in Known(h, Remote) /\ Gone(h.locked[Remote][i])
  BY DEF DroppedIds
<1>7. \A i \in Known(h, Remote) : i \notin D => ~Gone(h.locked[Remote][i])
  BY DEF DroppedIds
<1>8. ASSUME NEW e \in Entry, EntryOK(h, e, Local), Gone(e)
      PROVE  e[Remote] = None
  <2>1. e[Local] > c
    BY <1>8 DEF UnsignedByRemote
  <2>2. e # Absent
    BY <1>2, <1>5, <2>1 DEF Absent, None
  <2>3. e[Local] > h.ctn[Local]
    <3>1. e[Local] \in Int
      BY <1>2 DEF Entry, Ctn, None
    <3> QED BY <1>5, <2>1, <3>1
  <2> QED BY <1>2, <1>8, <2>2, <2>3 DEF EntryOK
<1>9. ASSUME NEW i \in HtlcIds, h.settles[Remote][i] # Absent
      PROVE  i \notin D
  <2>1. h.locked[Remote][i][Remote] # None
    BY <1>2, <1>9, RemovedIsSigned
  <2>2. h.locked[Remote][i] \in Entry /\ EntryOK(h, h.locked[Remote][i], Local)
    BY <1>1, <1>2, <1>3 DEF OrderedEntries
  <2> QED BY <1>6, <1>8, <2>1, <2>2
<1> HIDE DEF D, k, r, c, Gone
<1>10. CASE p = Local
  <2>1. \A i \in HtlcIds : /\ InCtx(g.settles[Local][i], Remote, r) <=> InCtx(h.settles[Local][i], Remote, r)
                           /\ InCtx(g.fails[Local][i], Remote, r) <=> InCtx(h.fails[Local][i], Remote, r)
    <3>1. \A i \in HtlcIds : /\ EntryOK(h, h.settles[Local][i], Local) /\ EntryOK(h, h.fails[Local][i], Local)
                             /\ h.settles[Local][i] \in Entry /\ h.fails[Local][i] \in Entry
      BY <1>1, <1>2, <1>3 DEF OrderedEntries
    <3>2. Absent[Remote] = None
      BY <1>2 DEF Absent
    <3> QED BY <1>4, <1>8, <3>1, <3>2 DEF InCtx
  <2>2. \A i \in Owed(g, Local, Remote, r) : i \in Owed(h, Local, Remote, r) /\ g.adds[Local][i] = h.adds[Local][i]
    BY <1>4, <2>1 DEF Owed, Known
  <2>3. ASSUME NEW i \in Gained(h, Local, Remote, r)
        PROVE  i \in Gained(g, Local, Remote, r) /\ g.adds[Remote][i] = h.adds[Remote][i]
    <3>1. i \in Known(h, Remote) /\ i \in HtlcIds /\ InCtx(h.settles[Remote][i], Remote, r)
      BY <1>2 DEF Gained, SettledIn, Known
    <3>2. h.settles[Remote][i] # Absent
      BY <1>2, <3>1 DEF InCtx, Absent
    <3>3. g.adds[Remote][i] = h.adds[Remote][i]
      BY <1>4, <1>9, <3>1, <3>2
    <3> QED BY <1>2, <1>4, <3>1, <3>3 DEF Gained, SettledIn, Known
  <2>4. NoWorse(h, Remote, r, g, Remote, next_ctn(g, Remote), Local)
    BY <1>2, <1>5, <2>2, <2>3 DEF NoWorse
  <2> QED BY <1>2, <1>5, <1>10, <2>4 DEF NextIsNoWorse, r
<1>11. CASE p = Remote
  <2>1. ASSUME NEW i \in Owed(g, Remote, Local, k)
        PROVE  i \in Owed(h, Remote, Local, c) /\ g.adds[Remote][i] = h.adds[Remote][i]
    <3>1. i \in HtlcIds /\ g.adds[Remote][i] # 0
      BY DEF Owed, Known
    <3>2. i \notin D /\ g.adds[Remote][i] = h.adds[Remote][i] /\ i \in Known(h, Remote)
      BY <1>4, <3>1 DEF Known
    <3>3. ~Gone(h.locked[Remote][i])
      BY <1>7, <3>2
    <3> DEFINE l == h.locked[Remote][i]
               e == h.settles[Remote][i]
               f == h.fails[Remote][i]
    <3>4. l \in Entry /\ f \in Entry /\ g.locked[Remote][i] = l /\ g.settles[Remote][i] = e /\ g.fails[Remote][i] = f
      BY <1>2, <1>3, <1>4, <3>1, <3>3
    <3>5. ~(l[Local] > c) /\ l[Local] \in Int /\ f[Local] \in Int
      BY <1>2, <3>3, <3>4 DEF Gone, c, UnsignedByRemote, Entry, Ctn, None
    <3>6. CASE e # Absent
      <4>1. l[Local] # None
        BY <1>2, <3>1, <3>6, RemovedIsSigned
      <4>2. f[Local] = None
        BY <1>1, <1>2, <3>1, <3>6 DEF RemovedOnce, Absent
      <4>3. InCtx(l, Local, c) /\ ~InCtx(f, Local, c)
        BY <1>5, <3>5, <4>1, <4>2 DEF InCtx
      <4> QED BY <3>2, <4>3 DEF Owed
    <3>7. CASE e = Absent
      <4>1. ~InCtx(e, Local, k)
        BY <1>2, <3>7 DEF InCtx, Absent
      <4>2. InCtx(l, Local, k) /\ ~InCtx(f, Local, k)
        BY <3>4, <4>1 DEF Owed
      <4>3. InCtx(l, Local, c) /\ ~InCtx(f, Local, c)
        BY <1>5, <3>5, <4>2 DEF InCtx
      <4> QED BY <3>2, <4>3 DEF Owed
    <3> QED BY <3>2, <3>6, <3>7
  <2>2. ASSUME NEW i \in Gained(h, Remote, Local, c)
        PROVE  i \in Gained(g, Remote, Local, k) /\ g.adds[Local][i] = h.adds[Local][i]
    <3>1. i \in Known(h, Local) /\ i \in HtlcIds /\ InCtx(h.settles[Local][i], Local, c)
      BY <1>2 DEF Gained, SettledIn, Known
    <3>2. h.settles[Local][i][Local] \in Int
      BY <1>2, <1>3, <3>1 DEF Entry, Ctn, None
    <3>3. ~Gone(h.settles[Local][i]) /\ InCtx(h.settles[Local][i], Local, k)
      BY <1>5, <3>1, <3>2 DEF InCtx, Gone, c, UnsignedByRemote
    <3> QED BY <1>2, <1>4, <3>1, <3>3 DEF Gained, SettledIn, Known
  <2>3. NoWorse(h, Local, c, g, Local, next_ctn(g, Local), Remote)
    BY <1>2, <1>5, <2>1, <2>2 DEF NoWorse
  <2>4. c \in h.ctn[Local] .. next_ctn(h, Local)
    BY <1>5 DEF k
  <2> QED BY <1>2, <1>11, <2>3, <2>4 DEF NextIsNoWorse
<1> QED BY <1>2, <1>10, <1>11

LEMMA NoTableNoWorse ==
    ASSUME NEW h, NEW g, ConsistentLog(h), ConsistentLog(g), g.ctn = h.ctn,
           g.adds = h.adds, g.locked = h.locked, g.settles = h.settles, g.fails = h.fails,
           NEW p \in Owner, g.revack = h.revack \/ \E s \in Owner : IsSigned(h, g, s)
    PROVE  NextIsNoWorse(h, g, p)
<1> DEFINE o == Other(p)
<1>1. LogOK(h) /\ LogOK(g) /\ o \in Owner
  BY TypedLogOK, EntryFacts DEF ConsistentLog
<1>2. next_ctn(h, o) \in h.ctn[o] .. next_ctn(h, o)
  BY <1>1, CtnTypes
<1>3. next_ctn(g, o) = next_ctn(h, o) \/ next_ctn(g, o) = next_ctn(h, o) + 1
  <2>1. g.revack[o] = h.revack[o] \/ (~h.revack[o] /\ g.revack[o])
    BY <1>1 DEF IsSigned, can_sign, LogOK
  <2> QED BY <1>1, <2>1, CtnTypes
<1>4. \E c \in h.ctn[o] .. next_ctn(h, o) : NoWorse(h, o, c, g, o, next_ctn(g, o), p)
  BY <1>1, <1>2, <1>3, SameTablesNoWorse, AfterNextNoWorse
<1> QED BY <1>4 DEF NextIsNoWorse

CallIsNoWorse(h, g) ==
    \A p \in Owner : NextIsNoWorse(h, g, p) \/ \E amount \in Amounts : IsAdded(h, g, p, amount)

LEMMA CallNoWorse ==
    ASSUME NEW h, NEW g, ConsistentLog(h), IsCall(h, g)
    PROVE  CallIsNoWorse(h, g)
<1> SUFFICES ASSUME NEW p \in Owner
             PROVE  NextIsNoWorse(h, g, p) \/ \E amount \in Amounts : IsAdded(h, g, p, amount)
  BY DEF CallIsNoWorse
<1>1. ConsistentLog(g) /\ TypedLog(h)
  BY CallPreserves DEF ConsistentLog
<1>2. ASSUME NEW q \in Owner, NEW amount \in Amounts, IsAdded(h, g, q, amount)
      PROVE  NextIsNoWorse(h, g, p) \/ \E a \in Amounts : IsAdded(h, g, p, a)
  <2>1. p = q \/ p = Other(q)
    BY EntryFacts
  <2> QED BY <1>1, <1>2, <2>1, AddHtlcNoWorse
<1>3. ASSUME NEW q \in Owner, NEW i \in HtlcIds, IsRemoved(h, g, q, i)
      PROVE  NextIsNoWorse(h, g, p)
  BY <1>1, <1>3, RemovalNoWorse
<1>4. ASSUME NEW s \in Owner, IsRevoked(h, g, s)
      PROVE  NextIsNoWorse(h, g, p)
  BY <1>1, <1>4, RevokedNoWorse
<1>5. CASE IsDiscarded(h, g)
  BY <1>1, <1>5, DiscardNoWorse
<1>6. ASSUME NEW s \in Owner, IsSigned(h, g, s)
      PROVE  NextIsNoWorse(h, g, p)
  <2>1. /\ g.ctn = h.ctn /\ g.adds = h.adds /\ g.locked = h.locked
        /\ g.settles = h.settles /\ g.fails = h.fails
    BY <1>6 DEF IsSigned, OnlyChanges, Fields, Aside
  <2> QED BY <1>1, <1>6, <2>1, NoTableNoWorse
<1>7. CASE \/ \E rate \in Rates : IsFeeUpdated(h, g, rate)
           \/ IsReloaded(h, g)
           \/ OnlyChanges(Aside, h, g)
  <2>1. OnlyChanges({"fees"} \cup Aside, h, g) \/ OnlyChanges({"active", "delta"}, h, g) \/ OnlyChanges(Aside, h, g)
    BY <1>1, <1>7, ReloadEffect DEF IsFeeUpdated
  <2>2. /\ g.ctn = h.ctn /\ g.revack = h.revack /\ g.adds = h.adds /\ g.locked = h.locked
        /\ g.settles = h.settles /\ g.fails = h.fails
    BY <2>1 DEF OnlyChanges, Fields, Aside
  <2> QED BY <1>1, <2>2, NoTableNoWorse
<1> QED BY <1>2, <1>3, <1>4, <1>5, <1>6, <1>7 DEF IsCall

\* A side's latest ctn grows by signing only.
LEMMA OnlySigningGrows ==
    ASSUME NEW h, NEW g, ConsistentLog(h), IsCall(h, g), NEW t \in Owner,
           ctn_latest(g, t) # ctn_latest(h, t)
    PROVE  \E s \in Owner : IsSigned(h, g, s)
<1>1. TypedLog(h) /\ LogOK(h)
  BY TypedLogOK DEF ConsistentLog
<1>2. g.ctn # h.ctn \/ g.revack # h.revack
  BY DEF ctn_latest
<1>3. ASSUME NEW s \in Owner, IsRevoked(h, g, s)
      PROVE  FALSE
  <2> DEFINE v == Revoked(h, s)
  <2>1. can_revoke(h, s) /\ CtnMoved(h, v, s)
    BY <1>1, <1>3, RevokedEffect DEF IsRevoked
  <2>2. ctn_latest(v, t) = ctn_latest(h, t)
    BY <1>1, <2>1, CtnMovedFacts
  <2>3. g.ctn = v.ctn /\ g.revack = v.revack
    BY <1>3 DEF IsRevoked, OnlyChanges, Fields, Aside
  <2> HIDE DEF v
  <2> QED BY <2>2, <2>3 DEF ctn_latest
<1>4. ~(\E p \in Owner, amount \in Amounts : IsAdded(h, g, p, amount))
  BY <1>2 DEF IsAdded, OnlyChanges, Fields, Aside
<1>5. ~(\E p \in Owner, i \in HtlcIds : IsRemoved(h, g, p, i))
  BY <1>2 DEF IsRemoved, IsSettled, IsFailed, OnlyChanges, Fields, Aside
<1>6. ~(\E rate \in Rates : IsFeeUpdated(h, g, rate)) /\ ~OnlyChanges(Aside, h, g)
  BY <1>2 DEF IsFeeUpdated, OnlyChanges, Fields, Aside
<1>7. ~IsReloaded(h, g)
  <2>1. ~OnlyChanges({"active", "delta"}, h, g)
    BY <1>2 DEF OnlyChanges, Fields
  <2> QED BY <1>1, <2>1, ReloadEffect
<1>8. ~IsDiscarded(h, g)
  <2>1. ~OnlyChanges({"next", "adds", "locked", "settles", "fails", "active", "fees"}, h, g)
    BY <1>2 DEF OnlyChanges, Fields
  <2> QED BY <1>1, <2>1, DiscardEffect
<1> QED BY <1>3, <1>4, <1>5, <1>6, <1>7, <1>8 DEF IsCall

\* Who adds an htlc can pay for it in the other side's next ctx.
Affordable(h, g, initial) ==
    \A p \in Owner : \A amount \in Amounts :
        IsAdded(h, g, p, amount) =>
            amount <= initial[p] + Funds(h, p, Other(p), next_ctn(h, Other(p)))

LEMMA CallKeepsSolvent ==
    ASSUME NEW h, NEW g, ConsistentLog(h), IsCall(h, g), NEW initial \in [Owner -> Nat],
           Solvent(h, initial), Affordable(h, g, initial)
    PROVE  Solvent(g, initial)
<1>1. ConsistentLog(g) /\ LogOK(h) /\ LogOK(g) /\ CtnsGrow(h, g) /\ EntriesFrozen(h, g)
  BY CallPreserves, CallFreezes, TypedLogOK DEF ConsistentLog
<1>2. \A s \in Owner : /\ h.ctn[s] \in Nat /\ g.ctn[s] \in Nat /\ h.ctn[s] <= g.ctn[s]
                       /\ ctn_latest(h, s) \in Nat /\ next_ctn(h, s) = ctn_latest(h, s) + 1
                       /\ ctn_latest(g, s) \in Nat /\ next_ctn(g, s) = ctn_latest(g, s) + 1
                       /\ ctn_latest(h, s) <= ctn_latest(g, s)
                       /\ g.ctn[s] <= ctn_latest(g, s) /\ h.ctn[s] <= ctn_latest(h, s)
  BY <1>1, CtnTypes DEF CtnsGrow
<1>3. ASSUME NEW p \in Owner, NEW s \in Owner, NEW c \in h.ctn[s] .. next_ctn(h, s),
             NEW t \in Owner, NEW d, NoWorse(h, s, c, g, t, d, p)
      PROVE  initial[p] + Funds(g, p, t, d) >= 0
  <2>1. initial[p] + Funds(h, p, s, c) >= 0
    BY DEF Solvent
  <2>2. Funds(h, p, s, c) <= Funds(g, p, t, d)
    BY <1>1, <1>3, NoWorseFunds
  <2>3. Funds(h, p, s, c) \in Int /\ Funds(g, p, t, d) \in Int /\ initial[p] \in Nat
    BY <1>1, FundsAreTotals
  <2> QED BY <2>1, <2>2, <2>3
\* What was signed
<1>4. ASSUME NEW p \in Owner, NEW t \in Owner, NEW d \in g.ctn[t] .. next_ctn(g, t), d <= ctn_latest(h, t)
      PROVE  initial[p] + Funds(g, p, t, d) >= 0
  <2>1. d \in h.ctn[t] .. next_ctn(h, t) /\ d \in 0 .. ctn_latest(h, t)
    BY <1>2, <1>4
  <2>2. NoWorse(h, t, d, g, t, d, p)
    BY <1>1, <2>1, SignedNoWorse
  <2> QED BY <1>3, <2>1, <2>2
\* A ctx that was the next one, and was signed
<1>5. ASSUME NEW p \in Owner, NEW t \in Owner, NEW d \in g.ctn[t] .. next_ctn(g, t),
             d > ctn_latest(h, t), d # next_ctn(g, t)
      PROVE  initial[p] + Funds(g, p, t, d) >= 0
  <2>1. d \in Int /\ d <= ctn_latest(g, t) /\ ctn_latest(h, t) < ctn_latest(g, t)
    BY <1>2, <1>5
  <2>2. \E s \in Owner : IsSigned(h, g, s)
    BY <1>1, <1>2, <1>5, <2>1, OnlySigningGrows
  <2>3. /\ g.adds = h.adds /\ g.locked = h.locked /\ g.settles = h.settles /\ g.fails = h.fails
        /\ g.ctn = h.ctn
    BY <2>2 DEF IsSigned, OnlyChanges, Fields, Aside
  <2>4. d = next_ctn(h, t)
    <3>1. ctn_latest(g, t) <= h.ctn[t] + 1 /\ h.ctn[t] <= ctn_latest(h, t)
      BY <1>1, <2>3, CtnTypes
    <3> QED BY <1>2, <1>5, <2>1, <3>1
  <2>5. NoWorse(h, t, d, g, t, d, p) /\ d \in h.ctn[t] .. next_ctn(h, t)
    BY <1>2, <2>3, <2>4, SameTablesNoWorse
  <2> QED BY <1>3, <2>5
\* The other side's next ctx
<1>6. ASSUME NEW p \in Owner
      PROVE  LET o == Other(p) IN initial[p] + Funds(g, p, o, next_ctn(g, o)) >= 0
  <2> DEFINE o == Other(p)
  <2>1. o \in Owner
    BY EntryFacts
  <2>2. CASE NextIsNoWorse(h, g, p)
    BY <1>3, <2>1, <2>2 DEF NextIsNoWorse
  <2>3. ASSUME NEW amount \in Amounts, IsAdded(h, g, p, amount)
        PROVE  initial[p] + Funds(g, p, o, next_ctn(g, o)) >= 0
    <3>1. amount <= initial[p] + Funds(h, p, o, next_ctn(h, o))
      BY <2>3 DEF Affordable
    <3>2. Funds(h, p, o, next_ctn(h, o)) - amount <= Funds(g, p, o, next_ctn(g, o))
      BY <1>1, <2>3, AddHtlcNoWorse
    <3>3. /\ Funds(h, p, o, next_ctn(h, o)) \in Int /\ Funds(g, p, o, next_ctn(g, o)) \in Int
          /\ initial[p] \in Nat /\ amount \in Nat
      BY <1>1, FundsAreTotals, AmountsAssumption
    <3> HIDE DEF o
    <3> QED BY <3>1, <3>2, <3>3
  <2> QED BY <2>2, <2>3, CallNoWorse DEF CallIsNoWorse
\* And its own
<1>7. ASSUME NEW p \in Owner
      PROVE  initial[p] + Funds(g, p, p, next_ctn(g, p)) >= 0
  <2> DEFINE o == Other(p)
  <2>1. o \in Owner
    BY EntryFacts
  <2>2. initial[p] + Funds(g, p, o, g.ctn[o]) >= 0
    <3>1. g.ctn[o] <= ctn_latest(h, o) \/ (g.ctn[o] > ctn_latest(h, o) /\ g.ctn[o] # next_ctn(g, o))
      BY <1>2, <2>1
    <3>2. g.ctn[o] \in g.ctn[o] .. next_ctn(g, o)
      BY <1>2, <2>1
    <3> QED BY <1>4, <1>5, <2>1, <3>1, <3>2
  <2>3. Funds(g, p, o, g.ctn[o]) <= Funds(g, p, p, next_ctn(g, p))
    BY <1>1, OwnNextNoWorse, NoWorseFunds
  <2>4. Funds(g, p, o, g.ctn[o]) \in Int /\ Funds(g, p, p, next_ctn(g, p)) \in Int /\ initial[p] \in Nat
    BY <1>1, FundsAreTotals
  <2> QED BY <2>2, <2>3, <2>4
<1> SUFFICES ASSUME NEW p \in Owner, NEW t \in Owner, NEW d \in g.ctn[t] .. next_ctn(g, t)
             PROVE  initial[p] + Funds(g, p, t, d) >= 0
  BY DEF Solvent
<1>8. t = p \/ t = Other(p)
  BY EntryFacts
<1>9. d <= ctn_latest(h, t) \/ d > ctn_latest(h, t)
  BY <1>2
<1> QED BY <1>4, <1>5, <1>6, <1>7, <1>8, <1>9

LEMMA NewLogSolvent ==
    ASSUME NEW o \in Owner, NEW rate \in Rates, NEW initial \in [Owner -> Nat]
    PROVE  Solvent(NewLog(o, rate), initial)
<1> DEFINE m == NewLog(o, rate)
<1> SUFFICES ASSUME NEW p \in Owner, NEW s \in Owner, NEW c
             PROVE  initial[p] + Funds(m, p, s, c) >= 0
  BY DEF Solvent
<1>1. ConsistentLog(m)
  BY NewLogIsConsistent
<1>2. \A q \in Owner : Known(m, q) = {}
  BY DEF Known, NewLog
<1>3. Other(p) \in Owner
  BY EntryFacts
<1>4. \A q \in Owner : Total(m.adds[q], {}) = 0
  BY <1>1, KnownTotals, TotalSplit
<1>5. Owed(m, p, s, c) = {} /\ Gained(m, p, s, c) = {}
  BY <1>2, <1>3 DEF Owed, Gained, SettledIn
<1>6. Funds(m, p, s, c) = Total(m.adds[Other(p)], Gained(m, p, s, c)) - Total(m.adds[p], Owed(m, p, s, c))
  BY <1>1, FundsAreTotals
<1>7. Funds(m, p, s, c) = 0
  BY <1>3, <1>4, <1>5, <1>6
<1>8. initial[p] \in Nat
  OBVIOUS
<1> QED BY <1>7, <1>8

\* What p has in s's ctx at c as the code computes it, its own htlcs not counted
Spendable(m, p, s, c, initial) ==
    get_balance_msat(m, p, s, c, initial) - AmountOf(m, p, htlcs_by_proposer(m, s, c, p))

ActiveIds(m, s, c, p) == {i \in HtlcIds : is_htlc_active_at_ctn(m, s, c, p, i)}

\* What is owed is still in the ctx, or was settled in it.
LEMMA OwedSplit ==
    ASSUME NEW h, ConsistentLog(h), NEW s \in Owner, NEW p \in Owner, NEW c \in 0 .. next_ctn(h, s)
    PROVE  LET A == htlcs_by_proposer(h, s, c, p)
               S == SettledIn(h, s, c, p, Known(h, p))
           IN  /\ A \in SUBSET Known(h, p) /\ S \in SUBSET Known(h, p)
               /\ Total(h.adds[p], Owed(h, p, s, c)) = Total(h.adds[p], A) + Total(h.adds[p], S)
<1> DEFINE A == htlcs_by_proposer(h, s, c, p)
           S == SettledIn(h, s, c, p, Known(h, p))
<1>1. A = ActiveIds(h, s, c, p)
  BY CacheSuffices DEF CacheIsEnough, ActiveIds
<1>2. ContiguousIds(h)
  BY DEF ConsistentLog
<1>3. \A i \in HtlcIds : i < h.next[p] <=> i \in Known(h, p)
  BY <1>2 DEF ContiguousIds, Known
<1>4. A \in SUBSET Known(h, p)
  BY <1>1, <1>3 DEF ActiveIds, is_htlc_active_at_ctn
<1>5. S \in SUBSET Known(h, p)
  BY DEF SettledIn
<1>6. A \cap S = {}
  BY <1>1 DEF ActiveIds, is_htlc_active_at_ctn, SettledIn
<1>7. Owed(h, p, s, c) = A \cup S
  <2>1. \A i \in Known(h, p) : i \in HtlcIds
    BY DEF Known
  <2> QED BY <1>1, <1>3, <1>4, <1>5, <2>1 DEF ActiveIds, is_htlc_active_at_ctn, SettledIn, Owed
<1> HIDE DEF A, S
<1>8. OfInts(h.adds[p], A) /\ OfInts(h.adds[p], S)
  BY <1>4, <1>5, KnownTotals
<1>9. Total(h.adds[p], A \cup S) = Total(h.adds[p], A) + Total(h.adds[p], S)
  BY <1>6, <1>8, TotalUnion
<1>10. /\ A \in SUBSET Known(h, p) /\ S \in SUBSET Known(h, p)
       /\ Total(h.adds[p], Owed(h, p, s, c)) = Total(h.adds[p], A) + Total(h.adds[p], S)
  BY <1>4, <1>5, <1>7, <1>9
<1> QED BY <1>10 DEF A, S

LEMMA SpendableIsFunds ==
    ASSUME NEW h, ConsistentLog(h), ExactDelta(h), NEW p \in Owner, NEW s \in Owner,
           NEW c \in 0 .. next_ctn(h, s), NEW initial \in Int
    PROVE  /\ Spendable(h, p, s, c, initial) = initial + Funds(h, p, s, c)
           /\ Funds(h, p, s, c) \in Int
<1> DEFINE o == Other(p)
           A == htlcs_by_proposer(h, s, c, p)
           S == SettledIn(h, s, c, p, Known(h, p))
           G == Gained(h, p, s, c)
<1>1. o \in Owner
  BY EntryFacts
<1>2. G = SettledIn(h, s, c, o, Known(h, o))
  BY DEF Gained
<1>3. get_balance_msat(h, p, s, c, 0) = AmountOf(h, o, G) - AmountOf(h, p, S)
  BY <1>2, BalancesWhole DEF BalancesAreWhole, BalanceOf
<1>4. get_balance_msat(h, p, s, c, initial) = initial + get_balance_msat(h, p, s, c, 0)
  <2> DEFINE M(q) == AmountOf(h, q, SettledIn(h, s, c, q, considered_htlc_ids(h, s, c, q)))
             d == IF c >= h.ctn[s] THEN (IF p = Local THEN h.delta ELSE -h.delta) ELSE 0
  <2>1. \A q \in Owner : M(q) \in Int
    <3>1. ASSUME NEW q \in Owner
          PROVE  SettledIn(h, s, c, q, considered_htlc_ids(h, s, c, q)) \in SUBSET Known(h, q)
      BY DEF SettledIn, considered_htlc_ids, ConsistentLog, SoundCache
    <3> QED BY <3>1, KnownTotals, AmountIsTotal
  <2>2. h.delta \in Int
    <3>1. Local \in Owner /\ Remote \in Owner
      BY DEF Owner
    <3>2. Uncached(h, Local) \in SUBSET Known(h, Local) /\ Uncached(h, Remote) \in SUBSET Known(h, Remote)
      BY DEF Uncached
    <3>3. h.delta = Total(h.adds[Remote], Uncached(h, Remote)) - Total(h.adds[Local], Uncached(h, Local))
      BY <3>1, DeltaIsTotal DEF ExactDelta
    <3> QED BY <3>1, <3>2, <3>3, KnownTotals
  <2>3. /\ get_balance_msat(h, p, s, c, initial) = initial + d - M(p) + M(o)
        /\ get_balance_msat(h, p, s, c, 0) = 0 + d - M(p) + M(o)
    BY DEF get_balance_msat
  <2>4. d \in Int
    BY <2>2
  <2>5. M(p) \in Int /\ M(o) \in Int
    BY <1>1, <2>1
  <2> HIDE DEF M, d
  <2> QED BY <2>3, <2>4, <2>5
<1>5. /\ Total(h.adds[p], Owed(h, p, s, c)) = Total(h.adds[p], A) + Total(h.adds[p], S)
      /\ A \in SUBSET Known(h, p) /\ S \in SUBSET Known(h, p)
  BY OwedSplit
<1>6. /\ AmountOf(h, o, G) = Total(h.adds[o], G) /\ AmountOf(h, p, S) = Total(h.adds[p], S)
      /\ AmountOf(h, p, A) = Total(h.adds[p], A)
  BY AmountIsTotal
<1>7. /\ Funds(h, p, s, c) = Total(h.adds[o], G) - Total(h.adds[p], Owed(h, p, s, c))
      /\ Funds(h, p, s, c) \in Int /\ G \in SUBSET Known(h, o)
  BY FundsAreTotals
<1>8. Total(h.adds[o], G) \in Int /\ Total(h.adds[p], A) \in Int /\ Total(h.adds[p], S) \in Int
  BY <1>1, <1>5, <1>7, KnownTotals
<1>9. Spendable(h, p, s, c, initial) = get_balance_msat(h, p, s, c, initial) - AmountOf(h, p, A)
  BY DEF Spendable
<1> HIDE DEF o, A, S, G
<1> QED BY <1>3, <1>4, <1>5, <1>6, <1>7, <1>8, <1>9

\* No ctx creates or destroys money: what the two sides can spend in it, and its htlcs,
\* are what they had at the start.
LEMMA MoneyIsConserved ==
    ASSUME NEW h, ConsistentLog(h), ExactDelta(h), NEW s \in Owner,
           NEW c \in 0 .. next_ctn(h, s), NEW a \in Int, NEW b \in Int
    PROVE  /\ Spendable(h, Local, s, c, a) \in Int /\ Spendable(h, Remote, s, c, b) \in Int
           /\ \A p \in Owner : Total(h.adds[p], htlcs_by_proposer(h, s, c, p)) \in Nat
           /\ Spendable(h, Local, s, c, a) + Spendable(h, Remote, s, c, b)
                + Total(h.adds[Local], htlcs_by_proposer(h, s, c, Local))
                + Total(h.adds[Remote], htlcs_by_proposer(h, s, c, Remote)) = a + b
<1> DEFINE A(p) == htlcs_by_proposer(h, s, c, p)
           S(p) == SettledIn(h, s, c, p, Known(h, p))
<1>1. Local \in Owner /\ Remote \in Owner /\ Other(Local) = Remote /\ Other(Remote) = Local
  BY EntryFacts DEF Owner, Other
<1>2. /\ Spendable(h, Local, s, c, a) = a + Funds(h, Local, s, c)
      /\ Spendable(h, Remote, s, c, b) = b + Funds(h, Remote, s, c)
  BY <1>1, SpendableIsFunds
<1>3. /\ Gained(h, Local, s, c) = S(Remote)
      /\ Gained(h, Remote, s, c) = S(Local)
  BY <1>1 DEF Gained
<1>4. /\ Funds(h, Local, s, c) = Total(h.adds[Remote], S(Remote)) - Total(h.adds[Local], Owed(h, Local, s, c))
      /\ Funds(h, Remote, s, c) = Total(h.adds[Local], S(Local)) - Total(h.adds[Remote], Owed(h, Remote, s, c))
  BY <1>1, <1>3, FundsAreTotals
<1>5. \A p \in Owner :
        /\ Total(h.adds[p], Owed(h, p, s, c)) = Total(h.adds[p], A(p)) + Total(h.adds[p], S(p))
        /\ A(p) \in SUBSET Known(h, p) /\ S(p) \in SUBSET Known(h, p)
  BY OwedSplit
<1>6. \A p \in Owner : Total(h.adds[p], A(p)) \in Nat /\ Total(h.adds[p], S(p)) \in Nat
  BY <1>5, OwedTotals
<1> HIDE DEF A, S
<1>7. /\ Total(h.adds[Local], Owed(h, Local, s, c)) = Total(h.adds[Local], A(Local)) + Total(h.adds[Local], S(Local))
      /\ Total(h.adds[Remote], Owed(h, Remote, s, c)) = Total(h.adds[Remote], A(Remote)) + Total(h.adds[Remote], S(Remote))
      /\ Total(h.adds[Local], A(Local)) \in Nat /\ Total(h.adds[Local], S(Local)) \in Nat
      /\ Total(h.adds[Remote], A(Remote)) \in Nat /\ Total(h.adds[Remote], S(Remote)) \in Nat
  BY <1>1, <1>5, <1>6
<1>8. /\ Spendable(h, Local, s, c, a) \in Int /\ Spendable(h, Remote, s, c, b) \in Int
      /\ Spendable(h, Local, s, c, a) + Spendable(h, Remote, s, c, b)
                + Total(h.adds[Local], A(Local)) + Total(h.adds[Remote], A(Remote)) = a + b
  BY <1>2, <1>4, <1>7
<1> QED BY <1>6, <1>8 DEF A

\* What every call keeps, and that a call that adds no htlc uses no new id
LEMMA CallFacts ==
    ASSUME NEW h, NEW g, ConsistentLog(h), IsCall(h, g)
    PROVE  /\ g.initiator = h.initiator
           /\ \/ \E p \in Owner, amount \in Amounts : IsAdded(h, g, p, amount)
              \/ \A p \in Owner : g.next[p] <= h.next[p]
<1>1. TypedLog(h) /\ h.next \in [Owner -> Nat]
  BY DEF ConsistentLog, TypedLog
<1>2. ASSUME NEW p \in Owner, NEW amount \in Amounts, IsAdded(h, g, p, amount)
      PROVE  g.initiator = h.initiator
  BY <1>2 DEF IsAdded, OnlyChanges, Fields, Aside
<1>3. ASSUME g.initiator = h.initiator, g.next = h.next
      PROVE  g.initiator = h.initiator /\ \A p \in Owner : g.next[p] <= h.next[p]
  BY <1>1, <1>3
<1>4. ASSUME NEW p \in Owner, NEW i \in HtlcIds, IsRemoved(h, g, p, i)
      PROVE  g.initiator = h.initiator /\ g.next = h.next
  BY <1>4 DEF IsRemoved, IsSettled, IsFailed, OnlyChanges, Fields, Aside
<1>5. ASSUME NEW rate \in Rates, IsFeeUpdated(h, g, rate)
      PROVE  g.initiator = h.initiator /\ g.next = h.next
  BY <1>5 DEF IsFeeUpdated, OnlyChanges, Fields, Aside
<1>6. ASSUME NEW s \in Owner, IsSigned(h, g, s)
      PROVE  g.initiator = h.initiator /\ g.next = h.next
  BY <1>6 DEF IsSigned, OnlyChanges, Fields, Aside
<1>7. ASSUME NEW s \in Owner, IsRevoked(h, g, s)
      PROVE  g.initiator = h.initiator /\ g.next = h.next
  BY <1>1, <1>7, RevokedEffect DEF IsRevoked, OnlyChanges, Fields, Aside
<1>8. CASE IsReloaded(h, g) \/ OnlyChanges(Aside, h, g)
  <2>1. OnlyChanges({"active", "delta"}, h, g) \/ OnlyChanges(Aside, h, g)
    BY <1>1, <1>8, ReloadEffect
  <2> QED BY <1>3, <2>1 DEF OnlyChanges, Fields, Aside
<1>9. CASE IsDiscarded(h, g)
  <2> DEFINE kept == Known(h, Remote) \ DroppedIds(h)
             next == IF kept = {} THEN 0 ELSE Max(kept) + 1
  <2>1. /\ OnlyChanges({"next", "adds", "locked", "settles", "fails", "active", "fees"}, h, g)
        /\ g.next = [h.next EXCEPT ![Remote] = next]
    BY <1>1, <1>9, DiscardEffect
  <2>2. next \in Nat /\ next <= h.next[Remote]
    BY KeptIds
  <2> HIDE DEF next
  <2>3. g.initiator = h.initiator
    BY <2>1 DEF OnlyChanges, Fields
  <2> QED BY <1>1, <2>1, <2>2, <2>3
<1> QED BY <1>2, <1>3, <1>4, <1>5, <1>6, <1>7, <1>8, <1>9 DEF IsCall

\* Only an htlc that is added has to be affordable.
LEMMA NothingToAfford ==
    ASSUME NEW h, NEW g, ConsistentLog(h), \A p \in Owner : g.next[p] <= h.next[p], NEW initial
    PROVE  Affordable(h, g, initial)
<1> SUFFICES ASSUME NEW p \in Owner, NEW amount \in Amounts, IsAdded(h, g, p, amount) PROVE FALSE
  BY DEF Affordable
<1>1. h.next \in [Owner -> Nat]
  BY DEF ConsistentLog, TypedLog
<1> QED BY <1>1 DEF IsAdded

=============================================================================
