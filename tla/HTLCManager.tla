---------------------------- MODULE HTLCManager ----------------------------
(***************************************************************************)
(* electrum/lnhtlc.py: the update log of one side of a Lightning channel.  *)
(*                                                                         *)
(* HTLCManager remembers, for every HTLC, fulfilment, failure and feerate  *)
(* change, in which commitment number (ctn) of Local's and of Remote's     *)
(* commitment transaction (ctx) it takes effect; the ctxs themselves are   *)
(* computed from that log.  The methods of the class are operators from    *)
(* a log (a record `m') to the next log, so that a single node             *)
(* (HTLCManagerSM) and two nodes with a network between them (LNChannel)   *)
(* use the same definitions.                                               *)
(*                                                                         *)
(* send_x and recv_x of the class are mirror images: send_htlc and         *)
(* recv_htlc differ in who proposes, send_ctx and recv_ctx in whose ctx is *)
(* signed.  One operator stands for both, parameterised by that side.      *)
(***************************************************************************)
EXTENDS Integers, Sequences, FiniteSets, FiniteSetsExt, Functions

CONSTANTS
    HtlcIds,      \* the htlc ids a side may use (a bound for TLC)
    Amounts,      \* the amounts an htlc may have
    Rates         \* the feerates of the commitment transactions

ASSUME HtlcIdsAssumption == HtlcIds \subseteq Nat
ASSUME AmountsAssumption == Amounts \subseteq Nat \ {0}
ASSUME RatesAssumption == Rates # {}

Local  == "local"
Remote == "remote"
Owner  == {Local, Remote}
Other(s) == IF s = Local THEN Remote ELSE Local

\* Python's None in a dict "whose ctx -> ctn"; an entry with None for both
\* ctxs stands for a missing key, as the code never stores one.
None   == -1
Ctn    == Nat \cup {None}
Entry  == [Owner -> Ctn]
Absent == [s \in Owner |-> None]
Entered(s, c) == [Absent EXCEPT ![s] = c]

-----------------------------------------------------------------------------
(* Commitment numbers *)

ctn_latest(m, s) == m.ctn[s] + (IF m.revack[s] THEN 1 ELSE 0)
next_ctn(m, s)   == ctn_latest(m, s) + 1

InCtx(e, s, c)  == e[s] # None /\ e[s] <= c

(***************************************************************************)
(* The empty log, after channel_open_finished.  `initiator' is the side    *)
(* that funds the channel and may change its feerate.                      *)
(***************************************************************************)
NewLog(initiator, rate) ==
    [ ctn        |-> [s \in Owner |-> 0],
      revack     |-> [s \in Owner |-> FALSE],
      next       |-> [p \in Owner |-> 0],
      adds       |-> [p \in Owner |-> [i \in HtlcIds |-> 0]],
      locked     |-> [p \in Owner |-> [i \in HtlcIds |-> Absent]],
      settles    |-> [p \in Owner |-> [i \in HtlcIds |-> Absent]],
      fails      |-> [p \in Owner |-> [i \in HtlcIds |-> Absent]],
      fees       |-> [k \in {0} |-> [rate |-> rate, ctn |-> [s \in Owner |-> 0]]],
      initiator  |-> initiator,
      unacked    |-> << >>,
      revokeLast |-> FALSE,
      active     |-> [p \in Owner |-> {}],
      delta      |-> 0 ]

-----------------------------------------------------------------------------
(* Queries re HTLCs *)

Known(m, p) == {i \in HtlcIds : m.adds[p][i] # 0}

is_htlc_active_at_ctn(m, s, c, p, i) ==
    /\ i < m.next[p]
    /\ InCtx(m.locked[p][i], s, c)
    /\ ~InCtx(m.settles[p][i], s, c)
    /\ ~InCtx(m.fails[p][i], s, c)

\* The cached ids suffice for a ctx that is not yet revoked.
considered_htlc_ids(m, s, c, p) ==
    IF c >= m.ctn[s] THEN m.active[p] ELSE Known(m, p)

htlcs_by_proposer(m, s, c, p) ==
    {i \in considered_htlc_ids(m, s, c, p) : is_htlc_active_at_ctn(m, s, c, p, i)}

htlcs(m, s, c) == [p \in Owner |->
    {<<i, m.adds[p][i]>> : i \in htlcs_by_proposer(m, s, c, p)}]

irrevocably_added(m, s, p, i) ==
    i < m.next[p] /\ InCtx(m.locked[p][i], s, m.ctn[s])

is_htlc_irrevocably_added_yet(m, p, i) ==
    \A s \in Owner : irrevocably_added(m, s, p, i)

\* ctn_of_rm = ctn_of_settle or ctn_of_fail or None
irrevocably_removed(m, s, p, i) ==
    /\ i < m.next[p]
    /\ LET settle == m.settles[p][i][s]
           ctn_of_rm == IF settle \notin {None, 0} THEN settle ELSE m.fails[p][i][s]
       IN  ctn_of_rm \notin {None, 0} /\ ctn_of_rm <= m.ctn[s]

is_htlc_irrevocably_removed_yet(m, p, i) ==
    \A s \in Owner : irrevocably_removed(m, s, p, i)

was_htlc_preimage_released(m, p, i) == m.settles[p][i][p] # None
was_htlc_failed(m, p, i)            == m.fails[p][i][p] # None

AmountOf(m, p, ids) == MapThenSumSet(LAMBDA i : m.adds[p][i], ids)

SettledIn(m, s, c, p, ids) == {i \in ids : InCtx(m.settles[p][i], s, c)}

\* What `whose' owns in s's ctx at ctn c, htlcs not counted.
get_balance_msat(m, whose, s, c, initial) ==
    LET gained == IF whose = Local THEN m.delta ELSE -m.delta
        Moved(p) == AmountOf(m, p, SettledIn(m, s, c, p, considered_htlc_ids(m, s, c, p)))
    IN  initial + (IF c >= m.ctn[s] THEN gained ELSE 0)
                - Moved(whose) + Moved(Other(whose))

\* sent_in_ctn (table = settles) and failed_in_ctn (table = fails): the htlcs
\* that left s's ctx exactly at ctn c.
removed_exactly_at_ctn(m, table, s, c, p) ==
    LET ids == IF c >= m.ctn[s] THEN m.active[p] ELSE Known(m, p)
    IN  {i \in ids : table[p][i][s] = c}

sent_in_ctn(m, c)   == removed_exactly_at_ctn(m, m.settles, Remote, c, Local)
failed_in_ctn(m, c) == removed_exactly_at_ctn(m, m.fails, Remote, c, Local)

-----------------------------------------------------------------------------
(* Queries re fees.  fee_updates is a dict whose keys are meant to be 0, 1... *)

NumFees(m) == Cardinality(DOMAIN m.fees)

\* Mistake: the newest feerate, whether or not it has reached the ctx.
get_feerate_Newest(m, s, c) == m.fees[NumFees(m) - 1].rate

\* A binary search for the last feerate that is in the ctx
get_feerate(m, s, c) ==
    LET n == NumFees(m)
        search[bounds \in (0 .. n) \X (0 .. n)] ==
            LET left   == bounds[1]
                right  == bounds[2]
                middle == (left + right) \div 2
            IN  IF right - left <= 1 THEN middle
                ELSE IF InCtx(m.fees[middle].ctn, s, c) THEN search[<<middle, right>>]
                ELSE search[<<left, middle>>]
    IN  m.fees[search[<<0, n>>]].rate

-----------------------------------------------------------------------------
(* The cache of htlcs that may still be in some unrevoked ctx *)

\* Mistakes: no margin; in one ctx only.
LongGone_NoMargin(m, e) == \A s \in Owner : InCtx(e, s, m.ctn[s])
LongGone_InOneCtx(m, e) == \E s \in Owner : InCtx(e, s, m.ctn[s] - 1)

\* sanity_margin = 1
LongGone(m, e) == \A s \in Owner : InCtx(e, s, m.ctn[s] - 1)

update_maybe_active_htlc_ids(m) ==
    LET settled == [p \in Owner |-> {i \in m.active[p] : LongGone(m, m.settles[p][i])}]
        failed  == [p \in Owner |-> {i \in m.active[p] : LongGone(m, m.fails[p][i])}]
    IN  [m EXCEPT
            !.active = [p \in Owner |-> m.active[p] \ (settled[p] \cup failed[p])],
            !.delta  = @ - AmountOf(m, Local, settled[Local])
                         + AmountOf(m, Remote, settled[Remote])]

\* Mistakes: the delta is not reset, and is counted twice; the cache is not
\* built again.
init_maybe_active_htlc_ids_KeepDelta(m) ==
    update_maybe_active_htlc_ids([m EXCEPT !.active = [p \in Owner |-> Known(m, p)]])
init_maybe_active_htlc_ids_NoCache(m) ==
    update_maybe_active_htlc_ids([m EXCEPT !.active = [p \in Owner |-> {}], !.delta = 0])

\* HTLCManager.__init__ on a log read back from the wallet file.
init_maybe_active_htlc_ids(m) ==
    update_maybe_active_htlc_ids(
        [m EXCEPT !.active = [p \in Owner |-> Known(m, p)], !.delta = 0])

-----------------------------------------------------------------------------
(* Actions on the channel *)

\* Mistake: the id that goes into the cache is taken after the increment.
add_htlc_NextIdCached(m, p, amount) ==
    LET i == m.next[p]
        s == Other(p)
    IN  [m EXCEPT !.adds[p][i]   = amount,
                  !.locked[p][i] = Entered(s, next_ctn(m, s)),
                  !.next[p]      = @ + 1,
                  !.active[p]    = @ \cup {i + 1}]

\* send_htlc (p = Local) and recv_htlc (p = Remote): the htlc first enters
\* the ctx of the side that did not propose it.
add_htlc(m, p, amount) ==
    LET i == m.next[p]
        s == Other(p)
    IN  [m EXCEPT !.adds[p][i]   = amount,
                  !.locked[p][i] = Entered(s, next_ctn(m, s)),
                  !.next[p]      = @ + 1,
                  !.active[p]    = @ \cup {i}]

\* Mistakes: an htlc whose removal is not signed yet can be removed again; the
\* removal enters a ctx that was signed already.
can_remove_htlc_AtLatest(m, p, i) == is_htlc_active_at_ctn(m, p, ctn_latest(m, p), p, i)
settle_htlc_AtLatest(m, p, i) == [m EXCEPT !.settles[p][i] = Entered(p, ctn_latest(m, p))]

\* send_settle, send_fail (p = Remote) and recv_settle, recv_fail (p = Local):
\* an htlc proposed by p is removed by the other side, and first leaves p's ctx.
can_remove_htlc(m, p, i) == is_htlc_active_at_ctn(m, p, next_ctn(m, p), p, i)

settle_htlc(m, p, i) == [m EXCEPT !.settles[p][i] = Entered(p, next_ctn(m, p))]
fail_htlc(m, p, i)   == [m EXCEPT !.fails[p][i]   = Entered(p, next_ctn(m, p))]

\* Mistake: the last feerate is replaced although a ctx was signed with it.
update_fee_Replace(m, s, rate) ==
    [m EXCEPT !.fees[NumFees(m) - 1] = [rate |-> rate, ctn |-> Entered(s, next_ctn(m, s))]]

\* send_update_fee (s = Remote), recv_update_fee (s = Local): the change first
\* enters s's ctx.  It replaces the last one if no ctx was signed with that.
update_fee(m, s, rate) ==
    LET new  == [rate |-> rate, ctn |-> Entered(s, next_ctn(m, s))]
        n    == NumFees(m)
        last == m.fees[n - 1].ctn
    IN  IF \E t \in Owner : InCtx(last, t, ctn_latest(m, t))
        THEN [m EXCEPT !.fees = [k \in DOMAIN @ \cup {n} |-> IF k = n THEN new ELSE @[k]]]
        ELSE [m EXCEPT !.fees[n - 1] = new]

\* send_ctx (s = Remote) and recv_ctx (s = Local); they assert can_sign.
can_sign(m, s) == ~m.revack[s]

send_ctx(m) == [m EXCEPT !.revack[Remote] = TRUE, !.revokeLast = FALSE]
recv_ctx(m) == [m EXCEPT !.revack[Local] = TRUE]

\* Mistake: what is in the other ctx already is entered into its next one again.
CarryOver_Again(m, s, e) ==
    IF InCtx(e, s, ctn_latest(m, s)) THEN [e EXCEPT ![Other(s)] = next_ctn(m, Other(s))] ELSE e

\* Once s has revoked, what its ctx was signed with enters the next ctx of
\* the other side, if it is not there already.
CarryOver(m, s, e) ==
    IF InCtx(e, s, ctn_latest(m, s)) /\ e[Other(s)] = None
    THEN [e EXCEPT ![Other(s)] = next_ctn(m, Other(s))]
    ELSE e

CarryOverFee(m, s, fee) == [fee EXCEPT !.ctn = CarryOver(m, s, @)]

\* Mistake: the htlcs of the side that revokes are carried over.
Revoked_WrongSide(m, s) ==
    LET r == [m EXCEPT !.ctn[s] = @ + 1, !.revack[s] = FALSE]
        Carried(table) == [i \in HtlcIds |-> CarryOver(r, s, table[i])]
    IN  update_maybe_active_htlc_ids(
            [r EXCEPT !.locked[s] = Carried(@), !.settles[s] = Carried(@), !.fails[s] = Carried(@)])

\* The part of send_rev (s = Local) and recv_rev (s = Remote) they share: s's
\* ctn moves on; htlcs of the other side and removals of s's htlcs carry over,
\* for cached ids; feerates do if the other side is the initiator.
Revoked(m, s) ==
    LET r == [m EXCEPT !.ctn[s] = @ + 1, !.revack[s] = FALSE]
        o == Other(s)
        Carried(table, ids) == [i \in HtlcIds |->
            IF i \in ids THEN CarryOver(r, s, table[i]) ELSE table[i]]
        moved == [r EXCEPT !.locked[o]  = Carried(@, m.active[o]),
                           !.settles[s] = Carried(@, m.active[s]),
                           !.fails[s]   = Carried(@, m.active[s])]
    IN  [update_maybe_active_htlc_ids(moved) EXCEPT
            !.fees = IF m.initiator = o
                     THEN [k \in DOMAIN @ |-> CarryOverFee(r, s, @[k])]
                     ELSE @]

\* They assert can_revoke.
can_revoke(m, s) == m.revack[s]

send_rev(m) == [Revoked(m, Local) EXCEPT !.revokeLast = TRUE]

recv_rev(m) ==
    LET r == Revoked(m, Remote)
    IN  [r EXCEPT !.unacked =
            [c \in DOMAIN @ \ {r.ctn[Remote]} |-> @[c]]]

\* Mistakes: the next id of Remote stays; what was just signed is forgotten too.
discard_unsigned_remote_updates_KeepNext(m) ==
    LET dropped == {i \in Known(m, Remote) : m.locked[Remote][i][Local] > ctn_latest(m, Local)}
    IN  [m EXCEPT
            !.adds[Remote]   = [i \in HtlcIds |-> IF i \in dropped THEN 0 ELSE @[i]],
            !.locked[Remote] = [i \in HtlcIds |-> IF i \in dropped THEN Absent ELSE @[i]],
            !.active[Remote] = @ \ dropped]
discard_unsigned_remote_updates_Signed(m) ==
    LET Signed(table) == [i \in HtlcIds |->
            IF table[i][Local] >= ctn_latest(m, Local) THEN Absent ELSE table[i]]
    IN  [m EXCEPT !.settles[Local] = Signed(@), !.fails[Local] = Signed(@)]

\* On disconnection: forget what Remote proposed and did not sign for.
discard_unsigned_remote_updates(m) ==
    LET Unsigned(e) == e[Local] > ctn_latest(m, Local)
        Signed(table) == [i \in HtlcIds |-> IF Unsigned(table[i]) THEN Absent ELSE table[i]]
        dropped == {i \in Known(m, Remote) : Unsigned(m.locked[Remote][i])}
        kept == Known(m, Remote) \ dropped
    IN  [m EXCEPT
            !.adds[Remote]   = [i \in HtlcIds |-> IF i \in dropped THEN 0 ELSE @[i]],
            !.locked[Remote] = Signed(@),
            !.active[Remote] = @ \ dropped,
            !.next[Remote]   = IF kept = {} THEN 0 ELSE Max(kept) + 1,
            !.settles[Local] = Signed(@),
            !.fails[Local]   = Signed(@),
            !.fees = IF m.initiator = Remote
                     THEN Restrict(@, {k \in DOMAIN @ : ~Unsigned(@[k].ctn)}) ELSE @]

\* Mistake: a signature is kept with the updates that come after it.
store_local_update_raw_msg_Next(m, msg, is_commitment_signed) ==
    LET c == next_ctn(m, Remote)
        stored == IF c \in DOMAIN m.unacked THEN m.unacked[c] ELSE << >>
    IN  [m EXCEPT !.unacked =
            [d \in DOMAIN @ \cup {c} |-> IF d = c THEN Append(stored, msg) ELSE @[d]]]

\* Messages to replay after a reconnection, by the ctn of the ctx they lead to.
store_local_update_raw_msg(m, msg, is_commitment_signed) ==
    LET c == IF is_commitment_signed THEN ctn_latest(m, Remote) ELSE next_ctn(m, Remote)
        stored == IF c \in DOMAIN m.unacked THEN m.unacked[c] ELSE << >>
    IN  [m EXCEPT !.unacked =
            [d \in DOMAIN @ \cup {c} |-> IF d = c THEN Append(stored, msg) ELSE @[d]]]

-----------------------------------------------------------------------------
(* What holds of a log, whichever calls made it *)

FeeUpdate == [rate : Rates, ctn : Entry]

\* Every field has its type; what is kept for a replay is up to the caller, and
\* `delta' is in ExactDelta.
TypedLog(m) ==
    /\ DOMAIN m = DOMAIN NewLog(Local, CHOOSE r \in Rates : TRUE)
    /\ m.ctn \in [Owner -> Nat]
    /\ m.revack \in [Owner -> BOOLEAN]
    /\ m.next \in [Owner -> Nat]
    /\ m.adds \in [Owner -> [HtlcIds -> Amounts \cup {0}]]
    /\ m.locked \in [Owner -> [HtlcIds -> Entry]]
    /\ m.settles \in [Owner -> [HtlcIds -> Entry]]
    /\ m.fails \in [Owner -> [HtlcIds -> Entry]]
    /\ m.fees \in [0 .. NumFees(m) - 1 -> FeeUpdate]
    /\ NumFees(m) \in Nat \ {0}
    /\ m.initiator \in Owner
    /\ m.active \in [Owner -> SUBSET HtlcIds]

\* The ids a side has used are 0 .. next - 1, also after some were discarded:
\* the code looks an id below next up without checking that it is there.
ContiguousIds(m) ==
    \A p \in Owner, i \in HtlcIds :
        /\ (i < m.next[p]) <=> (m.adds[p][i] # 0)
        /\ (i < m.next[p]) <=> (m.locked[p][i] # Absent)
        /\ i >= m.next[p] => m.settles[p][i] = Absent /\ m.fails[p][i] = Absent

\* An htlc is never both fulfilled and failed, although the two are separate
\* dicts, each written by two methods.
RemovedOnce(m) ==
    \A p \in Owner, i \in HtlcIds :
        m.settles[p][i] = Absent \/ m.fails[p][i] = Absent

\* An update that first enters the ctx of `first' is in that ctx's next ctn at
\* the latest, and in the other ctx exactly from when `first' revoked on.
EntryOK(m, e, first) ==
    e # Absent =>
        /\ e[first] \in 1 .. next_ctn(m, first)
        /\ e[Other(first)] <= next_ctn(m, Other(first))
        /\ e[Other(first)] # 0
        /\ e[Other(first)] = None <=> e[first] > m.ctn[first]

OrderedEntries(m) ==
    \A p \in Owner, i \in HtlcIds :
        /\ EntryOK(m, m.locked[p][i], Other(p))
        /\ EntryOK(m, m.settles[p][i], p)
        /\ EntryOK(m, m.fails[p][i], p)

\* Only what is in both ctxs is removed.
AddedFirst(m) ==
    \A p \in Owner, i \in HtlcIds :
        m.settles[p][i] # Absent \/ m.fails[p][i] # Absent =>
            \A s \in Owner : m.locked[p][i][s] # None

\* The cache lacks only htlcs that are long gone from both ctxs.
SoundCache(m) ==
    \A p \in Owner :
        /\ m.active[p] \subseteq Known(m, p)
        /\ \A i \in Known(m, p) \ m.active[p] :
              LongGone(m, m.settles[p][i]) \/ LongGone(m, m.fails[p][i])

\* A side's htlcs enter the other side's ctx in the order of their ids.
OrderedAdds(m) ==
    \A p \in Owner, i, j \in HtlcIds :
        i < j /\ j < m.next[p] => m.locked[p][i][Other(p)] <= m.locked[p][j][Other(p)]

\* So do feerates; only the last one is not signed yet, and may be discarded.
OrderedFees(m) ==
    LET first == Other(m.initiator)
        last  == NumFees(m) - 1
    IN  /\ \A s \in Owner : m.fees[0].ctn[s] = 0
        /\ \A k \in 1 .. last : m.fees[k].ctn # Absent /\ EntryOK(m, m.fees[k].ctn, first)
        /\ \A k \in 0 .. last - 1 : m.fees[k].ctn[first] <= ctn_latest(m, first)

ConsistentLog(m) ==
    /\ TypedLog(m)
    /\ ContiguousIds(m)
    /\ OrderedEntries(m)
    /\ AddedFirst(m)
    /\ RemovedOnce(m)
    /\ SoundCache(m)
    /\ OrderedAdds(m)
    /\ OrderedFees(m)

=============================================================================
