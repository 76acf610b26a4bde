--------------------------- MODULE HTLCManagerSM ---------------------------
(***************************************************************************)
(* One HTLCManager, driven by any sequence of calls that its callers may   *)
(* make: the local user and the htlc switch (Send...), messages of any     *)
(* peer that follows the protocol (Recv...), a reconnection (Discard) and  *)
(* a restart of the program from the wallet file (Reload).                 *)
(***************************************************************************)
EXTENDS HTLCManager

CONSTANTS
    Initiators,   \* the sides that may have funded the channel
    MaxCtn,       \* bound on the commitment numbers
    MaxFees,      \* bound on the number of feerates
    MaxQueued     \* bound on the updates queued for a replay when a feerate is sent

ASSUME InitiatorsAssumption == Initiators \subseteq Owner

VARIABLES
    hm,           \* the log, with its cache
    resolved      \* history: how often each htlc we sent was reported as removed

vars == <<hm, resolved>>

Messages == {"update", "commitment_signed"}

Init ==
    /\ \E s \in Initiators, rate \in Rates : hm = NewLog(s, rate)
    /\ resolved = [i \in HtlcIds |-> 0]

-----------------------------------------------------------------------------
(* Calls.  What Local sends is also stored for a replay. *)

Stored(m, s) == IF s = Remote THEN store_local_update_raw_msg(m, "update", FALSE) ELSE m

\* Channel.add_htlc, Channel.receive_htlc
AddHtlc(p) ==
    /\ hm.next[p] \in HtlcIds
    /\ \E amount \in Amounts : hm' = Stored(add_htlc(hm, p, amount), Other(p))
    /\ UNCHANGED resolved

\* A side removes an htlc only once both ctxs are irrevocably committed to it:
\* Peer._fulfill_htlc asserts it for Local; Remote, seen from here, may know it
\* as soon as Local has revoked the last ctx without it.
Removable(p, i) ==
    /\ i \in Known(hm, p)
    /\ can_remove_htlc(hm, p, i)
    /\ p = Remote => is_htlc_irrevocably_added_yet(hm, p, i)

\* Channel.settle_htlc, Channel.receive_htlc_settle
SettleHtlc(p, i) ==
    /\ Removable(p, i)
    /\ hm.settles[p][i] = Absent
    /\ hm' = Stored(settle_htlc(hm, p, i), p)
    /\ UNCHANGED resolved

\* Channel.fail_htlc, Channel.receive_fail_htlc
FailHtlc(p, i) ==
    /\ Removable(p, i)
    /\ hm' = Stored(fail_htlc(hm, p, i), p)
    /\ UNCHANGED resolved

\* Channel.update_fee, by the initiator only
UpdateFee(rate) ==
    /\ NumFees(hm) < MaxFees
    /\ \A c \in DOMAIN hm.unacked : Len(hm.unacked[c]) < MaxQueued
    /\ hm' = LET s == Other(hm.initiator) IN Stored(update_fee(hm, s, rate), s)
    /\ UNCHANGED resolved

\* Channel.sign_next_commitment
SendCtx ==
    /\ can_sign(hm, Remote)
    /\ next_ctn(hm, Remote) <= MaxCtn
    /\ hm' = store_local_update_raw_msg(send_ctx(hm), "commitment_signed", TRUE)
    /\ UNCHANGED resolved

\* Channel.receive_new_commitment
RecvCtx ==
    /\ can_sign(hm, Local)
    /\ next_ctn(hm, Local) <= MaxCtn
    /\ hm' = recv_ctx(hm)
    /\ UNCHANGED resolved

\* Channel.revoke_current_commitment
SendRev ==
    /\ can_revoke(hm, Local)
    /\ hm' = send_rev(hm)
    /\ UNCHANGED resolved

\* Channel.receive_revocation, which reports the htlcs that are now gone
RecvRev ==
    /\ can_revoke(hm, Remote)
    /\ hm' = recv_rev(hm)
    /\ resolved' =
         LET c    == hm'.ctn[Remote]
             gone == sent_in_ctn(hm', c) \cup failed_in_ctn(hm', c)
         IN  [i \in HtlcIds |-> IF i \in gone THEN resolved[i] + 1 ELSE resolved[i]]

\* Peer.reestablish_channel
Discard == hm' = discard_unsigned_remote_updates(hm) /\ UNCHANGED resolved

\* HTLCManager.__init__ on the stored log
Reload == hm' = init_maybe_active_htlc_ids(hm) /\ UNCHANGED resolved

Next ==
    \/ \E p \in Owner : AddHtlc(p)
    \/ \E p \in Owner, i \in HtlcIds : SettleHtlc(p, i) \/ FailHtlc(p, i)
    \/ \E rate \in Rates : UpdateFee(rate)
    \/ SendCtx \/ RecvCtx \/ SendRev \/ RecvRev
    \/ Discard \/ Reload

Spec == Init /\ [][Next]_vars

-----------------------------------------------------------------------------
(* Types *)

\* Every field of the log has its type; `delta' is in CachedBalanceIsExact.
TypeOK ==
    /\ TypedLog(hm)
    /\ DOMAIN hm.unacked \subseteq Nat
    /\ \A c \in DOMAIN hm.unacked : hm.unacked[c] \in Seq(Messages)
    /\ hm.revokeLast \in BOOLEAN
    /\ resolved \in [HtlcIds -> Nat]

-----------------------------------------------------------------------------
(* Safety *)

\* The ids a side has used are 0 .. next - 1, also after some were discarded:
\* the code looks an id below next up without checking that it is there.
IdsAreContiguous == ContiguousIds(hm)

\* An htlc is never both fulfilled and failed, although the two are separate
\* dicts, each written by two methods.
NeverSettledAndFailed == RemovedOnce(hm)

\* "It is guaranteed that those htlcs are in the set": for every ctx that is
\* not revoked, and the next one, the cached ids give the htlcs the whole log does.
CacheComplete ==
    \A s, p \in Owner : \A c \in hm.ctn[s] .. next_ctn(hm, s), i \in Known(hm, p) :
        is_htlc_active_at_ctn(hm, s, c, p, i) => i \in hm.active[p]

\* The balances computed from the cache and from _balance_delta are those the
\* whole log gives.
CachedBalanceIsExact ==
    \A s, whose \in Owner : \A c \in hm.ctn[s] .. next_ctn(hm, s) :
        LET Moved(p) == AmountOf(hm, p, SettledIn(hm, s, c, p, Known(hm, p)))
        IN  get_balance_msat(hm, whose, s, c, 0) = Moved(Other(whose)) - Moved(whose)

\* An htlc we sent is reported to LNWallet exactly once, at the moment it is
\* out of both parties' ctxs for good ("have *just* been irrevocably removed,
\* now from both parties' ctxs").
ReportedExactlyOnce ==
    \A i \in HtlcIds :
        resolved[i] = IF is_htlc_irrevocably_removed_yet(hm, Local, i) THEN 1 ELSE 0

\* What is kept for a replay is, for each ctx not yet acknowledged, "some
\* number of updates and then a single commitment_signed".
ReplayEndsInOneSignature ==
    \A c \in DOMAIN hm.unacked :
        LET msgs == hm.unacked[c]
            signatures == {k \in DOMAIN msgs : msgs[k] = "commitment_signed"}
        IN  IF hm.revack[Remote] /\ c = ctn_latest(hm, Remote)
            THEN signatures = {Len(msgs)}
            ELSE c = next_ctn(hm, Remote) /\ signatures = {}

\* A ctx that was signed is never changed by a later call, a reconnection or a
\* restart: revoked ones must be rebuilt from the log to punish their broadcast
\* (create_sweeptxs_for_watchtower), unrevoked ones to verify their signature.
\* Here its htlcs, as htlcs() computes them from the cache or the whole log,
SignedHtlcsAreFinal ==
    [][\A s \in Owner : \A c \in 0 .. ctn_latest(hm, s) :
          htlcs(hm', s, c) = htlcs(hm, s, c)]_vars

\* and here its feerate and who owns what in it.
SignedTermsAreFinal ==
    [][\A s \in Owner : \A c \in 0 .. ctn_latest(hm, s) :
          /\ get_feerate(hm', s, c) = get_feerate(hm, s, c)
          /\ \A q \in Owner : get_balance_msat(hm', q, s, c, 0) = get_balance_msat(hm, q, s, c, 0)]_vars

\* What is irrevocably added or removed stays so.
IrrevocableIsForever ==
    [][\A p \in Owner, i \in HtlcIds :
          /\ is_htlc_irrevocably_added_yet(hm, p, i) => is_htlc_irrevocably_added_yet(hm, p, i)'
          /\ is_htlc_irrevocably_removed_yet(hm, p, i) => is_htlc_irrevocably_removed_yet(hm, p, i)']_vars

-----------------------------------------------------------------------------
(* The inductive invariant *)

IInv == TypeOK /\ ConsistentLog(hm)

=============================================================================
