----------------------------- MODULE HtlcSwitch -----------------------------
(***************************************************************************)
(* The htlc switch: what a node does with the htlcs of one payment that it *)
(* is offered on several channels.  electrum/lnpeer.py (htlc_switch and    *)
(* what it calls) and electrum/lnworker.py (received_mpp_htlcs, hold       *)
(* invoices and forwarding).                                               *)
(*                                                                         *)
(* Every Peer runs a switch, and all of them work on the same sets.  An    *)
(* iteration has no await: other tasks run between iterations only.        *)
(*                                                                         *)
(* Each peer has one channel here, and an htlc is in the switch's hands    *)
(* from the moment it is irrevocably added.  An htlc carries one unit of   *)
(* the amount.  Left out: bundles, channels opened just in time, expiry of *)
(* the invoice (its deletion does the same to a set), stopping_soon (which *)
(* does what the age of a set does), and what the onions may get wrong.    *)
(***************************************************************************)
EXTENDS Naturals, FiniteSets

CONSTANTS
    Peer, Htlc,
    PeerOf,         \* PeerOf[h]: the peer that offers h
    PartOf,         \* PartOf[h]: the trampoline part h belongs to, for a nested payment
    KindsOf,        \* KindsOf[h]: the kinds of payments h is offered for
    Down,           \* the htlcs we may offer to others to forward the payment
    Kinds,          \* what the payment may be
    ClosableKinds,  \* those for which channels are force-closed
    Total,          \* the amount of the payment
    PartTotal,      \* the amount of a trampoline part
    CrashPoints,    \* where in a step of the code a crash may happen
    MaxDisconnects, MaxCrashes, MaxCloses   \* bounds for TLC

\* invoice:    one we made, with its preimage
\* nested:     the same, paid in parts by several trampolines, which are collected first
\* held:       add_hold_invoice, where the user gives the preimage later
\* swap:       a hold invoice with a callback, which funds a swap
\* relay:      one htlc to forward
\* trampoline: htlcs to forward together
AllKinds == {"invoice", "nested", "held", "swap", "relay", "trampoline"}
Forwarded == {"relay", "trampoline"}

ASSUME KindsAssumption == Kinds \subseteq AllKinds /\ ClosableKinds \subseteq Kinds
ASSUME PeersAssumption == PeerOf \in [Htlc -> Peer]
ASSUME AmountsAssumption == IsFiniteSet(Htlc) /\ Total \in Nat \ {0} /\ PartTotal \in Nat
ASSUME BoundsAssumption == {MaxDisconnects, MaxCrashes, MaxCloses} \subseteq Nat
ASSUME CrashPointsAssumption == CrashPoints \subseteq {"collect", "fulfill", "fail", "forward"}

VARIABLES
    kind,         \* what the payment is
    chan,         \* chan[p]: "open", "down" while there is no connection, "closed", "redeemed"
    block,        \* of our tip: "fresh", "stale", or "near" if too close to the cltv of htlcs
    htlc,         \* htlc[h]: "none", "added", "settled", "failed"
    unfulfilled,  \* the htlcs in unfulfilled_htlcs of their channel
    old,          \* the htlcs older than MPP_EXPIRY
    sets,         \* received_mpp_htlcs, by payment key
    preimage,     \* "unknown", "known", or "public"
    info,         \* our payment_info: "unpaid", "paid", "none"
    session,      \* the callback: "none", "scheduled", "running" (pay_to_node), "funded" (a swap)
    down,         \* down[d]: "none", "sent", "claimed", "settled", "failed"
    active,       \* active_forwardings of the set
    failure,      \* whether there is a forwarding failure of the set
    iter,         \* the running iteration
    left,         \* how many disconnects, crashes... are left
    lost,         \* history: a crash took the task that was to forward, or its record of
                  \* what it had sent
    alarms        \* history: "switch" or "cleanup" if it raised what it should not

vars == <<kind, chan, block, htlc, unfulfilled, old, sets, preimage, info, session, down,
          active, failure, iter, left, lost, alarms>>

\* What is in the wallet file and about the payment; what is around
payment == <<preimage, info, session, down, active, failure>>
around  == <<kind, block, old, left, lost>>

Whole == "whole"
PaymentKey == {Whole} \cup {PartOf[h] : h \in Htlc}
ASSUME PartsAssumption == Whole \notin {PartOf[h] : h \in Htlc}
KeyOf(h) == IF kind = "nested" THEN PartOf[h] ELSE Whole
FirstStage(k) == k # Whole

NoSet == [resolution |-> "none", htlcs |-> {}, parent |-> FALSE]
NoForwarding == {"none"}
Idle == [peer |-> "none", todo |-> {}, seen |-> [k \in PaymentKey |-> NoSet]]

CanSend(p) == chan[p] = "open"
Own(p, k) == {h \in sets[k].htlcs : PeerOf[h] = p}
IsComplete == sets[Whole].resolution \in {"COMPLETE", "SETTLING"}

-----------------------------------------------------------------------------
(* First step of an iteration: htlcs are checked and collected in sets *)

\* update_or_create_mpp_with_received_htlc
accepts(k) == sets[k].resolution \in {"none", "WAITING"}

\* _check_unfulfilled_htlc
check_unfulfilled_htlc(h) ==
    /\ block # "stale"
    /\ kind \notin Forwarded => block # "near" /\ info = "unpaid"
    /\ accepts(KeyOf(h))

Unprocessed(p) == {h \in unfulfilled : PeerOf[h] = p}
Refused(p) == {h \in Unprocessed(p) : ~check_unfulfilled_htlc(h)}

Collected(p) ==
    [k \in PaymentKey |->
        LET new == {h \in Unprocessed(p) \ Refused(p) : KeyOf(h) = k}
        IN  IF new = {} THEN sets[k]
            ELSE [sets[k] EXCEPT !.resolution = IF @ = "none" THEN "WAITING" ELSE @,
                                 !.htlcs = @ \cup new]]

-----------------------------------------------------------------------------
(* Second step: what to do with a set *)

Amount(s) == Cardinality(s.htlcs)
Enough(k, s) == Amount(s) >= (IF FirstStage(k) THEN PartTotal ELSE Total)
Late(s) == s.htlcs \cap old # {}

\* Mistake: a set that is being forwarded expires like any other.
final_state_Expires(s) ==
    IF s.resolution \in {"FAILED", "EXPIRED"} THEN "fail again"
    ELSE IF s.parent THEN "move"
    ELSE IF s.resolution = "SETTLING" /\ failure THEN "fail"
    ELSE IF s.resolution = "SETTLING" /\ block = "near" THEN "fail"
    ELSE IF s.resolution = "SETTLING" /\ preimage # "unknown" THEN "settle"
    ELSE IF s.resolution = "SETTLING" THEN "nothing"
    ELSE "open"

\* Mistake: whether the preimage is known comes before the resolution.
final_state_Settles(s) ==
    IF s.resolution # "WAITING" /\ preimage # "unknown" THEN "settle"
    ELSE IF s.resolution \in {"FAILED", "EXPIRED"} THEN "fail again"
    ELSE IF s.parent THEN "move"
    ELSE IF s.resolution = "SETTLING" /\ failure THEN "fail"
    ELSE IF s.resolution = "SETTLING" THEN "nothing"
    ELSE "open"

\* _check_final_mpp_set_state
final_state(s) ==
    IF s.resolution \in {"FAILED", "EXPIRED"} THEN "fail again"
    ELSE IF s.parent THEN "move"
    ELSE IF s.resolution = "SETTLING" /\ failure THEN "fail"
    ELSE IF s.resolution = "SETTLING" /\ preimage # "unknown" THEN "settle"
    ELSE IF s.resolution = "SETTLING" THEN "nothing"
    ELSE "open"

\* _check_unfulfilled_htlc_set, for a set that is WAITING or COMPLETE
open_state(k, s) ==
    IF block = "stale" THEN "fail"
    ELSE IF kind = "relay" THEN "forward"
    ELSE IF block = "near" THEN "fail"
    ELSE IF s.resolution = "WAITING" /\ Late(s) THEN "expire"
    ELSE IF kind \notin Forwarded /\ info = "none" THEN "fail"
    ELSE IF s.resolution = "WAITING" /\ ~Enough(k, s) THEN "nothing"
    ELSE IF FirstStage(k) THEN "set parent"
    ELSE IF kind = "trampoline" THEN "forward"
    ELSE IF preimage # "unknown" THEN "settle"
    ELSE IF kind = "held" THEN (IF s.resolution = "WAITING" THEN "complete" ELSE "nothing")
    ELSE IF kind = "swap" THEN "call back"
    ELSE "fail"

\* Sets that never exist are not looked at.
Verdict(k, s) ==
    IF s.resolution = "none" THEN "nothing"
    ELSE IF final_state(s) # "open" THEN final_state(s)
    ELSE open_state(k, s)

Resolve(k, resolution) == [sets EXCEPT ![k].resolution = resolution]

\* The end of a set's turn: it is deleted if nothing is left in it, with
\* maybe_cleanup_forwarding.
EndTurn(k, new) ==
    LET deleted == new[k].htlcs = {}
    IN  /\ sets' = IF deleted THEN [new EXCEPT ![k] = NoSet] ELSE new
        /\ iter' = IF iter.todo = {k} THEN Idle ELSE [iter EXCEPT !.todo = @ \ {k}]
        /\ active' = IF deleted /\ k = Whole THEN NoForwarding ELSE active
        /\ failure' = (failure /\ ~(deleted /\ k = Whole))

\* An exception in the switch ends the connection.
Raised(p, new) ==
    /\ sets' = new
    /\ iter' = Idle
    /\ alarms' = alarms \cup {"switch"}
    /\ chan' = [chan EXCEPT ![p] = "down"]
    /\ UNCHANGED <<active, failure>>

\* Nothing is to be done with a set whose htlcs of this peer are resolved already.
Done(p, k) ==
    /\ sets[k].resolution \in {"FAILED", "EXPIRED", "SETTLING"}
    /\ Verdict(k, sets[k]) = "settle" => info # "unpaid"
    /\ Verdict(k, sets[k]) # "fail"
    /\ Own(p, k) = {}

\* An iteration of p's switch starts with its first step.  Only the sets it has
\* something to do with are put on the list.
StartIteration(p) ==
    /\ iter = Idle
    /\ CanSend(p)
    /\ LET refused == Refused(p)
           gone == {h \in refused : htlc[h] # "added"}
           new  == Collected(p)
           todo == {k \in PaymentKey : Verdict(k, new[k]) # "nothing" /\ ~Done(p, k)}
       IN  IF gone = {}
           THEN /\ sets' = new
                /\ htlc' = [h \in Htlc |-> IF h \in refused THEN "failed" ELSE htlc[h]]
                /\ unfulfilled' = unfulfilled \ Unprocessed(p)
                /\ iter' = IF todo = {} THEN Idle ELSE [peer |-> p, todo |-> todo, seen |-> new]
                /\ UNCHANGED <<chan, alarms, active, failure>>
           ELSE \* an htlc cannot be failed twice
                /\ \E h \in gone : unfulfilled' = unfulfilled \ {h}
                /\ Raised(p, sets)
                /\ UNCHANGED htlc
    /\ UNCHANGED <<around, preimage, info, session, down>>

Turn(k, verdict) == k \in iter.todo /\ Verdict(k, iter.seen[k]) = verdict

NewResolution(k) ==
    LET verdict == Verdict(k, iter.seen[k])
    IN  CASE verdict = "fail" -> "FAILED"
          [] verdict = "expire" -> "EXPIRED"
          [] verdict = "fail again" -> iter.seen[k].resolution
          [] verdict = "settle" -> "SETTLING"

\* The htlcs of a set that this peer's switch can settle or fail
mine(k) == IF CanSend(iter.peer) THEN Own(iter.peer, k) ELSE {}

\* Mistake: the htlcs of other peers leave the set as well.
Without_All(new, k, gone) == [new EXCEPT ![k].htlcs = {}]

Without(new, k, gone) == [new EXCEPT ![k].htlcs = @ \ gone]

\* set_htlc_set_error, _fail_htlc_set; htlcs that were failed before are dropped
FailSet(k) ==
    /\ \E verdict \in {"fail", "expire", "fail again"} : Turn(k, verdict)
    /\ LET new == Resolve(k, NewResolution(k))
           added == {h \in mine(k) : htlc[h] = "added"}
           Fails(some) == htlc' = [h \in Htlc |-> IF h \in some THEN "failed" ELSE htlc[h]]
       IN  IF \E h \in mine(k) : htlc[h] = "settled"
           THEN /\ \E some \in SUBSET added : Fails(some)
                /\ Raised(iter.peer, new)
           ELSE /\ Fails(added)
                /\ EndTurn(k, Without(new, k, mine(k)))
                /\ UNCHANGED <<chan, alarms>>
    /\ UNCHANGED <<around, unfulfilled, preimage, info, session, down>>

Revealed(some) == IF some = {} THEN preimage ELSE "public"
Paid == IF info = "unpaid" THEN "paid" ELSE info

\* set_request_status, _fulfill_htlc_set; htlcs that were settled before are dropped
FulfillSet(k) ==
    /\ Turn(k, "settle")
    /\ LET new == Resolve(k, "SETTLING")
           added == {h \in mine(k) : htlc[h] = "added"}
           Settles(some) ==
               /\ htlc' = [h \in Htlc |-> IF h \in some THEN "settled" ELSE htlc[h]]
               /\ preimage' = Revealed(some)
       IN  IF \E h \in mine(k) : htlc[h] = "failed"
           THEN /\ \E some \in SUBSET added : Settles(some)
                /\ Raised(iter.peer, new)
           ELSE /\ Settles(added)
                /\ EndTurn(k, Without(new, k, mine(k)))
                /\ UNCHANGED <<chan, alarms>>
    /\ info' = Paid
    /\ UNCHANGED <<around, unfulfilled, session, down>>

\* Mistake: the resolution stays, and so the callback is called again.
resolution_called_back_Same(k) == sets[k].resolution

resolution_called_back(k) == "SETTLING"

\* A set that is to be forwarded or whose callback is to be called
CallBack(k) ==
    /\ Turn(k, "forward") \/ Turn(k, "call back")
    /\ session' = "scheduled"
    /\ EndTurn(k, Resolve(k, resolution_called_back(k)))
    /\ UNCHANGED <<around, chan, htlc, unfulfilled, preimage, info, down, alarms>>

\* A held payment is all there, or so is a trampoline part, which gets a parent.
Completed(k) ==
    /\ \/ Turn(k, "complete") /\ EndTurn(k, Resolve(k, "COMPLETE"))
       \/ Turn(k, "set parent") /\ EndTurn(k, [sets EXCEPT ![k].parent = TRUE])
    /\ UNCHANGED <<around, chan, htlc, unfulfilled, preimage, info, session, down, alarms>>

\* The htlcs of a trampoline part move to the set of the whole payment, whatever
\* that has come to.
Moved(k) ==
    [l \in PaymentKey |->
        IF l = k THEN [sets[k] EXCEPT !.htlcs = {}]
        ELSE IF l # Whole THEN sets[l]
        ELSE [sets[Whole] EXCEPT !.resolution = IF @ = "none" THEN "WAITING" ELSE @,
                                 !.htlcs = @ \cup iter.seen[k].htlcs]]

MoveToParent(k) ==
    /\ Turn(k, "move")
    /\ EndTurn(k, Moved(k))
    /\ UNCHANGED <<around, chan, htlc, unfulfilled, preimage, info, session, down, alarms>>

-----------------------------------------------------------------------------
(* Forwarding *)

Fresh(d) == down[d] = "none"
Between == iter = Idle
switch == <<chan, htlc, unfulfilled, sets, iter, alarms>>

\* maybe_forward_htlc_set for a single htlc: it is sent, or refused.  No other task runs
\* between the sending and the note in active_forwardings, but see CrashInForwarding.
Relay ==
    /\ Between /\ kind = "relay" /\ session = "scheduled"
    /\ session' = "none"
    /\ \/ /\ active' = {}
          /\ failure' = TRUE
          /\ UNCHANGED down
       \/ \E d \in Down :
             /\ block = "fresh" /\ Fresh(d)
             /\ down' = [down EXCEPT ![d] = "sent"]
             /\ active' = {d}
             /\ UNCHANGED failure
    /\ UNCHANGED <<around, switch, preimage, info>>

\* The same for a trampoline, which starts to pay
StartPaying ==
    /\ Between /\ kind = "trampoline" /\ session = "scheduled"
    /\ session' = "running"
    /\ active' = {}
    /\ UNCHANGED <<around, switch, preimage, info, down, failure>>

Outstanding(d) == down[d] \in {"sent", "claimed"}
Taken(d) == down[d] \in {"claimed", "settled"}

\* pay_to_node: an attempt, after those before have failed
Pay(d) ==
    /\ Between /\ session = "running"
    /\ Fresh(d)
    /\ \A e \in Down : down[e] \in {"none", "failed"}
    /\ down' = [down EXCEPT ![d] = "sent"]
    /\ active' = active \cup {d}
    /\ UNCHANGED <<around, switch, preimage, info, session, failure>>

\* pay_to_node gives up.
GiveUp ==
    /\ Between /\ session = "running"
    /\ \A e \in Down : down[e] \in {"none", "failed"}
    /\ session' = "none"
    /\ failure' = (active = {})
    /\ UNCHANGED <<around, switch, preimage, info, down, active>>

\* receive_htlc_settle: the preimage is there, and saved, before the htlc is
\* irrevocably gone.
Claim(d) ==
    /\ Between /\ down[d] = "sent"
    /\ down' = [down EXCEPT ![d] = "claimed"]
    /\ preimage' = "public"
    /\ UNCHANGED <<around, switch, info, session, active, failure>>

\* htlc_fulfilled, which ends a session
Fulfilled(d) ==
    /\ Between /\ down[d] = "claimed"
    /\ down' = [down EXCEPT ![d] = "settled"]
    /\ active' = IF active = NoForwarding THEN active ELSE active \ {d}
    /\ session' = IF session = "running" THEN "none" ELSE session
    /\ UNCHANGED <<around, switch, preimage, info, failure>>

\* Mistake: a failure is passed on although the session tries again.
passes_failure_on_Early(d) == active = {d}

passes_failure_on(d) == active = {d} /\ session = "none"

\* htlc_failed
Failed(d) ==
    /\ Between /\ down[d] = "sent"
    /\ down' = [down EXCEPT ![d] = "failed"]
    /\ active' = IF active = NoForwarding THEN active ELSE active \ {d}
    /\ failure' = (failure \/ passes_failure_on(d))
    /\ UNCHANGED <<around, switch, preimage, info, session>>

-----------------------------------------------------------------------------
(* Hold invoices *)

\* settle_hold_invoice
SettleHoldInvoice ==
    /\ Between /\ kind = "held" /\ info # "none" /\ preimage = "unknown"
    /\ IsComplete
    /\ preimage' = "known"
    /\ UNCHANGED <<around, switch, info, session, down, active, failure>>

\* cancel_hold_invoice
CancelHoldInvoice ==
    /\ Between /\ kind = "held" /\ info # "none" /\ preimage = "unknown"
    /\ info' = "none"
    /\ UNCHANGED <<around, switch, preimage, session, down, active, failure>>

WholeFails == IF sets[Whole] = NoSet THEN sets ELSE Resolve(Whole, "FAILED")

is_cancelled == info = "none"

\* hold_invoice_callback of the swaps, which funds one unless it was cancelled
HoldInvoiceCallback ==
    /\ Between /\ kind = "swap" /\ session = "scheduled"
    /\ IF is_cancelled
       THEN session' = "none" /\ sets' = WholeFails
       ELSE session' = "funded" /\ UNCHANGED sets
    /\ UNCHANGED <<around, chan, htlc, unfulfilled, iter, alarms, preimage, info, down, active, failure>>

\* _fail_swap with unregister_hold_invoice, before the swap is funded or after it
\* was refunded
FailSwap ==
    /\ Between /\ kind = "swap" /\ preimage = "unknown" /\ info # "none"
    /\ sets' = WholeFails
    /\ info' = "none"
    /\ session' = IF session = "funded" THEN "none" ELSE session
    /\ UNCHANGED <<around, chan, htlc, unfulfilled, iter, alarms, preimage, down, active, failure>>

\* _claim_swap finds the preimage on the chain.
SwapClaimed ==
    /\ Between /\ session = "funded" /\ preimage = "unknown"
    /\ preimage' = "public"
    /\ UNCHANGED <<around, switch, info, session, down, active, failure>>

-----------------------------------------------------------------------------
(* What happens around it *)

\* An htlc is irrevocably added.
Arrive(h) ==
    /\ Between
    /\ htlc[h] = "none" /\ kind \in KindsOf[h] /\ CanSend(PeerOf[h])
    /\ kind = "relay" => \A g \in Htlc : htlc[g] = "none"
    /\ htlc' = [htlc EXCEPT ![h] = "added"]
    /\ unfulfilled' = unfulfilled \cup {h}
    /\ UNCHANGED <<around, payment, chan, sets, iter, alarms>>

\* A block comes, or none for a long time.
NewTip ==
    /\ Between /\ block # "near"
    /\ block' \in {"fresh", "stale", "near"} \ {block}
    /\ UNCHANGED <<kind, old, left, lost, payment, switch>>

\* MPP_EXPIRY passes.
TimePasses ==
    /\ Between
    /\ old' = {h \in Htlc : htlc[h] # "none"} /\ old' # old
    /\ UNCHANGED <<kind, block, left, lost, payment, switch>>

Disconnect(p) ==
    /\ Between /\ chan[p] = "open" /\ left.disconnects > 0
    /\ chan' = [chan EXCEPT ![p] = "down"]
    /\ left' = [left EXCEPT !.disconnects = @ - 1]
    /\ UNCHANGED <<kind, block, old, lost, payment, htlc, unfulfilled, sets, iter, alarms>>

Reconnect(p) ==
    /\ Between /\ chan[p] = "down"
    /\ chan' = [chan EXCEPT ![p] = "open"]
    /\ UNCHANGED <<around, payment, htlc, unfulfilled, sets, iter, alarms>>

ForceClose(p) ==
    /\ Between /\ chan[p] \in {"open", "down"} /\ left.closes > 0
    /\ kind \in ClosableKinds
    /\ chan' = [chan EXCEPT ![p] = "closed"]
    /\ left' = [left EXCEPT !.closes = @ - 1]
    /\ UNCHANGED <<kind, block, old, lost, payment, htlc, unfulfilled, sets, iter, alarms>>

\* _maybe_reveal_preimage_for_htlc
may_reveal ==
    \/ preimage = "public"
    \/ preimage = "known" /\ IsComplete

ClaimOnchain(h) ==
    /\ Between /\ chan[PeerOf[h]] = "closed" /\ htlc[h] = "added"
    /\ may_reveal
    /\ htlc' = [htlc EXCEPT ![h] = "settled"]
    /\ preimage' = "public"
    /\ UNCHANGED <<around, chan, unfulfilled, sets, iter, alarms, info, session, down, active, failure>>

\* The htlc times out: what we offered to others for it had to be resolved before.
TimeoutOnchain(h) ==
    /\ Between /\ chan[PeerOf[h]] = "closed" /\ htlc[h] = "added"
    /\ block = "near" /\ ~may_reveal /\ session = "none" /\ \A d \in Down : ~Outstanding(d)
    /\ htlc' = [htlc EXCEPT ![h] = "failed"]
    /\ UNCHANGED <<around, payment, chan, unfulfilled, sets, iter, alarms>>

\* The channel is REDEEMED, and maybe_cleanup_mpp removes its htlcs from the sets;
\* an assertion wants none of them to be WAITING.
Redeemed(p) ==
    LET theirs == {h \in Htlc : PeerOf[h] = p}
        waiting == \E k \in PaymentKey : sets[k].resolution = "WAITING" /\ sets[k].htlcs \cap theirs # {}
        rest == [k \in PaymentKey |-> [sets[k] EXCEPT !.htlcs = @ \ theirs]]
    IN  /\ Between /\ chan[p] = "closed" /\ \A h \in theirs : htlc[h] # "added"
        /\ chan' = [chan EXCEPT ![p] = "redeemed"]
        /\ IF waiting
           THEN alarms' = alarms \cup {"cleanup"} /\ UNCHANGED <<sets, active, failure>>
           ELSE /\ sets' = [k \in PaymentKey |-> IF rest[k].htlcs = {} THEN NoSet ELSE rest[k]]
                /\ active' = IF rest[Whole].htlcs = {} THEN NoForwarding ELSE active
                /\ failure' = (failure /\ rest[Whole].htlcs # {})
                /\ UNCHANGED alarms
        /\ UNCHANGED <<around, htlc, unfulfilled, iter, preimage, info, session, down>>

-----------------------------------------------------------------------------
(* Crashes.  What a step did and did not save is as if it had not happened    *)
(* yet, so a crash between steps loses tasks only.  Within a step the wallet  *)
(* is saved when a resolution is set, when the preimage is made public and    *)
(* when a commitment is signed, but an htlc leaves its set, or                *)
(* unfulfilled_htlcs, and the htlc that forwards it gets into                 *)
(* active_forwardings, after that.                                            *)

\* What a restart finds
Restarted ==
    /\ left.crashes > 0
    /\ left' = [left EXCEPT !.crashes = @ - 1]
    /\ chan' = [p \in Peer |-> IF chan[p] = "open" THEN "down" ELSE chan[p]]
    /\ session' = IF session = "funded" THEN session ELSE "none"
    /\ lost' = \/ lost
               \/ kind \in Forwarded /\ session = "scheduled"
               \/ session = "running" /\ active = {}
    /\ iter' = Idle
    /\ UNCHANGED <<kind, block, old, failure, alarms>>

Crash == Restarted /\ UNCHANGED <<htlc, unfulfilled, sets, preimage, info, down, active>>

\* Those failed by then are still in unfulfilled_htlcs.
CrashInCollect(p) ==
    /\ iter = Idle /\ CanSend(p)
    /\ \E some \in SUBSET {h \in Refused(p) : htlc[h] = "added"} :
          /\ some # {} => "collect" \in CrashPoints
          /\ htlc' = [h \in Htlc |-> IF h \in some THEN "failed" ELSE htlc[h]]
    /\ Restarted
    /\ UNCHANGED <<unfulfilled, sets, preimage, info, down, active>>

CrashInFail(k) ==
    /\ "fail" \in CrashPoints
    /\ \E verdict \in {"fail", "expire", "fail again"} : Turn(k, verdict)
    /\ sets' = Resolve(k, NewResolution(k))
    /\ \E some \in SUBSET {h \in mine(k) : htlc[h] = "added"} :
           htlc' = [h \in Htlc |-> IF h \in some THEN "failed" ELSE htlc[h]]
    /\ Restarted
    /\ UNCHANGED <<unfulfilled, preimage, info, down, active>>

\* Only the first htlc makes the preimage public.
CrashInFulfill(k) ==
    /\ "fulfill" \in CrashPoints
    /\ Turn(k, "settle")
    /\ sets' = Resolve(k, "SETTLING")
    /\ info' = Paid
    /\ \E some \in {{}} \cup {{h} : h \in {h \in mine(k) : htlc[h] = "added"}} :
          /\ preimage = "public" => some = {}
          /\ htlc' = [h \in Htlc |-> IF h \in some THEN "settled" ELSE htlc[h]]
          /\ preimage' = Revealed(some)
    /\ Restarted
    /\ UNCHANGED <<unfulfilled, down, active>>

\* send_htlc signs, and thereby saves, the htlc that Relay or Pay sends; that it belongs
\* to this payment is noted afterwards, and saved with the next write.  Until then a
\* crash leaves an htlc that nobody knows to be a forwarding.
CrashInForwarding(d) ==
    /\ "forward" \in CrashPoints
    /\ Between /\ Fresh(d)
    /\ \/ kind = "relay" /\ session = "scheduled" /\ block = "fresh"
       \/ session = "running" /\ \A e \in Down : down[e] \in {"none", "failed"}
    /\ down' = [down EXCEPT ![d] = "sent"]
    /\ active' = {}
    /\ Restarted
    /\ UNCHANGED <<htlc, unfulfilled, sets, preimage, info>>

-----------------------------------------------------------------------------
Init ==
    /\ kind \in Kinds
    /\ chan = [p \in Peer |-> "open"]
    /\ block = "fresh"
    /\ htlc = [h \in Htlc |-> "none"]
    /\ unfulfilled = {}
    /\ old = {}
    /\ sets = [k \in PaymentKey |-> NoSet]
    /\ preimage = IF kind \in {"invoice", "nested"} THEN "known" ELSE "unknown"
    /\ info = IF kind \in Forwarded THEN "none" ELSE "unpaid"
    /\ session = "none"
    /\ down = [d \in Down |-> "none"]
    /\ active = NoForwarding
    /\ failure = FALSE
    /\ iter = Idle
    /\ left = [disconnects |-> MaxDisconnects, crashes |-> MaxCrashes, closes |-> MaxCloses]
    /\ lost = FALSE
    /\ alarms = {}

SetTurn(k) == FailSet(k) \/ FulfillSet(k) \/ CallBack(k) \/ Completed(k) \/ MoveToParent(k)

Forwarding ==
    \/ Relay \/ StartPaying \/ GiveUp
    \/ \E d \in Down : Pay(d) \/ Claim(d) \/ Fulfilled(d) \/ Failed(d)

Holding == SettleHoldInvoice \/ CancelHoldInvoice \/ HoldInvoiceCallback \/ FailSwap \/ SwapClaimed

Next ==
    \/ \E p \in Peer : StartIteration(p)
    \/ \E k \in PaymentKey : SetTurn(k)
    \/ Forwarding
    \/ Holding
    \/ \E h \in Htlc : Arrive(h) \/ ClaimOnchain(h) \/ TimeoutOnchain(h)
    \/ NewTip \/ TimePasses
    \/ \E p \in Peer : Disconnect(p) \/ Reconnect(p) \/ ForceClose(p) \/ Redeemed(p)
    \/ Crash
    \/ \E p \in Peer : CrashInCollect(p)
    \/ \E k \in PaymentKey : CrashInFail(k) \/ CrashInFulfill(k)
    \/ \E d \in Down : CrashInForwarding(d)

Spec == Init /\ [][Next]_vars

\* The switches, tasks and connections of a running program go on, those it
\* forwards to answer, and blocks come until the cltv is near.
Fairness ==
    /\ \A p \in Peer : WF_vars(StartIteration(p)) /\ WF_vars(Reconnect(p))
    /\ WF_vars(\E k \in PaymentKey : SetTurn(k))
    /\ WF_vars(Forwarding \/ HoldInvoiceCallback \/ FailSwap \/ SwapClaimed)
    /\ WF_vars(NewTip /\ block' = "near")

FairSpec == Spec /\ Fairness

-----------------------------------------------------------------------------
(* Properties *)

\* Once others may take our money, or got the preimage of our invoice, we have or
\* can take the whole amount: no htlc of the payment was failed, counted twice or
\* left behind.  This is about the resolution of sets, forwarding, and restarts.
Covered ==
    LET exposed == \/ kind \in Forwarded /\ \E d \in Down : Outstanding(d) \/ Taken(d)
                   \/ kind = "swap" /\ session = "funded"
                   \/ \E h \in Htlc : htlc[h] = "settled"
        claimable == IF sets[Whole].resolution = "SETTLING" THEN sets[Whole].htlcs ELSE {}
        ours == {h \in Htlc : htlc[h] = "settled" \/ (htlc[h] = "added" /\ h \in claimable)}
        due == IF kind = "relay" THEN 1 ELSE Total
    IN  exposed => Cardinality(ours) >= due

\* A payment is forwarded by one htlc at a time, and a relayed htlc only once, also
\* when a crash comes between the sending and the note of it.  ("If we segfault
\* in-between and restart, we might forward an HTLC twice": not so, as the set was
\* saved as SETTLING before.)
ForwardedOnce ==
    /\ Cardinality({d \in Down : Outstanding(d) \/ Taken(d)}) <= 1
    /\ kind = "relay" => Cardinality({d \in Down : ~Fresh(d)}) <= 1

\* "A set marked as failed once must never settle any htlcs associated to it", by
\* whichever switch and after whichever restart.  On the chain an htlc that was left
\* in it is still claimed, if other htlcs of the payment may be.
FailedForGood ==
    [][\A k \in PaymentKey :
          sets[k].resolution \in {"FAILED", "EXPIRED"} =>
              /\ \A h \in sets[k].htlcs : htlc[h] = "added" /\ htlc'[h] = "settled" =>
                     chan[PeerOf[h]] = "closed" /\ may_reveal
              /\ sets'[k].resolution \in {"FAILED", "EXPIRED", "none"}]_vars

\* No assertion of the switch fails, and no htlc is removed twice.
SwitchNeverRaises == "switch" \notin alarms

\* Again and again every htlc that was offered is settled or failed, unless its
\* channel is closed.  What a crash makes of a forwarding is an exception only while
\* the preimage is not known: nobody passes the failure on of an htlc that was not
\* sent yet, or that nobody knows to be a forwarding.
Resolved ==
    []<>(\A h \in Htlc : htlc[h] = "added" => \/ chan[PeerOf[h]] \in {"closed", "redeemed"}
                                             \/ (lost /\ preimage = "unknown"))

=============================================================================
