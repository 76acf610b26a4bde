----------------------------- MODULE PaySession -----------------------------
(***************************************************************************)
(* Paying one invoice: pay_invoice and the PaySession it runs, the htlcs   *)
(* the payment is split into, and the callbacks that tell how they ended,  *)
(* over retries and restarts.  electrum/lnworker.py.                       *)
(*                                                                         *)
(* The receiver is honest: it takes htlcs only when they add up to the     *)
(* amount.  Whether an htlc is taken or refused is decided elsewhere       *)
(* before we hear of it, and never changes; what we heard of it, and did   *)
(* not get signed, is forgotten when the channel is reestablished.         *)
(*                                                                         *)
(* Left out: fees and routes (any split of the amount may be tried, and    *)
(* finding routes may fail), payments made to forward one, and payments to *)
(* a trampoline that is itself the receiver.                               *)
(***************************************************************************)
EXTENDS Naturals, Sequences, Functions

CONSTANTS
    Modes,           \* how the htlcs are sent
    MaxHtlcs,        \* how many htlcs may be sent
    AmountToPay,
    MaxParts,        \* into how many htlcs the amount is split at most
    RetriesKnown,    \* whether pay_invoice is called although the preimage is known
    RestartsUnnoted, \* whether a restart may come between the last revoke_and_ack and
                     \* the task of pay_to_node that notes that the invoice is paid
    MaxCalls, MaxRestarts, MaxReconnects, MaxRepeats    \* bounds for TLC

\* gossip:     we know the whole route
\* trampoline: our peer is a trampoline, and finds it
AllModes == {"gossip", "trampoline"}

ASSUME ModesAssumption == Modes \subseteq AllModes
ASSUME AmountsAssumption == {MaxHtlcs, AmountToPay, MaxParts} \subseteq Nat \ {0}
ASSUME GapsAssumption == {RetriesKnown, RestartsUnnoted} \subseteq BOOLEAN

VARIABLES
    mode,       \* one of Modes
    htlcs,      \* those sent so far, by any session
    mine,       \* the open ones of this process: in sent_htlcs_info, with an onion key
    session,    \* of the payment, in _paysessions; or NoSession
    pc,         \* of pay_to_node
    routes,     \* what pay_to_node is about to send
    status,     \* of the invoice, as saved: "unpaid", "paid"
    inflight,   \* whether the invoice is in inflight_payments
    preimage,   \* whether we know the preimage
    left        \* how many calls, restarts... are left

vars == <<mode, htlcs, mine, session, pc, routes, status, inflight, preimage, left>>

NoSession == [session |-> "none"]

\* sent:     offered, and open
\* taken:    the receiver took it, refused: it will be failed; we do not know yet
\* claimed:  update_fulfill_htlc was received, failing: update_fail_htlc was
\* settled, failed: so irrevocably
States == {"sent", "taken", "refused", "claimed", "failing", "settled", "failed"}
Ids == DOMAIN htlcs
InState(S) == {h \in Ids : htlcs[h].state \in S}
SumOf(f) == FoldFunction(+, 0, f)
Amount(H) == SumOf([h \in H |-> htlcs[h].amount])
Becomes(h, state) == htlcs' = [htlcs EXCEPT ![h].state = state]

-----------------------------------------------------------------------------
(* The session *)

\* amount: _amount_inflight, n: _nhtlcs_inflight, queue: sent_htlcs_q, buckets: _sent_buckets
NewSession == [active |-> TRUE, amount |-> 0, n |-> 0, queue |-> <<>>, buckets |-> <<>>]

\* Mistake: htlcs that are not in the queue yet are forgotten.
can_be_deleted_Inactive(s) == ~s.active
can_be_deleted(s) == ~s.active /\ Len(s.queue) = s.n
Kept(s) == IF can_be_deleted(s) THEN NoSession ELSE s
get_outstanding_amount_to_send(s) == AmountToPay - s.amount

\* Htlcs that are a part of what is sent to a trampoline are counted by bucket
bucket_of(s, b) == IF b \in DOMAIN s.buckets THEN s.buckets[b] ELSE [sent |-> 0, failed |-> 0]
add_new_htlc(s, htlc) ==
    LET b     == htlc.bucket
        added == [bucket_of(s, b) EXCEPT !.sent = @ + htlc.amount]
    IN  [s EXCEPT !.n = @ + 1, !.amount = @ + htlc.amount,
                  !.buckets = IF mode = "gossip" \/ htlc.whole THEN @
                              ELSE [x \in DOMAIN @ \union {b} |-> IF x = b THEN added ELSE s.buckets[x]]]

wait_for_one_htlc_to_resolve(s) ==
    [s EXCEPT !.queue = Tail(@), !.amount = @ - Head(s.queue).amount, !.n = @ - 1]

Put(s, success, amount) ==
    [s EXCEPT !.queue = Append(@, [success |-> success, amount |-> amount])]

\* Mistake: the bucket is compared before this failure is counted.
on_htlc_fail_CountedLate(s, htlc) ==
    LET b == htlc.bucket
    IN  IF b \notin DOMAIN s.buckets THEN Put(s, FALSE, htlc.amount)
        ELSE IF s.buckets[b].failed # s.buckets[b].sent
             THEN [s EXCEPT !.buckets[b].failed = @ + htlc.amount]
             ELSE Put(s, FALSE, s.buckets[b].sent)
\* Mistake: a complete bucket gives back the last htlc only.
on_htlc_fail_OnlyLast(s, htlc) ==
    LET b       == htlc.bucket
        counted == [s EXCEPT !.buckets[b].failed = @ + htlc.amount]
    IN  IF b \in DOMAIN s.buckets /\ counted.buckets[b].failed # s.buckets[b].sent THEN counted
        ELSE Put(IF b \in DOMAIN s.buckets THEN counted ELSE s, FALSE, htlc.amount)
\* The session is told of the failure once the whole bucket failed
on_htlc_fail(s, htlc) ==
    LET b       == htlc.bucket
        counted == [s EXCEPT !.buckets[b].failed = @ + htlc.amount]
    IN  IF b \notin DOMAIN s.buckets THEN Put(s, FALSE, htlc.amount)
        ELSE IF counted.buckets[b].failed # s.buckets[b].sent THEN counted
        ELSE Put(counted, FALSE, s.buckets[b].sent)

-----------------------------------------------------------------------------
(* pay_invoice *)

Init ==
    /\ mode \in Modes
    /\ htlcs = <<>>
    /\ mine = {}
    /\ session = NoSession
    /\ pc = "idle"
    /\ routes = <<>>
    /\ status = "unpaid"
    /\ inflight = FALSE
    /\ preimage = FALSE
    /\ left = [call |-> MaxCalls, restart |-> MaxRestarts, reconnect |-> MaxReconnects,
               repeat |-> MaxRepeats]

Spend(what) == left[what] > 0 /\ left' = [left EXCEPT ![what] = @ - 1]

\* Mistake: only htlcs of this process are looked at.
in_flight_OfProcess == mine
\* get_payments(status='inflight'): until we know how an htlc ends
in_flight == InState({"sent", "taken", "refused"})

get_invoice_status == IF inflight /\ status = "unpaid" THEN "inflight" ELSE status

\* With a session of an earlier call the assertion of pay_to_node fails, and pay_invoice
\* leaves the invoice as it was.  Once all htlcs in flight are claimed none is in_flight:
\* unless pay_to_node is running, or the last callback came, the invoice can be paid again.
PayInvoice ==
    /\ Spend("call")
    /\ get_invoice_status = "unpaid" /\ in_flight = {}
    /\ RetriesKnown \/ ~preimage
    /\ session = NoSession
    /\ session' = NewSession
    /\ inflight' = TRUE
    /\ pc' = "loop"
    /\ UNCHANGED <<mode, htlcs, mine, routes, status, preimage>>

\* pay_to_node is over, and so is pay_invoice
Ends(s, success) ==
    /\ session' = Kept([s EXCEPT !.active = FALSE])
    /\ status' = IF success THEN "paid" ELSE "unpaid"
    /\ inflight' = FALSE
    /\ pc' = "idle"
    /\ routes' = <<>>

Continues(s, where) ==
    /\ session' = s
    /\ pc' = where
    /\ UNCHANGED <<status, inflight, routes>>

\* create_routes_for_payment: some split of the amount.  The parts that go to one trampoline
\* are a bucket with a secret of its own, here the number of its first htlc.
Splits(amount) ==
    {parts \in UNION {[1 .. k -> 1 .. amount] : k \in 1 .. MaxParts} : SumOf(parts) = amount}
Groupings(parts) ==
    {first \in [DOMAIN parts -> DOMAIN parts] :
        /\ \A i \in DOMAIN parts : first[i] <= i /\ first[first[i]] = first[i]
        /\ mode = "gossip" => \A i \in DOMAIN parts : first[i] = i}
Route(parts, first, i) ==
    LET bucket_amount == SumOf(Restrict(parts, {j \in DOMAIN parts : first[j] = first[i]}))
    IN  [amount |-> parts[i], state |-> "sent", bucket |-> Len(htlcs) + first[i],
         whole |-> parts[i] = bucket_amount]
\* The loop comes here with an htlc that failed, and so with something to send.
CreateRoutes ==
    /\ pc = "loop"
    /\ get_outstanding_amount_to_send(session) > 0
    /\ \E parts \in Splits(get_outstanding_amount_to_send(session)) :
         /\ Len(htlcs) + Len(parts) <= MaxHtlcs
         /\ \E first \in Groupings(parts) :
              routes' = [i \in DOMAIN parts |-> Route(parts, first, i)]
    /\ pc' = "sending"
    /\ UNCHANGED <<mode, htlcs, mine, session, status, inflight, preimage, left>>

\* NoPathFound, or it would cost too much
NoRoutes ==
    /\ pc = "loop"
    /\ get_outstanding_amount_to_send(session) > 0
    /\ Ends(session, FALSE)
    /\ UNCHANGED <<mode, htlcs, mine, preimage, left>>

\* The htlc is sent before add_new_htlc finds that it is too much
PayToRoute ==
    LET s == add_new_htlc(session, Head(routes))
    IN  /\ pc = "sending"
        /\ htlcs' = Append(htlcs, Head(routes))
        /\ mine' = mine \union {Len(htlcs) + 1}
        /\ IF s.amount > AmountToPay THEN Ends(s, FALSE)
           ELSE /\ session' = s
                /\ routes' = Tail(routes)
                /\ pc' = IF Len(routes) = 1 THEN "waiting" ELSE "sending"
                /\ UNCHANGED <<status, inflight>>
        /\ UNCHANGED <<mode, preimage, left>>

\* The peer was dropped, or the channel cannot send
CannotSend ==
    /\ pc = "sending"
    /\ Ends(session, FALSE)
    /\ UNCHANGED <<mode, htlcs, mine, preimage, left>>

\* Trying again, or giving up after too many attempts or too much time
TriesAgain(s) == Continues(s, "loop") \/ Ends(s, FALSE)

\* The failure may be one after which there is no point in trying again
HtlcResolved ==
    LET s   == wait_for_one_htlc_to_resolve(session)
        log == Head(session.queue)
    IN  /\ pc \in {"waiting", "draining"}
        /\ session.queue # <<>>
        /\ IF session.amount < log.amount \/ session.n < 1 THEN Ends([s EXCEPT !.amount = 0], FALSE)
           ELSE IF log.success THEN Ends(s, TRUE)
           ELSE \/ Ends(s, FALSE)
                \/ IF s.n < 1 THEN TriesAgain(s) ELSE Continues(s, "draining")
        /\ UNCHANGED <<mode, htlcs, mine, preimage, left>>

\* TIMEOUT_WAIT_FOR_NEXT_RESOLVED_HTLC
NoMoreResolved ==
    /\ pc = "draining"
    /\ session.queue = <<>>
    /\ TriesAgain(session)
    /\ UNCHANGED <<mode, htlcs, mine, preimage, left>>

-----------------------------------------------------------------------------
(* What becomes of the htlcs *)

\* Routes through gossip are found in threads, and peers may be gone and have to be
\* initialized again meanwhile; otherwise there is no await until all htlcs are sent.
Awaiting == pc = "sending" => mode = "gossip"

\* The receiver takes htlcs that add up to the amount, or one is refused on its way
Take(S) ==
    /\ S # {} /\ Amount(S) >= AmountToPay
    /\ htlcs' = [h \in Ids |-> IF h \in S THEN [htlcs[h] EXCEPT !.state = "taken"] ELSE htlcs[h]]
    /\ UNCHANGED <<mode, mine, session, pc, routes, status, inflight, preimage, left>>
Refuse(h) ==
    /\ htlcs[h].state = "sent"
    /\ Becomes(h, "refused")
    /\ UNCHANGED <<mode, mine, session, pc, routes, status, inflight, preimage, left>>
Decide == (\E S \in SUBSET InState({"sent"}) : Take(S)) \/ (\E h \in Ids : Refuse(h))

receive_htlc_settle(h) ==
    /\ htlcs[h].state = "taken"
    /\ Becomes(h, "claimed")
    /\ preimage' = TRUE
    /\ UNCHANGED <<mode, mine, session, pc, routes, status, inflight, left>>

receive_fail_htlc(h) ==
    /\ htlcs[h].state = "refused"
    /\ Becomes(h, "failing")
    /\ UNCHANGED <<mode, mine, session, pc, routes, status, inflight, preimage, left>>

\* An htlc of this process goes to its session.  For any other one, a payment that
\* was fulfilled is paid, and one that failed may be tried again.
fulfilled_of_session(h) ==
    /\ session' = Kept(Put(session, TRUE, htlcs[h].amount))
    /\ mine' = mine \ {h}
    /\ UNCHANGED <<status, inflight>>
\* Mistake: without its session a payment is not found to be paid.
fulfilled_of_none_Ignored == UNCHANGED <<status, inflight, session, mine>>
fulfilled_of_none ==
    /\ status' = "paid"
    /\ inflight' = (inflight /\ status = "paid")
    /\ UNCHANGED <<session, mine>>
failed_of_session(h) ==
    LET s == on_htlc_fail(session, htlcs[h])
    IN  /\ session' = IF s.queue = session.queue THEN s ELSE Kept(s)
        /\ mine' = mine \ {h}
        /\ UNCHANGED <<status, inflight>>
\* Mistake: not looking for the preimage.
failed_of_none_Unchecked ==
    /\ status' = "unpaid"
    /\ inflight' = FALSE
    /\ UNCHANGED <<session, mine>>
failed_of_none ==
    /\ status' = IF preimage THEN status ELSE "unpaid"
    /\ inflight' = (inflight /\ preimage)
    /\ UNCHANGED <<session, mine>>

HtlcFulfilled(h) ==
    /\ htlcs[h].state = "claimed"
    /\ Becomes(h, "settled")
    /\ IF h \in mine THEN fulfilled_of_session(h) ELSE fulfilled_of_none
    /\ UNCHANGED <<mode, pc, routes, preimage, left>>
HtlcFailed(h) ==
    /\ htlcs[h].state = "failing"
    /\ Becomes(h, "failed")
    /\ IF h \in mine THEN failed_of_session(h) ELSE failed_of_none
    /\ UNCHANGED <<mode, pc, routes, preimage, left>>

\* The callbacks come again, when the htlc is also spent on the chain
Repeated(h) ==
    /\ Awaiting /\ Spend("repeat")
    /\ \/ htlcs[h].state = "settled" /\ fulfilled_of_none
       \/ htlcs[h].state = "failed" /\ failed_of_none
    /\ UNCHANGED <<mode, htlcs, pc, routes, preimage>>

\* discard_unsigned_remote_updates, of any channels
Reestablish(F) ==
    /\ Awaiting /\ Spend("reconnect")
    /\ F # {}
    /\ htlcs' = [h \in Ids |-> IF h \notin F THEN htlcs[h]
                               ELSE [htlcs[h] EXCEPT !.state = IF @ = "claimed" THEN "taken" ELSE "refused"]]
    /\ UNCHANGED <<mode, mine, session, pc, routes, status, inflight, preimage>>

\* Sessions are not saved; invoices with htlcs in flight are found
Restart ==
    /\ Spend("restart")
    /\ \/ RestartsUnnoted \/ status = "paid"
       \/ in_flight \union InState({"claimed"}) # {} \/ InState({"settled"}) = {}
    /\ mine' = {}
    /\ session' = NoSession
    /\ pc' = "idle"
    /\ routes' = <<>>
    /\ inflight' = (in_flight # {})
    /\ UNCHANGED <<mode, htlcs, status, preimage>>

-----------------------------------------------------------------------------
PayToNode ==
    \/ CreateRoutes \/ NoRoutes
    \/ PayToRoute \/ CannotSend
    \/ HtlcResolved \/ NoMoreResolved

Heard(h) ==
    /\ Awaiting
    /\ receive_htlc_settle(h) \/ receive_fail_htlc(h) \/ HtlcFulfilled(h) \/ HtlcFailed(h)

Next ==
    \/ PayInvoice
    \/ PayToNode
    \/ Decide
    \/ \E h \in Ids : Heard(h)
    \/ \E h \in Ids : Repeated(h)
    \/ \E F \in SUBSET InState({"claimed", "failing"}) : Reestablish(F)
    \/ Restart

Spec == Init /\ [][Next]_vars

\* pay_to_node runs on; every htlc is taken or refused in the end, by the timeout of the
\* receiver or of the htlc, and we hear of it.
FairSpec ==
    /\ Spec
    /\ WF_vars(PayToNode)
    /\ WF_vars(Decide)
    /\ \A h \in 1 .. MaxHtlcs : WF_vars(h \in Ids /\ Heard(h))

-----------------------------------------------------------------------------
(* Properties *)

\* Of all htlcs of all attempts (retries, and after restarts), those the receiver has
\* taken or may still take never add up to more than the amount: pay_invoice,
\* get_payments and get_outstanding_amount_to_send together.
PaidOnce == Amount(InState({"sent", "taken", "claimed", "settled"})) <= AmountToPay

\* What the session believes to be in flight is what its htlcs that are open, were put in
\* the queue, or failed in a bucket that is not complete add up to: add_new_htlc,
\* on_htlc_fail_get_fail_amt_to_propagate, wait_for_one_htlc_to_resolve.
CountersAreExact ==
    session # NoSession =>
        session.amount = Amount(mine)
                         + SumOf([i \in DOMAIN session.queue |-> session.queue[i].amount])
                         + SumOf([b \in DOMAIN session.buckets |->
                                    session.buckets[b].failed % session.buckets[b].sent])

\* An htlc that resolves finds its session, whichever of pay_to_node and the callbacks is
\* the last to use it; and, but for buckets, a session that is over is deleted with its
\* last htlc, so that the payment can be tried again: can_be_deleted.
SessionIsKept ==
    /\ mine # {} => session # NoSession
    /\ session # NoSession /\ mode = "gossip" => session.active \/ mine # {}

\* A payment that was found to be paid is never offered again as unpaid: neither by the
\* attempt that is running, nor by callbacks that come late or again.
PaidForGood == [][status = "paid" => status' = "paid"]_vars

\* Once the receiver has taken the payment, the invoice becomes paid, whatever attempt
\* or process the htlcs are of.
TakenIsPaid == (\E h \in Ids : htlcs[h].state = "taken") ~> (status = "paid")

\* An invoice does not stay in flight: pay_to_node ends, and after a restart the
\* callbacks tell.
InflightEnds == (get_invoice_status = "inflight") ~> (get_invoice_status # "inflight")

=============================================================================
