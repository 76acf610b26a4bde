----------------------------- MODULE LNChannel -----------------------------
(***************************************************************************)
(* An open channel between two Electrum nodes: electrum/lnchannel.py       *)
(* (Channel) and the part of electrum/lnpeer.py (Peer) that adds, removes, *)
(* signs and revokes, that reestablishes the channel after the connection  *)
(* was lost, after a crash, or from an old copy of the wallet file, and    *)
(* that closes it together.  The log inside is HTLCManager.                *)
(*                                                                         *)
(* Handlers and tasks run on one asyncio thread, so a step is a piece of   *)
(* code between two awaits.  Such a piece is an `outcome': the channel     *)
(* after it, the messages it sent, the wallet file it left behind and the  *)
(* exception it raised, if any.                                            *)
(*                                                                         *)
(* Left out: on-chain fees, reserves and dust in available_to_spend and    *)
(* update_fee, max_htlc_value_in_flight, the onion and the preimage; dust  *)
(* and scripts of the closing tx, and what becomes of a shutdown when the  *)
(* connection is lost, or when it is asked for twice.                      *)
(***************************************************************************)
EXTENDS HTLCManager

CONSTANTS
    Node,             \* the two nodes
    Funder,           \* the one that funded the channel
    InitialBalance,   \* what each has in it at the start
    MaxAccepted,      \* max_accepted_htlcs, the same for both
    MayAdd,           \* the nodes that pay
    Removals,         \* Removals[n]: how n may remove an htlc: "settle", "fail"
    Persistent,       \* the nodes whose wallet file is followed
    MayClose,         \* the nodes whose users may close the channel
    CloseFees,        \* the fees that each node may want for closing it: [fee, min, max]
    MaxDisconnects, MaxCrashes, MaxFeeUpdates, MaxRestores   \* bounds for TLC

ASSUME NodeAssumption == IsFiniteSet(Node) /\ Cardinality(Node) = 2
ASSUME FunderAssumption == Funder \in Node
ASSUME BalanceAssumption == InitialBalance \in [Node -> Nat]
ASSUME PersistentAssumption == Persistent \subseteq Node
ASSUME CloseFeesAssumption ==
    \A n \in Node : \A r \in CloseFees[n] :
        /\ r \in [fee : Nat, min : Nat, max : Nat]
        /\ r.min <= r.fee /\ r.fee <= r.max

VARIABLES
    ch,         \* ch[n]: n's Channel
    net,        \* net[n]: the messages on their way to n, in order
    connected,  \* whether there is a connection
    disk,       \* disk[n]: n's wallet file
    backup,     \* backup[n]: a copy of it that n's user made
    left,       \* how many disconnects, crashes... are left
    signed,     \* history: every ctx somebody signed for its owner
    alarms      \* history: the messages a peer was blamed for

vars == <<ch, net, connected, disk, backup, left, signed, alarms>>

Peer(n) == CHOOSE p \in Node : p # n
NodeOf(n, s) == IF s = Local THEN n ELSE Peer(n)
SideOf(n, q) == IF q = n THEN Local ELSE Remote

NoFile == [state |-> "none"]
FileOf(c) == [hm |-> c.hm, state |-> c.state]

-----------------------------------------------------------------------------
(* Channel: what can be computed from it *)

\* Whether chan is in a state that generally allows signing and revoking.
can_progress_ctx(c) == c.state \in {"OPEN", "SHUTDOWN"} /\ c.peer_state = "GOOD"

\* Whether *we* can send update_* messages.
can_send_ctx_updates(c) == can_progress_ctx(c) /\ c.may_update
can_send_update_add_htlc(c) == can_send_ctx_updates(c) /\ c.state = "OPEN"

\* Mistakes: only the number of htlcs, or only htlcs, count as changes.
NumHtlcs(m, s, c) == LET there == htlcs(m, s, c)
                     IN  Cardinality(there[Local]) + Cardinality(there[Remote])
has_pending_changes_Number(m, s) ==
    \/ NumHtlcs(m, s, next_ctn(m, s)) # NumHtlcs(m, s, ctn_latest(m, s))
    \/ get_feerate(m, s, next_ctn(m, s)) # get_feerate(m, s, ctn_latest(m, s))
has_pending_changes_Htlcs(m, s) ==
    htlcs(m, s, next_ctn(m, s)) # htlcs(m, s, ctn_latest(m, s))

has_pending_changes(m, s) ==
    \/ htlcs(m, s, next_ctn(m, s)) # htlcs(m, s, ctn_latest(m, s))
    \/ get_feerate(m, s, next_ctn(m, s)) # get_feerate(m, s, ctn_latest(m, s))

has_unsettled_htlcs(m) == \E s \in Owner : NumHtlcs(m, s, m.ctn[s]) # 0

balance_minus_outgoing_htlcs(n, m, whose, s, c) ==
    get_balance_msat(m, whose, s, c, InitialBalance[NodeOf(n, whose)])
        - AmountOf(m, whose, htlcs_by_proposer(m, s, c, whose))

\* make_commitment: the ctx of side s at ctn c, as n sees it, in terms of the
\* nodes.  A signature fits this ctx and no other.
make_commitment(n, m, s, c) ==
    [ owner   |-> NodeOf(n, s),
      ctn     |-> c,
      rate    |-> get_feerate(m, s, c),
      htlcs   |-> [q \in Node |-> htlcs(m, s, c)[SideOf(n, q)]],
      balance |-> [q \in Node |-> balance_minus_outgoing_htlcs(n, m, SideOf(n, q), s, c)] ]

\* Stricter for our own htlcs, which we control: all in the receiver's next ctx
\* count, not only those it receives.
htlc_slots_left(m, p) ==
    LET there == htlcs(m, Other(p), next_ctn(m, Other(p)))
    IN  MaxAccepted - Cardinality(there[p])
                    - (IF p = Local THEN Cardinality(there[Other(p)]) ELSE 0)

\* Mistake: only our own next ctx is looked at.
available_to_spend_OurCtx(n, m, p) ==
    balance_minus_outgoing_htlcs(n, m, p, Local, next_ctn(m, Local))

available_to_spend(n, m, p) ==
    Min({balance_minus_outgoing_htlcs(n, m, p, s, next_ctn(m, s)) : s \in Owner})

\* Mistake: the balance is not checked.
can_add_htlc_NoBalance(n, p, amount) ==
    can_progress_ctx(ch[n]) /\ ch[n].state = "OPEN" /\ htlc_slots_left(ch[n].hm, p) # 0

\* _assert_can_add_htlc
can_add_htlc(n, p, amount) ==
    /\ can_progress_ctx(ch[n]) /\ ch[n].state = "OPEN"
    /\ p = Local => can_send_update_add_htlc(ch[n])
    /\ htlc_slots_left(ch[n].hm, p) # 0
    /\ amount <= available_to_spend(n, ch[n].hm, p)

-----------------------------------------------------------------------------
(* Outcomes of a piece of code *)

Ok == "ok"
GracefulDisconnect == "GracefulDisconnect"

Begin(n) == [c |-> ch[n], out |-> << >>, file |-> disk[n], exc |-> Ok]

Updated(o, m)  == [o EXCEPT !.c.hm = m]
Raise(o, what) == [o EXCEPT !.exc = what]

\* LNWallet.save_channel, and set_state which calls it
save_channel(o) == [o EXCEPT !.file = FileOf(o.c)]
set_state(o, state) == save_channel([o EXCEPT !.c.state = state])

Updates == {"update_add_htlc", "update_fulfill_htlc", "update_fail_htlc", "update_fee"}

\* Mistake: a signature is not saved before it is sent.
send_message_NotSaved(o, msg) ==
    LET is_cs  == msg.type = "commitment_signed"
        stored == Updated(o, store_local_update_raw_msg(o.c.hm, msg, is_cs))
    IN  [(IF is_cs \/ msg.type \in Updates THEN stored ELSE o) EXCEPT !.out = Append(@, msg)]

\* Peer.send_message, with _store_raw_msg_if_local_update
send_message(o, msg) ==
    LET is_cs  == msg.type = "commitment_signed"
        stored == Updated(o, store_local_update_raw_msg(o.c.hm, msg, is_cs))
    IN  [(CASE is_cs -> save_channel(stored)
            [] msg.type \in Updates -> stored
            [] OTHER -> o) EXCEPT !.out = Append(@, msg)]

\* Mistake: the other side need not have revoked.
can_send_commitment_Early(c) == can_progress_ctx(c) /\ has_pending_changes(c.hm, Remote)

can_send_commitment(c) ==
    /\ can_progress_ctx(c)
    /\ can_sign(c.hm, Remote)
    /\ has_pending_changes(c.hm, Remote)

\* sign_next_commitment, and sending the signature
send_commitment(n, o) ==
    LET m == o.c.hm
    IN  send_message(Updated(o, send_ctx(m)),
            [type |-> "commitment_signed",
             sig  |-> make_commitment(n, m, Remote, next_ctn(m, Remote))])

\* maybe_send_commitment, which does not sign if it did so a moment ago
maybe_send_commitment(n, o) ==
    {o} \cup (IF can_send_commitment(o.c) THEN {send_commitment(n, o)} ELSE {})

\* schedule_force_closing, where get_close_options allow it
schedule_force_closing(o) ==
    IF o.c.state \in {"OPEN", "SHUTDOWN"} THEN set_state(o, "FORCE_CLOSING") ELSE o

\* Mistakes: the state of the peer stays; our last signature is forgotten.
Disconnected_StillGood(c) == [c EXCEPT !.task = "none", !.reest = << >>]
Disconnected_Unsigned(c) ==
    [c EXCEPT !.peer_state = "DISCONNECTED", !.task = "none", !.reest = << >>,
              !.hm.revack[Remote] = FALSE]

NotClosing == [at |-> "none", is_local |-> FALSE, received |-> FALSE]

\* peer_closed, and the end of the Peer's tasks; close_channel is not one of them.
Disconnected(c) ==
    [c EXCEPT !.peer_state = "DISCONNECTED", !.task = "none", !.reest = << >>,
              !.shutdown = FALSE, !.close = IF @.is_local THEN @ ELSE NotClosing]

\* n took a step with outcome o; `inbox' is what remains on the way to it.
Step(n, o, inbox) ==
    /\ disk' = IF n \in Persistent THEN [disk EXCEPT ![n] = o.file] ELSE disk
    /\ signed' = signed \cup
           {o.out[k].sig : k \in {k \in DOMAIN o.out : o.out[k].type = "commitment_signed"}}
    /\ IF o.exc = Ok
       THEN /\ ch' = [ch EXCEPT ![n] = o.c]
            /\ net' = [net EXCEPT ![n] = inbox,
                                  ![Peer(n)] = IF connected THEN @ \o o.out ELSE @]
            /\ UNCHANGED <<connected, alarms>>
       ELSE /\ ch' = [q \in Node |-> Disconnected(IF q = n THEN o.c ELSE ch[q])]
            /\ net' = [q \in Node |-> << >>]
            /\ connected' = FALSE
            /\ alarms' = alarms \cup ({o.exc} \ {GracefulDisconnect})

-----------------------------------------------------------------------------
(* What a node does by itself *)

\* Peer.send_htlc
SendHtlc(n) ==
    /\ n \in MayAdd
    /\ ch[n].hm.next[Local] \in HtlcIds
    /\ \E amount \in Amounts :
          /\ can_add_htlc(n, Local, amount)
          /\ LET m == ch[n].hm
                 added == send_message(Updated(Begin(n), add_htlc(m, Local, amount)),
                     [type |-> "update_add_htlc", id |-> m.next[Local], amount |-> amount])
             IN  \E o \in maybe_send_commitment(n, added) : Step(n, o, net[n])
    /\ UNCHANGED <<backup, left>>

CanRemove(n, i) ==
    /\ can_send_ctx_updates(ch[n])
    /\ i \in Known(ch[n].hm, Remote)
    /\ is_htlc_irrevocably_added_yet(ch[n].hm, Remote, i)
    /\ can_remove_htlc(ch[n].hm, Remote, i)

\* Peer._fulfill_htlc.  save_preimage writes the wallet file, unless another
\* htlc of the payment made the preimage public; the message comes after that.
FulfillHtlc(n, i) ==
    /\ "settle" \in Removals[n]
    /\ CanRemove(n, i)
    /\ LET settled == Updated(Begin(n), settle_htlc(ch[n].hm, Remote, i))
       IN  \E o \in {settled, save_channel(settled)} :
              Step(n, send_message(o, [type |-> "update_fulfill_htlc", id |-> i]), net[n])
    /\ UNCHANGED <<backup, left>>

\* Peer.fail_htlc
FailHtlc(n, i) ==
    /\ "fail" \in Removals[n]
    /\ CanRemove(n, i)
    /\ LET failed == send_message(Updated(Begin(n), fail_htlc(ch[n].hm, Remote, i)),
                         [type |-> "update_fail_htlc", id |-> i])
       IN  \E o \in maybe_send_commitment(n, failed) : Step(n, o, net[n])
    /\ UNCHANGED <<backup, left>>

\* Peer.maybe_update_fee, when the recommended feerate has changed
UpdateFee(n) ==
    /\ n = Funder
    /\ left.feeUpdates > 0
    /\ can_send_ctx_updates(ch[n]) /\ ch[n].state = "OPEN"
    /\ \E rate \in Rates \ {get_feerate(ch[n].hm, Remote, next_ctn(ch[n].hm, Remote))} :
          LET updated == send_message(Updated(Begin(n), update_fee(ch[n].hm, Remote, rate)),
                             [type |-> "update_fee", rate |-> rate])
          IN  \E o \in maybe_send_commitment(n, updated) : Step(n, o, net[n])
    /\ left' = [left EXCEPT !.feeUpdates = @ - 1]
    /\ UNCHANGED backup

\* The htlc switch polls maybe_send_commitment, where we can send updates.
CanPoll(n) == can_send_ctx_updates(ch[n]) /\ can_send_commitment(ch[n])

PollCommitment(n) ==
    /\ CanPoll(n)
    /\ Step(n, send_commitment(n, Begin(n)), net[n])
    /\ UNCHANGED <<backup, left>>

-----------------------------------------------------------------------------
(* Message handlers: the outcomes of n processing msg *)

OnUpdateAddHtlc(n, msg) ==
    LET o == Begin(n)
    IN  IF msg.id = o.c.hm.next[Remote] /\ can_add_htlc(n, Remote, msg.amount)
        THEN {Updated(o, add_htlc(o.c.hm, Remote, msg.amount))}
        ELSE {Raise(o, msg.type)}

\* on_update_fulfill_htlc; save_preimage as in FulfillHtlc
OnUpdateFulfillHtlc(n, msg) ==
    LET o == Begin(n)
        settled == Updated(o, settle_htlc(o.c.hm, Local, msg.id))
    IN  IF can_progress_ctx(o.c) /\ can_remove_htlc(o.c.hm, Local, msg.id)
        THEN {settled, save_channel(settled)}
        ELSE {Raise(o, msg.type)}

OnUpdateFailHtlc(n, msg) ==
    LET o == Begin(n)
    IN  IF can_progress_ctx(o.c) /\ can_remove_htlc(o.c.hm, Local, msg.id)
        THEN {Updated(o, fail_htlc(o.c.hm, Local, msg.id))}
        ELSE {Raise(o, msg.type)}

OnUpdateFee(n, msg) ==
    LET o == Begin(n)
    IN  IF can_progress_ctx(o.c) /\ n # Funder
        THEN {Updated(o, update_fee(o.c.hm, Local, msg.rate))}
        ELSE {Raise(o, msg.type)}

\* The secret of local ctn k is revealed as `k'.
revoke_and_ack(k) == [type |-> "revoke_and_ack", secret |-> k]

\* Mistake: the revocation is not saved before it is sent.
OnCommitmentSigned_NotSaved(n, msg) ==
    LET o == Begin(n)
        m == o.c.hm
    IN  IF /\ can_progress_ctx(o.c)
           /\ has_pending_changes(m, Local)
           /\ can_sign(m, Local)
           /\ msg.sig = make_commitment(n, m, Local, next_ctn(m, Local))
        THEN maybe_send_commitment(n,
                send_message(Updated(o, send_rev(recv_ctx(m))), revoke_and_ack(m.ctn[Local])))
        ELSE {Raise(o, msg.type)}

\* on_commitment_signed, receive_new_commitment, send_revoke_and_ack
OnCommitmentSigned(n, msg) ==
    LET o == Begin(n)
        m == o.c.hm
        revoked == save_channel(Updated(o, send_rev(recv_ctx(m))))
    IN  IF /\ can_progress_ctx(o.c)
           /\ has_pending_changes(m, Local)
           /\ can_sign(m, Local)
           /\ msg.sig = make_commitment(n, m, Local, next_ctn(m, Local))
        THEN maybe_send_commitment(n, send_message(revoked, revoke_and_ack(m.ctn[Local])))
        ELSE {Raise(o, msg.type)}

\* on_revoke_and_ack, receive_revocation
OnRevokeAndAck(n, msg) ==
    LET o == Begin(n)
        m == o.c.hm
    IN  IF can_progress_ctx(o.c) /\ msg.secret = m.ctn[Remote] /\ can_revoke(m, Remote)
        THEN {save_channel(Updated(o, recv_rev(m)))}
        ELSE {Raise(o, msg.type)}

\* on_error, which disconnects in any case
OnError(n, msg) == {Raise(schedule_force_closing(Begin(n)), GracefulDisconnect)}

\* Mistake: lagging behind by one secret goes unnoticed.
they_are_ahead_with_proof_OffByOne(m, msg) == msg.next_revocation_number > m.ctn[Local] + 1

\* They know a secret of ours that we do not know we revealed.
they_are_ahead_with_proof(m, msg) == msg.next_revocation_number > m.ctn[Local]

\* What the future channel_reestablish_msg holds instead of the message
Exception == [type |-> "exception"]

\* on_channel_reestablish, up to its await.  If all is good, the future gets the
\* message; it gets an exception if one side has lost state, and then a task
\* that the loop had spawned already may still run reestablish_channel.
OnChannelReestablish(n, msg) ==
    LET o == Begin(n)
        m == o.c.hm
        theirs == msg.next_commitment_number
        ours == m.ctn[Local]
        expected == \/ theirs = next_ctn(m, Remote)
                    \/ theirs = ctn_latest(m, Remote) /\ m.revack[Remote]
        they_are_ahead_without_proof == theirs > next_ctn(m, Remote)
        we_are_ahead == \/ ~expected /\ theirs < next_ctn(m, Remote)
                        \/ msg.next_revocation_number < ours - 1
        Failed(r) == {[r EXCEPT !.c.reest = <<Exception>>, !.c.task = t] :
                         t \in IF o.c.task = "none" THEN {"none", "spawned"} ELSE {o.c.task}}
    IN  CASE o.c.state # "OPEN" -> {o}
          [] o.c.state = "OPEN" /\ they_are_ahead_with_proof(m, msg) ->
                Failed([set_state(o, "WE_ARE_TOXIC") EXCEPT !.c.peer_state = "BAD"])
          [] o.c.state = "OPEN" /\ ~they_are_ahead_with_proof(m, msg)
                /\ (they_are_ahead_without_proof \/ we_are_ahead) ->
                Failed(schedule_force_closing(o))
          [] OTHER -> {[o EXCEPT !.c.reest = <<msg>>]}

\* While the future holds a good message, on_channel_reestablish keeps the
\* message loop from going on.
Blocked(c) == c.reest \notin {<< >>, <<Exception>>}

Receive(n, type, Handler(_, _)) ==
    /\ net[n] # << >>
    /\ Head(net[n]).type = type
    /\ ~Blocked(ch[n])
    /\ \E o \in Handler(n, Head(net[n])) : Step(n, o, Tail(net[n]))
    /\ UNCHANGED <<backup, left>>

\* on_shutdown is a task of its own; closing_signed waits in a queue.
OnShutdown(n, msg) == {[Begin(n) EXCEPT !.c.shutdown = TRUE]}
OnClosingSigned(n, msg) == {[Begin(n) EXCEPT !.c.inbox = Append(@, msg)]}

Deliver(n) ==
    \/ Receive(n, "update_add_htlc", OnUpdateAddHtlc)
    \/ Receive(n, "update_fulfill_htlc", OnUpdateFulfillHtlc)
    \/ Receive(n, "update_fail_htlc", OnUpdateFailHtlc)
    \/ Receive(n, "update_fee", OnUpdateFee)
    \/ Receive(n, "commitment_signed", OnCommitmentSigned)
    \/ Receive(n, "revoke_and_ack", OnRevokeAndAck)
    \/ Receive(n, "channel_reestablish", OnChannelReestablish)
    \/ Receive(n, "error", OnError)
    \/ Receive(n, "shutdown", OnShutdown)
    \/ Receive(n, "closing_signed", OnClosingSigned)

-----------------------------------------------------------------------------
(* Reestablishing the channel *)

channel_reestablish(c, r) ==
    [type |-> "channel_reestablish", next_commitment_number |-> c, next_revocation_number |-> r]

\* _send_channel_reestablish
send_channel_reestablish(o) ==
    send_message(o, channel_reestablish(next_ctn(o.c.hm, Local), o.c.hm.ctn[Remote]))

\* request_force_close: we do not leak our ctns.
request_force_close(o) ==
    send_message(send_message(o, channel_reestablish(0, 0)), [type |-> "error"])

\* reestablish_peers_and_channels finds the peer, and reestablish_channel runs
\* to its await.
CanStart(n) ==
    /\ connected
    /\ ch[n].peer_state # "GOOD"
    /\ \/ ch[n].task = "none" /\ ch[n].state = "OPEN"
       \/ ch[n].task = "spawned"

StartReestablish(n) ==
    /\ CanStart(n)
    /\ LET o == [Begin(n) EXCEPT !.c.task = "none"]
           discarded == discard_unsigned_remote_updates(o.c.hm)
           waiting == [Updated(o, discarded) EXCEPT !.c.peer_state = "REESTABLISHING",
                                                    !.c.task = "waiting"]
       IN  Step(n, CASE o.c.state = "WE_ARE_TOXIC"  -> request_force_close(o)
                     [] o.c.state = "FORCE_CLOSING" -> send_channel_reestablish(o)
                     [] o.c.state = "OPEN"          -> send_channel_reestablish(waiting),
                net[n])
    /\ UNCHANGED <<backup, left>>

\* Mistakes: what they have is sent again; nothing is.
unacked_from_All(m, c) ==
    LET last == next_ctn(m, Remote)
        At(k) == IF k \in DOMAIN m.unacked THEN m.unacked[k] ELSE << >>
    IN  At(last - 1) \o At(last)
unacked_from_None(m, c) == << >>

\* replay_updates_and_commitsig: in the order of the ctns
unacked_from(m, c) ==
    LET last == next_ctn(m, Remote)
        At(k) == IF k >= c /\ k \in DOMAIN m.unacked THEN m.unacked[k] ELSE << >>
    IN  At(last - 1) \o At(last)

\* Mistake: a lost revoke_and_ack is not sent again.
resent_revoke_and_ack_Never(m, msg) == << >>

\* we_must_resend_revoke_and_ack
resent_revoke_and_ack(m, msg) ==
    IF msg.next_revocation_number = m.ctn[Local] - 1
    THEN <<revoke_and_ack(m.ctn[Local] - 1)>> ELSE << >>

\* The rest of reestablish_channel, once the future has a result.  What is sent
\* again goes to the transport, and is not stored a second time.
CanFinish(n) == ch[n].task = "waiting" /\ ch[n].reest # << >>

FinishReestablish(n) ==
    /\ CanFinish(n)
    /\ LET o == Begin(n)
           m == o.c.hm
           msg == o.c.reest[1]
           revack == resent_revoke_and_ack(m, msg)
           replay == unacked_from(m, msg.next_commitment_number)
       IN  Step(n,
                IF Blocked(o.c)
                THEN [o EXCEPT !.out = IF m.revokeLast THEN replay \o revack ELSE revack \o replay,
                               !.c.peer_state = "GOOD", !.c.task = "none", !.c.reest = << >>]
                ELSE Raise(o, GracefulDisconnect),
                net[n])
    /\ UNCHANGED <<backup, left>>

-----------------------------------------------------------------------------
(* Closing the channel together *)

\* CoopCloseFailure, or a transition that set_state does not allow.  It ends the
\* connection if it is raised in a task of the Peer.
FailsToClose(o) ==
    LET over == [o EXCEPT !.c.close = NotClosing]
    IN  IF o.c.close.is_local THEN over ELSE Raise(over, GracefulDisconnect)

\* The rest of send_shutdown, once there are no pending changes
SendsShutdown(o) ==
    LET sent == send_message(o, [type |-> "shutdown"])
    IN  IF o.c.state \in {"OPEN", "SHUTDOWN"}
        THEN set_state([sent EXCEPT !.c.may_update = TRUE, !.c.close.at = "sent"], "SHUTDOWN")
        ELSE FailsToClose(sent)

send_shutdown(o) ==
    LET waiting == [o EXCEPT !.c.may_update = FALSE, !.c.close.at = "pending"]
    IN  IF has_pending_changes(o.c.hm, Remote) THEN waiting ELSE SendsShutdown(waiting)

\* close_channel, of a channel that is not being closed yet.  A bound: no connection is
\* lost after that, unless an exception ends it.
CloseChannel(n) ==
    /\ n \in MayClose
    /\ ch[n].state = "OPEN" /\ ch[n].peer_state = "GOOD" /\ ch[n].close = NotClosing
    /\ left.disconnects = 0 /\ left.crashes = 0 /\ left.restores = 0
    /\ Step(n, send_shutdown([Begin(n) EXCEPT !.c.close.is_local = TRUE]), net[n])
    /\ UNCHANGED <<backup, left>>

\* Mistake: the task takes it that close_channel runs.
HandleShutdown_Left(n) ==
    [Begin(n) EXCEPT !.c.shutdown = FALSE, !.c.close.received = TRUE]

\* The task of on_shutdown, which leaves the rest to close_channel if that runs
HandleShutdown(n) ==
    LET o == [Begin(n) EXCEPT !.c.shutdown = FALSE, !.c.close.received = TRUE]
    IN  IF o.c.peer_state # "GOOD" THEN Raise(o, "shutdown")
        ELSE IF o.c.close.is_local THEN o
        ELSE send_shutdown(o)

make_closing_tx(n, m, fee) ==
    [fee |-> fee,
     balance |-> [q \in Node |-> get_balance_msat(m, SideOf(n, q), Local, m.ctn[Local], InitialBalance[q])]]

\* Our closing_signed, with our fee and range
send_closing_signed(n, o) ==
    LET r == o.c.fee_range
    IN  send_message(o, [type |-> "closing_signed", range |-> r,
                         sig |-> make_closing_tx(n, o.c.hm, r.fee)])

\* _shutdown once all htlcs are settled, with the fee we come up with
StartsNegotiation(n, range) ==
    LET o == [Begin(n) EXCEPT !.c.may_update = FALSE, !.c.fee_range = range,
                              !.c.close = [at |-> "receiving", is_local |-> @.is_local,
                                           received |-> TRUE, replied |-> FALSE]]
    IN  IF n = Funder THEN send_closing_signed(n, o) ELSE o

NoFee == -1

\* Mistake: the other side's fee is taken, whatever our range is.
choose_new_fee_Theirs(n, ours, theirs, replied) == theirs.fee

choose_new_fee(n, ours, theirs, replied) ==
    LET max  == IF n = Funder THEN ours.max ELSE Max({ours.max, theirs.max})
        sent == n = Funder \/ replied
        low  == Max({ours.min, theirs.min})
        high == Min({max, theirs.max})
    IN  CASE sent /\ theirs.fee \in ours.min .. max -> theirs.fee
          [] n = Funder /\ theirs.fee \in low .. high -> theirs.fee
          [] ~sent /\ low <= high -> (low + high) \div 2
          [] OTHER -> NoFee

\* Who did not fund the channel sends the last closing_signed.
Closes(n, o) ==
    LET told == IF n = Funder THEN o ELSE send_closing_signed(n, o)
    IN  IF o.c.state \in {"SHUTDOWN", "CLOSING"}
        THEN set_state([told EXCEPT !.c.close = NotClosing,
                                    !.c.closing_tx = <<make_closing_tx(n, o.c.hm, o.c.fee_range.fee)>>],
                       "CLOSING")
        ELSE FailsToClose(told)

\* receive_closing_signed, and what follows it until the next one
ReceivesClosingSigned(n) ==
    LET o == [Begin(n) EXCEPT !.c.inbox = Tail(@)]
        ours == ch[n].fee_range
        msg == Head(ch[n].inbox)
        fee == choose_new_fee(n, ours, msg.range, ch[n].close.replied)
        chosen == [o EXCEPT !.c.close.replied = TRUE, !.c.fee_range.fee = fee,
                            !.c.fee_range.max = IF n = Funder THEN @ ELSE Max({@, msg.range.max})]
    IN  IF msg.sig # make_closing_tx(n, o.c.hm, msg.range.fee) THEN FailsToClose(o)
        ELSE IF msg.range.fee = ours.fee THEN Closes(n, o)
        ELSE IF fee = NoFee THEN FailsToClose(schedule_force_closing(o))
        ELSE IF fee = msg.range.fee
        THEN Closes(n, IF n = Funder THEN send_closing_signed(n, chosen) ELSE chosen)
        ELSE send_closing_signed(n, chosen)

\* What the tasks that close the channel do next
CloseOutcomes(n) ==
    LET c == ch[n]
    IN  (IF c.shutdown THEN {HandleShutdown(n)} ELSE {}) \cup
        (CASE c.close.at = "pending" /\ ~has_pending_changes(c.hm, Remote) /\ connected ->
                {SendsShutdown(Begin(n))}
           [] c.close.at = "sent" /\ c.close.received /\ ~has_unsettled_htlcs(c.hm) ->
                {StartsNegotiation(n, r) : r \in CloseFees[n]}
           [] c.close.at = "receiving" /\ c.inbox # << >> -> {ReceivesClosingSigned(n)}
           \* LN_P2P_NETWORK_TIMEOUT
           [] c.close.at = "receiving" /\ c.inbox = << >> ->
                {FailsToClose(schedule_force_closing(Begin(n)))}
           [] OTHER -> {})

CanCloseStep(n) == CloseOutcomes(n) # {}

CloseStep(n) ==
    /\ \E o \in CloseOutcomes(n) : Step(n, o, net[n])
    /\ UNCHANGED <<backup, left>>

-----------------------------------------------------------------------------
(* The connection, the process and the wallet file *)

Connect ==
    /\ ~connected
    /\ connected' = TRUE
    /\ UNCHANGED <<ch, net, disk, backup, left, signed, alarms>>

DropConnection(channels) ==
    /\ connected' = FALSE
    /\ ch' = [q \in Node |-> Disconnected(channels[q])]
    /\ net' = [q \in Node |-> << >>]
    /\ UNCHANGED <<signed, alarms>>

Disconnect ==
    /\ connected
    /\ left.disconnects > 0
    /\ left' = [left EXCEPT !.disconnects = @ - 1]
    /\ DropConnection(ch)
    /\ UNCHANGED <<disk, backup>>

\* HTLCManager.__init__ on what is in the file
Loaded(n, file) ==
    [ch EXCEPT ![n].hm = init_maybe_active_htlc_ids(file.hm), ![n].state = file.state,
               ![n].may_update = TRUE]

\* The program stops at any moment, and is started again.
Crash(n) ==
    /\ n \in Persistent
    /\ left.crashes > 0
    /\ left' = [left EXCEPT !.crashes = @ - 1]
    /\ DropConnection(Loaded(n, disk[n]))
    /\ UNCHANGED <<disk, backup>>

\* Other parts of the wallet call save_db too.
SaveDb(n) ==
    /\ n \in Persistent
    /\ disk' = [disk EXCEPT ![n] = FileOf(ch[n])]
    /\ disk' # disk
    /\ UNCHANGED <<ch, net, connected, backup, left, signed, alarms>>

\* The user copies the wallet file, and later replaces it by the copy.
Backup(n) ==
    /\ n \in Persistent
    /\ left.restores > 0
    /\ backup[n] = NoFile
    /\ backup' = [backup EXCEPT ![n] = disk[n]]
    /\ UNCHANGED <<ch, net, connected, disk, left, signed, alarms>>

Restore(n) ==
    /\ backup[n] # NoFile
    /\ left.restores > 0
    /\ left' = [left EXCEPT !.restores = @ - 1]
    /\ disk' = [disk EXCEPT ![n] = backup[n]]
    /\ DropConnection(Loaded(n, backup[n]))
    /\ UNCHANGED backup

-----------------------------------------------------------------------------
Init ==
    /\ ch = [n \in Node |->
              [ hm         |-> NewLog(SideOf(n, Funder), CHOOSE r \in Rates : TRUE),
                state      |-> "OPEN",
                peer_state |-> "GOOD",
                task       |-> "none",     \* reestablish_channel: none, spawned, waiting
                reest      |-> << >>,      \* the future channel_reestablish_msg
                may_update |-> TRUE,       \* _can_send_ctx_updates
                shutdown   |-> FALSE,      \* whether on_shutdown is about to run
                close      |-> NotClosing, \* close_channel, or the rest of on_shutdown
                inbox      |-> << >>,      \* closing_signed, in ordered_message_queues
                fee_range  |-> [fee |-> 0, min |-> 0, max |-> 0],   \* our_fee, our_fee_range
                closing_tx |-> << >> ]]
    /\ net = [n \in Node |-> << >>]
    /\ connected = TRUE
    /\ disk = [n \in Node |-> IF n \in Persistent THEN FileOf(ch[n]) ELSE NoFile]
    /\ backup = [n \in Node |-> NoFile]
    /\ left = [disconnects |-> MaxDisconnects, crashes |-> MaxCrashes,
               feeUpdates |-> MaxFeeUpdates, restores |-> MaxRestores]
    /\ signed = {}
    /\ alarms = {}

Next ==
    \/ \E n \in Node : SendHtlc(n) \/ UpdateFee(n) \/ PollCommitment(n) \/ Deliver(n)
    \/ \E n \in Node, i \in HtlcIds : FulfillHtlc(n, i) \/ FailHtlc(n, i)
    \/ \E n \in Node : StartReestablish(n) \/ FinishReestablish(n)
    \/ \E n \in Node : CloseChannel(n) \/ CloseStep(n)
    \/ Connect \/ Disconnect
    \/ \E n \in Node : Crash(n) \/ SaveDb(n) \/ Backup(n) \/ Restore(n)

\* The message loops, the poll of the htlc switch and the loop that looks for
\* channels to reestablish all keep running.  The formulas without WF are WF_vars
\* of their actions too, with ENABLED written out, which TLC evaluates faster.
Fairness ==
    /\ WF_vars(Connect)
    /\ \A n \in Node :
          /\ []<>(net[n] = << >> \/ Blocked(ch[n])) \/ []<><<Deliver(n)>>_vars
          /\ []<>~CanPoll(n) \/ []<><<PollCommitment(n)>>_vars
          /\ []<>~CanStart(n) \/ []<><<StartReestablish(n)>>_vars
          /\ []<>~CanFinish(n) \/ []<><<FinishReestablish(n)>>_vars
          /\ []<>~CanCloseStep(n) \/ []<><<CloseStep(n)>>_vars

Spec == Init /\ [][Next]_vars
FairSpec == Spec /\ Fairness

-----------------------------------------------------------------------------
(* Properties *)

Messages == Updates \cup
    {"commitment_signed", "revoke_and_ack", "channel_reestablish", "error",
     "shutdown", "closing_signed"}

TypeOK ==
    /\ \A n \in Node :
          /\ ch[n].state \in {"OPEN", "SHUTDOWN", "CLOSING", "FORCE_CLOSING", "WE_ARE_TOXIC"}
          /\ ch[n].peer_state \in {"DISCONNECTED", "REESTABLISHING", "GOOD", "BAD"}
          /\ ch[n].task \in {"none", "spawned", "waiting"}
          /\ Len(ch[n].reest) <= 1
          /\ ch[n].hm.ctn \in [Owner -> Nat]
          /\ \A k \in DOMAIN net[n] : net[n][k].type \in Messages
          /\ ~connected => net[n] = << >> /\ ch[n].peer_state = "DISCONNECTED"
    /\ connected \in BOOLEAN
    /\ alarms \subseteq Messages

\* Two nodes that both run this code never find each other misbehaving: no
\* handler raises RemoteMisbehaving, LNProtocolWarning ("failed verifying
\* signature") or an assertion, whatever is in flight when the connection is
\* lost or a node crashes.
NeverBlamed == alarms = {}

\* "Multiple valid ctxs at the same ctn is a major headache for pre-signing
\* spending txns, e.g. for watchtowers, hence we must ensure these ctxs
\* coincide."
UniqueSignedCtx ==
    \A a, b \in signed : a.owner = b.owner /\ a.ctn = b.ctn => a = b

\* Nobody spends what he does not own: make_commitment's assertions never fail
\* although both sides add htlcs without asking the other.
NoOverdraft == \A tx \in signed, q \in Node : tx.balance[q] >= 0

\* When all is quiet, both nodes hold the same two ctxs, and these carry the
\* same htlcs, feerate and balances.
Quiet ==
    /\ \A n \in Node :
          /\ can_progress_ctx(ch[n])
          /\ net[n] = << >>
          /\ \A s \in Owner : ~ch[n].hm.revack[s] /\ ~has_pending_changes(ch[n].hm, s)

CtxsCoincide ==
    Quiet =>
        \A n, q \in Node :
            LET Latest(v, w) == make_commitment(v, ch[v].hm, SideOf(v, w),
                                                ctn_latest(ch[v].hm, SideOf(v, w)))
                Terms(tx) == <<tx.rate, tx.htlcs, tx.balance>>
            IN  /\ Latest(n, q) = Latest(Peer(n), q)
                /\ Terms(Latest(n, q)) = Terms(Latest(n, Peer(q)))

\* The binary search of get_feerate finds the last feerate that is in the ctx,
\* although a list can hold None for ctxs it has not reached.
FeerateIsNewest ==
    \A n \in Node, s \in Owner :
        LET m == ch[n].hm
            reached(c) == {k \in DOMAIN m.fees : InCtx(m.fees[k].ctn, s, c)}
        IN  \A c \in 0 .. next_ctn(m, s) : get_feerate(m, s, c) = m.fees[Max(reached(c))].rate

\* The wallet file never lags behind what the other node was told: a secret is
\* saved as revealed before it is, and so is a signature.  Whoever is restarted
\* from the file may thus broadcast his latest ctx.
Revealed(n) ==
    {k \in 0 .. ch[n].hm.ctn[Local] :
        \/ k < ch[Peer(n)].hm.ctn[Remote]
        \/ \E j \in DOMAIN net[Peer(n)] : net[Peer(n)][j] = revoke_and_ack(k)}

FileIsNotBehind ==
    \A n \in Persistent :
        /\ \A k \in Revealed(n) : k < disk[n].hm.ctn[Local]
        /\ \A tx \in signed : tx.owner = Peer(n) => tx.ctn <= ctn_latest(disk[n].hm, Remote)

\* "design goal: if we have lost state but the other node is well-behaving, we
\* SHOULD not lose money": what a node broadcasts was never revoked.
LatestIsRevoked(n) == ctn_latest(ch[n].hm, Local) < ch[Peer(n)].hm.ctn[Remote]

NeverPunished ==
    \A n \in Node : ch[n].state = "FORCE_CLOSING" => ~LatestIsRevoked(n)

\* A node whose latest ctx is revoked notices that before it goes on with the
\* channel, and no node believes that of itself without reason.
ToxicIfBehind ==
    \A n \in Node :
        /\ can_progress_ctx(ch[n]) => ~LatestIsRevoked(n)
        /\ ch[n].state = "WE_ARE_TOXIC" => LatestIsRevoked(n)

\* No channel is force-closed, and nobody is toxic, unless state was lost:
\* crashes and reconnections at any moment leave the two nodes in step.
NeverForceClosed == \A n \in Node : ch[n].state = "OPEN"

\* The channel is a CommitmentLedger.
Ledger == INSTANCE CommitmentLedger WITH
    Capacity <- MapThenSumSet(LAMBDA n : InitialBalance[n], Node),
    Htlcs    <- HtlcIds \X Amounts,
    ctxs     <- [q \in Node |-> {tx \in signed : tx.owner = q}],
    revoked  <- [q \in Node |-> ch[q].hm.ctn[Local]]

LedgerSpec == Ledger!Spec

\* A node that waits for its changes to be signed, which nobody signs
Unsigned(n) == ch[n].close.at = "pending" /\ has_pending_changes(ch[n].hm, Remote)

\* What is not settled off-chain any more: a close hangs, or was given up.
LeftToTheChain == \E q \in Node : Unsigned(q) \/ ch[q].state = "FORCE_CLOSING"

\* An htlc that is added gets into both ctxs, and one that is removed gets out
\* of both, for its proposer's knowledge, unless a close of the channel fails.
EventuallyAdded ==
    \A n \in Node, i \in HtlcIds :
        i \in Known(ch[n].hm, Local) ~>
            is_htlc_irrevocably_added_yet(ch[n].hm, Local, i) \/ LeftToTheChain

EventuallyRemoved ==
    \A n \in Node, i \in HtlcIds :
        (\/ was_htlc_preimage_released(ch[n].hm, Remote, i)
         \/ was_htlc_failed(ch[n].hm, Remote, i))
            ~> \/ /\ is_htlc_irrevocably_removed_yet(ch[n].hm, Remote, i)
                  /\ is_htlc_irrevocably_removed_yet(ch[Peer(n)].hm, Local, i)
               \/ LeftToTheChain

\* Two nodes that close the channel together hold the same closing tx, and its fee is one
\* that neither of them had ruled out, although each changes its fee, and who did not fund
\* the channel his maximum too, on the way.
ClosingTxIsAgreed ==
    \A n \in Node : ch[n].state = "CLOSING" =>
        \A q \in Node :
            /\ ch[q].state = "CLOSING" => ch[q].closing_tx = ch[n].closing_tx
            /\ ch[n].closing_tx[1].fee \in ch[q].fee_range.min .. ch[q].fee_range.max

\* A close of the channel ends, with a closing tx of both or with the ctx of one, unless
\* changes are never signed or an htlc is never removed.
CloseEnds ==
    \/ \A n \in Node : (ch[n].close.at # "none") ~>
          \/ \A q \in Node : ch[q].state = "CLOSING"
          \/ \E q \in Node : ch[q].state = "FORCE_CLOSING"
    \/ <>[](\E q \in Node : Unsigned(q))
    \/ <>[](\E q \in Node : ch[q].state = "SHUTDOWN" /\ has_unsettled_htlcs(ch[q].hm))

\* "wait until no more pending updates": they get signed, and the shutdown is sent.
ShutdownIsSent == \A n \in Node : (ch[n].close.at = "pending") ~> (ch[n].close.at # "pending")

=============================================================================
