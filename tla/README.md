# TLA+ models of Electrum's Lightning node

The repository is the Electrum Bitcoin wallet.  Most of it is either a pure function of bytes, user
interface, or I/O.  The part in which many actors change shared, persistent state, in orders nobody
chooses, and in which a mistake costs money, is its Lightning node: the commitment transactions of a channel,
what is done with htlcs that are received, payments that are sent, and the file all of this is kept in.

Terms, as in the code: a *ctx* is a commitment transaction, a *ctn* its number.  `Local` is the node whose
state one looks at, `Remote` the node it has the channel with.

## Inventory

| component (under `src/electrum/`) | state | operations | what is hard | what makes it correct | module |
|---|---|---|---|---|---|
| HTLCManager, `lnhtlc.py` | the log: htlcs, removals and feerates with the ctn at which each enters either ctx; what to replay; a cache of active ids and a balance delta | `send_/recv_` htlc, settle, fail, update_fee, ctx, rev; discard; load | entries move at different times on both sides; undo after a disconnection; cache rebuilt on restart | no ctx changes after it was signed; ids contiguous; cache agrees with the log; each removal reported once | `HTLCManager`, `HTLCManagerSM` |
| Channel, `lnchannel.py` | HTLCManager, configs, `_state`, `peer_state`, revocation store | add, settle, fail, update_fee, sign, receive signature, revoke, receive revocation | limits are checked by each side against its own view | both sides have the same ctxs; nobody overspends | `LNChannel` |
| Peer, `lnpeer.py` | per connection: message futures, tasks | handlers `on_*`; `send_htlc`, `maybe_send_commitment`, `reestablish_channel`, shutdown, htlc switch | reconnection: who lacks what, and in which order to replay it | a reconnection is invisible to the channel | `LNChannel` |
| cooperative close, `lnpeer.py` | `shutdown_received`, tasks, `_can_send_ctx_updates` | `close_channel`, `on_shutdown`, `send_shutdown`, `_shutdown` | htlcs and updates that cross a shutdown; waits without an end | the close ends; both sign one tx with an agreed fee | `LNChannel` |
| LNWallet, `lnworker.py` | channels, preimages, payments, forwardings | `save_channel`, `save_preimage`, `pay_to_node`, `reestablish_peers_and_channels` | writes of the wallet file in the middle of an update; MPP, retries | the file is never behind what the peer was told | `LNChannel` |
| htlc switch (`lnpeer.py`, `lnworker.py`) | `received_mpp_htlcs`, hold invoices, `active_forwardings` | `_run_htlc_switch_iteration`, settling and failing of sets, `maybe_forward_htlc` | timeouts racing the last part; restart with a half-received set | a set is settled or failed as a whole; forwarded once | `HtlcSwitch` |
| payment sessions (`lnworker.py`, `mpp_split.py`, `trampoline.py`) | `PaySession`, inflight htlcs, `sent_htlcs_q` | split, send, await, retry | late results, budget, retries | never pays more than the budget allows | `PaySession` |
| watcher and sweeps (`lnwatcher.py`, `lnsweep.py`) and the states of a channel (`lnchannel.py`) | `ChannelState` | `update_onchain_state`, redeem | reorgs, timeouts | an htlc is claimed or timed out once | |
| revocation store (`lnutil.py`) | 49 buckets of secrets | `add_next_entry`, `retrieve_secret` | sparse storage | every old secret can be derived | |
| wallet file (`json_db.py`, `stored_dict.py`, `storage.py`) | file, pending patches | append, consolidate, load | crash while appending | what is loaded was saved | `WalletFile` |
| block headers (`blockchain.py`), servers (`interface.py`, `network.py`) | chains that fork from one another | connect, `swap_with_parent`, search for the common header | reorgs, many servers | the longest valid chain is followed | |
| address history (`synchronizer.py`, `verifier.py`, `address_synchronizer.py`) | histories, requests, proofs | subscribe, request, verify, undo | status changes while a request is in flight | history matches the last status | |
| batched payments (`txbatcher.py`) | the batch and its base tx | add, replace, detect mined | base tx gets mined while bumped | each payment is made once | |
| submarine swaps (`submarine_swaps.py`) | swaps, hold invoices | create, fund, claim, refund | atomicity over two systems | either both sides or none | |
| path finding, gossip, onion messages, Noise transport, invoices | see `PROJECT.json` | | | | |

Not worth modelling: transactions, scripts, keys, encodings (pure functions, tested by vectors), fee
estimates, wizard, GUIs, hardware wallets, plugins, commands.  `PROJECT.json` lists all components with
their status, and the hazards of the code, with the properties that cover each.

How the modelled components interact: a `Peer` handler or task calls the `Channel`, which calls its
`HTLCManager`, and sends messages through `Peer.send_message`; that also stores update messages in the
`HTLCManager` for a replay, and saves the channel when the message is a signature.  `save_channel` and
`save_preimage` write the whole wallet.  When a connection ends, `peer_closed` marks its channels
`DISCONNECTED`; a loop in `LNWallet` connects again and spawns `reestablish_channel`, which undoes what the
peer did not sign, exchanges ctns and replays.

An htlc that is irrevocably added is found by the htlc switch of its Peer, which puts it into a set in
`LNWallet.received_mpp_htlcs`; the switches of all peers work on these sets, and settle or fail through the
`Channel`.  A set that is to be forwarded starts a task of `LNWallet` that offers an htlc on another channel;
`htlc_fulfilled` and `htlc_failed`, called from `receive_revocation`, tell the set, or the `PaySession` if
the htlc is of our own payment.  `HTLCManager` is used by `LNChannel` as it is.  `HtlcSwitch` and
`PaySession` see of a channel what they ask it for: whether an htlc is added, claimed, settled or failed
irrevocably, and that an update which was not signed is undone by a reconnection.  `WalletFile` justifies
what the others assume of the file: a write either happens or leaves what was there.

## Modules

| module | what it is |
|---|---|
| `HTLCManager` | `lnhtlc.py` as operators from a log to the next log. Used by `HTLCManagerSM` and `LNChannel`. |
| `HTLCManagerSM` | One log as a state machine: every call its callers may make, reconnections and restarts. Its invariants, and the inductive invariant `IInv`. |
| `HTLCManager_proofs` | What each method of the log keeps, whoever calls it: lemmas that both state machines below are proved from. |
| `HTLCManagerSM_proofs` | The proofs about one log. |
| `LNChannel` | Two nodes, each with a Channel, Peer tasks and a wallet file, and the connection between them. |
| `LNChannel_proofs` | The proofs about ctns, revocations, the file, what ends a channel, and the closing tx. |
| `LNChannel_ledger` | The proofs about balances and feerates, and that the channel implements the ledger. |
| `CommitmentLedger` | What a channel promises about ctxs, without messages, logs or files; `LNChannel` implements it. |
| `HtlcSwitch` | One payment that is offered to us by several peers: its sets, and forwarding, hold invoices, swaps, the chain and restarts. |
| `HtlcSwitch_proofs` | The proofs about it. |
| `PaySession` | Paying one invoice: calls, attempts, parts, trampoline buckets, callbacks and restarts. |
| `PaySession_proofs` | The proofs about its sessions, its amounts, and that it pays once. |
| `FiniteSums` | Lemmas about sums over finite sets, for the proofs. |
| `WalletFile` | The tree in memory, its patches, and the file that they are appended to. |
| `SavedStates` | What such a file promises; `WalletFile` implements it. |
| `WalletFile_proofs` | The proofs about it, and that it does. |
| `MCHTLCManager`, `MCLNChannel`, `MCHtlcSwitch`, `MCPaySession`, `MCWalletFile` | Small sets for TLC. |

### HTLCManager

A log is a record.  `adds[p][i]` is the amount of htlc `i` that `p` proposed, or 0 if there is none;
`locked`, `settles`, `fails` hold, like the dicts of the code, the ctn at which the entry takes effect in
Local's and in Remote's ctx, `None` being -1.  `fees` is a function from `0 .. n-1`, like the Python list.
`active` and `delta` are `_maybe_active_htlc_ids` and `_balance_delta`.  `send_x` and `recv_x` are mirror
images of each other in the code; one operator with the side as parameter stands for both.  `htlcs`,
`get_balance_msat` and the others read from the cache exactly when the code does (`ctn` at least the oldest
unrevoked one), and `get_feerate` is the binary search of the code.

Operators named `X_Something` after a comment `Mistake:` are not part of the model.  Each is a plausible bug
in `X`; replacing `X` by it makes TLC report the property it is listed with in `PROJECT.json`.

### HTLCManagerSM

The variable `hm` is the log.  The guards are those of the code, and the assertions of the code must not be
reachable otherwise.  `Removable` says that Remote settles or fails an htlc only when the protocol lets it,
which the code checks for Local (`_fulfill_htlc` asserts `is_htlc_irrevocably_added_yet`); that two nodes
that run this code keep to it is what `LNChannel` checks (`NeverBlamed`).  `resolved` is a history
variable: how often an htlc we sent was reported by `receive_revocation`.

### LNChannel

`ch[n]` is the Channel of node `n`: its log, state, peer state, and what belongs to the Peer: the task
`reestablish_channel` (`none`, `spawned` by the loop but not yet run, `waiting` at its await) and the future
it waits for.  `net[n]` is the stream of messages to `n`.  `disk[n]` is the wallet file, for nodes in
`Persistent` (a constant, because following the file costs states).

asyncio runs one task at a time, so an action is the code between two awaits.  It yields an *outcome*: the
channel after it, the messages it sent, the file it left, and the exception it raised.  `Step` applies an
outcome; an exception ends the connection, and is recorded in `alarms` under the message it blames, unless
it is a plain `GracefulDisconnect`.  What a handler sends before it raises is sent, but a message that is sent while
there is no connection is lost.  `set_state` raises on a step that `state_transitions` does not have, such as from
`FORCE_CLOSING` back to `SHUTDOWN` when a close goes on after its await; the close then fails there (`FailsToClose`).

| code | model |
|---|---|
| `send_htlc`, `_fulfill_htlc`, `fail_htlc`, `maybe_update_fee` | `SendHtlc`, `FulfillHtlc`, `FailHtlc`, `UpdateFee` |
| `maybe_send_commitment`: at once, not at all if it signed a moment ago, or from the poll of the htlc switch | `maybe_send_commitment`, `PollCommitment` |
| `on_update_*`, `on_commitment_signed`, `on_revoke_and_ack`, `on_channel_reestablish`, `on_error` | `OnX` with `Deliver` |
| `close_channel`; `on_shutdown` (a task of its own), `send_shutdown`, `_shutdown` between awaits, with its timeout | `CloseChannel`; `CloseStep`, which takes one of `CloseOutcomes` |
| `reestablish_peers_and_channels`, `reestablish_channel` before and after its await | `StartReestablish`, `FinishReestablish` |
| `peer_closed`; killed and started again; any other `save_db` | `Disconnect`, `Crash`, `SaveDb` |
| the user copies the wallet file and later puts the copy back | `Backup`, `Restore` |

What is abstracted, and why that is sound for the properties:

- A signature is the ctx it signs: two signatures fit the same ctx only if they are made for equal ones.
  The secret of ctn `k` is the number `k`.
- On-chain fees, reserve, dust and `max_htlc_value_in_flight` are left out of the limits; balance and number
  of htlcs are kept.  Amounts are one or two units.
- `save_preimage` saves or does not, since another htlc with the same preimage may have been there before.
- Both nodes notice the end of a connection at the same step, with all that was in flight lost.  A node that
  notices later can only receive a prefix of what was in flight first, and the model has those runs too.
- `maybe_update_fee` is called periodically and at the end of `reestablish_channel`; here at any time.
- A `FORCE_CLOSING` channel sends `channel_reestablish` when the loop still tries it, and does no more: what
  happens on the chain is not modelled.
- A close is modelled within one connection: `CloseChannel` waits for the last disconnection, and a channel in
  `SHUTDOWN` is not reestablished.  (The code does so, and then each side answers the other's shutdown
  with one, as a new Peer has an empty `shutdown_received`.)  A closing tx is its fee and the balances;
  scripts, dust limits and outputs that are dropped are left out.  `closing_signed` may time out
  whenever it is not there.  `CloseFees[n]` are the fees with their ranges that `n` may come up with.

### HtlcSwitch

One payment, whose kind is chosen at the start: an invoice of ours, the same paid through several
trampolines, a hold invoice, a swap, an htlc to relay, or htlcs to forward as a trampoline.  `Htlc` are the
htlcs that peers offer for it, one unit each; more may come than are needed.  `sets[k]` is
`received_mpp_htlcs[k]`: its resolution, its htlcs, and whether it belongs to a parent set.
`unfulfilled` is `unfulfilled_htlcs` of the channels, which decides what the first loop looks at.

An iteration of the switch has no await, but the sets are worked on one after the other, and each may change
what is saved, so a crash can come in between.  `iter` is the running iteration: the peer, the sets that are
still to do, and the sets as the iteration found them.  No other task moves until it is `Idle` again.

| code | model |
|---|---|
| first loop of `_run_htlc_switch_iteration`: `_check_unfulfilled_htlc`, `update_or_create_mpp_with_received_htlc` | `StartIteration` |
| second loop: `_check_unfulfilled_htlc_set` | `Verdict`, then `FailSet`, `FulfillSet`, `CallBack`, `Completed`, `MoveToParent`, or `EndTurn` |
| `maybe_forward_htlc_set`, `_maybe_forward_htlc`, `_maybe_forward_trampoline` | `StartPaying`, `Relay`, `Pay`, `GiveUp` |
| `htlc_fulfilled`, `htlc_failed`, and what the next node does | `Fulfilled`, `Failed`; `Claim` |
| `settle_hold_invoice`, `cancel_hold_invoice`; `hold_invoice_callback`, `_fail_swap`, `_claim_swap` | actions of these names, `SwapClaimed` |
| `_maybe_reveal_preimage_for_htlc`; the peer's timeout; `maybe_cleanup_mpp` of a redeemed channel | `ClaimOnchain`; `TimeoutOnchain`; `Redeemed` |
| killed between steps; in the middle of an iteration; between sending an htlc and noting what it is for | `Crash`; `CrashInCollect`, `CrashInFail`, `CrashInFulfill`; `CrashInForwarding` |

What `CrashInForwarding` is about: `send_htlc` signs the htlc that forwards a payment, and so saves it, before
`active_forwardings` gets it (`lnworker.py:4023`, `2208`).  A crash in between leaves an htlc that nobody knows to be
a forwarding.  A FIXME (`lnworker.py:4062`) fears that the payment is then forwarded twice.  It is not, and
`ForwardedOnce` shows it: the set was saved as `SETTLING` before the task was started, and a set that is `SETTLING` is
not forwarded again.  What does happen is that nobody passes on the failure of that htlc, so that the htlcs of the
payer stay until the chain decides; `Resolved` excepts this, and so the tasks that a crash took, but
only while the preimage is not known: an htlc that is claimed settles the set.

`FailedForGood` leaves the chain out: an htlc of a set that failed is still claimed there, by
`_maybe_reveal_preimage_for_htlc` (`lnsweep.py`), when the preimage of the payment may be revealed.  Two sets of
one payment hash can end up like that: another htlc of an invoice made the amount, and was paid.

The tip is `fresh`, `stale` (nothing is settled then) or `near` (htlcs are too close to their cltv).  Times
are abstracted to `old`, the htlcs older than `MPP_EXPIRY`.

### PaySession

`htlcs` is the history of everything sent for the invoice, by all attempts and processes; `mine` are those of
this process that are open (`sent_htlcs_info`); `session` the entry in `_paysessions`, with `_amount_inflight`,
`_nhtlcs_inflight`, the queue of logs and the buckets; `pc` where `pay_to_node` is.  `status`
and `inflight` are the saved status of the invoice and `inflight_payments`.

| code | model |
|---|---|
| `pay_invoice` with its checks, and its end | `PayInvoice`, `Ends` |
| the loop of `pay_to_node`: `create_routes_for_payment`, `pay_to_route`, `wait_for_one_htlc_to_resolve` | `CreateRoutes`, `NoRoutes`, `PayToRoute`, `CannotSend`, `HtlcResolved`, `NoMoreResolved` |
| the network and the receiver | `Decide` |
| `receive_htlc_settle`, `receive_fail_htlc`, and the callbacks of the last revocation | `Heard`: `receive_htlc_settle`, `receive_fail_htlc`, `HtlcFulfilled`, `HtlcFailed` |
| the callbacks once more, from the chain; `discard_unsigned_remote_updates` | `Repeated`; `Reestablish` |
| `LNWallet.__init__` | `Restart` |

Any split of the amount into at most `MaxParts` htlcs may be tried, and finding routes may fail: this covers
whatever `mpp_split.py` and the routing return.  The receiver takes htlcs only when they add up, and decides
once: what an honest receiver does.  Two constants close known gaps, so that the remaining behaviour can be
checked.  `RetriesKnown = FALSE`: nobody pays the invoice again when its preimage is known (see the findings).
`RestartsUnnoted = FALSE`: the process is not killed between the last `revoke_and_ack` and the task that notes
the payment as paid, after which nothing would ever note it.

### WalletFile

`root`, `content`, `parent` are the tree of StoredDicts (two levels), `held` those that some caller has a
reference to, also after they left the tree.  `pop` and `__delitem__` take the path away from the dict they
remove, but `__setitem__` does not from the one it replaces: changes of that one are patches of what
took its place, or of nothing if that is removed again.  The history variable `replaced` says which dicts these are, and
each patch in the model whether such a dict made it (`stray`).  `pending` are the patches, `disk` the file, and
`pos` stands for its length as `WalletStorage` believes it to be, by the file that has this length.
`since` is a history variable: the states of memory from the one that loading would give, onwards.

| code | model |
|---|---|
| `StoredDict.__setitem__` of a value, of a dict; `pop`, `__delitem__` | `SetValue`, `SetDict`; `PopValue`, `PopDict` |
| `JsonDB.write` that appends; `write_and_force_consolidation` | `AppendPending`; `Consolidate` |
| a write that raises; killed in an append | `AppendFails`, `ReplaceFails`; `Crash` |
| `JsonDB.__init__`, `load_data`, `maybe_load_incomplete_data` | `Start`, `load_data` |

`SavedStates` is the abstract specification: memory changes; a write moves the state that a crash would lead
back to forward; a crash goes back to it and never further.  A file with a stray patch promises none of this until a dump
replaces it, and `FileLoads` and `SavedStatesSpec` except exactly such a file: a crash may then lead `Elsewhere`,
and `Start` may find that the file cannot be loaded.  Without the exception TLC finds both violated: a dict is stored
where another one was, the old one is changed, the patch is appended, and what is loaded is no state that memory was in.

## Runs

TLC explores each passing run completely.

| run | question | states |
|---|---|---|
| `HTLCLog` | One htlc per side and a second feerate, ctn to 3, with reconnections and restarts at any moment. The invariants that are proved, and those that are not: cached balances, each removal reported once, what is replayed; and that signed ctxs never change. Ctn 3 is needed for an htlc to leave the cache: added at 1, removed at 2, one ctn of margin. | 126 000 |
| `Channel_Restart` | Each node sends an htlc; the connection is lost twice, so that a reconnection can be interrupted, and one node crashes between any two steps. Nobody is blamed, no ctn has two ctxs, both have the same ones, nobody overspends, the file is never behind, no channel is force-closed, and `CommitmentLedger` is implemented. Htlcs are not settled by the node that crashes: see the first finding. | 192 000 |
| `Channel_LostState` | An old copy of the wallet file, of any age: nobody is punished, and who is behind notices. | 284 000 |
| `Channel_Live` | Two feerate changes around an htlc and a lost connection, then a cooperative close, in which the payee's fees agree with the payer's, need three messages, or cannot agree. Under fairness htlcs get in and out, and the close ends. Two changes are the least for A, B, A. | 77 000 |
| `HtlcSwitch_Sets` | Each kind of payment, offered in two or three htlcs by two peers, with two htlcs to forward it by, a disconnection, a crash and a force-close. What is at risk is covered by what we can take, nothing is forwarded twice, a set that failed stays failed and settles nothing, nothing raises, and all is resolved. | 268 000 |
| `PaySession_Pay` | Three units, in up to two htlcs at a time and four in all, by two calls, with and without trampoline, a restart, a reconnection and a repeated callback. | 323 000 |
| `WalletFile_Crash` | One slot in which one dict follows another, two values, at most two patches pending and three in all with those on disk, one failed write and one crash. The dict that was replaced or removed is changed further. The values are a symmetry set, as nothing is chosen among them. | 423 000 |
| `Channel_SettleCrash`, `Channel_ReplayOrder`, `Channel_CloseStuck`, `HtlcSwitch_FailTwice`, `PaySession_PaidTwice` | The findings below: expected to fail. | |

`CHECK_DEADLOCK FALSE` is in all runs but `HTLCLog` because a system may have nothing left to do: all bounded
htlcs are resolved, a channel is closed, the payment is over.

**Bounds.**  `HtlcIds`, `MaxCtn`, `MaxFees`, `MaxQueued` bound the log, `MaxDisconnects`, `MaxCrashes`,
`MaxFeeUpdates`, `MaxRestores`, `MaxCloses`, `MaxCalls`, `MaxRestarts`, `MaxReconnects`, `MaxRepeats`,
`MaxFaults` how often the environment interferes, `MaxHtlcs` and `MaxParts` what is sent for an invoice,
`MaxPending` and `MaxPatches` the patches.  A ctn in `LNChannel` has no bound of its own: signatures need
changes, and the number of changes is bounded.  The log treats all ids alike, up to their order, and compares
ctns only with the latest and the oldest unrevoked ones, which differ by at most one; so behaviour repeats
after a few ctns, and for the parts in `IInv` the proof needs no bound.  In `HtlcSwitch` two htlcs make the
amount, and a third is one too many, which is where sets of an invoice differ; two peers are what it
takes for one switch to find what another did.  In `PaySession` three units in two htlcs make parts of
different size, and four htlcs let a second call split again while htlcs of the first are open.

**Fairness** (`FairSpec`).  Message loops (`Deliver`), the poll of the htlc switch (`PollCommitment`), and the
two halves of reestablishing keep running: each is a loop or task of a running program that is never
disabled for good by others, so weak fairness is what asyncio gives.  `Connect` is weakly fair: the loop in
`LNWallet` tries every second.  Nothing is assumed about users: htlcs, removals and feerates need not come,
and the connection need not be lost.  But for `Connect`, the formulas are weak fairness with `ENABLED` written out, as TLC
evaluates that very much faster.  `Disconnect` is bounded, as otherwise nothing needs ever happen.
`CloseStep` is weakly fair: the tasks that close the channel poll in `asyncio.sleep` loops or wait with a timeout.
That htlcs are removed is not assumed, and `CloseEnds` leaves out a close that waits for one.

`HtlcSwitch`: the switch of each connected peer runs on (`StartIteration`, and the turn of each set in it);
`Reconnect` as above; tasks that forward run on until they give up, and each htlc they sent is answered, at
the latest by its timeout; the callback of a swap runs, and a swap is claimed or fails.  The chain grows, so
the tip comes near to the cltv of any htlc.  Users of hold invoices need not do anything.

`PaySession`: `pay_to_node` runs on; every htlc is taken or refused in the end (`Decide`), by the timeout of
the receiver's set or of the htlc; and we hear of it (`Heard`).

## Findings

Each is a run that is expected to fail; TLC prints the history.

1. `Channel_SettleCrash`.  `settle_htlc` leads to `save_preimage`, which writes the wallet file before
   `update_fulfill_htlc` is stored for a replay.  A crash then loses the message for good; the next signature
   covers a removal that the peer has not heard of and is refused.
2. `Channel_ReplayOrder`.  On reconnection, `revoke_and_ack` is replayed before or after *all* updates, by
   the order of the last revocation and the last signature.  An htlc that was sent after the revocation, and
   not signed yet, is then replayed before it, and the peer may have no room for it.  It repeats on every
   reconnection.
3. `Channel_CloseStuck`.  `send_shutdown` forbids updates and waits until no change is unsigned; the htlc
   switch, whose poll would sign it, skips channels in which updates are forbidden.  A node that
   fulfilled an htlc since its last poll waits for ever, unless the peer happens to sign something; the channel
   keeps the htlc open meanwhile.
4. `HtlcSwitch_FailTwice`.  `fail_htlc` signs, and thereby saves the channel, before the htlc is deleted from
   `unfulfilled_htlcs`.  After a crash in between, the htlc that was failed is collected again, counts in a set, and
   the preimage may be released for less than the amount.
5. `PaySession_PaidTwice`.  After `update_fulfill_htlc` an htlc is `settled` and not `inflight` any more, but the
   invoice is noted as paid only by the callback of the later revocation.  After a restart in between the
   invoice can be paid a second time, although its preimage is known.

Met while modelling, without a run of their own:

- With `MayClose <- JustB` in `Channel_CloseStuck`, `NeverBlamed` is violated: `update_add_htlc` that crosses a
  shutdown makes the receiver, whose state is `SHUTDOWN`, raise `RemoteMisbehaving`, although its sender could not know.
- With `Faults <- TornOrFsync` in `WalletFile_Crash`, `FileLoads` is violated: `append` takes the new length of
  the file before `os.fsync`, and if that raises, the same patches are appended again; a `remove` that comes
  twice cannot be applied, and the wallet cannot be loaded.
- A dict that `__setitem__` replaced still has a `path`, although the comment of `path` says "return None iff we are
  pruned from root" (`stored_dict.py:141`).  Callers that store a dict over another one must not use references to the
  old one; `json_db.py:232` warns of something like it.
- A crash after a forwarding htlc is sent and before it is noted leaves the set `SETTLING` (see HtlcSwitch above).
- `htlc_slots_left(...) == 0` lets htlcs through when crossing htlcs made it negative.
- A node that finds out it is behind tells the peer only if `reestablish_channel` had been spawned for
  that channel already: the loop that would spawn it skips channels that are `WE_ARE_TOXIC`.
- A trampoline bucket of several htlcs puts one log into the queue, and `_nhtlcs_inflight` never returns to 0:
  the session is never deleted, and a retry fails on the assertion in `pay_to_node`.
- Parts sent directly to a trampoline that is the receiver share one bucket over all retries, so its totals are wrong.
- `wait_for2` on Python before 3.12 may drop a log that was already taken from `sent_htlcs_q`.
- A timeout transaction of one htlc fails all open htlcs of the channel with the same payment hash.
- A restart between the last `revoke_and_ack` and the task that notes the payment leaves an invoice unpaid
  that was paid (`RestartsUnnoted`).
- After a connection is lost while `send_shutdown` waits, nothing lets updates be sent again in that process.

## Proofs

**The log.**  `HTLCManagerSM_proofs` proves, for every set of htlc ids, amounts, feerates and initiators, and every bound:

| theorem | what |
|---|---|
| `LogIsConsistent` | `IInv`, and thereby `LogIsTyped` (`TypeOK`) |
| `LogIdsAreContiguous` | `IdsAreContiguous` |
| `HtlcIsRemovedOnce` | `NeverSettledAndFailed` |
| `CacheIsComplete` | `CacheComplete` |
| `SignedHtlcsAreFinalAlways` | the action property `SignedHtlcsAreFinal` |
| `IrrevocableIsForeverAlways` | the action property `IrrevocableIsForever` |
| `ReportedExactlyOnceAlways` | `ReportedExactlyOnce` |
| `ReplayEndsInOneSignatureAlways` | `ReplayEndsInOneSignature` |
| `CachedBalanceIsExactAlways` | `CachedBalanceIsExact` |
| `FeerateIsFoundAlways` | `get_feerate` gives the last feerate that is in the ctx, and there is one |
| `SignedTermsAreFinalAlways` | the action property `SignedTermsAreFinal` |

Assumed: ids are naturals (`HtlcIdsAssumption`), amounts are positive (`AmountsAssumption`), the initiators
are sides (`InitiatorsAssumption`), and there is a feerate to open a channel with (`RatesAssumption`).  The ids a log
may use need be neither finite nor contiguous.

`IInv` is `TypeOK` and `ConsistentLog` of the log, whose parts are in `HTLCManager`.  Why those that no one asked for
are needed:

- `ContiguousIds` is disturbed only by a discard, which drops the unsigned htlcs of Remote and resets
  `next`.  That the remaining ids have no gap needs that signed htlcs come before unsigned ones: `OrderedAdds`.
- `OrderedEntries`: an entry is in the next ctx of the side that gets it first, and in the other one exactly
  from its revocation on.  It says what a revocation may carry over, and what a discard finds.
- `OrderedFees`: the same of feerates, and that only the last may be unsigned.  Without it, replacing or
  discarding the last could change a signed ctx.
- `AddedFirst`: a removed htlc is in both ctxs, so a discard never drops one that has a removal.
- `SoundCache` is stronger than `CacheComplete`, which is not inductive: the ids that are missing are long
  gone from *both* ctxs, by a ctn more than needed now, so they stay gone when ctns advance.

The lemmas are about two logs, before and after a call, and not about the variables of a state machine, so that
`LNChannel_ledger` cites the same ones of two logs, a file and a copy.  They are in `HTLCManager_proofs`.  For each
method there is a relation that says which fields change and to what, `IsAdded`, `IsRemoved`,
`IsFeeUpdated`, `IsSigned`, `IsRevoked`, `IsDiscarded` and `IsReloaded`; `IsCall` is any of them.  Both kinds
of revocation share `RevokedPreserves`, which rests on `CarriedEntry`: an entry carried over keeps the order.
What any call keeps is put together in

- `CallPreserves`: `ConsistentLog`;
- `CallFreezes`: ctns only grow and no entry changes in a ctx that is signed.  What is removed and what is discarded
  differ exactly by `OrderedEntries`.  `SignedHtlcsFinal` and `IrrevocableIsFinal` follow from it;
- `CallKeepsDelta`: `ExactDelta`, that `_balance_delta` is the sum of what is settled and not cached.  A revocation
  moves what is now long gone from one to the other, a restart counts both anew, and a discard drops nothing
  that was settled;
- `CallKeepsFees`: `SortedFees`, that feerates reach each ctx in the order in which they were proposed.  The code
  says "Nones can only be on the right end", which is not enough for a binary search;
- `CallKeepsSolvent`: `Solvent`, that neither side has less than nothing in the ctxs that count, if an htlc that is added
  could be paid (`Affordable`);
- `SignedTermsFinal`: the terms of a signed ctx stay, as `ExactDelta` and `SortedFees` make them a matter of the log, and what
  the log says of it stays.

`get_feerate` searches with a recursive function on pairs of bounds; that it exists, and what it finds, is
shown by induction on their distance (`SearchFinds`).

`HTLCManagerSM_proofs` shows that every action is a call (`NextCalls`), and adds two invariants that are about the caller:
`ReportedIsRemoved`, that the reports so far are the removals that *Remote's* ctx shows (`recv_rev` looks for what left that
ctx at its new ctn, and by `RemoteIsLast` the removal has reached Local's by then); and `Replayable`, what holds of the
unsigned updates while no signature is kept.

**Payment sessions.**  `PaySession_proofs` proves `Invariance` (`Spec => []IInv`) and from it
`SessionIsKeptAlways` (`SessionIsKept`), for every amount, number of htlcs, parts, calls, restarts, reconnections and
repeated callbacks, with the gaps open or closed.  Assumed: modes are among the two there are
(`ModesAssumption`), and the bounds are positive (`AmountsAssumption`).

`SessionIsKept` says that an htlc that resolves finds its session, and that without trampoline a session does
not outlive its htlcs.  It is not inductive: whether the callback of an htlc deletes the session depends on
`_nhtlcs_inflight`, so `SessionCounts` relates that number to the open htlcs and the logs in the queue.  It is exact
for gossip and an upper bound for trampoline, where a bucket puts one log for several htlcs: this is all that is
needed for the first half, and the reason why the second half is not claimed there.  `NoneIsLeft`:
whoever changes the session last deletes it if nothing is left, `Kept`.  `PayingHasSession`: `pay_to_node` that runs
keeps its session alive, as it is `active`.  The lemmas show that each way the session
changes keeps `Kempt`, the part of `IInv` about one session and one set of open htlcs; `StepPreserves` puts
the actions together.

It also proves, for every amount and split, and every number of htlcs, calls and restarts:

| theorem | what | assumed |
|---|---|---|
| `AmountsAlways` | `AmountsInv`, the invariant of the amounts | |
| `CountersAreExactAlways` | `CountersAreExact` | |
| `PaidInvariance` | `PaidInv`, the invariant of what the receiver has | `~RetriesKnown` |
| `PaidOnceAlways` | `PaidOnce` | `~RetriesKnown` |
| `PaidForGoodAlways` | the action property `PaidForGood` | `~RetriesKnown` |

`~RetriesKnown` is that nobody calls `pay_invoice` on an invoice whose preimage is known, which the code does not
rule out: it is the finding `PaySession_PaidTwice`, where TLC shows `PaidOnce` false without it.  The gap at restarts
(`RestartsUnnoted`) may be open, and htlcs of calls before a restart may still be around.

The argument for `PaidOnce`: `pay_to_node` sends what is missing of the amount by its own account, so one has to know
that `_amount_inflight` is not less than what is out.  `AmountsInv` says that it is exact:

- `Balanced`: the amount is that of the open htlcs, of the queue, and of what failed in buckets that are not complete.  A
  trampoline's bucket gives the amount back as one log, when all of it failed; that the logs come out right needs that a
  bucket has still to resolve at least what is open of it (`BucketOK`).
- `RoutesOK`: what is about to be sent and what is in flight are the whole amount, and a new part shares its bucket only
  with parts of which nothing has failed.
- `SendsNotTooMuch`, `DrainsLess`: a running attempt has at most the amount in flight, and less when it waits for its end.

`PaidInv` adds where the money is.  Once the receiver took a payment, it took all of it (`TakenTogether`), so
all of it is in the htlcs of the running attempt or settled (`PayingIsAlone`); what is in flight is then the whole amount,
no failure is in the queue, and `pay_to_node` cannot come to fail.  When an attempt starts, nothing of an earlier one is
left to be taken: `pay_invoice` finds no htlc in flight, and with one that is claimed or settled the preimage would be
known (`PreimageKnown`).  `MineAreOpen`, `SuccessIsSettled` and `PaidIsSettled` tie `mine`, the queue and the status to that.
`PaidAtMost` is `PaidOnce` also of what was sent and may yet be taken.

Sums are folds of the community modules, recursive functions over the elements of a set in an order that `CHOOSE` makes.
`FiniteSums` shows by the least counterexample, in place of the induction theorems, that such a function exists and that
its value does not depend on the order; then how it changes with one element, and that a smaller set of
positive amounts has a smaller sum.

**The htlc switch.**  `HtlcSwitch_proofs` proves, for any number of peers, htlcs and ways to forward, any
amount, and any number of disconnections, crashes and force-closes:

| theorem | what |
|---|---|
| `SwitchIsConsistent` | `SwitchInv`, the invariant of the bookkeeping |
| `ForwardedOnceAlways` | `ForwardedOnce` |
| `FailedForGoodAlways` | `FailedForGood` |
| `CoverInvAlways` | `CoverInv`, the invariant of the money |
| `CoveredUnlessHeld` | `Covered`, unless the payment is held and held ones may have closed channels |
| `CoveredAlways` | `Covered`, if no channel of a held payment is closed |
| `SwitchNeverRaisesAlways` | `SwitchNeverRaises` |

The last four assume `"collect" \notin CrashPoints`, that no crash comes between the failing of an htlc and the
saving of `unfulfilled_htlcs` without it.  This is the finding `HtlcSwitch_FailTwice`, where TLC shows that they are
false without it.  That held payments are an exception is no weakness of the proof either: with
`ClosableKinds <- AllKinds`, `Covered` is violated, as one htlc of a hold invoice times out on the chain while the
other waits for the user.  Assumed of the constants: there are finitely many htlcs, of a positive total
(`AmountsAssumption`), each with its peer (`PeersAssumption`), and no part is named like the whole (`PartsAssumption`).

`SwitchInv` is that

- what an iteration has still to do agrees with the sets as they are now (`IterOK`).  It is the point where
  one loop works on what another loop has read;
- an htlc is in one set at most, that of its payment key or the one of the whole, and the sets' resolutions fit (`SetsOK`);
- only some kinds of payment get a session, a failure, a parent set (`KindOK`), and a relayed payment has one htlc (`RelayOK`);
- no two htlcs we sent for it are outstanding or taken at once (`OneForward`): they are sent one by one.

`CoverInv` adds why the amount is there:

- `RemovedOK`: an htlc of a set is gone only if the set fails or settles, or the chain did it.  It
  is what a crash in "collect" breaks, and all else follows from it;
- `PreimageOK`: who knows the preimage.  A forwarded payment has it exactly from downstream;
- `FailureOK`: a forwarding has failed only when everything it sent has;
- `BackingOK`: whoever is `Exposed`, by what is out or by what the code will do next without asking, has
  htlcs of the amount due; and so has a set that is `COMPLETE`.

The steps are first reduced to what they do to one set and to one htlc (`Steps`: a set collects, an htlc fails,
is settled, passes, and so on); the invariants are then preserved by each of these.

The attempt corrected the model in one place.  `FailedForGood` used to say that no htlc of a failed set is ever settled,
which is false as soon as there is a third htlc and a channel that is closed; the run had missed it.
Definitions with overlapping CASE branches, of which TLC takes the first and a proof may take any, became
`IF ... ELSE`.

**The wallet file.**  `WalletFile_proofs` proves, for any slots, keys, values and dicts, and any number of pending patches,
patches on disk, failed writes and crashes:

- `FileAlwaysLoads`: `[]FileLoads`;
- `WalletFileRefines`: `Spec => SavedStatesSpec`, the refinement.

Both assume `"fsync" \notin Faults`, that no append raises at its end when `pos` is already the new length; with it
`FileLoads` is false (see Findings).  Both properties except a file with a stray patch, as above.  Of the constants it is
assumed that the mark of a pruned dict is not a slot (`PrunedAssumption`), that there are as many identities of
dicts as slots (`ObjAssumption`) and that the bounds are naturals (`BoundsAssumption`).

`FileLoads` says nothing of the patches that are pending, so it is not inductive; its strengthening, `IInv`, is that

- a dict that was not replaced has a path exactly if it is in the tree, and it is its place there, and one that was is not in
  the tree (`TreeOK`).  It is why a patch that somebody makes through a reference fits the file, or is not made at all when
  the dict was removed, or is stray;
- either the file followed by the first `k` pending patches loads as the `k`-th state of memory since, for every `k`
  up to the first stray patch (`InStep`).  It is what makes an append that stops anywhere harmless;
- or an append has failed, and the file is longer than `pos` (`Overrun`): then nobody appends, and what it loads as stays
  what it is, until it is replaced.  That a failed `os.replace` does not make `pos` fit again needs that the
  file has patches and a dump none.

Loading is a recursive function on the number of patches; `RunExists` and `RunsAgree` show by induction that it exists and
that what it gives for a beginning does not depend on what follows, and `LoadedType` that it is well typed even where a stray
patch does not fit.  `StepInMemory` is what all changes of the tree have in
common, so each of them is only shown to be one.  For the refinement, each step is then a `Change`, a `Write`, a `Crash`
or a stutter of `SavedStates`, or a crash with a stray patch in the file; `Start` is a stutter, as what a crash left would be loaded.

**The channel.**  `LNChannel_proofs` and `LNChannel_ledger` prove, for any number of htlcs, fee updates, disconnections and crashes, any choice of
who has a wallet file, and whatever the two nodes do between two awaits, closes included:

| theorem | what | assumed |
|---|---|---|
| `ChannelTypes` | `TypeOK` | |
| `NoCtnIsSignedTwice` | `UniqueSignedCtx` | no copies are restored (`MaxRestores = 0`) |
| `TheFileIsNeverBehind` | `FileIsNotBehind` | no copies are restored |
| `CrashesCloseNothing` | `NeverForceClosed` | no copies are restored, no user closes (`MayClose = {}`) |
| `WhoLosesStateIsNotPunished` | `NeverPunished` | only node `l` has copies (`[](backup[Peer(l)] = NoFile)`) |
| `WhoLosesStateNotices` | `ToxicIfBehind` | only node `l` has copies |
| `TheClosingTxIsAgreed` | `ClosingTxIsAgreed` | |
| `NobodyOverspends` | `NoOverdraft` | |
| `SearchFindsNewest` | `FeerateIsNewest` | |
| `ChannelIsLedger` | it implements `CommitmentLedger` (`LedgerSpec`) | no copies are restored |

The last three are in `LNChannel_ledger`.

Why they are there: to restore a copy is to forget what was signed and revoked, so a ctn may be signed again; a user
who closes may end up with a force-close (`Channel_CloseStuck`); and if both nodes restore copies, both may be behind
what they once told each other, and neither can know.  The node that has copies may restore them at any moment and any number
of times, both may crash, and the other goes on with the channel, closes it or force-closes it as ever.  The constants are
as in the code: two nodes (`NodeAssumption`), and whoever restores a copy has a file (`PersistentAssumption` says
that those are nodes).

The invariants of `LNChannel_proofs` build on each other:

- `BasicInv`: the types, down to the messages kept for a replay; that a message on its way was signed, or tells a secret
  of a ctx that its sender has revoked; and that the file of a node has the channel's ctns and state.  It holds
  even after a copy was restored, as `Restore` also takes the log of the copy.
- `Dance`: what a node says in `channel_reestablish` is still true when it is read, although each side may read it before
  or after it made its own; until a channel is `GOOD`, no signature and no revocation of this connection has come from
  it.  That the replay comes after the announcement in the stream is what this hangs on.
- `Forward`: nobody has more revoked than the other has signed and nobody signs anew what the other has not revoked, so `ctn`
  and `ctn_latest` of the two logs are at most one apart.  `UniqueSignedCtx` is not inductive without it: that a new
  signature is for a new ctn needs that all of the old ones are at most the latest.
- `OpenAt`: the ctns that `on_channel_reestablish` compares are then those for which it neither force-closes nor gives
  up, nobody sends an `error`, and after each connection the announcement of either node is read once.
- `OneLoses`: what `l` goes on from, be it its log or the copy, is at most *behind* the other node's log; so the other
  node never believes to be behind, and what `l` publishes was not revoked by it, as far as the other node knows.  It
  needs `CopyIs` of the copy, too, since a copy is taken at one moment and put back at another.
- `CloseInv`: of a close, what either node has done (`Stage`), that each is sent one `shutdown` (`ShutsOnce`), and that of the
  `closing_signed` at most one is on its way, whose range is what its sender has and whose signature is for its fee
  (`OneOffer`, `Offered`).  `ClosingTxIsAgreed` is not inductive without whose turn it is: a node closes with the fee it
  was offered, and the other then holds the same tx only if the answer is what it reads next.  `Settled` is the
  end: one tx, with a fee within the ranges of both.  Its balances are the same as each node checks the signature it is
  sent against its own log, so it is no matter here what the logs are.  A close is modelled within the last
  connection; as long as another one may be lost, both nodes are `Fresh`.  Nothing is assumed of `CloseFees` but
  that each fee is in its range, nor of who closes.

Handlers are long and there are many; so each is first shown to be one of a few `Kind`s of outcome (`Acts`): it leaves the
ctns alone and signs nothing, signs the next ctx, revokes, reads a revocation, announces itself or reads
the announcement of the other, works on a close, or ends the channel.  Each invariant is then kept by each kind.

`LNChannel_ledger` needs little of that: `LedgerInv` holds whatever copies are restored, as every log there is, in memory,
in the file or in the copy, is good by itself:

- `GoodLog` is what `HTLCManager_proofs` shows a log to keep: `ConsistentLog`, `ExactDelta`, `SortedFees` and `Solvent`.
  `NoOverdraft` is not inductive without `Solvent`: that of the ctx signed *next* follows from what both sides may
  still add to it.  A call that adds an htlc is `Affordable`, as `can_add_htlc` asks `available_to_spend` first, both when
  sending and when receiving; what the peer settles or fails never takes from the one whose htlc it is;
- every message on its way, and every update that is kept for a replay, has an id, amount and feerate of their types, and
  every ctx that was signed is a `FairCtx`: nobody has less than nothing, and nothing is lost (`MoneyIsConserved`).

The ledger counts ctns where the code has logs: `Counted` says that a node has signed exactly `ctn_latest` ctxs for the
other, which with `Forward` makes a signature the ledger's `Sign` and a revocation its `Revoke`; all else is a stutter.
Restoring a copy takes ctns back while what was signed stays signed, and no ledger would allow it.

The attempt corrected the model in five places, each read again in the source: messages sent after the connection is gone
were still put on the stream; a close went on in states from which `set_state` raises; a `shutdown` was accepted
while the channel was not yet reestablished (`on_shutdown` raises unless the peer state is `GOOD`); nothing said that
the nodes with a file are nodes; and `ReceivesClosingSigned` was a `CASE` with arms that overlap, which leaves open the one
that is taken (TLC takes the first), where the code returns from each in order.

**Only model-checked.**  Of `LNChannel`: `CtxsCoincide`, which needs an invariant that relates the entries of both logs to the
messages on their way between them and to those kept for a replay; and `NeverBlamed`, which holds for the constants of its runs and is false for others (see
Findings).  Liveness and ENABLED are out of the prover's reach.

## Not modelled

- Channel opening and zeroconf, the states of a channel that depend on the chain, sweeps: the chain is present
  only as what it does to htlcs.  Reestablishing a channel in `SHUTDOWN`.
- Fees, reserve, dust and the limits in value; the content of onions and routes.
- Bundles of invoices, channels opened just in time, hold invoices on closed channels.
- Encryption of the wallet file, StoredLists, upgrades of old files.
- The other components of the inventory: they are independent of the ones above but for the
  interfaces named there, and each would be a model of its own.

## Plan

In this order, the most valuable first:

1. Proofs: `CtxsCoincide` in `LNChannel`.
2. `ChannelState` with funding and closing transactions and reorgs, and reestablishing in `SHUTDOWN`.
3. `TxBatcher`, swaps end to end, `Blockchain` forks, `Synchronizer` and `Verifier`, `RevocationStore`, Noise nonces.
