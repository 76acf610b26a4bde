-------------------------- MODULE CommitmentLedger --------------------------
(***************************************************************************)
(* What a channel promises about its commitment transactions, whatever     *)
(* connections and programs do: each node collects ctxs the other node     *)
(* signed for it, one per ctn and without gaps; a new one is signed only   *)
(* when all before it are revoked but the last; and no ctx creates or      *)
(* destroys money, or lets a node spend what it does not own.              *)
(***************************************************************************)
EXTENDS Naturals, FiniteSets, FiniteSetsExt

CONSTANTS
    Node,       \* the two nodes
    Capacity,   \* what is in the channel
    Htlcs,      \* the htlcs, as <<id, amount>>, that a node may propose
    Rates       \* the feerates

VARIABLES
    ctxs,       \* ctxs[q]: the ctxs that were signed for q, after that of the funding
    revoked     \* revoked[q]: q has revoked its ctxs with a smaller ctn

vars == <<ctxs, revoked>>

Amount(h) == h[2]

InHtlcs(tx)   == MapThenSumSet(LAMBDA q : MapThenSumSet(Amount, tx.htlcs[q]), Node)
InBalances(tx) == MapThenSumSet(LAMBDA q : tx.balance[q], Node)

\* Whether tx is a ctx that can be signed for q with this ctn
IsCtx(tx, q, ctn) ==
    /\ tx \in [ owner   : {q},
               ctn     : {ctn},
               rate    : Rates,
               htlcs   : [Node -> SUBSET Htlcs],
               balance : [Node -> 0 .. Capacity] ]
    /\ InHtlcs(tx) + InBalances(tx) = Capacity

Init ==
    /\ ctxs = [q \in Node |-> {}]
    /\ revoked = [q \in Node |-> 0]

\* The other node signs q's next ctx.
Sign(q) ==
    /\ Cardinality(ctxs[q]) = revoked[q]
    /\ \E tx \in ctxs'[q] :
          /\ IsCtx(tx, q, revoked[q] + 1)
          /\ ctxs' = [ctxs EXCEPT ![q] = @ \cup {tx}]
    /\ UNCHANGED revoked

\* q revokes a ctx, as it holds the next one.
Revoke(q) ==
    /\ revoked[q] < Cardinality(ctxs[q])
    /\ revoked' = [revoked EXCEPT ![q] = @ + 1]
    /\ UNCHANGED ctxs

\* On receiving a signature a node may revoke and sign in one go.
RevokeAndSign(q, p) ==
    /\ revoked[q] < Cardinality(ctxs[q])
    /\ revoked' = [revoked EXCEPT ![q] = @ + 1]
    /\ Cardinality(ctxs[p]) = revoked[p]
    /\ \E tx \in ctxs'[p] :
          /\ IsCtx(tx, p, revoked[p] + 1)
          /\ ctxs' = [ctxs EXCEPT ![p] = @ \cup {tx}]

Next ==
    \/ \E q \in Node : Sign(q) \/ Revoke(q)
    \/ \E q, p \in Node : q # p /\ RevokeAndSign(q, p)

Spec == Init /\ [][Next]_vars

=============================================================================
