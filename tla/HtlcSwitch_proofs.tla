-------------------------- MODULE HtlcSwitch_proofs --------------------------
(***************************************************************************)
(* What the htlc switch promises, for any number of peers, channels and    *)
(* htlcs, and for every order of events.                                   *)
(***************************************************************************)
EXTENDS HtlcSwitch, FiniteSetTheorems, TLAPS

-----------------------------------------------------------------------------
(* Types *)

Resolutions == {"none", "WAITING", "COMPLETE", "SETTLING", "FAILED", "EXPIRED"}
Sets == [resolution : Resolutions, htlcs : SUBSET Htlc, parent : BOOLEAN]

TypeOK ==
    /\ kind \in Kinds
    /\ chan \in [Peer -> {"open", "down", "closed", "redeemed"}]
    /\ block \in {"fresh", "stale", "near"}
    /\ htlc \in [Htlc -> {"none", "added", "settled", "failed"}]
    /\ unfulfilled \in SUBSET Htlc
    /\ old \in SUBSET Htlc
    /\ sets \in [PaymentKey -> Sets]
    /\ preimage \in {"unknown", "known", "public"}
    /\ info \in {"unpaid", "paid", "none"}
    /\ session \in {"none", "scheduled", "running", "funded"}
    /\ down \in [Down -> {"none", "sent", "claimed", "settled", "failed"}]
    /\ active \in SUBSET (Down \cup {"none"})
    /\ failure \in BOOLEAN
    /\ iter \in [peer : Peer \cup {"none"}, todo : SUBSET PaymentKey, seen : [PaymentKey -> Sets]]
    /\ left \in [disconnects : Nat, crashes : Nat, closes : Nat]
    /\ lost \in BOOLEAN
    /\ alarms \in SUBSET {"switch", "cleanup"}

LEMMA NoSetType == NoSet \in Sets
  BY DEF NoSet, Sets, Resolutions

LEMMA IdleType ==
    Idle \in [peer : Peer \cup {"none"}, todo : SUBSET PaymentKey, seen : [PaymentKey -> Sets]]
  BY NoSetType DEF Idle

LEMMA KeyOfType ==
    ASSUME NEW h \in Htlc
    PROVE  KeyOf(h) \in PaymentKey
  BY DEF KeyOf, PaymentKey

LEMMA ResolveType ==
    ASSUME sets \in [PaymentKey -> Sets], NEW k \in PaymentKey, NEW r \in Resolutions
    PROVE  Resolve(k, r) \in [PaymentKey -> Sets]
  BY DEF Resolve, Sets

LEMMA WithoutType ==
    ASSUME NEW new \in [PaymentKey -> Sets], NEW k \in PaymentKey, NEW gone
    PROVE  Without(new, k, gone) \in [PaymentKey -> Sets]
  BY DEF Without, Sets

LEMMA WithParentType ==
    ASSUME sets \in [PaymentKey -> Sets], NEW k \in PaymentKey
    PROVE  [sets EXCEPT ![k].parent = TRUE] \in [PaymentKey -> Sets]
  BY DEF Sets

LEMMA MovedType ==
    ASSUME sets \in [PaymentKey -> Sets], iter.seen \in [PaymentKey -> Sets], NEW k \in PaymentKey
    PROVE  Moved(k) \in [PaymentKey -> Sets]
<1> SUFFICES ASSUME NEW l \in PaymentKey PROVE Moved(k)[l] \in Sets
  BY DEF Moved
<1>1. CASE l = k
  <2>1. Moved(k)[l] = [sets[k] EXCEPT !.htlcs = {}]
    BY <1>1 DEF Moved
  <2>2. sets[k] \in Sets
    OBVIOUS
  <2> QED BY <2>1, <2>2 DEF Sets
<1>2. CASE l # k /\ l = Whole
  BY <1>2 DEF Moved, Sets, Resolutions
<1>3. CASE l # k /\ l # Whole
  BY <1>3 DEF Moved
<1> QED BY <1>1, <1>2, <1>3

LEMMA CollectedType ==
    ASSUME sets \in [PaymentKey -> Sets], unfulfilled \in SUBSET Htlc, NEW p
    PROVE  Collected(p) \in [PaymentKey -> Sets]
  BY DEF Collected, Unprocessed, Sets, Resolutions

LEMMA EndTurnType ==
    ASSUME TypeOK, NEW new \in [PaymentKey -> Sets], NEW k \in PaymentKey, EndTurn(k, new)
    PROVE  /\ sets' \in [PaymentKey -> Sets]
           /\ iter' \in [peer : Peer \cup {"none"}, todo : SUBSET PaymentKey, seen : [PaymentKey -> Sets]]
           /\ active' \in SUBSET (Down \cup {"none"})
           /\ failure' \in BOOLEAN
  BY NoSetType, IdleType DEF TypeOK, EndTurn, NoForwarding

LEMMA RaisedType ==
    ASSUME TypeOK, NEW new \in [PaymentKey -> Sets], NEW p, Raised(p, new)
    PROVE  /\ sets' \in [PaymentKey -> Sets]
           /\ iter' \in [peer : Peer \cup {"none"}, todo : SUBSET PaymentKey, seen : [PaymentKey -> Sets]]
           /\ active' \in SUBSET (Down \cup {"none"})
           /\ failure' \in BOOLEAN
           /\ chan' \in [Peer -> {"open", "down", "closed", "redeemed"}]
           /\ alarms' \in SUBSET {"switch", "cleanup"}
  BY IdleType DEF TypeOK, Raised

LEMMA NewResolutionType ==
    ASSUME TypeOK, NEW k \in PaymentKey,
           Turn(k, "fail") \/ Turn(k, "expire") \/ Turn(k, "fail again")
    PROVE  NewResolution(k) \in Resolutions
  BY DEF TypeOK, NewResolution, Turn, Resolutions, Sets

LEMMA TypeInit == Init => TypeOK
<1> SUFFICES ASSUME Init PROVE TypeOK OBVIOUS
<1>1. sets \in [PaymentKey -> Sets] /\ htlc \in [Htlc -> {"none", "added", "settled", "failed"}]
  BY NoSetType DEF Init
<1>2. left \in [disconnects : Nat, crashes : Nat, closes : Nat]
  BY BoundsAssumption DEF Init
<1>3. active \in SUBSET (Down \cup {"none"})
  BY DEF Init, NoForwarding
<1> QED BY <1>1, <1>2, <1>3, IdleType DEF Init, TypeOK

LEMMA TypeStep == TypeOK /\ [Next]_vars => TypeOK'
<1> SUFFICES ASSUME TypeOK, [Next]_vars PROVE TypeOK' OBVIOUS
<1> USE DEF TypeOK
<1>1. ASSUME NEW p \in Peer, StartIteration(p) PROVE TypeOK'
  <2>1. Collected(p) \in [PaymentKey -> Sets]
    BY CollectedType
  <2>2. /\ sets' \in [PaymentKey -> Sets]
        /\ iter' \in [peer : Peer \cup {"none"}, todo : SUBSET PaymentKey, seen : [PaymentKey -> Sets]]
        /\ active' \in SUBSET (Down \cup {"none"})
        /\ failure' \in BOOLEAN
        /\ chan' \in [Peer -> {"open", "down", "closed", "redeemed"}]
        /\ alarms' \in SUBSET {"switch", "cleanup"}
    <3>1. CASE \E h \in Refused(p) : htlc[h] # "added"
      BY <1>1, <3>1, RaisedType DEF StartIteration
    <3>2. CASE ~ \E h \in Refused(p) : htlc[h] # "added"
      <4>1. sets' = Collected(p) /\ UNCHANGED <<chan, alarms, active, failure>>
        BY <1>1, <3>2 DEF StartIteration
      <4>2. \/ iter' = Idle
            \/ \E todo \in SUBSET PaymentKey : iter' = [peer |-> p, todo |-> todo, seen |-> Collected(p)]
        BY <1>1, <3>2 DEF StartIteration
      <4> QED BY <2>1, <4>1, <4>2, IdleType
    <3> QED BY <3>1, <3>2
  <2>3. unfulfilled' \in SUBSET Htlc /\ htlc' \in [Htlc -> {"none", "added", "settled", "failed"}]
    BY <1>1 DEF StartIteration
  <2> QED BY <1>1, <2>2, <2>3 DEF StartIteration, around
<1>2. ASSUME NEW k \in PaymentKey, FailSet(k) PROVE TypeOK'
  <2>1. Resolve(k, NewResolution(k)) \in [PaymentKey -> Sets]
    BY <1>2, ResolveType, NewResolutionType DEF FailSet
  <2>2. Without(Resolve(k, NewResolution(k)), k, mine(k)) \in [PaymentKey -> Sets]
    BY <2>1, WithoutType
  <2>3. /\ sets' \in [PaymentKey -> Sets]
        /\ iter' \in [peer : Peer \cup {"none"}, todo : SUBSET PaymentKey, seen : [PaymentKey -> Sets]]
        /\ active' \in SUBSET (Down \cup {"none"})
        /\ failure' \in BOOLEAN
        /\ chan' \in [Peer -> {"open", "down", "closed", "redeemed"}]
        /\ alarms' \in SUBSET {"switch", "cleanup"}
    BY <1>2, <2>1, <2>2, RaisedType, EndTurnType DEF FailSet
  <2>4. htlc' \in [Htlc -> {"none", "added", "settled", "failed"}]
    <3>1. \E some \in SUBSET mine(k) :
              htlc' = [h \in Htlc |-> IF h \in some THEN "failed" ELSE htlc[h]]
      BY <1>2 DEF FailSet
    <3> QED BY <3>1
  <2>5. UNCHANGED <<around, unfulfilled, preimage, info, session, down>>
    BY <1>2 DEF FailSet
  <2> QED BY <2>3, <2>4, <2>5 DEF around
<1>3. ASSUME NEW k \in PaymentKey, FulfillSet(k) PROVE TypeOK'
  <2>1. Resolve(k, "SETTLING") \in [PaymentKey -> Sets]
    BY ResolveType DEF Resolutions
  <2>2. Without(Resolve(k, "SETTLING"), k, mine(k)) \in [PaymentKey -> Sets]
    BY <2>1, WithoutType
  <2>3. /\ sets' \in [PaymentKey -> Sets]
        /\ iter' \in [peer : Peer \cup {"none"}, todo : SUBSET PaymentKey, seen : [PaymentKey -> Sets]]
        /\ active' \in SUBSET (Down \cup {"none"})
        /\ failure' \in BOOLEAN
        /\ chan' \in [Peer -> {"open", "down", "closed", "redeemed"}]
        /\ alarms' \in SUBSET {"switch", "cleanup"}
    BY <1>3, <2>1, <2>2, RaisedType, EndTurnType DEF FulfillSet
  <2>4. htlc' \in [Htlc -> {"none", "added", "settled", "failed"}] /\ preimage' \in {"unknown", "known", "public"}
    BY <1>3 DEF FulfillSet, Revealed
  <2> QED BY <1>3, <2>3, <2>4 DEF FulfillSet, around, Paid
<1>4. ASSUME NEW k \in PaymentKey, CallBack(k) PROVE TypeOK'
  <2>1. Resolve(k, "SETTLING") \in [PaymentKey -> Sets]
    BY ResolveType DEF Resolutions
  <2>2. /\ sets' \in [PaymentKey -> Sets]
        /\ iter' \in [peer : Peer \cup {"none"}, todo : SUBSET PaymentKey, seen : [PaymentKey -> Sets]]
        /\ active' \in SUBSET (Down \cup {"none"})
        /\ failure' \in BOOLEAN
    BY <1>4, <2>1, EndTurnType DEF CallBack, resolution_called_back
  <2> QED BY <1>4, <2>2 DEF CallBack, around
<1>5. ASSUME NEW k \in PaymentKey, Completed(k) PROVE TypeOK'
  <2>1. Resolve(k, "COMPLETE") \in [PaymentKey -> Sets]
    BY ResolveType DEF Resolutions
  <2>2. [sets EXCEPT ![k].parent = TRUE] \in [PaymentKey -> Sets]
    BY WithParentType
  <2>3. /\ sets' \in [PaymentKey -> Sets]
        /\ iter' \in [peer : Peer \cup {"none"}, todo : SUBSET PaymentKey, seen : [PaymentKey -> Sets]]
        /\ active' \in SUBSET (Down \cup {"none"})
        /\ failure' \in BOOLEAN
    BY <1>5, <2>1, <2>2, EndTurnType DEF Completed
  <2> QED BY <1>5, <2>3 DEF Completed, around
<1>6. ASSUME NEW k \in PaymentKey, MoveToParent(k) PROVE TypeOK'
  <2>1. Moved(k) \in [PaymentKey -> Sets]
    BY MovedType
  <2>2. /\ sets' \in [PaymentKey -> Sets]
        /\ iter' \in [peer : Peer \cup {"none"}, todo : SUBSET PaymentKey, seen : [PaymentKey -> Sets]]
        /\ active' \in SUBSET (Down \cup {"none"})
        /\ failure' \in BOOLEAN
    BY <1>6, <2>1, EndTurnType DEF MoveToParent
  <2> QED BY <1>6, <2>2 DEF MoveToParent, around
<1>7. CASE Forwarding
  <2>1. CASE Relay
    <3>1. failure' \in BOOLEAN /\ down' \in [Down -> {"none", "sent", "claimed", "settled", "failed"}]
      BY <2>1 DEF Relay
    <3>2. active' \in SUBSET (Down \cup {"none"})
      BY <2>1 DEF Relay
    <3> QED BY <2>1, <3>1, <3>2 DEF Relay, around, switch
  <2>5. CASE StartPaying
    BY <2>5 DEF StartPaying, around, switch
  <2>2. CASE GiveUp
    BY <2>2 DEF GiveUp, around, switch
  <2>3. ASSUME NEW d \in Down, Pay(d) \/ Claim(d) \/ Fulfilled(d) PROVE TypeOK'
    <3>1. active' \in SUBSET (Down \cup {"none"})
      BY <2>3 DEF Pay, Claim, Fulfilled
    <3>2. down' \in [Down -> {"none", "sent", "claimed", "settled", "failed"}]
      BY <2>3 DEF Pay, Claim, Fulfilled
    <3>3. preimage' \in {"unknown", "known", "public"} /\ session' \in {"none", "scheduled", "running", "funded"}
      BY <2>3 DEF Pay, Claim, Fulfilled
    <3>4. UNCHANGED <<around, switch, info, failure>>
      BY <2>3 DEF Pay, Claim, Fulfilled
    <3> QED BY <3>1, <3>2, <3>3, <3>4 DEF around, switch
  <2>4. ASSUME NEW d \in Down, Failed(d) PROVE TypeOK'
    <3>1. failure' \in BOOLEAN
      BY <2>4 DEF Failed
    <3> QED BY <2>4, <3>1 DEF Failed, around, switch, NoForwarding
  <2> QED BY <1>7, <2>1, <2>2, <2>3, <2>4, <2>5 DEF Forwarding
<1>8. CASE Holding
  <2>1. WholeFails \in [PaymentKey -> Sets]
    BY ResolveType DEF WholeFails, PaymentKey, Resolutions
  <2>2. /\ preimage' \in {preimage, "known", "public"} /\ info' \in {info, "none"}
        /\ session' \in {session, "none", "funded"}
    BY <1>8 DEF Holding, SettleHoldInvoice, CancelHoldInvoice, HoldInvoiceCallback, FailSwap, SwapClaimed
  <2>3. sets' \in {sets, WholeFails}
    BY <1>8 DEF Holding, SettleHoldInvoice, CancelHoldInvoice, HoldInvoiceCallback, FailSwap, SwapClaimed, switch
  <2>4. UNCHANGED <<around, chan, htlc, unfulfilled, iter, alarms, down, active, failure>>
    BY <1>8 DEF Holding, SettleHoldInvoice, CancelHoldInvoice, HoldInvoiceCallback, FailSwap, SwapClaimed, switch
  <2> QED BY <2>1, <2>2, <2>3, <2>4 DEF around
<1>9. ASSUME NEW h \in Htlc, Arrive(h) \/ ClaimOnchain(h) \/ TimeoutOnchain(h) PROVE TypeOK'
  <2>1. CASE Arrive(h)
    BY <1>9, <2>1 DEF Arrive, around, payment
  <2>2. CASE ClaimOnchain(h)
    BY <1>9, <2>2 DEF ClaimOnchain, around
  <2>3. CASE TimeoutOnchain(h)
    BY <1>9, <2>3 DEF TimeoutOnchain, around, payment
  <2> QED BY <1>9, <2>1, <2>2, <2>3
<1>10. CASE NewTip \/ TimePasses
  <2>1. block' \in {"fresh", "stale", "near"} /\ old' \in SUBSET Htlc
    BY <1>10 DEF NewTip, TimePasses
  <2>2. UNCHANGED <<kind, left, lost, payment, switch>>
    BY <1>10 DEF NewTip, TimePasses
  <2> QED BY <2>1, <2>2 DEF payment, switch
<1>11. ASSUME NEW p \in Peer, Disconnect(p) \/ Reconnect(p) \/ ForceClose(p) PROVE TypeOK'
  BY <1>11 DEF Disconnect, Reconnect, ForceClose, around, payment
<1>12. ASSUME NEW p \in Peer, Redeemed(p) PROVE TypeOK'
  <2>1. sets' \in [PaymentKey -> Sets]
    <3> DEFINE rest == [k \in PaymentKey |->
                           [sets[k] EXCEPT !.htlcs = @ \ {h \in Htlc : PeerOf[h] = p}]]
    <3>1. rest \in [PaymentKey -> Sets]
      BY DEF Sets
    <3> QED BY <1>12, <3>1, NoSetType DEF Redeemed
  <2>2. /\ chan' = [chan EXCEPT ![p] = "redeemed"] /\ alarms' \in {alarms, alarms \cup {"cleanup"}}
        /\ active' \in {active, NoForwarding} /\ failure' \in BOOLEAN
    BY <1>12 DEF Redeemed
  <2>3. UNCHANGED <<around, htlc, unfulfilled, iter, preimage, info, session, down>>
    BY <1>12 DEF Redeemed
  <2> QED BY <2>1, <2>2, <2>3 DEF around, NoForwarding
<1>13. ASSUME Restarted, htlc' \in [Htlc -> {"none", "added", "settled", "failed"}], UNCHANGED unfulfilled,
              sets' \in [PaymentKey -> Sets], preimage' \in {"unknown", "known", "public"},
              info' \in {"unpaid", "paid", "none"}, active' \in SUBSET (Down \cup {"none"}),
              down' \in [Down -> {"none", "sent", "claimed", "settled", "failed"}]
       PROVE  TypeOK'
  <2>1. lost' \in BOOLEAN
    BY <1>13 DEF Restarted
  <2> QED BY <1>13, <2>1, IdleType DEF Restarted
<1>14. CASE Crash
  BY <1>13, <1>14 DEF Crash
<1>15. ASSUME NEW p \in Peer, CrashInCollect(p) PROVE TypeOK'
  BY <1>13, <1>15 DEF CrashInCollect
<1>16. ASSUME NEW k \in PaymentKey, CrashInFail(k) PROVE TypeOK'
  <2>1. Resolve(k, NewResolution(k)) \in [PaymentKey -> Sets]
    BY <1>16, ResolveType, NewResolutionType DEF CrashInFail
  <2> QED BY <1>13, <1>16, <2>1 DEF CrashInFail
<1>17. ASSUME NEW k \in PaymentKey, CrashInFulfill(k) PROVE TypeOK'
  <2>1. Resolve(k, "SETTLING") \in [PaymentKey -> Sets]
    BY ResolveType DEF Resolutions
  <2> QED BY <1>13, <1>17, <2>1 DEF CrashInFulfill, Paid, Revealed
<1>18. ASSUME NEW d \in Down, CrashInForwarding(d) PROVE TypeOK'
  BY <1>13, <1>18 DEF CrashInForwarding
<1>19. CASE UNCHANGED vars
  BY <1>19 DEF vars
<1> QED
  BY <1>1, <1>2, <1>3, <1>4, <1>5, <1>6, <1>7, <1>8, <1>9, <1>10, <1>11, <1>12, <1>14, <1>15, <1>16,
     <1>17, <1>18, <1>19 DEF Next, SetTurn

-----------------------------------------------------------------------------
(* What the steps do, to one set and to one htlc at a time *)

Closed(p) == chan[p] \in {"closed", "redeemed"}
ClosedKept == \A p \in Peer : Closed(p)' <=> Closed(p)
IterShrinks(k) == \A l \in iter'.todo : l \in iter.todo /\ l # k /\ iter'.seen[l] = iter.seen[l]

\* The snapshot of an iteration still agrees with the sets that are to be looked at.
IterOK ==
    \A k \in iter.todo :
        /\ iter.seen[k].resolution = sets[k].resolution
        /\ iter.seen[k].resolution # "none"
        /\ iter.seen[k].parent = sets[k].parent
        /\ iter.seen[k].htlcs # {} /\ iter.seen[k].htlcs \subseteq sets[k].htlcs

LEMMA ResolveFacts ==
    ASSUME sets \in [PaymentKey -> Sets], NEW k \in PaymentKey, NEW r
    PROVE  /\ \A l \in PaymentKey : l # k => Resolve(k, r)[l] = sets[l]
           /\ Resolve(k, r)[k].resolution = r
           /\ Resolve(k, r)[k].htlcs = sets[k].htlcs
           /\ Resolve(k, r)[k].parent = sets[k].parent
  BY DEF Resolve, Sets

LEMMA WithoutFacts ==
    ASSUME NEW new \in [PaymentKey -> Sets], NEW k \in PaymentKey, NEW gone
    PROVE  /\ \A l \in PaymentKey : l # k => Without(new, k, gone)[l] = new[l]
           /\ Without(new, k, gone)[k].resolution = new[k].resolution
           /\ Without(new, k, gone)[k].htlcs = new[k].htlcs \ gone
           /\ Without(new, k, gone)[k].parent = new[k].parent
  BY DEF Without, Sets

LEMMA EndTurnFacts ==
    ASSUME TypeOK, NEW new \in [PaymentKey -> Sets], NEW k \in PaymentKey, EndTurn(k, new)
    PROVE  /\ \A l \in PaymentKey : l # k => sets'[l] = new[l]
           /\ new[k].htlcs = {} => sets'[k] = NoSet
           /\ new[k].htlcs # {} => sets'[k] = new[k]
           /\ IterShrinks(k)
           /\ failure' => failure /\ ~(k = Whole /\ new[k].htlcs = {})
  BY NoSetType DEF TypeOK, EndTurn, IterShrinks, Idle

\* An iteration starts, or finds that an htlc is to be failed twice.
StartRaises(p) ==
    /\ \E h \in Refused(p) : htlc[h] # "added"
    /\ UNCHANGED <<sets, htlc, failure>>
    /\ iter' = Idle
    /\ unfulfilled' \subseteq unfulfilled
    /\ ClosedKept

StartCollects(p) ==
    /\ UNCHANGED <<chan, failure, alarms>>
    /\ unfulfilled' \subseteq unfulfilled
    /\ \A h \in Htlc :
           \/ htlc'[h] = htlc[h]
           \/ /\ h \in unfulfilled /\ h \notin unfulfilled'
              /\ htlc[h] = "added" /\ htlc'[h] = "failed"
              /\ \A l \in PaymentKey : h \in sets'[l].htlcs => h \in sets[l].htlcs
    /\ \A l \in PaymentKey :
           \/ sets'[l] = sets[l]
           \/ /\ sets[l].resolution \in {"none", "WAITING"} /\ sets'[l].resolution = "WAITING"
              /\ sets'[l].parent = sets[l].parent
              /\ sets[l].htlcs \subseteq sets'[l].htlcs /\ sets'[l].htlcs # {}
              /\ \A h \in sets'[l].htlcs :
                     h \notin sets[l].htlcs =>
                         /\ h \in unfulfilled /\ h \notin unfulfilled'
                         /\ PeerOf[h] = p /\ KeyOf(h) = l /\ htlc'[h] = htlc[h]
    /\ \A l \in iter'.todo : iter'.seen[l] = sets'[l] /\ sets'[l].resolution # "none"

LEMMA StartEffect ==
    ASSUME TypeOK, NEW p \in Peer, StartIteration(p)
    PROVE  /\ UNCHANGED <<kind, block, preimage, info, session, down>>
           /\ chan[p] = "open"
           /\ StartRaises(p) \/ StartCollects(p)
<1> USE DEF TypeOK
<1>1. UNCHANGED <<kind, block, preimage, info, session, down>> /\ chan[p] = "open"
  BY DEF StartIteration, CanSend, around
<1>2. CASE \E h \in Refused(p) : htlc[h] # "added"
  <2>1. /\ \E h \in Refused(p) : unfulfilled' = unfulfilled \ {h}
        /\ Raised(p, sets)
        /\ UNCHANGED htlc
    BY <1>2 DEF StartIteration
  <2>2. ClosedKept
    BY <1>1, <2>1 DEF Raised, ClosedKept, Closed
  <2> QED BY <1>1, <1>2, <2>1, <2>2 DEF StartRaises, Raised
<1>3. CASE ~ \E h \in Refused(p) : htlc[h] # "added"
  <2>1. /\ sets' = Collected(p)
        /\ htlc' = [h \in Htlc |-> IF h \in Refused(p) THEN "failed" ELSE htlc[h]]
        /\ unfulfilled' = unfulfilled \ Unprocessed(p)
        /\ UNCHANGED <<chan, failure, alarms>>
    BY <1>3 DEF StartIteration
  <2>2. \/ iter' = Idle
        \/ /\ iter'.seen = Collected(p)
           /\ \A k \in iter'.todo : k \in PaymentKey /\ Verdict(k, Collected(p)[k]) # "nothing"
    BY <1>3 DEF StartIteration
  <2>3. \A l \in iter'.todo : iter'.seen[l] = sets'[l] /\ sets'[l].resolution # "none"
    <3>1. ASSUME NEW l \in PaymentKey, NEW s, s.resolution = "none" PROVE Verdict(l, s) = "nothing"
      BY <3>1 DEF Verdict
    <3> QED BY <2>1, <2>2, <3>1 DEF Idle
  <2>4. ASSUME NEW l \in PaymentKey
        PROVE  \/ sets'[l] = sets[l]
               \/ /\ sets[l].resolution \in {"none", "WAITING"} /\ sets'[l].resolution = "WAITING"
                  /\ sets'[l].parent = sets[l].parent
                  /\ sets[l].htlcs \subseteq sets'[l].htlcs /\ sets'[l].htlcs # {}
                  /\ \A h \in sets'[l].htlcs :
                         h \notin sets[l].htlcs => h \in Unprocessed(p) \ Refused(p) /\ KeyOf(h) = l
    <3> DEFINE new == {h \in Unprocessed(p) \ Refused(p) : KeyOf(h) = l}
    <3>1. sets'[l] = IF new = {} THEN sets[l]
                     ELSE [sets[l] EXCEPT !.resolution = IF @ = "none" THEN "WAITING" ELSE @,
                                          !.htlcs = @ \cup new]
      BY <2>1 DEF Collected
    <3>2. new # {} => sets[l].resolution \in {"none", "WAITING"}
      BY DEF Refused, check_unfulfilled_htlc, accepts
    <3>3. sets[l] \in Sets
      OBVIOUS
    <3> HIDE DEF new
    <3>4. CASE new # {}
      <4>1. sets'[l] = [sets[l] EXCEPT !.resolution = IF @ = "none" THEN "WAITING" ELSE @,
                                       !.htlcs = @ \cup new]
        BY <3>1, <3>4
      <4>2. /\ sets'[l].resolution = "WAITING" /\ sets'[l].parent = sets[l].parent
            /\ sets'[l].htlcs = sets[l].htlcs \cup new
        BY <3>2, <3>3, <3>4, <4>1 DEF Sets
      <4> QED BY <3>2, <3>4, <4>2 DEF new
    <3> QED BY <3>1, <3>4
  <2>5. Refused(p) \subseteq Unprocessed(p) /\ Unprocessed(p) \subseteq unfulfilled
        /\ \A h \in Unprocessed(p) : PeerOf[h] = p
    BY DEF Refused, Unprocessed
  <2>6. ASSUME NEW h \in Htlc
        PROVE  \/ htlc'[h] = htlc[h]
               \/ /\ h \in unfulfilled /\ h \notin unfulfilled'
                  /\ htlc[h] = "added" /\ htlc'[h] = "failed"
                  /\ \A l \in PaymentKey : h \in sets'[l].htlcs => h \in sets[l].htlcs
    BY <1>3, <2>1, <2>4, <2>5
  <2>7. ASSUME NEW h \in Unprocessed(p) \ Refused(p) PROVE htlc'[h] = htlc[h]
    BY <2>1, <2>5
  <2> QED BY <1>1, <2>1, <2>3, <2>4, <2>5, <2>6, <2>7 DEF StartCollects
<1> QED BY <1>1, <1>2, <1>3

\* What the verdict on a set says of it
Open(s) == s.resolution \in {"WAITING", "COMPLETE"} /\ ~s.parent
FullAt(k, s) == k = Whole /\ block = "fresh" /\ (s.resolution = "WAITING" => Amount(s) >= Total)

LEMMA VerdictFacts ==
    ASSUME TypeOK, NEW k \in PaymentKey, NEW s \in Sets
    PROVE  /\ Verdict(k, s) \in {"fail", "expire", "fail again"} =>
                  \/ s.resolution \in {"WAITING", "COMPLETE", "FAILED", "EXPIRED"}
                  \/ s.resolution = "SETTLING" /\ failure
           /\ Verdict(k, s) = "fail again" => s.resolution \in {"FAILED", "EXPIRED"}
           /\ Verdict(k, s) = "settle" =>
                  /\ preimage # "unknown"
                  /\ \/ s.resolution = "SETTLING"
                     \/ Open(s) /\ FullAt(k, s) /\ kind \notin Forwarded /\ info # "none"
           /\ Verdict(k, s) = "forward" =>
                  /\ Open(s) /\ kind \in Forwarded
                  /\ kind = "trampoline" => FullAt(k, s)
           /\ Verdict(k, s) = "call back" =>
                  Open(s) /\ FullAt(k, s) /\ kind = "swap" /\ info # "none" /\ preimage = "unknown"
           /\ Verdict(k, s) = "complete" =>
                  Open(s) /\ FullAt(k, s) /\ kind = "held" /\ s.resolution = "WAITING" /\ preimage = "unknown"
           /\ Verdict(k, s) = "set parent" => Open(s) /\ k # Whole
           /\ Verdict(k, s) = "move" => s.parent
<1> DEFINE v == Verdict(k, s)
<1>1. s.resolution \in Resolutions /\ s.parent \in BOOLEAN
  BY DEF Sets
<1>2. v # "nothing" /\ final_state(s) = "open" => v = open_state(k, s) /\ Open(s)
  BY <1>1 DEF Verdict, final_state, Open, Resolutions
<1>3. v # "nothing" /\ final_state(s) # "open" => v = final_state(s)
  BY DEF Verdict
<1>4. CASE final_state(s) # "open"
  BY <1>1, <1>3, <1>4 DEF Verdict, final_state, Resolutions
<1>5. CASE v # "nothing" /\ final_state(s) = "open"
  <2>1. block \in {"fresh", "stale", "near"}
    BY DEF TypeOK
  <2> QED BY <1>1, <1>2, <1>5, <2>1 DEF open_state, Open, FullAt, Forwarded, FirstStage, Enough
<1> QED BY <1>3, <1>4, <1>5

\* A set fails: its resolution is set, and some of its htlcs are failed.
Fails(k) ==
    /\ UNCHANGED <<unfulfilled, preimage, info>>
    /\ \/ sets[k].resolution \in {"WAITING", "COMPLETE", "FAILED", "EXPIRED"}
       \/ sets[k].resolution = "SETTLING" /\ failure
    /\ \A l \in PaymentKey : l # k => sets'[l] = sets[l]
    /\ \/ sets'[k] = NoSet
       \/ /\ sets'[k].resolution \in {"FAILED", "EXPIRED"}
          /\ sets'[k].htlcs \subseteq sets[k].htlcs /\ sets'[k].parent = sets[k].parent
    /\ \A h \in Htlc :
           \/ htlc'[h] = htlc[h]
           \/ h \in sets[k].htlcs /\ htlc[h] = "added" /\ htlc'[h] = "failed"
    /\ sets[k].htlcs # {} /\ sets'[k] # NoSet => sets'[k].htlcs # {}
    /\ IterShrinks(k)
    /\ failure' => failure /\ (k = Whole => sets'[k] # NoSet)
    /\ ClosedKept

LEMMA FailSetEffect ==
    ASSUME TypeOK, IterOK, NEW k \in PaymentKey, FailSet(k)
    PROVE  Fails(k) /\ UNCHANGED <<kind, block, session, down>>
<1> USE DEF TypeOK
<1> DEFINE new == Resolve(k, NewResolution(k))
<1>1. k \in iter.todo /\ Verdict(k, iter.seen[k]) \in {"fail", "expire", "fail again"}
  BY DEF FailSet, Turn
<1>2. /\ NewResolution(k) \in {"FAILED", "EXPIRED"} /\ NewResolution(k) \in Resolutions
      /\ \/ iter.seen[k].resolution \in {"WAITING", "COMPLETE", "FAILED", "EXPIRED"}
         \/ iter.seen[k].resolution = "SETTLING" /\ failure
  <2>1. iter.seen[k] \in Sets
    OBVIOUS
  <2> HIDE DEF TypeOK
  <2> QED BY <1>1, <2>1, VerdictFacts DEF NewResolution, Resolutions
<1>3. new \in [PaymentKey -> Sets] /\ Without(new, k, mine(k)) \in [PaymentKey -> Sets]
  BY <1>2, ResolveType, WithoutType
<1>4. sets[k].resolution = iter.seen[k].resolution
  BY <1>1 DEF IterOK
<1>5. UNCHANGED <<kind, block, unfulfilled, preimage, info, session, down>>
  BY DEF FailSet, around
<1>6. mine(k) \subseteq sets[k].htlcs
  BY DEF mine, Own
<1>7. CASE \E h \in mine(k) : htlc[h] = "settled"
  <2>1. Raised(iter.peer, new)
        /\ \E some \in SUBSET {h \in mine(k) : htlc[h] = "added"} :
              htlc' = [h \in Htlc |-> IF h \in some THEN "failed" ELSE htlc[h]]
    BY <1>7 DEF FailSet
  <2>2. ClosedKept
    BY <2>1, <1>7 DEF Raised, ClosedKept, Closed, mine, CanSend
  <2>3. sets' = new /\ iter' = Idle /\ failure' = failure
    BY <2>1 DEF Raised
  <2> QED
    BY <1>2, <1>4, <1>5, <1>6, <2>1, <2>2, <2>3, ResolveFacts DEF Fails, IterShrinks, Idle, NoSet
<1>8. CASE ~ \E h \in mine(k) : htlc[h] = "settled"
  <2>1. /\ htlc' = [h \in Htlc |-> IF h \in {h1 \in mine(k) : htlc[h1] = "added"} THEN "failed" ELSE htlc[h]]
        /\ EndTurn(k, Without(new, k, mine(k)))
        /\ UNCHANGED chan
    BY <1>8 DEF FailSet
  <2>2. ClosedKept
    BY <2>1 DEF ClosedKept, Closed
  <2>3. /\ \A l \in PaymentKey : l # k => sets'[l] = new[l]
        /\ new[k].htlcs \ mine(k) = {} => sets'[k] = NoSet
        /\ new[k].htlcs \ mine(k) # {} =>
              /\ sets'[k].resolution = new[k].resolution /\ sets'[k].parent = new[k].parent
              /\ sets'[k].htlcs = new[k].htlcs \ mine(k)
        /\ IterShrinks(k)
        /\ failure' => failure /\ ~(k = Whole /\ new[k].htlcs \ mine(k) = {})
    BY <1>3, <2>1, EndTurnFacts, WithoutFacts
  <2> QED
    BY <1>2, <1>4, <1>5, <1>6, <2>1, <2>2, <2>3, ResolveFacts DEF Fails, NoSet
<1> QED BY <1>5, <1>7, <1>8

\* What a crash leaves
Restarts ==
    /\ UNCHANGED <<kind, block, down, failure>>
    /\ session' \in {session, "none"}
    /\ iter' = Idle
    /\ ClosedKept

LEMMA RestartedEffect ==
    ASSUME TypeOK, Restarted, UNCHANGED down
    PROVE  Restarts
  BY DEF TypeOK, Restarted, Restarts, ClosedKept, Closed

LEMMA CrashInFailEffect ==
    ASSUME TypeOK, IterOK, NEW k \in PaymentKey, CrashInFail(k)
    PROVE  Fails(k) /\ Restarts
<1> USE DEF TypeOK
<1>1. k \in iter.todo /\ Verdict(k, iter.seen[k]) \in {"fail", "expire", "fail again"}
  BY DEF CrashInFail, Turn
<1>2. /\ NewResolution(k) \in {"FAILED", "EXPIRED"}
      /\ \/ iter.seen[k].resolution \in {"WAITING", "COMPLETE", "FAILED", "EXPIRED"}
         \/ iter.seen[k].resolution = "SETTLING" /\ failure
  <2>1. iter.seen[k] \in Sets
    OBVIOUS
  <2> HIDE DEF TypeOK
  <2> QED BY <1>1, <2>1, VerdictFacts DEF NewResolution, Resolutions
<1>3. sets[k].resolution = iter.seen[k].resolution
  BY <1>1 DEF IterOK
<1>4. Restarts
  BY RestartedEffect DEF CrashInFail
<1>5. mine(k) \subseteq sets[k].htlcs
  BY DEF mine, Own
<1>6. sets' = Resolve(k, NewResolution(k)) /\ UNCHANGED <<unfulfilled, preimage, info>>
  BY DEF CrashInFail
<1>7. ASSUME NEW h \in Htlc, htlc'[h] # htlc[h]
      PROVE  h \in sets[k].htlcs /\ htlc[h] = "added" /\ htlc'[h] = "failed"
  BY <1>5, <1>7 DEF CrashInFail
<1> QED BY <1>2, <1>3, <1>4, <1>6, <1>7, ResolveFacts DEF Fails, Restarts, IterShrinks, Idle, NoSet

\* A set settles: some of its htlcs are settled, and the preimage is public then.
Settles(k) ==
    /\ k = Whole
    /\ UNCHANGED <<kind, block, unfulfilled, down>>
    /\ preimage # "unknown" /\ preimage' \in {preimage, "public"}
    /\ info' = Paid
    /\ \/ sets[Whole].resolution = "SETTLING"
       \/ /\ sets[Whole].resolution \in {"WAITING", "COMPLETE"}
          /\ kind \notin Forwarded /\ info # "none" /\ block = "fresh"
          /\ sets[Whole].resolution = "WAITING" => Cardinality(iter.seen[Whole].htlcs) >= Total
    /\ iter.seen[Whole].htlcs \subseteq sets[Whole].htlcs
    /\ \A l \in PaymentKey : l # Whole => sets'[l] = sets[l]
    /\ \/ sets'[Whole] = NoSet
       \/ /\ sets'[Whole].resolution = "SETTLING"
          /\ sets'[Whole].htlcs \subseteq sets[Whole].htlcs /\ sets'[Whole].parent = sets[Whole].parent
    /\ \A h \in Htlc :
           \/ htlc'[h] = htlc[h]
           \/ h \in sets[Whole].htlcs /\ htlc[h] = "added" /\ htlc'[h] = "settled" /\ preimage' = "public"
    /\ \A h \in sets[Whole].htlcs :
           htlc[h] = "added" /\ htlc'[h] = "added" => sets'[Whole].resolution = "SETTLING" /\ h \in sets'[Whole].htlcs
    /\ sets[Whole].htlcs # {} /\ sets'[Whole] # NoSet => sets'[Whole].htlcs # {}
    /\ IterShrinks(k)
    /\ failure' => failure /\ sets'[Whole] # NoSet
    /\ ClosedKept

LEMMA SettleFacts ==
    ASSUME TypeOK, IterOK, NEW k \in iter.todo, Verdict(k, iter.seen[k]) = "settle",
           k # Whole => sets[k].resolution \notin {"COMPLETE", "SETTLING"}
    PROVE  /\ k = Whole
           /\ preimage # "unknown"
           /\ iter.seen[k].resolution = sets[k].resolution /\ iter.seen[k].htlcs \subseteq sets[k].htlcs
           /\ \/ sets[k].resolution = "SETTLING"
              \/ /\ sets[k].resolution \in {"WAITING", "COMPLETE"}
                 /\ kind \notin Forwarded /\ info # "none" /\ block = "fresh"
                 /\ sets[k].resolution = "WAITING" => Cardinality(iter.seen[k].htlcs) >= Total
<1>1. k \in PaymentKey /\ iter.seen[k] \in Sets
  BY DEF TypeOK
<1>2. /\ preimage # "unknown"
      /\ \/ iter.seen[k].resolution = "SETTLING"
         \/ /\ Open(iter.seen[k]) /\ FullAt(k, iter.seen[k])
            /\ kind \notin Forwarded /\ info # "none"
  BY <1>1, VerdictFacts
<1>3. iter.seen[k].resolution = sets[k].resolution /\ iter.seen[k].htlcs \subseteq sets[k].htlcs
  BY DEF IterOK
<1> QED BY <1>2, <1>3 DEF FullAt, Open, Amount

LEMMA FulfillSetEffect ==
    ASSUME TypeOK, IterOK, NEW k \in PaymentKey, FulfillSet(k),
           k # Whole => sets[k].resolution \notin {"COMPLETE", "SETTLING"}
    PROVE  Settles(k) /\ UNCHANGED <<kind, block, session, down>>
<1> USE DEF TypeOK
<1> DEFINE new == Resolve(k, "SETTLING")
<1>1. k \in iter.todo /\ Verdict(k, iter.seen[k]) = "settle"
  BY DEF FulfillSet, Turn
<1>3. /\ k = Whole
      /\ preimage # "unknown"
      /\ iter.seen[k].resolution = sets[k].resolution /\ iter.seen[k].htlcs \subseteq sets[k].htlcs
      /\ \/ sets[k].resolution = "SETTLING"
         \/ /\ sets[k].resolution \in {"WAITING", "COMPLETE"}
            /\ kind \notin Forwarded /\ info # "none" /\ block = "fresh"
            /\ sets[k].resolution = "WAITING" => Cardinality(iter.seen[k].htlcs) >= Total
  BY <1>1, SettleFacts
<1>4. new \in [PaymentKey -> Sets] /\ Without(new, k, mine(k)) \in [PaymentKey -> Sets]
  BY ResolveType, WithoutType DEF Resolutions
<1>5. UNCHANGED <<kind, block, unfulfilled, session, down>> /\ info' = Paid
  BY DEF FulfillSet, around
<1>6. mine(k) \subseteq sets[k].htlcs /\ sets[k].htlcs \subseteq Htlc
  BY DEF mine, Own, Sets
<1>7. ASSUME NEW some \in SUBSET {h \in mine(k) : htlc[h] = "added"},
             htlc' = [h \in Htlc |-> IF h \in some THEN "settled" ELSE htlc[h]],
             preimage' = Revealed(some)
      PROVE  /\ preimage' \in {preimage, "public"}
             /\ \A h \in Htlc :
                   \/ htlc'[h] = htlc[h]
                   \/ h \in sets[k].htlcs /\ htlc[h] = "added" /\ htlc'[h] = "settled" /\ preimage' = "public"
  BY <1>6, <1>7 DEF Revealed
<1>8. CASE \E h \in mine(k) : htlc[h] = "failed"
  <2>1. Raised(iter.peer, new)
        /\ \E some \in SUBSET {h \in mine(k) : htlc[h] = "added"} :
              /\ htlc' = [h \in Htlc |-> IF h \in some THEN "settled" ELSE htlc[h]]
              /\ preimage' = Revealed(some)
    BY <1>8 DEF FulfillSet
  <2>2. ClosedKept
    BY <2>1, <1>8 DEF Raised, ClosedKept, Closed, mine, CanSend
  <2>3. sets' = new /\ iter' = Idle /\ failure' = failure
    BY <2>1 DEF Raised
  <2>4. new[k].resolution = "SETTLING" /\ new[k].htlcs = sets[k].htlcs /\ new[k].parent = sets[k].parent
        /\ \A l \in PaymentKey : l # k => new[l] = sets[l]
    BY ResolveFacts
  <2>5. /\ preimage' \in {preimage, "public"}
        /\ \A h \in Htlc :
              \/ htlc'[h] = htlc[h]
              \/ h \in sets[k].htlcs /\ htlc[h] = "added" /\ htlc'[h] = "settled" /\ preimage' = "public"
    BY <1>7, <2>1
  <2> QED
    BY <1>3, <1>5, <2>2, <2>3, <2>4, <2>5 DEF Settles, IterShrinks, Idle, NoSet
<1>9. CASE ~ \E h \in mine(k) : htlc[h] = "failed"
  <2> DEFINE added == {h \in mine(k) : htlc[h] = "added"}
  <2>1. /\ htlc' = [h \in Htlc |-> IF h \in added THEN "settled" ELSE htlc[h]]
        /\ preimage' = Revealed(added)
        /\ EndTurn(k, Without(new, k, mine(k)))
        /\ UNCHANGED chan
    BY <1>9 DEF FulfillSet
  <2>2. ClosedKept
    BY <2>1 DEF ClosedKept, Closed
  <2>3. /\ \A l \in PaymentKey : l # k => sets'[l] = sets[l]
        /\ sets[k].htlcs \ mine(k) = {} => sets'[k] = NoSet
        /\ sets[k].htlcs \ mine(k) # {} =>
              /\ sets'[k].resolution = "SETTLING" /\ sets'[k].parent = sets[k].parent
              /\ sets'[k].htlcs = sets[k].htlcs \ mine(k)
        /\ IterShrinks(k)
        /\ failure' => failure /\ ~(k = Whole /\ sets[k].htlcs \ mine(k) = {})
    BY <1>4, <2>1, EndTurnFacts, WithoutFacts, ResolveFacts
  <2>4. /\ preimage' \in {preimage, "public"}
        /\ \A h \in Htlc :
              \/ htlc'[h] = htlc[h]
              \/ h \in sets[k].htlcs /\ htlc[h] = "added" /\ htlc'[h] = "settled" /\ preimage' = "public"
    BY <1>7, <2>1
  <2>5. \A h \in sets[k].htlcs : htlc[h] = "added" /\ htlc'[h] = "added" => h \notin mine(k)
    BY <1>6, <2>1
  <2>6. NoSet.htlcs = {}
    BY DEF NoSet
  <2> QED
    BY <1>3, <1>5, <2>2, <2>3, <2>4, <2>5, <2>6 DEF Settles
<1> QED BY <1>5, <1>8, <1>9

LEMMA CrashInFulfillEffect ==
    ASSUME TypeOK, IterOK, NEW k \in PaymentKey, CrashInFulfill(k),
           k # Whole => sets[k].resolution \notin {"COMPLETE", "SETTLING"}
    PROVE  Settles(k) /\ Restarts
<1> USE DEF TypeOK
<1>1. k \in iter.todo /\ Verdict(k, iter.seen[k]) = "settle"
  BY DEF CrashInFulfill, Turn
<1>3. /\ k = Whole
      /\ preimage # "unknown"
      /\ iter.seen[k].resolution = sets[k].resolution /\ iter.seen[k].htlcs \subseteq sets[k].htlcs
      /\ \/ sets[k].resolution = "SETTLING"
         \/ /\ sets[k].resolution \in {"WAITING", "COMPLETE"}
            /\ kind \notin Forwarded /\ info # "none" /\ block = "fresh"
            /\ sets[k].resolution = "WAITING" => Cardinality(iter.seen[k].htlcs) >= Total
  BY <1>1, SettleFacts
<1>4. Restarts
  BY RestartedEffect DEF CrashInFulfill
<1>5. mine(k) \subseteq sets[k].htlcs /\ sets[k].htlcs \subseteq Htlc
  BY DEF mine, Own, Sets
<1>6. /\ sets'[k].resolution = "SETTLING" /\ sets'[k].htlcs = sets[k].htlcs /\ sets'[k].parent = sets[k].parent
      /\ \A l \in PaymentKey : l # k => sets'[l] = sets[l]
  BY ResolveFacts DEF CrashInFulfill
<1>7. UNCHANGED unfulfilled /\ info' = Paid
  BY DEF CrashInFulfill
<1>8. /\ preimage' \in {preimage, "public"}
      /\ \A h \in Htlc :
            \/ htlc'[h] = htlc[h]
            \/ h \in sets[k].htlcs /\ htlc[h] = "added" /\ htlc'[h] = "settled" /\ preimage' = "public"
  <2>1. PICK some \in {{}} \cup {{h} : h \in {h1 \in mine(k) : htlc[h1] = "added"}} :
           /\ htlc' = [h \in Htlc |-> IF h \in some THEN "settled" ELSE htlc[h]]
           /\ preimage' = Revealed(some)
    BY DEF CrashInFulfill
  <2>2. \A h \in some : h \in mine(k) /\ htlc[h] = "added"
    OBVIOUS
  <2> QED BY <1>5, <2>1, <2>2 DEF Revealed
<1> QED BY <1>3, <1>4, <1>6, <1>7, <1>8 DEF Settles, Restarts, IterShrinks, Idle, NoSet

\* A set is forwarded, or its callback called.
Schedules(k) ==
    /\ UNCHANGED <<kind, block, chan, htlc, unfulfilled, preimage, info, down>>
    /\ session' = "scheduled"
    /\ sets[k].resolution \in {"WAITING", "COMPLETE"}
    /\ kind \in Forwarded \cup {"swap"}
    /\ kind # "relay" =>
          /\ k = Whole /\ block = "fresh"
          /\ sets[Whole].resolution = "WAITING" => Cardinality(iter.seen[Whole].htlcs) >= Total
          /\ kind = "swap" => info # "none" /\ preimage = "unknown"
    /\ iter.seen[k].htlcs \subseteq sets[k].htlcs
    /\ \A l \in PaymentKey : l # k => sets'[l] = sets[l]
    /\ sets[k].htlcs = {} => sets'[k] = NoSet
    /\ sets[k].htlcs # {} =>
          /\ sets'[k].resolution = "SETTLING"
          /\ sets'[k].htlcs = sets[k].htlcs /\ sets'[k].parent = sets[k].parent
    /\ IterShrinks(k)
    /\ failure' => failure

LEMMA CallBackEffect ==
    ASSUME TypeOK, IterOK, NEW k \in PaymentKey, CallBack(k)
    PROVE  Schedules(k)
<1> USE DEF TypeOK
<1> DEFINE new == Resolve(k, "SETTLING")
<1>1. k \in iter.todo /\ Verdict(k, iter.seen[k]) \in {"forward", "call back"}
  BY DEF CallBack, Turn
<1>2. /\ Open(iter.seen[k])
      /\ \/ kind \in Forwarded /\ (kind = "trampoline" => FullAt(k, iter.seen[k]))
         \/ kind = "swap" /\ info # "none" /\ preimage = "unknown" /\ FullAt(k, iter.seen[k])
  <2>1. iter.seen[k] \in Sets
    OBVIOUS
  <2> HIDE DEF TypeOK
  <2> QED BY <1>1, <2>1, VerdictFacts
<1>3. sets[k].resolution = iter.seen[k].resolution /\ iter.seen[k].htlcs \subseteq sets[k].htlcs
  BY <1>1 DEF IterOK
<1>4. /\ sets[k].resolution \in {"WAITING", "COMPLETE"}
      /\ kind \in Forwarded \cup {"swap"}
      /\ kind # "relay" =>
            /\ k = Whole /\ block = "fresh"
            /\ sets[Whole].resolution = "WAITING" => Cardinality(iter.seen[Whole].htlcs) >= Total
            /\ kind = "swap" => info # "none" /\ preimage = "unknown"
  BY <1>2, <1>3 DEF Open, FullAt, Amount, Forwarded
<1>5. new \in [PaymentKey -> Sets]
  BY ResolveType DEF Resolutions
<1>6. EndTurn(k, new) /\ session' = "scheduled" /\ UNCHANGED <<kind, block, chan, htlc, unfulfilled, preimage, info, down>>
  BY DEF CallBack, resolution_called_back, around
<1>7. /\ \A l \in PaymentKey : l # k => sets'[l] = sets[l]
      /\ sets[k].htlcs = {} => sets'[k] = NoSet
      /\ sets[k].htlcs # {} =>
            /\ sets'[k].resolution = "SETTLING"
            /\ sets'[k].htlcs = sets[k].htlcs /\ sets'[k].parent = sets[k].parent
      /\ IterShrinks(k)
      /\ failure' => failure
  BY <1>5, <1>6, EndTurnFacts, ResolveFacts
<1> QED BY <1>3, <1>4, <1>6, <1>7 DEF Schedules

\* A held payment, or a trampoline part, is complete.
Completes(k) ==
    /\ UNCHANGED <<kind, block, chan, htlc, unfulfilled, preimage, info, session, down>>
    /\ sets[k].resolution \in {"WAITING", "COMPLETE"}
    /\ iter.seen[k].htlcs \subseteq sets[k].htlcs
    /\ \A l \in PaymentKey : l # k => sets'[l] = sets[l]
    /\ sets[k].htlcs = {} => sets'[k] = NoSet
    /\ sets[k].htlcs # {} =>
          /\ sets'[k].htlcs = sets[k].htlcs
          /\ \/ /\ k = Whole /\ kind = "held" /\ block = "fresh" /\ preimage = "unknown"
                /\ sets[k].resolution = "WAITING" /\ sets'[k].resolution = "COMPLETE"
                /\ sets'[k].parent = sets[k].parent
                /\ Cardinality(iter.seen[k].htlcs) >= Total
             \/ k # Whole /\ sets'[k].resolution = sets[k].resolution
    /\ IterShrinks(k)
    /\ failure' => failure

LEMMA CompletedEffect ==
    ASSUME TypeOK, IterOK, NEW k \in PaymentKey, Completed(k)
    PROVE  Completes(k)
<1> USE DEF TypeOK
<1>1. k \in iter.todo /\ UNCHANGED <<kind, block, chan, htlc, unfulfilled, preimage, info, session, down>>
  BY DEF Completed, Turn, around
<1>2. iter.seen[k] \in Sets
  OBVIOUS
<1>3. sets[k].resolution = iter.seen[k].resolution /\ iter.seen[k].htlcs \subseteq sets[k].htlcs
  BY <1>1 DEF IterOK
<1>4. CASE Verdict(k, iter.seen[k]) = "complete" /\ EndTurn(k, Resolve(k, "COMPLETE"))
  <2>1. Open(iter.seen[k]) /\ FullAt(k, iter.seen[k]) /\ kind = "held" /\ preimage = "unknown"
        /\ iter.seen[k].resolution = "WAITING"
    <3> HIDE DEF TypeOK
    <3> QED BY <1>2, <1>4, VerdictFacts
  <2>2. /\ k = Whole /\ block = "fresh" /\ sets[k].resolution = "WAITING"
        /\ Cardinality(iter.seen[k].htlcs) >= Total
    BY <1>3, <2>1 DEF FullAt, Amount
  <2>3. Resolve(k, "COMPLETE") \in [PaymentKey -> Sets]
    BY ResolveType DEF Resolutions
  <2>4. /\ \A l \in PaymentKey : l # k => sets'[l] = sets[l]
        /\ sets[k].htlcs = {} => sets'[k] = NoSet
        /\ sets[k].htlcs # {} =>
              /\ sets'[k].resolution = "COMPLETE"
              /\ sets'[k].htlcs = sets[k].htlcs /\ sets'[k].parent = sets[k].parent
        /\ IterShrinks(k)
        /\ failure' => failure
    BY <1>4, <2>3, EndTurnFacts, ResolveFacts
  <2> QED BY <1>1, <1>3, <2>1, <2>2, <2>4 DEF Completes
<1>5. CASE Verdict(k, iter.seen[k]) = "set parent" /\ EndTurn(k, [sets EXCEPT ![k].parent = TRUE])
  <2> DEFINE new == [sets EXCEPT ![k].parent = TRUE]
  <2>1. Open(iter.seen[k]) /\ k # Whole
    <3> HIDE DEF TypeOK
    <3> QED BY <1>2, <1>5, VerdictFacts
  <2>2. new \in [PaymentKey -> Sets]
    BY WithParentType
  <2>3. /\ \A l \in PaymentKey : l # k => new[l] = sets[l]
        /\ new[k].resolution = sets[k].resolution /\ new[k].htlcs = sets[k].htlcs
    BY DEF Sets
  <2>5. EndTurn(k, new)
    BY <1>5
  <2> HIDE DEF new
  <2>4. /\ \A l \in PaymentKey : l # k => sets'[l] = sets[l]
        /\ sets[k].htlcs = {} => sets'[k] = NoSet
        /\ sets[k].htlcs # {} =>
              sets'[k].resolution = sets[k].resolution /\ sets'[k].htlcs = sets[k].htlcs
        /\ IterShrinks(k)
        /\ failure' => failure
    BY <2>2, <2>3, <2>5, EndTurnFacts
  <2> QED BY <1>1, <1>3, <2>1, <2>4 DEF Completes, Open
<1> QED BY <1>4, <1>5 DEF Completed, Turn

\* The htlcs of a trampoline part join the others.
Joins(k) ==
    /\ UNCHANGED <<kind, block, chan, htlc, unfulfilled, preimage, info, session, down, failure>>
    /\ k # Whole /\ sets[k].resolution # "none"
    /\ iter.seen[k].htlcs # {} /\ iter.seen[k].htlcs \subseteq sets[k].htlcs
    /\ sets[k].resolution \notin {"FAILED", "EXPIRED"}
    /\ \A l \in PaymentKey : l \notin {k, Whole} => sets'[l] = sets[l]
    /\ sets'[k] = NoSet
    /\ sets'[Whole].resolution = IF sets[Whole].resolution = "none" THEN "WAITING" ELSE sets[Whole].resolution
    /\ sets'[Whole].htlcs = sets[Whole].htlcs \cup iter.seen[k].htlcs
    /\ sets'[Whole].parent = sets[Whole].parent
    /\ IterShrinks(k)

LEMMA MoveToParentEffect ==
    ASSUME TypeOK, IterOK, NEW k \in PaymentKey, MoveToParent(k), ~sets[Whole].parent
    PROVE  Joins(k)
<1> USE DEF TypeOK
<1>1. /\ k \in iter.todo /\ Verdict(k, iter.seen[k]) = "move" /\ EndTurn(k, Moved(k))
      /\ UNCHANGED <<kind, block, chan, htlc, unfulfilled, preimage, info, session, down>>
  BY DEF MoveToParent, Turn, around
<1>2. iter.seen[k] \in Sets
  OBVIOUS
<1>3. /\ iter.seen[k].parent = sets[k].parent
      /\ iter.seen[k].htlcs # {} /\ iter.seen[k].htlcs \subseteq sets[k].htlcs
      /\ iter.seen[k].resolution = sets[k].resolution /\ sets[k].resolution # "none"
  BY <1>1 DEF IterOK
<1>4. k # Whole /\ sets[k].resolution \notin {"FAILED", "EXPIRED"}
  BY <1>1, <1>2, <1>3 DEF Verdict, final_state, open_state
<1>5. Whole \in PaymentKey
  BY DEF PaymentKey
<1>6. /\ \A l \in PaymentKey : l \notin {k, Whole} => Moved(k)[l] = sets[l]
      /\ Moved(k)[k] = [sets[k] EXCEPT !.htlcs = {}]
      /\ Moved(k)[Whole] = [sets[Whole] EXCEPT !.resolution = IF @ = "none" THEN "WAITING" ELSE @,
                                              !.htlcs = @ \cup iter.seen[k].htlcs]
  BY <1>4, <1>5 DEF Moved
<1>7. /\ Moved(k)[k].htlcs = {}
      /\ Moved(k)[Whole].resolution = IF sets[Whole].resolution = "none" THEN "WAITING" ELSE sets[Whole].resolution
      /\ Moved(k)[Whole].htlcs = sets[Whole].htlcs \cup iter.seen[k].htlcs
      /\ Moved(k)[Whole].parent = sets[Whole].parent
  BY <1>5, <1>6 DEF Sets
<1>8. Moved(k) \in [PaymentKey -> Sets]
  BY MovedType
<1>9. failure' = failure
  BY <1>1, <1>4 DEF EndTurn
<1>10. /\ \A l \in PaymentKey : l # k => sets'[l] = Moved(k)[l]
       /\ sets'[k] = NoSet
       /\ IterShrinks(k)
  BY <1>1, <1>7, <1>8, EndTurnFacts
<1>11. sets'[Whole] = Moved(k)[Whole] /\ \A l \in PaymentKey : l \notin {k, Whole} => sets'[l] = sets[l]
  BY <1>4, <1>5, <1>6, <1>10
<1> QED BY <1>1, <1>3, <1>4, <1>7, <1>9, <1>10, <1>11 DEF Joins

\* All htlcs of a closed channel leave their sets.
Redeems(p) ==
    /\ UNCHANGED <<kind, block, htlc, unfulfilled, iter, preimage, info, session, down>>
    /\ Closed(p) /\ ClosedKept
    /\ \A h \in Htlc : PeerOf[h] = p => htlc[h] # "added"
    /\ \A l \in PaymentKey :
          \/ sets'[l] = sets[l]
          \/ sets'[l] = NoSet /\ \A h \in sets[l].htlcs : PeerOf[h] = p
          \/ /\ sets'[l].resolution = sets[l].resolution /\ sets'[l].parent = sets[l].parent
             /\ sets'[l].htlcs = {h \in sets[l].htlcs : PeerOf[h] # p} /\ sets'[l].htlcs # {}
    /\ failure' => failure /\ sets'[Whole].resolution = sets[Whole].resolution

LEMMA RedeemedEffect ==
    ASSUME TypeOK, NEW p \in Peer, Redeemed(p)
    PROVE  Redeems(p) /\ iter = Idle
<1> USE DEF TypeOK
<1> DEFINE theirs == {h \in Htlc : PeerOf[h] = p}
           rest == [k \in PaymentKey |-> [sets[k] EXCEPT !.htlcs = @ \ theirs]]
           waiting == \E k \in PaymentKey : sets[k].resolution = "WAITING" /\ sets[k].htlcs \cap theirs # {}
<1>1. /\ UNCHANGED <<kind, block, htlc, unfulfilled, iter, preimage, info, session, down>> /\ iter = Idle
      /\ chan[p] = "closed" /\ chan' = [chan EXCEPT ![p] = "redeemed"]
      /\ \A h \in Htlc : PeerOf[h] = p => htlc[h] # "added"
  BY DEF Redeemed, Between, around
<1>2. Closed(p) /\ ClosedKept
  BY <1>1 DEF Closed, ClosedKept
<1>3. CASE waiting
  <2>1. UNCHANGED <<sets, failure>>
    BY <1>3 DEF Redeemed
  <2> QED BY <1>1, <1>2, <2>1 DEF Redeems
<1>4. CASE ~waiting
  <2>1. /\ sets' = [k \in PaymentKey |-> IF rest[k].htlcs = {} THEN NoSet ELSE rest[k]]
        /\ failure' = (failure /\ rest[Whole].htlcs # {})
    BY <1>4 DEF Redeemed
  <2>2. ASSUME NEW l \in PaymentKey
        PROVE  /\ rest[l].resolution = sets[l].resolution /\ rest[l].parent = sets[l].parent
               /\ rest[l].htlcs = {h \in sets[l].htlcs : PeerOf[h] # p}
    BY DEF Sets
  <2> HIDE DEF rest
  <2>3. ASSUME NEW l \in PaymentKey
        PROVE  \/ sets'[l] = NoSet /\ rest[l].htlcs = {} /\ \A h \in sets[l].htlcs : PeerOf[h] = p
               \/ /\ sets'[l].resolution = sets[l].resolution /\ sets'[l].parent = sets[l].parent
                  /\ sets'[l].htlcs = {h \in sets[l].htlcs : PeerOf[h] # p} /\ sets'[l].htlcs # {}
    BY <2>1, <2>2
  <2>4. failure' => failure /\ sets'[Whole].resolution = sets[Whole].resolution
    BY <2>1, <2>3 DEF PaymentKey
  <2> QED BY <1>1, <1>2, <2>3, <2>4 DEF Redeems
<1> QED BY <1>3, <1>4

\* Ticks, connections that break and come back, and channels that are closed
Passes ==
    /\ UNCHANGED <<kind, htlc, unfulfilled, sets, preimage, info, session, down, failure, iter>>
    /\ block = "near" => block' = "near"
    /\ \A p \in Peer : Closed(p) => Closed(p)'
    /\ \A p \in Peer : Closed(p)' /\ ~Closed(p) => kind \in ClosableKinds

LEMMA PassesEffect ==
    ASSUME TypeOK, \/ NewTip \/ TimePasses
                   \/ \E p \in Peer : Disconnect(p) \/ Reconnect(p) \/ ForceClose(p)
    PROVE  Passes
<1> USE DEF TypeOK, Passes, Closed
<1>1. CASE NewTip \/ TimePasses
  BY <1>1 DEF NewTip, TimePasses, payment, switch
<1>2. ASSUME NEW p \in Peer, Disconnect(p) PROVE Passes
  BY <1>2 DEF Disconnect, payment
<1>3. ASSUME NEW p \in Peer, Reconnect(p) PROVE Passes
  BY <1>3 DEF Reconnect, payment, around
<1>4. ASSUME NEW p \in Peer, ForceClose(p) PROVE Passes
  BY <1>4 DEF ForceClose, payment
<1> QED BY <1>1, <1>2, <1>3, <1>4

\* A crash between iterations, or while htlcs are collected
Loses ==
    /\ UNCHANGED <<unfulfilled, sets, preimage, info>>
    /\ Restarts
    /\ \A h \in Htlc :
           \/ htlc'[h] = htlc[h]
           \/ h \in unfulfilled /\ htlc[h] = "added" /\ htlc'[h] = "failed" /\ "collect" \in CrashPoints

LEMMA LosesEffect ==
    ASSUME TypeOK, Crash \/ \E p \in Peer : CrashInCollect(p)
    PROVE  Loses
<1>1. CASE Crash
  BY <1>1, RestartedEffect DEF Crash, Loses
<1>2. ASSUME NEW p \in Peer, CrashInCollect(p) PROVE Loses
  <2>1. /\ UNCHANGED <<unfulfilled, sets, preimage, info>>
        /\ Restarts
    BY <1>2, RestartedEffect DEF CrashInCollect
  <2>2. \A h \in Htlc :
           \/ htlc'[h] = htlc[h]
           \/ h \in unfulfilled /\ htlc[h] = "added" /\ htlc'[h] = "failed" /\ "collect" \in CrashPoints
    BY <1>2 DEF CrashInCollect, Refused, Unprocessed, TypeOK
  <2> QED BY <2>1, <2>2 DEF Loses
<1> QED BY <1>1, <1>2

\* A crash between the sending of an htlc that forwards the payment and the note of it
Forgets(d) ==
    /\ UNCHANGED <<kind, block, htlc, unfulfilled, sets, preimage, info, failure>>
    /\ session' = "none" /\ iter = Idle /\ iter' = Idle
    /\ ClosedKept
    /\ \/ kind = "relay" /\ session = "scheduled" /\ block = "fresh"
       \/ session = "running" /\ \A e \in Down : down[e] \in {"none", "failed"}
    /\ Fresh(d) /\ down' = [down EXCEPT ![d] = "sent"]

LEMMA ForgetsEffect ==
    ASSUME TypeOK, NEW d \in Down, CrashInForwarding(d)
    PROVE  Forgets(d)
  BY DEF TypeOK, CrashInForwarding, Restarted, Between, Forgets, ClosedKept, Closed

\* An iteration's set, its next step or a crash in that step
StartsStep == \E p \in Peer :
    /\ UNCHANGED <<kind, block, preimage, info, session, down>>
    /\ chan[p] = "open"
    /\ StartRaises(p) \/ StartCollects(p)
FailsStep == \E k \in PaymentKey : Fails(k) /\ UNCHANGED <<kind, block, down>> /\ session' \in {session, "none"}
SettlesStep == \E k \in PaymentKey : Settles(k) /\ session' \in {session, "none"}

-----------------------------------------------------------------------------
(* Sets, iterations and what becomes of them *)

\* An htlc is in one set at most, and is not collected twice.  Sets are deleted
\* with their last htlc.  Only trampoline parts are collected in sets of their own.
SetsOK ==
    /\ \A k, l \in PaymentKey : \A h \in sets[k].htlcs : h \in sets[l].htlcs => k = l
    /\ \A k \in PaymentKey : \A h \in sets[k].htlcs : h \notin unfulfilled /\ htlc[h] # "none"
    /\ \A h \in unfulfilled : htlc[h] # "none"
    /\ \A k \in PaymentKey : sets[k].htlcs = {} \/ sets[k].resolution = "none" => sets[k] = NoSet
    /\ \A k \in PaymentKey : k # Whole => sets[k].resolution \notin {"COMPLETE", "SETTLING"}
    /\ kind # "nested" => \A k \in PaymentKey : k # Whole => sets[k] = NoSet
    /\ ~sets[Whole].parent
    /\ sets[Whole].resolution = "COMPLETE" => kind = "held"

LEMMA Steps ==
    ASSUME TypeOK, IterOK, SetsOK, Next
    PROVE  \/ StartsStep
           \/ FailsStep
           \/ SettlesStep
           \/ \E k \in PaymentKey : Schedules(k) \/ Completes(k) \/ Joins(k)
           \/ Forwarding
           \/ Holding
           \/ \E h \in Htlc : Arrive(h) \/ ClaimOnchain(h) \/ TimeoutOnchain(h)
           \/ Passes
           \/ \E p \in Peer : Redeems(p) /\ iter = Idle
           \/ Loses
           \/ \E d \in Down : Forgets(d)
<1>1. ASSUME NEW p \in Peer, StartIteration(p) PROVE StartsStep
  BY <1>1, StartEffect DEF StartsStep
<1>2. ASSUME NEW k \in PaymentKey, FailSet(k) \/ CrashInFail(k) PROVE FailsStep
  BY <1>2, FailSetEffect, CrashInFailEffect DEF FailsStep, Restarts, around
<1>3. ASSUME NEW k \in PaymentKey, FulfillSet(k) \/ CrashInFulfill(k) PROVE SettlesStep
  <2>1. k # Whole => sets[k].resolution \notin {"COMPLETE", "SETTLING"}
    BY DEF SetsOK
  <2> QED BY <1>3, <2>1, FulfillSetEffect, CrashInFulfillEffect DEF SettlesStep, Restarts
<1>4. ASSUME NEW k \in PaymentKey, CallBack(k) \/ Completed(k) \/ MoveToParent(k)
      PROVE  Schedules(k) \/ Completes(k) \/ Joins(k)
  BY <1>4, CallBackEffect, CompletedEffect, MoveToParentEffect DEF SetsOK
<1>5. ASSUME NEW p \in Peer, Disconnect(p) \/ Reconnect(p) \/ ForceClose(p) PROVE Passes
  BY <1>5, PassesEffect
<1>6. CASE NewTip \/ TimePasses
  BY <1>6, PassesEffect
<1>7. ASSUME NEW p \in Peer, Redeemed(p) PROVE Redeems(p) /\ iter = Idle
  BY <1>7, RedeemedEffect
<1>8. ASSUME NEW p \in Peer, CrashInCollect(p) PROVE Loses
  BY <1>8, LosesEffect
<1>9. CASE Crash
  BY <1>9, LosesEffect
<1>10. ASSUME NEW d \in Down, CrashInForwarding(d) PROVE Forgets(d)
  BY <1>10, ForgetsEffect
<1> QED
  BY <1>1, <1>2, <1>3, <1>4, <1>5, <1>6, <1>7, <1>8, <1>9, <1>10 DEF Next, SetTurn

LEMMA IterStep ==
    ASSUME TypeOK, IterOK, SetsOK, [Next]_vars
    PROVE  IterOK'
<1> USE DEF IterOK
<1>1. ASSUME iter' = Idle PROVE IterOK'
  BY <1>1 DEF Idle
<1>2. ASSUME NEW k \in PaymentKey, IterShrinks(k), \A l \in PaymentKey : l # k => sets'[l] = sets[l]
      PROVE  IterOK'
  BY <1>2 DEF IterShrinks, TypeOK
<1>3. CASE StartsStep
  <2>1. \A k \in PaymentKey : sets[k].resolution # "none" => sets[k].htlcs # {}
    BY DEF SetsOK, NoSet
  <2>2. ASSUME NEW p \in Peer, StartCollects(p), NEW l \in iter'.todo
        PROVE  iter'.seen[l] = sets'[l] /\ sets'[l].resolution # "none" /\ sets'[l].htlcs # {}
    <3>1. l \in PaymentKey
      BY TypeStep DEF TypeOK
    <3> QED BY <2>1, <2>2, <3>1 DEF StartCollects
  <2>3. ASSUME NEW p \in Peer, StartCollects(p) PROVE IterOK'
    BY <2>2, <2>3
  <2> QED BY <1>1, <1>3, <2>3 DEF StartsStep, StartRaises
<1>4. CASE FailsStep
  BY <1>2, <1>4 DEF FailsStep, Fails
<1>5. CASE SettlesStep
  BY <1>2, <1>5 DEF SettlesStep, Settles
<1>6. ASSUME NEW k \in PaymentKey, Schedules(k) \/ Completes(k) PROVE IterOK'
  BY <1>2, <1>6 DEF Schedules, Completes
<1>7. ASSUME NEW k \in PaymentKey, Joins(k) PROVE IterOK'
  <2> SUFFICES ASSUME NEW l \in iter'.todo
               PROVE  /\ iter'.seen[l].resolution = sets'[l].resolution
                      /\ iter'.seen[l].resolution # "none"
                      /\ iter'.seen[l].parent = sets'[l].parent
                      /\ iter'.seen[l].htlcs # {} /\ iter'.seen[l].htlcs \subseteq sets'[l].htlcs
    OBVIOUS
  <2>1. l \in iter.todo /\ l # k /\ iter'.seen[l] = iter.seen[l] /\ l \in PaymentKey
    BY <1>7 DEF Joins, IterShrinks, TypeOK
  <2>2. CASE l = Whole
    BY <1>7, <2>1, <2>2 DEF Joins
  <2>3. CASE l # Whole
    BY <1>7, <2>1, <2>3 DEF Joins
  <2> QED BY <2>2, <2>3
<1>8. CASE Forwarding
  BY <1>1, <1>8 DEF Forwarding, Relay, StartPaying, GiveUp, Pay, Claim, Fulfilled, Failed, Between, switch, around
<1>9. CASE Holding
  BY <1>1, <1>9 DEF Holding, SettleHoldInvoice, CancelHoldInvoice, HoldInvoiceCallback, FailSwap, SwapClaimed,
                    Between, switch, around
<1>10. ASSUME NEW h \in Htlc, Arrive(h) \/ ClaimOnchain(h) \/ TimeoutOnchain(h) PROVE IterOK'
  BY <1>1, <1>10 DEF Arrive, ClaimOnchain, TimeoutOnchain, Between
<1>11. CASE Passes
  BY <1>11 DEF Passes
<1>12. ASSUME NEW p \in Peer, Redeems(p), iter = Idle PROVE IterOK'
  BY <1>1, <1>12 DEF Redeems
<1>13. CASE Loses
  BY <1>1, <1>13 DEF Loses, Restarts
<1>14. ASSUME NEW d \in Down, Forgets(d) PROVE IterOK'
  BY <1>1, <1>14 DEF Forgets
<1>15. CASE UNCHANGED vars
  BY <1>15 DEF vars
<1> QED
  BY <1>3, <1>4, <1>5, <1>6, <1>7, <1>8, <1>9, <1>10, <1>11, <1>12, <1>13, <1>14, <1>15, Steps

\* What Forwarding and Holding leave alone
LEMMA ForwardingKeeps ==
    ASSUME Forwarding
    PROVE  UNCHANGED <<kind, block, chan, htlc, unfulfilled, sets, iter, alarms, info>> /\ iter = Idle
  BY DEF Forwarding, Relay, StartPaying, GiveUp, Pay, Claim, Fulfilled, Failed, Between, switch, around

HoldingSets ==
    \/ sets' = sets
    \/ /\ kind = "swap"
       /\ sets[Whole] # NoSet
       /\ \A l \in PaymentKey : l # Whole => sets'[l] = sets[l]
       /\ sets'[Whole].resolution = "FAILED"
       /\ sets'[Whole].htlcs = sets[Whole].htlcs /\ sets'[Whole].parent = sets[Whole].parent

LEMMA HoldingKeeps ==
    ASSUME TypeOK, Holding
    PROVE  /\ UNCHANGED <<kind, block, chan, htlc, unfulfilled, iter, alarms, down, active, failure>> /\ iter = Idle
           /\ HoldingSets
<1>1. UNCHANGED <<kind, block, chan, htlc, unfulfilled, iter, alarms, down, active, failure>> /\ iter = Idle
  BY DEF Holding, SettleHoldInvoice, CancelHoldInvoice, HoldInvoiceCallback, FailSwap, SwapClaimed,
         Between, switch, around
<1>2. sets' = sets \/ (kind = "swap" /\ sets' = WholeFails)
  BY DEF Holding, SettleHoldInvoice, CancelHoldInvoice, HoldInvoiceCallback, FailSwap, SwapClaimed, switch
<1>3. Whole \in PaymentKey
  BY DEF PaymentKey
<1> QED BY <1>1, <1>2, <1>3, ResolveFacts DEF TypeOK, WholeFails, HoldingSets

LEMMA SetsStepSame ==
    ASSUME TypeOK, SetsOK, UNCHANGED <<kind, sets>>,
           \A h \in Htlc : htlc'[h] = "none" => htlc[h] = "none",
           unfulfilled' \subseteq unfulfilled
    PROVE  SetsOK'
  BY DEF TypeOK, SetsOK, Sets

\* A step that changes one set, and adds no htlc to it
LEMMA SetsStepOne ==
    ASSUME TypeOK, SetsOK, NEW k \in PaymentKey, UNCHANGED <<kind, unfulfilled>>,
           \A h \in Htlc : htlc'[h] = "none" => htlc[h] = "none",
           \A l \in PaymentKey : l # k => sets'[l] = sets[l],
           \/ sets'[k] = NoSet
           \/ /\ sets'[k].resolution # "none" /\ sets'[k].htlcs # {}
              /\ sets'[k].htlcs \subseteq sets[k].htlcs
              /\ k = Whole => sets'[k].parent = sets[k].parent
              /\ k # Whole => sets'[k].resolution \notin {"COMPLETE", "SETTLING"}
              /\ sets'[k].resolution = "COMPLETE" => kind = "held"
    PROVE  SetsOK'
<1> USE DEF TypeOK
<1>1. NoSet.htlcs = {} /\ NoSet.resolution = "none" /\ NoSet.parent = FALSE
  BY DEF NoSet
<1>2. \A l \in PaymentKey : sets'[l].htlcs \subseteq sets[l].htlcs /\ sets[l].htlcs \subseteq Htlc
  BY <1>1 DEF Sets
<1>3. \A j, l \in PaymentKey : \A h \in sets'[j].htlcs : h \in sets'[l].htlcs => j = l
  BY <1>2 DEF SetsOK
<1>4. \A j \in PaymentKey : \A h \in sets'[j].htlcs : h \notin unfulfilled' /\ htlc'[h] # "none"
  BY <1>2 DEF SetsOK
<1>5. \A j \in PaymentKey : sets'[j].htlcs = {} \/ sets'[j].resolution = "none" => sets'[j] = NoSet
  BY <1>1 DEF SetsOK
<1>6. \A j \in PaymentKey : j # Whole => sets'[j].resolution \notin {"COMPLETE", "SETTLING"}
  BY <1>1 DEF SetsOK
<1>7. kind' # "nested" => \A j \in PaymentKey : j # Whole => sets'[j] = NoSet
  BY <1>1 DEF SetsOK
<1>8. ~sets'[Whole].parent /\ (sets'[Whole].resolution = "COMPLETE" => kind' = "held")
  BY <1>1 DEF SetsOK, PaymentKey
<1>9. \A h \in unfulfilled' : htlc'[h] # "none"
  BY DEF SetsOK
<1> QED BY <1>3, <1>4, <1>5, <1>6, <1>7, <1>8, <1>9 DEF SetsOK

LEMMA SetsStep ==
    ASSUME TypeOK, IterOK, SetsOK, [Next]_vars
    PROVE  SetsOK'
<1> USE DEF TypeOK
<1>1. NoSet.htlcs = {} /\ NoSet.resolution = "none" /\ NoSet.parent = FALSE
  BY DEF NoSet
<1>2. \A k \in PaymentKey : sets[k].resolution # "none" => sets[k].htlcs # {}
  BY <1>1 DEF SetsOK
<1>3. CASE StartsStep
  <2>1. PICK p \in Peer :
           /\ UNCHANGED <<kind, block, preimage, info, session, down>>
           /\ StartRaises(p) \/ StartCollects(p)
    BY <1>3 DEF StartsStep
  <2>2. CASE StartRaises(p)
    <3>1. UNCHANGED <<kind, sets, htlc>> /\ unfulfilled' \subseteq unfulfilled
      BY <2>1, <2>2 DEF StartRaises, around
    <3> QED BY <3>1, SetsStepSame
  <2>3. CASE StartCollects(p)
    <3>1. \A k \in PaymentKey : \A h \in sets'[k].htlcs :
              \/ h \in sets[k].htlcs
              \/ h \in unfulfilled /\ h \notin unfulfilled' /\ KeyOf(h) = k /\ htlc'[h] = htlc[h]
      BY <2>3 DEF StartCollects
    <3>2. \A k \in PaymentKey : sets[k].htlcs \subseteq Htlc
      BY DEF Sets
    <3>3. \A h \in Htlc : htlc'[h] = "none" => htlc[h] = "none"
      BY <2>3 DEF StartCollects
    <3>4. \A j, l \in PaymentKey : \A h \in sets'[j].htlcs : h \in sets'[l].htlcs => j = l
      BY <3>1 DEF SetsOK
    <3>5. \A j \in PaymentKey : \A h \in sets'[j].htlcs : h \notin unfulfilled' /\ htlc'[h] # "none"
      BY <2>3, <3>1, <3>2, <3>3 DEF SetsOK, StartCollects
    <3>6. \A j \in PaymentKey :
             /\ sets'[j].htlcs = {} \/ sets'[j].resolution = "none" => sets'[j] = NoSet
             /\ j # Whole => sets'[j].resolution \notin {"COMPLETE", "SETTLING"}
      BY <2>3 DEF SetsOK, StartCollects
    <3>7. kind' # "nested" => \A j \in PaymentKey : j # Whole => sets'[j] = NoSet
      <4> SUFFICES ASSUME kind # "nested", NEW j \in PaymentKey, j # Whole, sets'[j] # sets[j] PROVE FALSE
        BY <2>1, <1>1 DEF SetsOK, around
      <4>1. PICK h \in sets'[j].htlcs : TRUE
        BY <2>3 DEF StartCollects
      <4>2. sets[j].htlcs = {}
        BY <1>1 DEF SetsOK
      <4> QED BY <3>1, <4>1, <4>2 DEF KeyOf
    <3>8. ~sets'[Whole].parent /\ (sets'[Whole].resolution = "COMPLETE" => kind' = "held")
      <4>1. kind' = kind /\ Whole \in PaymentKey
        BY <2>1 DEF around, PaymentKey
      <4>2. \/ sets'[Whole] = sets[Whole]
            \/ sets'[Whole].resolution = "WAITING" /\ sets'[Whole].parent = sets[Whole].parent
        BY <2>3, <4>1 DEF StartCollects
      <4> QED BY <4>1, <4>2 DEF SetsOK
    <3>9. \A h \in unfulfilled' : htlc'[h] # "none"
      BY <2>3, <3>3 DEF SetsOK, StartCollects
    <3> QED BY <3>4, <3>5, <3>6, <3>7, <3>8, <3>9 DEF SetsOK
  <2> QED BY <2>1, <2>2, <2>3
<1>4. CASE FailsStep
  <2>1. PICK k \in PaymentKey : Fails(k) /\ UNCHANGED <<kind, block, down>>
    BY <1>4 DEF FailsStep
  <2>2. sets[k].htlcs # {}
    BY <1>2, <2>1 DEF Fails
  <2> QED BY <2>1, <2>2, SetsStepOne DEF Fails
<1>5. CASE SettlesStep
  <2>1. PICK k \in PaymentKey : Settles(k)
    BY <1>5 DEF SettlesStep
  <2>2. sets[Whole].htlcs # {}
    BY <1>2, <2>1 DEF Settles
  <2> QED BY <2>1, <2>2, SetsStepOne DEF Settles
<1>6. ASSUME NEW k \in PaymentKey, Schedules(k) PROVE SetsOK'
  <2>1. sets[k].htlcs # {}
    BY <1>2, <1>6 DEF Schedules
  <2>2. k = Whole
    BY <1>1, <1>6 DEF Schedules, SetsOK
  <2> QED BY <1>6, <2>1, <2>2, SetsStepOne DEF Schedules, around
<1>7. ASSUME NEW k \in PaymentKey, Completes(k) PROVE SetsOK'
  <2>1. sets[k].htlcs # {}
    BY <1>2, <1>7 DEF Completes
  <2> QED BY <1>7, <2>1, SetsStepOne DEF Completes, around, SetsOK
<1>8. ASSUME NEW k \in PaymentKey, Joins(k) PROVE SetsOK'
  <2>0. Whole \in PaymentKey /\ k # Whole
    BY <1>8 DEF PaymentKey, Joins
  <2>1. \A l \in PaymentKey : l \notin {k, Whole} => sets'[l] = sets[l]
    BY <1>8 DEF Joins
  <2>2. /\ sets'[k] = NoSet
        /\ sets'[Whole].resolution = IF sets[Whole].resolution = "none" THEN "WAITING" ELSE sets[Whole].resolution
        /\ sets'[Whole].htlcs = sets[Whole].htlcs \cup iter.seen[k].htlcs
        /\ sets'[Whole].parent = sets[Whole].parent
        /\ iter.seen[k].htlcs # {} /\ iter.seen[k].htlcs \subseteq sets[k].htlcs
        /\ UNCHANGED <<kind, htlc, unfulfilled>>
    BY <1>8 DEF Joins, around
  <2>3. \A j, l \in PaymentKey : \A h \in sets'[j].htlcs : h \in sets'[l].htlcs => j = l
    BY <1>1, <2>0, <2>1, <2>2 DEF SetsOK
  <2>4. \A j \in PaymentKey : \A h \in sets'[j].htlcs : h \notin unfulfilled' /\ htlc'[h] # "none"
    BY <1>1, <2>0, <2>1, <2>2 DEF SetsOK
  <2>5. \A j \in PaymentKey : j # Whole =>
             /\ sets'[j].htlcs = {} \/ sets'[j].resolution = "none" => sets'[j] = NoSet
             /\ sets'[j].resolution \notin {"COMPLETE", "SETTLING"}
             /\ kind' # "nested" => sets'[j] = NoSet
    BY <1>1, <2>0, <2>1, <2>2 DEF SetsOK
  <2>6. \A h \in unfulfilled' : htlc'[h] # "none"
    BY <2>2 DEF SetsOK
  <2> QED BY <2>0, <2>2, <2>3, <2>4, <2>5, <2>6 DEF SetsOK
<1>9. CASE Forwarding
  BY <1>9, ForwardingKeeps, SetsStepSame DEF around
<1>10. CASE Holding
  <2>1. UNCHANGED <<kind, htlc, unfulfilled>> /\ HoldingSets
    BY <1>10, HoldingKeeps DEF around
  <2>2. CASE sets' = sets
    BY <2>1, <2>2, SetsStepSame
  <2>3. CASE sets' # sets
    <3>1. Whole \in PaymentKey /\ sets[Whole].htlcs # {}
      BY <2>1, <2>3 DEF SetsOK, HoldingSets, PaymentKey
    <3> QED BY <2>1, <2>3, <3>1, SetsStepOne DEF HoldingSets
  <2> QED BY <2>2, <2>3
<1>11. ASSUME NEW h \in Htlc, Arrive(h) PROVE SetsOK'
  <2>1. UNCHANGED <<kind, sets>> /\ unfulfilled' = unfulfilled \cup {h} /\ htlc[h] = "none"
        /\ htlc' = [htlc EXCEPT ![h] = "added"]
    BY <1>11 DEF Arrive, around
  <2> QED BY <2>1 DEF SetsOK, Sets
<1>12. ASSUME NEW h \in Htlc, ClaimOnchain(h) \/ TimeoutOnchain(h) PROVE SetsOK'
  BY <1>12, SetsStepSame DEF ClaimOnchain, TimeoutOnchain, around
<1>13. CASE Passes
  BY <1>13, SetsStepSame DEF Passes
<1>14. ASSUME NEW p \in Peer, Redeems(p) PROVE SetsOK'
  <2>1. UNCHANGED <<kind, htlc, unfulfilled>>
    BY <1>14 DEF Redeems, around
  <2>2. \A l \in PaymentKey : sets'[l].htlcs \subseteq sets[l].htlcs
    BY <1>1, <1>14 DEF Redeems
  <2>3. \A l \in PaymentKey :
           \/ sets'[l] = sets[l]
           \/ sets'[l] = NoSet
           \/ /\ sets'[l].resolution = sets[l].resolution /\ sets'[l].parent = sets[l].parent
              /\ sets'[l].htlcs # {} /\ sets'[l].htlcs \subseteq sets[l].htlcs
    BY <1>14 DEF Redeems
  <2>4. \A j, l \in PaymentKey : \A h \in sets'[j].htlcs : h \in sets'[l].htlcs => j = l
    BY <2>2 DEF SetsOK
  <2>5. \A j \in PaymentKey : \A h \in sets'[j].htlcs : h \notin unfulfilled' /\ htlc'[h] # "none"
    BY <2>1, <2>2 DEF SetsOK
  <2>6. \A j \in PaymentKey : sets'[j].htlcs = {} \/ sets'[j].resolution = "none" => sets'[j] = NoSet
    BY <1>1, <2>3 DEF SetsOK
  <2>7. \A j \in PaymentKey : j # Whole =>
             /\ sets'[j].resolution \notin {"COMPLETE", "SETTLING"}
             /\ kind' # "nested" => sets'[j] = NoSet
    BY <1>1, <2>1, <2>3 DEF SetsOK
  <2>8. ~sets'[Whole].parent /\ (sets'[Whole].resolution = "COMPLETE" => kind' = "held")
    BY <1>1, <2>1, <2>3 DEF SetsOK, PaymentKey
  <2> QED BY <2>1, <2>4, <2>5, <2>6, <2>7, <2>8 DEF SetsOK
<1>15. CASE Loses
  BY <1>15, SetsStepSame DEF Loses, Restarts
<1>16. ASSUME NEW d \in Down, Forgets(d) PROVE SetsOK'
  BY <1>16, SetsStepSame DEF Forgets
<1>17. CASE UNCHANGED vars
  BY <1>17, SetsStepSame DEF vars
<1> QED
  BY <1>3, <1>4, <1>5, <1>6, <1>7, <1>8, <1>9, <1>10, <1>11, <1>12, <1>13, <1>14, <1>15, <1>16, <1>17, Steps

-----------------------------------------------------------------------------
(* Forwarding *)

\* Which kinds of payments are forwarded, funded and claimed on the chain
KindOK ==
    /\ session = "running" => kind = "trampoline"
    /\ session = "funded" => kind = "swap"
    /\ session = "scheduled" => kind \in Forwarded \cup {"swap"}
    /\ failure => kind \in Forwarded
    /\ \A d \in Down : ~Fresh(d) => kind \in Forwarded
    /\ \A p \in Peer : Closed(p) => kind \in ClosableKinds

LEMMA KindStep ==
    ASSUME TypeOK, IterOK, SetsOK, KindOK, [Next]_vars
    PROVE  KindOK'
<1> USE DEF TypeOK
<1>1. ASSUME UNCHANGED <<kind, down>>, session' \in {session, "none"}, failure' => failure, ClosedKept
      PROVE  KindOK'
  BY <1>1 DEF KindOK, Fresh, ClosedKept
<1>2. ASSUME UNCHANGED chan PROVE ClosedKept
  BY <1>2 DEF ClosedKept, Closed
<1>3. CASE StartsStep
  BY <1>1, <1>2, <1>3 DEF StartsStep, StartRaises, StartCollects
<1>4. CASE FailsStep
  BY <1>1, <1>4 DEF FailsStep, Fails
<1>5. CASE SettlesStep
  BY <1>1, <1>5 DEF SettlesStep, Settles
<1>6. ASSUME NEW k \in PaymentKey, Schedules(k) PROVE KindOK'
  BY <1>6 DEF Schedules, KindOK, Fresh, Closed
<1>7. ASSUME NEW k \in PaymentKey, Completes(k) \/ Joins(k) PROVE KindOK'
  BY <1>1, <1>2, <1>7 DEF Completes, Joins
<1>8. CASE Forwarding
  <2>1. UNCHANGED <<kind, chan>>
    BY <1>8, ForwardingKeeps
  <2>2. CASE Relay \/ StartPaying \/ GiveUp
    <3>1. kind \in Forwarded /\ session' \in {"none", "running"} /\ (session' = "running" => kind = "trampoline")
      BY <2>2 DEF Relay, StartPaying, GiveUp, KindOK, Forwarded
    <3> QED BY <2>1, <3>1 DEF KindOK, Closed
  <2>3. ASSUME NEW d \in Down, Pay(d) \/ Claim(d) \/ Fulfilled(d) \/ Failed(d) PROVE KindOK'
    <3>1. kind \in Forwarded /\ session' \in {session, "none"}
      BY <2>3 DEF Pay, Claim, Fulfilled, Failed, KindOK, Forwarded, Fresh
    <3> QED BY <2>1, <3>1 DEF KindOK, Closed
  <2> QED BY <1>8, <2>2, <2>3 DEF Forwarding
<1>9. CASE Holding
  <2>1. UNCHANGED <<kind, chan, down, failure>>
    BY <1>9, HoldingKeeps
  <2>2. \/ session' \in {session, "none"}
        \/ session' = "funded" /\ kind = "swap"
    BY <1>9 DEF Holding, SettleHoldInvoice, CancelHoldInvoice, HoldInvoiceCallback, FailSwap, SwapClaimed
  <2> QED BY <2>1, <2>2 DEF KindOK, Closed, Fresh
<1>10. ASSUME NEW h \in Htlc, Arrive(h) \/ ClaimOnchain(h) \/ TimeoutOnchain(h) PROVE KindOK'
  BY <1>1, <1>2, <1>10 DEF Arrive, ClaimOnchain, TimeoutOnchain, around, payment
<1>11. CASE Passes
  BY <1>11 DEF Passes, KindOK, Fresh
<1>12. ASSUME NEW p \in Peer, Redeems(p) PROVE KindOK'
  BY <1>1, <1>12 DEF Redeems
<1>13. CASE Loses
  BY <1>1, <1>13 DEF Loses, Restarts
<1>14. ASSUME NEW d \in Down, Forgets(d) PROVE KindOK'
  <2>1. kind \in Forwarded
    BY <1>14 DEF Forgets, KindOK, Forwarded
  <2> QED BY <1>14, <2>1 DEF Forgets, KindOK, ClosedKept
<1>15. CASE UNCHANGED vars
  BY <1>1, <1>2, <1>15 DEF vars
<1> QED
  BY <1>3, <1>4, <1>5, <1>6, <1>7, <1>8, <1>9, <1>10, <1>11, <1>12, <1>13, <1>14, <1>15, Steps

\* There is one htlc to relay.  Once it was, or is about to be, there is nothing
\* left that would be relayed.
RelayOK ==
    kind = "relay" =>
        /\ \A g, h \in Htlc : htlc[g] # "none" /\ htlc[h] # "none" => g = h
        /\ session = "scheduled" \/ failure \/ (\E d \in Down : ~Fresh(d)) =>
              /\ sets[Whole].resolution # "WAITING" /\ unfulfilled = {}
              /\ \E h \in Htlc : htlc[h] # "none"
        /\ session # "none" => \A d \in Down : Fresh(d)
        /\ \A d, e \in Down : ~Fresh(d) /\ ~Fresh(e) => d = e

LEMMA RelayStep ==
    ASSUME TypeOK, IterOK, SetsOK, KindOK, RelayOK, [Next]_vars
    PROVE  RelayOK'
<1> USE DEF TypeOK
<1>0. Whole \in PaymentKey
  BY DEF PaymentKey
<1>1. ASSUME UNCHANGED <<kind, down>>, session' \in {session, "none"}, failure' => failure,
             \A h \in Htlc : htlc[h] = "none" <=> htlc'[h] = "none",
             unfulfilled' \subseteq unfulfilled,
             sets'[Whole].resolution = "WAITING" =>
                 sets[Whole].resolution = "WAITING" \/ unfulfilled # {}
      PROVE  RelayOK'
  BY <1>1 DEF RelayOK, Fresh
<1>2. CASE StartsStep
  <2>1. PICK p \in Peer :
           /\ UNCHANGED <<kind, block, preimage, info, session, down>>
           /\ StartRaises(p) \/ StartCollects(p)
    BY <1>2 DEF StartsStep
  <2>2. CASE StartRaises(p)
    BY <1>1, <2>1, <2>2 DEF StartRaises
  <2>3. CASE StartCollects(p)
    <3>1. /\ unfulfilled' \subseteq unfulfilled /\ failure' = failure
          /\ \A h \in Htlc : htlc[h] = "none" <=> htlc'[h] = "none"
      BY <2>3 DEF StartCollects, SetsOK
    <3>2. ASSUME sets'[Whole].resolution = "WAITING", sets[Whole].resolution # "WAITING"
          PROVE  unfulfilled # {}
      <4>1. sets[Whole] = NoSet /\ sets'[Whole].htlcs # {}
            /\ \A h \in sets'[Whole].htlcs : h \in sets[Whole].htlcs \/ h \in unfulfilled
        BY <1>0, <2>3, <3>2 DEF StartCollects, SetsOK
      <4> QED BY <4>1 DEF NoSet
    <3> QED BY <1>1, <2>1, <3>1, <3>2
  <2> QED BY <2>1, <2>2, <2>3
<1>3. CASE FailsStep
  BY <1>0, <1>1, <1>3 DEF FailsStep, Fails, NoSet
<1>4. CASE SettlesStep
  BY <1>0, <1>1, <1>4 DEF SettlesStep, Settles, NoSet
<1>5. ASSUME NEW k \in PaymentKey, Schedules(k) PROVE RelayOK'
  <2> SUFFICES ASSUME kind = "relay" PROVE RelayOK'
    BY <1>5 DEF RelayOK, Schedules
  <2>1. k = Whole
    BY <1>5 DEF SetsOK, Schedules, NoSet
  <2>2. sets[Whole].resolution = "WAITING"
    BY <1>5, <2>1 DEF Schedules, SetsOK
  <2>3. PICK h \in sets[Whole].htlcs : TRUE
    BY <1>0, <2>2 DEF SetsOK, NoSet
  <2>4. h \in Htlc /\ htlc[h] # "none" /\ h \notin unfulfilled
    BY <1>0, <2>3 DEF SetsOK, Sets
  <2>5. unfulfilled = {}
    BY <2>4 DEF SetsOK, RelayOK
  <2>6. UNCHANGED <<kind, htlc, unfulfilled, down>> /\ sets'[Whole].resolution # "WAITING"
    BY <1>5, <2>1 DEF Schedules, NoSet
  <2>7. \A d \in Down : Fresh(d)
    BY <2>2 DEF RelayOK
  <2> QED BY <2>4, <2>5, <2>6, <2>7 DEF RelayOK, Fresh
<1>6. ASSUME NEW k \in PaymentKey, Completes(k) PROVE RelayOK'
  <2>1. sets'[Whole].resolution = "WAITING" => sets[Whole].resolution = "WAITING"
    BY <1>0, <1>6 DEF Completes, NoSet
  <2> QED BY <1>1, <1>6, <2>1 DEF Completes
<1>7. ASSUME NEW k \in PaymentKey, Joins(k) PROVE RelayOK'
  BY <1>7 DEF Joins, SetsOK, NoSet, RelayOK
<1>8. CASE Forwarding
  <2>1. UNCHANGED <<kind, htlc, unfulfilled, sets>>
    BY <1>8, ForwardingKeeps
  <2> SUFFICES ASSUME kind = "relay" PROVE RelayOK'
    BY <2>1 DEF RelayOK
  <2>2. CASE Relay
    <3>1. session = "scheduled" /\ session' = "none"
      BY <2>2 DEF Relay
    <3>2. /\ sets[Whole].resolution # "WAITING" /\ unfulfilled = {} /\ \A d \in Down : Fresh(d)
          /\ \E h \in Htlc : htlc[h] # "none"
      BY <3>1 DEF RelayOK
    <3>3. \/ UNCHANGED down
          \/ \E d \in Down : down' = [down EXCEPT ![d] = "sent"]
      BY <2>2 DEF Relay
    <3>4. \A d, e \in Down : ~Fresh(d)' /\ ~Fresh(e)' => d = e
      BY <3>2, <3>3 DEF Fresh
    <3> QED BY <2>1, <3>1, <3>2, <3>4 DEF RelayOK
  <2>3. CASE StartPaying
    BY <2>3 DEF StartPaying
  <2>4. CASE GiveUp
    BY <2>4 DEF GiveUp, KindOK
  <2>5. ASSUME NEW d \in Down, Pay(d) PROVE RelayOK'
    BY <2>5 DEF Pay, KindOK
  <2>6. ASSUME NEW d \in Down, Claim(d) \/ Fulfilled(d) \/ Failed(d) PROVE RelayOK'
    <3>1. ~Fresh(d) /\ session' \in {session, "none"}
      BY <2>6 DEF Claim, Fulfilled, Failed, Fresh
    <3>2. \A e \in Down : e # d => down'[e] = down[e]
      BY <2>6 DEF Claim, Fulfilled, Failed
    <3>3. /\ session = "none" /\ sets[Whole].resolution # "WAITING" /\ unfulfilled = {}
          /\ \E h \in Htlc : htlc[h] # "none"
      BY <3>1 DEF RelayOK
    <3> QED BY <2>1, <3>1, <3>2, <3>3 DEF RelayOK, Fresh
  <2> QED BY <1>8, <2>2, <2>3, <2>4, <2>5, <2>6 DEF Forwarding
<1>9. CASE Holding
  <2>1. UNCHANGED <<kind, htlc, unfulfilled, down, failure>> /\ HoldingSets
    BY <1>9, HoldingKeeps
  <2>2. kind = "relay" => UNCHANGED <<sets, session>>
    BY <1>9, <2>1 DEF HoldingSets, Holding, SettleHoldInvoice, CancelHoldInvoice, HoldInvoiceCallback,
                      FailSwap, SwapClaimed, KindOK
  <2> QED BY <2>1, <2>2 DEF RelayOK, Fresh
<1>10. ASSUME NEW h \in Htlc, Arrive(h) PROVE RelayOK'
  <2> SUFFICES ASSUME kind = "relay" PROVE RelayOK'
    BY <1>10 DEF RelayOK, Arrive, around
  <2>1. \A g \in Htlc : htlc[g] = "none"
    BY <1>10 DEF Arrive
  <2>2. /\ UNCHANGED <<kind, session, down, failure, sets>> /\ unfulfilled' = unfulfilled \cup {h}
        /\ htlc' = [htlc EXCEPT ![h] = "added"]
    BY <1>10 DEF Arrive, around, payment
  <2>3. ~(session = "scheduled" \/ failure \/ (\E d \in Down : ~Fresh(d)))
    BY <2>1 DEF RelayOK
  <2> QED BY <2>1, <2>2, <2>3 DEF RelayOK, Fresh
<1>11. ASSUME NEW h \in Htlc, ClaimOnchain(h) \/ TimeoutOnchain(h) PROVE RelayOK'
  BY <1>1, <1>11 DEF ClaimOnchain, TimeoutOnchain, around, payment
<1>12. CASE Passes
  BY <1>1, <1>12 DEF Passes
<1>13. ASSUME NEW p \in Peer, Redeems(p) PROVE RelayOK'
  BY <1>0, <1>1, <1>13 DEF Redeems, NoSet
<1>14. CASE Loses
  BY <1>1, <1>14 DEF Loses, Restarts, SetsOK
<1>15. ASSUME NEW d \in Down, Forgets(d) PROVE RelayOK'
  <2> SUFFICES ASSUME kind = "relay" PROVE RelayOK'
    BY <1>15 DEF RelayOK, Forgets
  <2>1. session = "scheduled"
    BY <1>15 DEF Forgets, KindOK
  <2>2. /\ sets[Whole].resolution # "WAITING" /\ unfulfilled = {} /\ \A e \in Down : Fresh(e)
        /\ \E h \in Htlc : htlc[h] # "none"
    BY <2>1 DEF RelayOK
  <2>3. \A e, f \in Down : ~Fresh(e)' /\ ~Fresh(f)' => e = f
    BY <1>15, <2>2 DEF Forgets, Fresh
  <2> QED BY <1>15, <2>2, <2>3 DEF Forgets, RelayOK
<1>16. CASE UNCHANGED vars
  BY <1>1, <1>16 DEF vars
<1> QED
  BY <1>2, <1>3, <1>4, <1>5, <1>6, <1>7, <1>8, <1>9, <1>10, <1>11, <1>12, <1>13, <1>14, <1>15, <1>16, Steps

OneForward ==
    \A d, e \in Down : (Outstanding(d) \/ Taken(d)) /\ (Outstanding(e) \/ Taken(e)) => d = e

LEMMA OneForwardStep ==
    ASSUME TypeOK, IterOK, SetsOK, KindOK, RelayOK, OneForward, [Next]_vars
    PROVE  OneForward'
<1> USE DEF TypeOK, OneForward, Outstanding, Taken
<1>1. ASSUME UNCHANGED down PROVE OneForward'
  BY <1>1
<1>2. CASE Forwarding
  <2>1. CASE Relay
    <3>1. session = "scheduled" /\ kind = "relay"
      BY <2>1 DEF Relay
    <3>2. \A d \in Down : down[d] = "none"
      BY <3>1 DEF RelayOK, Fresh
    <3> QED BY <2>1, <3>2 DEF Relay
  <2>2. CASE StartPaying \/ GiveUp
    BY <1>1, <2>2 DEF StartPaying, GiveUp
  <2>3. ASSUME NEW d \in Down, Pay(d) PROVE OneForward'
    BY <2>3 DEF Pay
  <2>4. ASSUME NEW d \in Down, Claim(d) \/ Fulfilled(d) \/ Failed(d) PROVE OneForward'
    BY <2>4 DEF Claim, Fulfilled, Failed
  <2> QED BY <1>2, <2>1, <2>2, <2>3, <2>4 DEF Forwarding
<1>3. CASE Holding
  BY <1>1, <1>3, HoldingKeeps
<1>4. ASSUME NEW h \in Htlc, Arrive(h) \/ ClaimOnchain(h) \/ TimeoutOnchain(h) PROVE OneForward'
  BY <1>1, <1>4 DEF Arrive, ClaimOnchain, TimeoutOnchain, payment
<1>5. ASSUME NEW k \in PaymentKey, Schedules(k) \/ Completes(k) \/ Joins(k) PROVE OneForward'
  BY <1>1, <1>5 DEF Schedules, Completes, Joins
<1>6. CASE StartsStep \/ FailsStep \/ SettlesStep \/ Passes \/ Loses
  BY <1>1, <1>6 DEF StartsStep, FailsStep, SettlesStep, Settles, Passes, Loses, Restarts
<1>7. ASSUME NEW p \in Peer, Redeems(p) PROVE OneForward'
  BY <1>1, <1>7 DEF Redeems
<1>8. ASSUME NEW d \in Down, Forgets(d) PROVE OneForward'
  <2>1. \A e \in Down : down[e] \in {"none", "failed"}
    BY <1>8 DEF Forgets, RelayOK, Fresh
  <2> QED BY <1>8, <2>1 DEF Forgets
<1>9. CASE UNCHANGED vars
  BY <1>1, <1>9 DEF vars
<1> QED BY <1>2, <1>3, <1>4, <1>5, <1>6, <1>7, <1>8, <1>9, Steps

-----------------------------------------------------------------------------
(* What holds whatever is closed, and wherever it crashes *)

SwitchInv == TypeOK /\ IterOK /\ SetsOK /\ KindOK /\ RelayOK /\ OneForward

LEMMA SwitchInit == Init => SwitchInv
<1> SUFFICES ASSUME Init PROVE SwitchInv OBVIOUS
<1>1. TypeOK
  BY TypeInit
<1>2. IterOK
  BY DEF Init, IterOK, Idle
<1>3. \A k \in PaymentKey : sets[k] = NoSet
  BY DEF Init
<1>4. SetsOK
  BY <1>3 DEF Init, SetsOK, NoSet, PaymentKey
<1>5. KindOK
  BY DEF Init, KindOK, Fresh, Closed
<1>6. RelayOK
  BY DEF Init, RelayOK, Fresh
<1>7. OneForward
  BY DEF Init, OneForward, Outstanding, Taken
<1> QED BY <1>1, <1>2, <1>4, <1>5, <1>6, <1>7 DEF SwitchInv

LEMMA SwitchStep == SwitchInv /\ [Next]_vars => SwitchInv'
  BY TypeStep, IterStep, SetsStep, KindStep, RelayStep, OneForwardStep DEF SwitchInv

\* The state of the switch is well formed: a running iteration's snapshot is still
\* right, an htlc is in at most one set, and so on.
THEOREM SwitchIsConsistent == Spec => []SwitchInv
  BY SwitchInit, SwitchStep, PTL DEF Spec

LEMMA AtMostOne ==
    ASSUME NEW S, \A d, e \in S : d = e
    PROVE  Cardinality(S) <= 1
<1>1. CASE S = {}
  BY <1>1, FS_EmptySet
<1>2. CASE S # {}
  <2>1. PICK d \in S : S = {d}
    BY <1>2
  <2>2. Cardinality({d}) = 1
    BY FS_Singleton
  <2> QED BY <2>1, <2>2
<1> QED BY <1>1, <1>2

\* A payment is forwarded by one htlc at a time, and a relayed htlc only once, also
\* after a restart, which finds the set but not the task that forwards it, and may not
\* find the note of what was sent: what keeps it from being sent again is that the set
\* is SETTLING, which was saved when the forwarding was scheduled.
THEOREM ForwardedOnceAlways == Spec => []ForwardedOnce
<1>1. SwitchInv => ForwardedOnce
  <2> SUFFICES ASSUME SwitchInv PROVE ForwardedOnce OBVIOUS
  <2>1. Cardinality({d \in Down : Outstanding(d) \/ Taken(d)}) <= 1
    BY AtMostOne DEF SwitchInv, OneForward
  <2>2. kind = "relay" => Cardinality({d \in Down : ~Fresh(d)}) <= 1
    BY AtMostOne DEF SwitchInv, RelayOK
  <2> QED BY <2>1, <2>2 DEF ForwardedOnce
<1> QED BY <1>1, SwitchIsConsistent, PTL

LEMMA HtlcsOfOneSet ==
    ASSUME TypeOK, SetsOK, NEW k \in PaymentKey, NEW h \in sets[k].htlcs
    PROVE  /\ h \in Htlc
           /\ Whole \in PaymentKey
           /\ h \in sets[Whole].htlcs => k = Whole
  BY DEF TypeOK, SetsOK, Sets, PaymentKey

LEMMA FailedStays ==
    ASSUME TypeOK, IterOK, SetsOK, Next, NEW k \in PaymentKey, sets[k].resolution \in {"FAILED", "EXPIRED"}
    PROVE  sets'[k].resolution \in {"FAILED", "EXPIRED", "none"}
<1> USE DEF NoSet
<1>1. CASE StartsStep
  BY <1>1 DEF StartsStep, StartRaises, StartCollects
<1>2. CASE FailsStep
  BY <1>2 DEF FailsStep, Fails
<1>3. CASE SettlesStep
  BY <1>3 DEF SettlesStep, Settles
<1>4. ASSUME NEW l \in PaymentKey, Schedules(l) \/ Completes(l)
      PROVE  sets'[k].resolution \in {"FAILED", "EXPIRED", "none"}
  BY <1>4 DEF Schedules, Completes
<1>5. ASSUME NEW l \in PaymentKey, Joins(l) PROVE sets'[k].resolution \in {"FAILED", "EXPIRED", "none"}
  BY <1>5 DEF Joins
<1>6. CASE Forwarding
  BY <1>6, ForwardingKeeps
<1>7. CASE Holding
  BY <1>7, HoldingKeeps DEF HoldingSets
<1>8. ASSUME NEW h \in Htlc, Arrive(h) \/ ClaimOnchain(h) \/ TimeoutOnchain(h)
      PROVE  sets'[k].resolution \in {"FAILED", "EXPIRED", "none"}
  BY <1>8 DEF Arrive, ClaimOnchain, TimeoutOnchain
<1>9. CASE Passes \/ Loses \/ \E d \in Down : Forgets(d)
  BY <1>9 DEF Passes, Loses, Forgets
<1>10. ASSUME NEW p \in Peer, Redeems(p) PROVE sets'[k].resolution \in {"FAILED", "EXPIRED", "none"}
  BY <1>10 DEF Redeems
<1> QED BY <1>1, <1>2, <1>3, <1>4, <1>5, <1>6, <1>7, <1>8, <1>9, <1>10, Steps

\* Which steps settle an htlc
LEMMA SettledBy ==
    ASSUME TypeOK, IterOK, SetsOK, Next, NEW h \in Htlc, htlc[h] = "added", htlc'[h] = "settled"
    PROVE  \/ h \in sets[Whole].htlcs /\ SettlesStep
           \/ ClaimOnchain(h)
<1>1. CASE StartsStep
  BY <1>1 DEF StartsStep, StartRaises, StartCollects
<1>2. CASE FailsStep
  BY <1>2 DEF FailsStep, Fails
<1>3. CASE SettlesStep
  BY <1>3 DEF SettlesStep, Settles
<1>4. ASSUME NEW l \in PaymentKey, Schedules(l) \/ Completes(l) \/ Joins(l) PROVE FALSE
  BY <1>4 DEF Schedules, Completes, Joins
<1>5. CASE Forwarding
  BY <1>5, ForwardingKeeps
<1>6. CASE Holding
  BY <1>6, HoldingKeeps
<1>7. ASSUME NEW g \in Htlc, Arrive(g) \/ TimeoutOnchain(g) PROVE FALSE
  BY <1>7 DEF Arrive, TimeoutOnchain, TypeOK
<1>8. ASSUME NEW g \in Htlc, ClaimOnchain(g) PROVE g = h
  BY <1>8 DEF ClaimOnchain, TypeOK
<1>9. CASE Passes \/ Loses \/ \E d \in Down : Forgets(d)
  BY <1>9 DEF Passes, Loses, Forgets
<1>10. ASSUME NEW p \in Peer, Redeems(p) PROVE FALSE
  BY <1>10 DEF Redeems
<1> QED BY <1>1, <1>2, <1>3, <1>4, <1>5, <1>6, <1>7, <1>8, <1>9, <1>10, Steps

\* A set that has failed never settles an htlc: no switch, of whichever peer, nor
\* the one that runs after a restart takes its verdict back.
THEOREM FailedForGoodAlways == Spec => FailedForGood
<1> DEFINE Stays ==
        \A k \in PaymentKey :
           sets[k].resolution \in {"FAILED", "EXPIRED"} =>
              /\ \A h \in sets[k].htlcs : htlc[h] = "added" /\ htlc'[h] = "settled" =>
                     chan[PeerOf[h]] = "closed" /\ may_reveal
              /\ sets'[k].resolution \in {"FAILED", "EXPIRED", "none"}
<1>1. SwitchInv /\ [Next]_vars => [Stays]_vars
  <2> SUFFICES ASSUME SwitchInv, Next, NEW k \in PaymentKey, sets[k].resolution \in {"FAILED", "EXPIRED"}
               PROVE  /\ \A h \in sets[k].htlcs : htlc[h] = "added" /\ htlc'[h] = "settled" =>
                             chan[PeerOf[h]] = "closed" /\ may_reveal
                      /\ sets'[k].resolution \in {"FAILED", "EXPIRED", "none"}
    OBVIOUS
  <2>1. sets'[k].resolution \in {"FAILED", "EXPIRED", "none"}
    BY FailedStays DEF SwitchInv
  <2>2. ASSUME NEW h \in sets[k].htlcs, htlc[h] = "added", htlc'[h] = "settled"
        PROVE  chan[PeerOf[h]] = "closed" /\ may_reveal
    <3>1. /\ h \in Htlc
          /\ h \in sets[Whole].htlcs => k = Whole
      BY HtlcsOfOneSet DEF SwitchInv
    <3>2. ~(h \in sets[Whole].htlcs /\ SettlesStep)
      BY <3>1 DEF SettlesStep, Settles
    <3>3. ClaimOnchain(h)
      BY <2>2, <3>1, <3>2, SettledBy DEF SwitchInv
    <3> QED BY <3>3 DEF ClaimOnchain
  <2> QED BY <2>1, <2>2
<1> QED BY <1>1, SwitchIsConsistent, PTL DEF Spec, FailedForGood

-----------------------------------------------------------------------------
(* The money is covered, as long as no crash comes between the failing of an     *)
(* htlc and the saving of unfulfilled_htlcs without it, and no channel is        *)
(* force-closed over a payment that is held.                                     *)

\* An htlc of a set is still to be settled or failed, unless the set fails or
\* settles, or its channel is closed.  On the chain it times out near its cltv.
RemovedOK ==
    /\ \A k \in PaymentKey : \A h \in sets[k].htlcs :
          /\ htlc[h] = "failed" => \/ sets[k].resolution \in {"FAILED", "EXPIRED"}
                                   \/ Closed(PeerOf[h]) /\ block = "near"
          /\ htlc[h] = "settled" => sets[k].resolution = "SETTLING" \/ Closed(PeerOf[h])
    /\ \A h \in unfulfilled : htlc[h] = "added" \/ Closed(PeerOf[h])

\* Who knows the preimage
PreimageOK ==
    /\ \A h \in Htlc : htlc[h] = "settled" => preimage = "public"
    /\ kind \in Forwarded => preimage # "known" /\ (preimage = "public" <=> \E d \in Down : Taken(d))
    /\ kind \notin Forwarded /\ kind # "swap" /\ sets[Whole].resolution = "SETTLING" => preimage # "unknown"
    /\ kind = "swap" => preimage # "known"
    /\ kind = "swap" /\ info = "none" => preimage = "unknown" /\ session # "funded"

\* A forwarding fails after all that was offered for it failed.
FailureOK ==
    failure =>
        /\ session = "none"
        /\ \A d \in Down : down[d] \in {"none", "failed"}
        /\ kind = "trampoline" => sets[Whole].resolution \in {"SETTLING", "FAILED", "EXPIRED"}

\* The htlcs that are ours, or that we can take; and those that are there
Ours == {h \in Htlc : \/ htlc[h] = "settled"
                      \/ /\ htlc[h] = "added"
                         /\ sets[Whole].resolution = "SETTLING" /\ h \in sets[Whole].htlcs}
Backed == {h \in Htlc : htlc[h] = "added" /\ h \in sets[Whole].htlcs}
Due == IF kind = "relay" THEN 1 ELSE Total

\* Others may take our money or have our preimage, or a step that needs no more of
\* the payer will let them.
Exposed ==
    \/ preimage = "public"
    \/ preimage = "known" /\ sets[Whole].resolution = "SETTLING"
    \/ kind = "relay" /\ session # "none" /\ block # "near"
    \/ kind = "trampoline" /\ session # "none"
    \/ kind \in Forwarded /\ \E d \in Down : Outstanding(d) \/ Taken(d)
    \/ kind = "swap" /\ session = "funded"
    \/ kind = "swap" /\ session = "scheduled" /\ info # "none"

NotHeldAndClosable == ~(kind = "held" /\ "held" \in ClosableKinds)

BackingOK ==
    NotHeldAndClosable =>
        /\ Exposed => Cardinality(Ours) >= Due
        /\ sets[Whole].resolution = "COMPLETE" => Cardinality(Backed) >= Total

CoverInv == SwitchInv /\ RemovedOK /\ PreimageOK /\ FailureOK /\ BackingOK

LEMMA AtLeast ==
    ASSUME NEW S, NEW T \in SUBSET Htlc, S \subseteq T, NEW n \in Nat, Cardinality(S) >= n
    PROVE  Cardinality(T) >= n
<1>1. IsFiniteSet(T)
  BY FS_Subset, AmountsAssumption
<1>2. Cardinality(S) <= Cardinality(T) /\ Cardinality(S) \in Nat /\ Cardinality(T) \in Nat
  BY <1>1, FS_Subset, FS_CardinalityType
<1> QED BY <1>2

LEMMA NotEmpty ==
    ASSUME NEW S \in SUBSET Htlc, NEW h \in S
    PROVE  Cardinality(S) >= 1
<1>1. Cardinality({h}) = 1
  BY FS_Singleton
<1> QED BY <1>1, AtLeast

LEMMA DueType == Due \in Nat \ {0}
  BY AmountsAssumption DEF Due

\* What fails was not exposed.
LEMMA FailureIsSafe ==
    ASSUME CoverInv, failure
    PROVE  kind \in Forwarded /\ preimage = "unknown" /\ ~Exposed /\ \A h \in Htlc : htlc[h] # "settled"
<1>1. kind \in Forwarded
  BY DEF CoverInv, SwitchInv, KindOK
<1>2. /\ session = "none"
      /\ \A d \in Down : ~Taken(d) /\ ~Outstanding(d)
  BY DEF CoverInv, FailureOK, Taken, Outstanding
<1>3. preimage = "unknown"
  BY <1>1, <1>2 DEF CoverInv, PreimageOK, SwitchInv, TypeOK
<1>4. \A h \in Htlc : htlc[h] # "settled"
  BY <1>3 DEF CoverInv, PreimageOK
<1> QED BY <1>1, <1>2, <1>3, <1>4 DEF Exposed

\* While a forwarding is exposed and nobody has taken the money, the set of the
\* payment is settling.
LEMMA ExposedSettles ==
    ASSUME CoverInv, kind \in Forwarded, Exposed, \A d \in Down : ~Taken(d)
    PROVE  sets[Whole].resolution = "SETTLING"
<1>1. preimage = "unknown"
  BY DEF CoverInv, PreimageOK, SwitchInv, TypeOK
<1>2. \A h \in Htlc : htlc[h] # "settled"
  BY <1>1 DEF CoverInv, PreimageOK
<1>3. Cardinality(Ours) >= Due
  BY DEF CoverInv, BackingOK, NotHeldAndClosable, Forwarded
<1>4. Ours # {}
  BY <1>3, DueType, FS_EmptySet
<1> QED BY <1>2, <1>4 DEF Ours

\* The htlcs of a set that is neither settling nor failed are there, unless it is
\* late or they were claimed on the chain.
LEMMA InTime ==
    ASSUME SwitchInv, RemovedOK, block # "near",
           NEW k \in PaymentKey, sets[k].resolution \in {"WAITING", "COMPLETE"}, NEW h \in sets[k].htlcs
    PROVE  /\ h \in Htlc
           /\ htlc[h] \in {"added", "settled"}
           /\ htlc[h] = "settled" => Closed(PeerOf[h])
<1>1. h \in Htlc /\ htlc[h] # "none" /\ htlc[h] \in {"none", "added", "settled", "failed"}
  BY DEF SwitchInv, TypeOK, SetsOK, Sets
<1>2. htlc[h] # "failed" /\ (htlc[h] = "settled" => Closed(PeerOf[h]))
  BY DEF RemovedOK
<1> QED BY <1>1, <1>2

LEMMA NotEmptySets ==
    ASSUME SetsOK, NEW k \in PaymentKey, sets[k].resolution # "none"
    PROVE  sets[k].htlcs # {}
  BY DEF SetsOK, NoSet

\* A set of its own fails after nobody was exposed, or while it was not settling.
LEMMA HoldingFacts ==
    ASSUME SwitchInv, PreimageOK, Holding
    PROVE  /\ preimage' # "unknown" \/ preimage' = preimage
           /\ preimage = "public" => preimage' = "public"
           /\ sets' # sets => preimage = "unknown" /\ preimage' = "unknown"
<1>1. CASE SettleHoldInvoice \/ CancelHoldInvoice \/ SwapClaimed
  BY <1>1 DEF SettleHoldInvoice, CancelHoldInvoice, SwapClaimed, switch
<1>2. CASE HoldInvoiceCallback
  BY <1>2 DEF HoldInvoiceCallback, is_cancelled, PreimageOK
<1>3. CASE FailSwap
  BY <1>3 DEF FailSwap
<1> QED BY <1>1, <1>2, <1>3 DEF Holding

LEMMA RemovedStep ==
    ASSUME CoverInv, [Next]_vars, "collect" \notin CrashPoints
    PROVE  RemovedOK'
<1> USE DEF RemovedOK
<1>0. TypeOK /\ IterOK /\ SetsOK /\ RemovedOK /\ SwitchInv /\ PreimageOK /\ NoSet.htlcs = {}
  BY DEF CoverInv, SwitchInv, NoSet
<1>1. \A k \in PaymentKey : sets[k].htlcs \subseteq Htlc
  BY <1>0 DEF TypeOK, Sets
<1>2. \A p \in Peer : chan[p] = "open" => ~Closed(p)
  BY DEF Closed
<1>3. PeerOf \in [Htlc -> Peer]
  BY PeersAssumption
<1>4. unfulfilled \subseteq Htlc
  BY <1>0 DEF TypeOK
<1>5. CASE StartsStep
  <2>1. PICK p \in Peer :
           /\ UNCHANGED <<kind, block, preimage, info, session, down>>
           /\ chan[p] = "open"
           /\ StartRaises(p) \/ StartCollects(p)
    BY <1>5 DEF StartsStep
  <2>2. CASE StartRaises(p)
    BY <1>0, <1>1, <1>3, <1>4, <2>1, <2>2 DEF StartRaises, ClosedKept
  <2>3. CASE StartCollects(p)
    <3>1. \A q \in Peer : Closed(q)' <=> Closed(q)
      BY <2>3 DEF StartCollects, Closed
    <3>2. ASSUME NEW k \in PaymentKey, NEW h \in sets'[k].htlcs, h \notin sets[k].htlcs
          PROVE  htlc'[h] \notin {"failed", "settled"}
      <4>1. h \in unfulfilled /\ PeerOf[h] = p /\ htlc'[h] = htlc[h]
        BY <2>3, <3>2 DEF StartCollects
      <4> QED BY <1>0, <1>2, <2>1, <4>1
    <3>3. ASSUME NEW k \in PaymentKey, NEW h \in sets[k].htlcs
          PROVE  htlc'[h] = htlc[h] /\ h \in Htlc
      BY <1>0, <1>1, <2>3 DEF StartCollects, SetsOK
    <3>4. ASSUME NEW k \in PaymentKey
          PROVE  \/ sets'[k] = sets[k]
                 \/ sets[k].resolution \in {"none", "WAITING"} /\ sets'[k].resolution = "WAITING"
      BY <2>3 DEF StartCollects
    <3>5. \A k \in PaymentKey : \A h \in sets'[k].htlcs :
             /\ htlc'[h] = "failed" => \/ sets'[k].resolution \in {"FAILED", "EXPIRED"}
                                       \/ Closed(PeerOf[h])' /\ block' = "near"
             /\ htlc'[h] = "settled" => sets'[k].resolution = "SETTLING" \/ Closed(PeerOf[h])'
      BY <1>0, <1>3, <2>1, <3>1, <3>2, <3>3, <3>4
    <3>6. \A h \in unfulfilled' : htlc'[h] = "added" \/ Closed(PeerOf[h])'
      BY <1>0, <1>3, <1>4, <2>3, <3>1 DEF StartCollects
    <3> QED BY <3>5, <3>6
  <2> QED BY <2>1, <2>2, <2>3
<1>6. CASE FailsStep
  <2>1. PICK k \in PaymentKey : Fails(k) /\ UNCHANGED block
    BY <1>6 DEF FailsStep
  <2>2. \A q \in Peer : Closed(q)' <=> Closed(q)
    BY <2>1 DEF Fails, ClosedKept
  <2>3. \A h \in sets[k].htlcs : htlc[h] = "settled" => Closed(PeerOf[h])
    BY <1>0, <1>1, <2>1, FailureIsSafe DEF Fails
  <2>4. \A l \in PaymentKey : l # k => sets'[l] = sets[l] /\ \A h \in sets[l].htlcs : htlc'[h] = htlc[h]
    BY <1>0, <1>1, <2>1 DEF Fails, SetsOK
  <2>5. \A h \in sets'[k].htlcs :
           /\ sets'[k].resolution \in {"FAILED", "EXPIRED"}
           /\ h \in sets[k].htlcs /\ (htlc'[h] = "settled" => htlc[h] = "settled")
    BY <1>0, <1>1, <2>1 DEF Fails
  <2>6. \A h \in unfulfilled' : h \in unfulfilled /\ htlc'[h] = htlc[h]
    BY <1>0, <1>4, <2>1 DEF Fails, SetsOK
  <2> QED BY <1>0, <1>1, <1>3, <1>4, <2>1, <2>2, <2>3, <2>4, <2>5, <2>6
<1>7. CASE SettlesStep
  <2>1. Settles(Whole)
    BY <1>7 DEF SettlesStep, Settles
  <2>2. \A q \in Peer : Closed(q)' <=> Closed(q)
    BY <2>1 DEF Settles, ClosedKept
  <2>3. \A l \in PaymentKey : l # Whole => sets'[l] = sets[l] /\ \A h \in sets[l].htlcs : htlc'[h] = htlc[h]
    BY <1>0, <1>1, <2>1 DEF Settles, SetsOK, PaymentKey
  <2>4. \A h \in sets'[Whole].htlcs :
           /\ sets'[Whole].resolution = "SETTLING"
           /\ h \in sets[Whole].htlcs /\ (htlc'[h] = "failed" => htlc[h] = "failed")
           /\ htlc[h] = "failed" => Closed(PeerOf[h]) /\ block = "near"
    BY <1>0, <1>1, <2>1 DEF Settles, PaymentKey
  <2>5. \A h \in unfulfilled' : h \in unfulfilled /\ htlc'[h] = htlc[h]
    BY <1>0, <1>4, <2>1 DEF Settles, SetsOK, PaymentKey
  <2>6. UNCHANGED block /\ Whole \in PaymentKey
    BY <2>1 DEF Settles, PaymentKey
  <2> QED BY <1>0, <1>1, <1>3, <1>4, <2>2, <2>3, <2>4, <2>5, <2>6
<1>8. ASSUME NEW k \in PaymentKey, Schedules(k) \/ Completes(k) PROVE RemovedOK'
  <2>1. UNCHANGED <<block, chan, htlc, unfulfilled>> /\ \A l \in PaymentKey : l # k => sets'[l] = sets[l]
    BY <1>8 DEF Schedules, Completes
  <2>2. sets[k].resolution \in {"WAITING", "COMPLETE"} /\ sets'[k].htlcs \subseteq sets[k].htlcs
    BY <1>0, <1>8 DEF Schedules, Completes
  <2>3. \A q \in Peer : Closed(q)' <=> Closed(q)
    BY <2>1 DEF Closed
  <2> QED BY <1>0, <1>1, <1>3, <1>4, <2>1, <2>2, <2>3
<1>9. ASSUME NEW k \in PaymentKey, Joins(k) PROVE RemovedOK'
  <2>1. UNCHANGED <<block, chan, htlc, unfulfilled>> /\ k # Whole /\ Whole \in PaymentKey
        /\ sets'[k].htlcs = {} /\ \A l \in PaymentKey : l \notin {k, Whole} => sets'[l] = sets[l]
    BY <1>0, <1>9 DEF Joins, PaymentKey
  <2>2. \A q \in Peer : Closed(q)' <=> Closed(q)
    BY <2>1 DEF Closed
  <2>3. \A h \in sets'[Whole].htlcs : h \in sets[Whole].htlcs \/ h \in sets[k].htlcs
    BY <1>9 DEF Joins
  <2>4. sets[k].resolution \notin {"FAILED", "EXPIRED", "SETTLING"}
    BY <1>0, <1>9, <2>1 DEF Joins, SetsOK
  <2>5. \A h \in sets[Whole].htlcs : sets'[Whole].resolution = sets[Whole].resolution
    BY <1>0, <1>9, <2>1 DEF Joins, SetsOK
  <2> QED BY <1>0, <1>1, <1>3, <1>4, <2>1, <2>2, <2>3, <2>4, <2>5
<1>10. CASE Forwarding
  BY <1>0, <1>1, <1>3, <1>4, <1>10, ForwardingKeeps DEF Closed
<1>11. CASE Holding
  <2>1. UNCHANGED <<block, chan, htlc, unfulfilled>> /\ HoldingSets
    BY <1>0, <1>11, HoldingKeeps
  <2>2. \A q \in Peer : Closed(q)' <=> Closed(q)
    BY <2>1 DEF Closed
  <2>3. CASE sets' = sets
    BY <1>0, <1>1, <1>3, <1>4, <2>1, <2>2, <2>3
  <2>4. CASE sets' # sets
    <3>1. \A h \in Htlc : htlc[h] # "settled"
      BY <1>0, <1>11, <2>4, HoldingFacts DEF PreimageOK
    <3> QED BY <1>0, <1>1, <1>3, <1>4, <2>1, <2>2, <2>4, <3>1 DEF HoldingSets
  <2> QED BY <2>3, <2>4
<1>12. ASSUME NEW g \in Htlc, Arrive(g) PROVE RemovedOK'
  <2>1. /\ UNCHANGED <<block, chan, sets>> /\ unfulfilled' = unfulfilled \cup {g}
        /\ htlc[g] = "none" /\ htlc' = [htlc EXCEPT ![g] = "added"]
    BY <1>12 DEF Arrive, around
  <2>2. \A q \in Peer : Closed(q)' <=> Closed(q)
    BY <2>1 DEF Closed
  <2> QED BY <1>0, <1>1, <1>3, <1>4, <2>1, <2>2 DEF TypeOK
<1>13. ASSUME NEW g \in Htlc, ClaimOnchain(g) \/ TimeoutOnchain(g) PROVE RemovedOK'
  <2>1. /\ UNCHANGED <<block, chan, sets, unfulfilled>> /\ Closed(PeerOf[g])
        /\ \/ htlc' = [htlc EXCEPT ![g] = "settled"]
           \/ htlc' = [htlc EXCEPT ![g] = "failed"] /\ block = "near"
    BY <1>13 DEF ClaimOnchain, TimeoutOnchain, around, Closed
  <2>2. \A q \in Peer : Closed(q)' <=> Closed(q)
    BY <2>1 DEF Closed
  <2> QED BY <1>0, <1>1, <1>3, <1>4, <2>1, <2>2 DEF TypeOK
<1>14. CASE Passes
  BY <1>0, <1>1, <1>3, <1>4, <1>14 DEF Passes
<1>15. ASSUME NEW p \in Peer, Redeems(p) PROVE RemovedOK'
  <2>1. UNCHANGED <<block, htlc, unfulfilled>> /\ \A q \in Peer : Closed(q)' <=> Closed(q)
    BY <1>15 DEF Redeems, ClosedKept
  <2>2. \A l \in PaymentKey : \A h \in sets'[l].htlcs :
            h \in sets[l].htlcs /\ sets'[l].resolution = sets[l].resolution
    BY <1>0, <1>15 DEF Redeems
  <2> QED BY <1>0, <1>1, <1>3, <1>4, <2>1, <2>2
<1>16. CASE Loses
  <2>1. UNCHANGED <<block, unfulfilled, sets>> /\ \A q \in Peer : Closed(q)' <=> Closed(q)
    BY <1>16 DEF Loses, Restarts, ClosedKept
  <2>2. \A h \in Htlc : htlc'[h] = htlc[h]
    BY <1>16 DEF Loses
  <2> QED BY <1>0, <1>1, <1>3, <1>4, <2>1, <2>2
<1>17. ASSUME NEW d \in Down, Forgets(d) PROVE RemovedOK'
  BY <1>0, <1>1, <1>3, <1>4, <1>17 DEF Forgets, ClosedKept
<1>18. CASE UNCHANGED vars
  BY <1>0, <1>1, <1>3, <1>4, <1>18 DEF vars, Closed
<1> QED
  BY <1>0, <1>5, <1>6, <1>7, <1>8, <1>9, <1>10, <1>11, <1>12, <1>13, <1>14, <1>15, <1>16, <1>17, <1>18, Steps

\* A step that does not touch the set of the payment, the callback or what we
\* offered to others, and settles htlcs only when the preimage is public
LEMMA PreimageSame ==
    ASSUME TypeOK, PreimageOK, UNCHANGED <<kind, info, down, preimage>>,
           session' \in {session, "none"},
           sets'[Whole].resolution = "SETTLING" => sets[Whole].resolution = "SETTLING",
           \A h \in Htlc : htlc'[h] = "settled" => htlc[h] = "settled" \/ preimage = "public"
    PROVE  PreimageOK'
  BY DEF PreimageOK, Taken

LEMMA PreimageStep ==
    ASSUME CoverInv, [Next]_vars, "collect" \notin CrashPoints
    PROVE  PreimageOK'
<1>0. TypeOK /\ IterOK /\ SetsOK /\ KindOK /\ RemovedOK /\ SwitchInv /\ PreimageOK
  BY DEF CoverInv, SwitchInv
<1>1. NoSet.resolution # "SETTLING" /\ Whole \in PaymentKey
  BY DEF NoSet, PaymentKey
<1>2. CASE StartsStep
  BY <1>0, <1>1, <1>2, PreimageSame DEF StartsStep, StartRaises, StartCollects
<1>3. CASE FailsStep
  BY <1>0, <1>1, <1>3, PreimageSame DEF FailsStep, Fails
<1>4. CASE SettlesStep
  <2>1. /\ UNCHANGED <<kind, down>> /\ session' \in {session, "none"} /\ info' = Paid
        /\ preimage # "unknown" /\ preimage' \in {preimage, "public"}
        /\ \A h \in Htlc : htlc'[h] = "settled" => htlc[h] = "settled" \/ preimage' = "public"
    BY <1>4 DEF SettlesStep, Settles
  <2>2. kind = "swap" => info # "none"
    BY <1>0, <2>1 DEF PreimageOK
  <2>3. info # "none" => info' # "none"
    BY <2>1 DEF Paid
  <2>4. preimage \in {"known", "public"} /\ preimage' # "unknown" /\ (preimage = "public" => preimage' = "public")
    BY <1>0, <2>1 DEF TypeOK
  <2>5. \A d \in Down : Taken(d)' <=> Taken(d)
    BY <2>1 DEF Taken
  <2>6. kind \in Forwarded => preimage = "public" /\ preimage' = "public"
    BY <1>0, <2>4 DEF PreimageOK
  <2>7. \A h \in Htlc : htlc'[h] = "settled" => preimage' = "public"
    BY <1>0, <2>1, <2>4 DEF PreimageOK
  <2>8. kind = "swap" => preimage' # "known"
    BY <1>0, <2>1 DEF PreimageOK
  <2> QED BY <1>0, <2>1, <2>2, <2>3, <2>4, <2>5, <2>6, <2>7, <2>8 DEF PreimageOK
<1>5. ASSUME NEW k \in PaymentKey, Schedules(k) PROVE PreimageOK'
  BY <1>0, <1>5 DEF Schedules, PreimageOK, Taken
<1>6. ASSUME NEW k \in PaymentKey, Completes(k) \/ Joins(k) PROVE PreimageOK'
  <2>1. sets'[Whole].resolution = "SETTLING" => sets[Whole].resolution = "SETTLING"
    BY <1>0, <1>1, <1>6 DEF Completes, Joins
  <2> QED BY <1>0, <1>6, <2>1, PreimageSame DEF Completes, Joins
<1>7. CASE Forwarding
  <2>1. UNCHANGED <<kind, htlc, sets, info>>
    BY <1>7, ForwardingKeeps
  <2>2. ASSUME UNCHANGED preimage, \A d \in Down : Taken(d)' <=> Taken(d), session' # "funded"
        PROVE PreimageOK'
    BY <1>0, <2>1, <2>2 DEF PreimageOK
  <2>3. CASE Relay
    <3>1. \A d \in Down : Fresh(d)
      BY <1>0, <2>3 DEF Relay, RelayOK, SwitchInv
    <3>2. \A d \in Down : Taken(d)' <=> Taken(d)
      BY <1>0, <2>3, <3>1 DEF Relay, Taken, Fresh, TypeOK
    <3> QED BY <2>2, <2>3, <3>2 DEF Relay
  <2>4. CASE StartPaying \/ GiveUp
    BY <2>2, <2>4 DEF StartPaying, GiveUp, Taken
  <2>5. ASSUME NEW d \in Down, Pay(d) PROVE PreimageOK'
    BY <1>0, <2>2, <2>5 DEF Pay, Taken, TypeOK
  <2>6. ASSUME NEW d \in Down, Claim(d) PROVE PreimageOK'
    <3>1. kind \in Forwarded /\ kind # "swap" /\ preimage' = "public"
      BY <1>0, <2>6 DEF Claim, KindOK, Fresh, Forwarded
    <3>2. Taken(d)'
      BY <1>0, <2>6 DEF Claim, Taken, TypeOK
    <3> QED BY <1>0, <2>1, <3>1, <3>2 DEF PreimageOK
  <2>7. ASSUME NEW d \in Down, Fulfilled(d) \/ Failed(d) PROVE PreimageOK'
    <3>1. kind # "swap" /\ preimage' = preimage
      BY <1>0, <2>7 DEF Fulfilled, Failed, KindOK, Fresh, Forwarded
    <3>2. \A e \in Down : Taken(e)' <=> Taken(e)
      BY <1>0, <2>7 DEF Fulfilled, Failed, Taken, TypeOK
    <3> QED BY <1>0, <2>1, <3>1, <3>2 DEF PreimageOK
  <2> QED BY <1>7, <2>3, <2>4, <2>5, <2>6, <2>7 DEF Forwarding
<1>8. CASE Holding
  <2>1. UNCHANGED <<kind, htlc, down>> /\ HoldingSets
    BY <1>0, <1>8, HoldingKeeps
  <2>2. CASE SettleHoldInvoice
    BY <1>0, <2>1, <2>2 DEF SettleHoldInvoice, PreimageOK, Taken, Forwarded
  <2>3. CASE CancelHoldInvoice
    BY <1>0, <2>1, <2>3 DEF CancelHoldInvoice, PreimageOK, Taken, Forwarded, switch
  <2>4. CASE HoldInvoiceCallback
    BY <1>0, <2>1, <2>4 DEF HoldInvoiceCallback, PreimageOK, Taken, Forwarded, is_cancelled
  <2>5. CASE FailSwap
    BY <1>0, <2>1, <2>5 DEF FailSwap, PreimageOK, Taken, Forwarded
  <2>6. CASE SwapClaimed
    <3>1. kind = "swap" /\ info' = info /\ preimage' = "public" /\ session = "funded"
      BY <1>0, <2>6 DEF SwapClaimed, KindOK
    <3> QED BY <1>0, <2>1, <3>1 DEF PreimageOK, Forwarded
  <2> QED BY <1>8, <2>2, <2>3, <2>4, <2>5, <2>6 DEF Holding
<1>9. ASSUME NEW h \in Htlc, Arrive(h) PROVE PreimageOK'
  BY <1>0, <1>9, PreimageSame DEF Arrive, around, payment, TypeOK
<1>10. ASSUME NEW h \in Htlc, ClaimOnchain(h) PROVE PreimageOK'
  <2>1. preimage = "public" \/ preimage = "known"
    BY <1>10 DEF ClaimOnchain, may_reveal
  <2>2. UNCHANGED <<kind, info, session, down, sets>> /\ preimage' = "public"
    BY <1>10 DEF ClaimOnchain, around
  <2> QED BY <1>0, <2>1, <2>2 DEF PreimageOK, Taken
<1>11. ASSUME NEW h \in Htlc, TimeoutOnchain(h) PROVE PreimageOK'
  BY <1>0, <1>11, PreimageSame DEF TimeoutOnchain, around, payment, TypeOK
<1>12. CASE Passes
  BY <1>0, <1>12, PreimageSame DEF Passes
<1>13. ASSUME NEW p \in Peer, Redeems(p) PROVE PreimageOK'
  BY <1>0, <1>1, <1>13, PreimageSame DEF Redeems
<1>14. CASE Loses
  BY <1>0, <1>14, PreimageSame DEF Loses, Restarts
<1>15. ASSUME NEW d \in Down, Forgets(d) PROVE PreimageOK'
  <2>1. \A e \in Down : Taken(e)' <=> Taken(e)
    BY <1>0, <1>15 DEF Forgets, Fresh, Taken, TypeOK
  <2> QED BY <1>0, <1>15, <2>1 DEF Forgets, PreimageOK
<1>16. CASE UNCHANGED vars
  BY <1>0, <1>16, PreimageSame DEF vars
<1> QED
  BY <1>0, <1>2, <1>3, <1>4, <1>5, <1>6, <1>7, <1>8, <1>9, <1>10, <1>11, <1>12, <1>13, <1>14, <1>15, <1>16, Steps

LEMMA FailureSame ==
    ASSUME FailureOK, UNCHANGED <<kind, down>>, session' \in {session, "none"},
           failure' => failure,
           failure' /\ sets[Whole].resolution \in {"SETTLING", "FAILED", "EXPIRED"} /\ kind = "trampoline" =>
               sets'[Whole].resolution \in {"SETTLING", "FAILED", "EXPIRED"}
    PROVE  FailureOK'
  BY DEF FailureOK

LEMMA FailureStep ==
    ASSUME CoverInv, [Next]_vars
    PROVE  FailureOK'
<1>0. TypeOK /\ IterOK /\ SetsOK /\ KindOK /\ RelayOK /\ OneForward /\ FailureOK
  BY DEF CoverInv, SwitchInv
<1>1. Whole \in PaymentKey
  BY DEF PaymentKey
<1>2. failure => kind \in Forwarded
  BY <1>0 DEF KindOK
<1>3. CASE StartsStep
  BY <1>0, <1>1, <1>3, FailureSame DEF StartsStep, StartRaises, StartCollects
<1>4. CASE FailsStep
  BY <1>0, <1>1, <1>4, FailureSame DEF FailsStep, Fails
<1>5. CASE SettlesStep
  BY <1>0, <1>1, <1>5, FailureSame DEF SettlesStep, Settles
<1>6. ASSUME NEW k \in PaymentKey, Schedules(k) PROVE FailureOK'
  <2>1. k = Whole
    BY <1>0, <1>6 DEF Schedules, SetsOK, Forwarded, NoSet
  <2>2. kind # "held"
    BY <1>6 DEF Schedules, Forwarded
  <2>3. sets[Whole].resolution = "WAITING"
    BY <1>0, <1>6, <2>1, <2>2 DEF Schedules, SetsOK
  <2>4. ~failure
    BY <1>0, <1>2, <2>3 DEF FailureOK, RelayOK, Forwarded
  <2> QED BY <1>6, <2>4 DEF Schedules, FailureOK
<1>7. ASSUME NEW k \in PaymentKey, Completes(k) PROVE FailureOK'
  <2>1. k = Whole => kind = "held"
    BY <1>0, <1>7, NotEmptySets DEF Completes
  <2> QED BY <1>0, <1>1, <1>7, <2>1, FailureSame DEF Completes
<1>8. ASSUME NEW k \in PaymentKey, Joins(k) PROVE FailureOK'
  BY <1>0, <1>8, FailureSame DEF Joins
<1>9. CASE Forwarding
  <2>1. UNCHANGED <<kind, sets>>
    BY <1>9, ForwardingKeeps
  <2>2. CASE Relay
    BY <1>0, <2>1, <2>2 DEF Relay, RelayOK, FailureOK, Fresh
  <2>3. CASE StartPaying
    BY <1>0, <2>3 DEF StartPaying, FailureOK
  <2>4. ASSUME NEW d \in Down, Pay(d) PROVE FailureOK'
    BY <1>0, <2>4 DEF Pay, FailureOK
  <2>5. CASE GiveUp
    <3>1. kind = "trampoline" /\ Exposed /\ \A d \in Down : ~Taken(d) /\ down[d] \in {"none", "failed"}
      BY <1>0, <2>5 DEF GiveUp, KindOK, Exposed, Taken
    <3>2. sets[Whole].resolution = "SETTLING"
      BY <3>1, ExposedSettles DEF Forwarded
    <3> QED BY <2>1, <2>5, <3>1, <3>2 DEF GiveUp, FailureOK
  <2>6. ASSUME NEW d \in Down, Claim(d) \/ Fulfilled(d) PROVE FailureOK'
    BY <1>0, <2>6 DEF Claim, Fulfilled, FailureOK
  <2>7. ASSUME NEW d \in Down, Failed(d) PROVE FailureOK'
    <3> SUFFICES ASSUME failure' PROVE FailureOK'
      BY DEF FailureOK
    <3>1. down[d] = "sent" /\ session = "none" /\ session' = session /\ down' = [down EXCEPT ![d] = "failed"]
      BY <1>0, <2>7 DEF Failed, FailureOK, passes_failure_on
    <3>2. \A e \in Down : e # d => down[e] \in {"none", "failed"}
      BY <1>0, <3>1 DEF OneForward, Outstanding, Taken, TypeOK
    <3>3. kind \in Forwarded /\ Exposed /\ \A e \in Down : ~Taken(e)
      BY <1>0, <3>1, <3>2 DEF KindOK, Fresh, Exposed, Outstanding, Taken
    <3>4. sets[Whole].resolution = "SETTLING"
      BY <3>3, ExposedSettles
    <3> QED BY <1>0, <2>1, <3>1, <3>2, <3>4 DEF FailureOK, TypeOK
  <2> QED BY <1>9, <2>2, <2>3, <2>4, <2>5, <2>6, <2>7 DEF Forwarding
<1>10. CASE Holding
  <2>1. failure' = failure /\ UNCHANGED <<kind, down>>
    BY <1>0, <1>10, HoldingKeeps
  <2>2. failure => session' = session /\ sets' = sets
    BY <1>0, <1>2, <1>10 DEF FailureOK, Holding, SettleHoldInvoice, CancelHoldInvoice, HoldInvoiceCallback,
                             FailSwap, SwapClaimed, Forwarded, switch
  <2> QED BY <1>0, <2>1, <2>2 DEF FailureOK
<1>11. ASSUME NEW h \in Htlc, Arrive(h) \/ ClaimOnchain(h) \/ TimeoutOnchain(h) PROVE FailureOK'
  BY <1>0, <1>11, FailureSame DEF Arrive, ClaimOnchain, TimeoutOnchain, around, payment
<1>12. CASE Passes \/ Loses
  BY <1>0, <1>12, FailureSame DEF Passes, Loses, Restarts
<1>13. ASSUME NEW p \in Peer, Redeems(p) PROVE FailureOK'
  BY <1>0, <1>13, FailureSame DEF Redeems
<1>14. ASSUME NEW d \in Down, Forgets(d) PROVE FailureOK'
  BY <1>0, <1>14 DEF Forgets, FailureOK
<1>15. CASE UNCHANGED vars
  BY <1>0, <1>15, FailureSame DEF vars
<1> QED
  BY <1>0, <1>3, <1>4, <1>5, <1>6, <1>7, <1>8, <1>9, <1>10, <1>11, <1>12, <1>13, <1>14, <1>15, Steps

LEMMA OursType == Ours \in SUBSET Htlc /\ Ours' \in SUBSET Htlc /\ Backed \in SUBSET Htlc /\ Backed' \in SUBSET Htlc
  BY DEF Ours, Backed

\* A step that exposes us to no more, and loses no htlc that covers it
LEMMA BackKept ==
    ASSUME BackingOK, kind' = kind,
           Exposed' => Exposed,
           Exposed => Ours \subseteq Ours',
           NotHeldAndClosable /\ sets'[Whole].resolution = "COMPLETE" =>
               sets[Whole].resolution = "COMPLETE" /\ Backed \subseteq Backed'
    PROVE  BackingOK'
<1>1. Due' = Due /\ Due \in Nat /\ Total \in Nat /\ (NotHeldAndClosable' <=> NotHeldAndClosable)
  BY DueType, AmountsAssumption DEF Due, NotHeldAndClosable
<1>2. ASSUME NotHeldAndClosable, Exposed' PROVE Cardinality(Ours') >= Due'
  BY <1>1, <1>2, OursType, AtLeast DEF BackingOK
<1>3. ASSUME NotHeldAndClosable, sets'[Whole].resolution = "COMPLETE" PROVE Cardinality(Backed') >= Total
  BY <1>1, <1>3, OursType, AtLeast DEF BackingOK
<1> QED BY <1>1, <1>2, <1>3 DEF BackingOK

\* A complete payment is held, and then no channel is closed.
LEMMA CompleteIsOffChain ==
    ASSUME SwitchInv, NotHeldAndClosable, sets[Whole].resolution = "COMPLETE", NEW p \in Peer
    PROVE  kind = "held" /\ ~Closed(p)
<1>1. kind = "held"
  BY DEF SwitchInv, SetsOK
<1> QED BY <1>1 DEF SwitchInv, KindOK, NotHeldAndClosable

LEMMA BackStart ==
    ASSUME CoverInv, StartsStep
    PROVE  BackingOK'
<1>0. TypeOK /\ SetsOK /\ BackingOK /\ Whole \in PaymentKey /\ Whole \in PaymentKey
  BY DEF CoverInv, SwitchInv, PaymentKey
<1>1. PICK p \in Peer : StartRaises(p) \/ StartCollects(p)
  BY DEF StartsStep
<1>2. UNCHANGED <<kind, block, preimage, info, session, down>>
  BY DEF StartsStep
<1>3. CASE StartRaises(p)
  BY <1>0, <1>2, <1>3, BackKept DEF StartRaises, Exposed, Ours, Backed, Outstanding, Taken
<1>4. CASE StartCollects(p)
  <2>1. \/ sets'[Whole] = sets[Whole]
        \/ sets[Whole].resolution \in {"none", "WAITING"} /\ sets'[Whole].resolution = "WAITING"
    BY <1>0, <1>4 DEF StartCollects
  <2>2. \A h \in Htlc : htlc[h] = "settled" \/ h \in sets[Whole].htlcs => htlc'[h] = htlc[h]
    BY <1>0, <1>4 DEF StartCollects, SetsOK
  <2>3. Exposed' => Exposed
    BY <1>2, <2>1 DEF Exposed, Outstanding, Taken
  <2>4. Ours \subseteq Ours'
    BY <2>1, <2>2 DEF Ours
  <2>5. sets'[Whole].resolution = "COMPLETE" => sets[Whole].resolution = "COMPLETE" /\ Backed \subseteq Backed'
    BY <2>1, <2>2 DEF Backed
  <2> QED BY <1>0, <1>2, <2>3, <2>4, <2>5, BackKept
<1> QED BY <1>1, <1>3, <1>4

LEMMA BackFails ==
    ASSUME CoverInv, FailsStep
    PROVE  BackingOK'
<1>0. TypeOK /\ SetsOK /\ BackingOK /\ Whole \in PaymentKey /\ NoSet.resolution = "none"
  BY DEF CoverInv, SwitchInv, PaymentKey, NoSet
<1>1. PICK k \in PaymentKey : Fails(k) /\ UNCHANGED <<kind, block, down>> /\ session' \in {session, "none"}
  BY DEF FailsStep
<1>2. UNCHANGED <<kind, block, preimage, info, down>> /\ session' \in {session, "none"}
  BY <1>1 DEF Fails
<1>3. \/ sets'[Whole] = sets[Whole] /\ k # Whole
      \/ sets'[Whole].resolution \in {"none", "FAILED", "EXPIRED"} /\ k = Whole
  BY <1>0, <1>1 DEF Fails
<1>4. Exposed' => Exposed
  BY <1>2, <1>3 DEF Exposed, Outstanding, Taken
<1>5. Exposed /\ k = Whole => sets[Whole].resolution # "SETTLING"
  BY <1>1, FailureIsSafe DEF Fails
<1>6. \A h \in Htlc : htlc'[h] # htlc[h] => h \in sets[k].htlcs /\ htlc[h] = "added"
  BY <1>1 DEF Fails
<1>7. k # Whole => \A h \in sets[Whole].htlcs : h \in Htlc => htlc'[h] = htlc[h]
  BY <1>0, <1>6 DEF SetsOK
<1>8. Exposed => Ours \subseteq Ours'
  BY <1>3, <1>5, <1>6, <1>7 DEF Ours
<1>9. sets'[Whole].resolution = "COMPLETE" => sets[Whole].resolution = "COMPLETE" /\ Backed \subseteq Backed'
  BY <1>3, <1>7 DEF Backed
<1> QED BY <1>0, <1>2, <1>4, <1>8, <1>9, BackKept

LEMMA BackSettles ==
    ASSUME CoverInv, SettlesStep
    PROVE  BackingOK'
<1>0. /\ TypeOK /\ SetsOK /\ BackingOK /\ SwitchInv /\ RemovedOK /\ PreimageOK
      /\ Whole \in PaymentKey /\ NoSet.resolution = "none"
  BY DEF CoverInv, SwitchInv, PaymentKey, NoSet
<1>1. Settles(Whole) /\ kind' = kind
  BY DEF SettlesStep, Settles
<1>2. sets'[Whole].resolution # "COMPLETE"
  BY <1>0, <1>1 DEF Settles
<1>3. \A h \in Htlc : htlc[h] = "settled" => htlc'[h] = "settled"
  BY <1>1 DEF Settles
<1>4. \A h \in sets[Whole].htlcs : h \in Htlc /\ htlc[h] \in {"added", "settled"} => h \in Ours'
  BY <1>1, <1>3 DEF Settles, Ours
<1>5. Ours \subseteq Ours'
  BY <1>3, <1>4 DEF Ours
<1>6. CASE Exposed
  BY <1>0, <1>1, <1>2, <1>5, <1>6, BackKept
<1>7. CASE ~Exposed
  <2>1. preimage \in {"known", "public"}
    BY <1>0, <1>1 DEF Settles, TypeOK
  <2>2. sets[Whole].resolution # "SETTLING"
    BY <1>7, <2>1 DEF Exposed
  <2>3. /\ sets[Whole].resolution \in {"WAITING", "COMPLETE"}
        /\ kind \notin Forwarded /\ block = "fresh"
        /\ sets[Whole].resolution = "WAITING" => Cardinality(iter.seen[Whole].htlcs) >= Total
        /\ iter.seen[Whole].htlcs \subseteq sets[Whole].htlcs
    BY <1>1, <2>2 DEF Settles
  <2>4. Due' = Total /\ Total \in Nat
    BY <1>1, <2>3, AmountsAssumption DEF Due, Forwarded
  <2>5. ASSUME NotHeldAndClosable PROVE Cardinality(Ours') >= Total
    <3>1. CASE sets[Whole].resolution = "WAITING"
      <4>1. iter.seen[Whole].htlcs \subseteq Ours'
        BY <1>0, <1>4, <2>3, InTime
      <4> QED BY <2>3, <2>4, <3>1, <4>1, OursType, AtLeast
    <3>2. CASE sets[Whole].resolution = "COMPLETE"
      <4>1. Backed \subseteq Ours'
        BY <1>4 DEF Backed
      <4> QED BY <1>0, <2>4, <2>5, <3>2, <4>1, OursType, AtLeast DEF BackingOK
    <3> QED BY <2>3, <3>1, <3>2
  <2> QED BY <1>1, <1>2, <2>4, <2>5 DEF BackingOK, NotHeldAndClosable
<1> QED BY <1>6, <1>7

LEMMA BackSchedules ==
    ASSUME CoverInv, NEW k \in PaymentKey, Schedules(k)
    PROVE  BackingOK'
<1>0. TypeOK /\ SetsOK /\ BackingOK /\ SwitchInv /\ RemovedOK /\ PreimageOK
  BY DEF CoverInv, SwitchInv
<1>1. k = Whole
  BY <1>0 DEF Schedules, SetsOK, Forwarded, NoSet
<1>2. /\ UNCHANGED <<kind, block, htlc, preimage, info, down>>
      /\ kind \in Forwarded \cup {"swap"}
      /\ sets[Whole].resolution = "WAITING"
      /\ sets[Whole].htlcs # {}
      /\ sets'[Whole].resolution = "SETTLING" /\ sets'[Whole].htlcs = sets[Whole].htlcs
  BY <1>0, <1>1, NotEmptySets DEF Schedules, SetsOK, Forwarded
<1>3. ASSUME block # "near", NEW h \in sets[Whole].htlcs PROVE h \in Ours'
  <2>1. h \in Htlc /\ htlc[h] \in {"added", "settled"}
    BY <1>0, <1>1, <1>2, <1>3, InTime
  <2> QED BY <1>2, <2>1 DEF Ours
<1>4. CASE kind # "relay"
  <2>1. iter.seen[Whole].htlcs \subseteq Ours' /\ Cardinality(iter.seen[Whole].htlcs) >= Total
    BY <1>1, <1>2, <1>3, <1>4 DEF Schedules
  <2>2. Cardinality(Ours') >= Total /\ Due' = Total
    BY <1>2, <1>4, <2>1, OursType, AtLeast, AmountsAssumption DEF Due
  <2> QED BY <1>2, <2>2 DEF BackingOK
<1>5. CASE kind = "relay" /\ block # "near"
  <2>1. PICK h \in sets[Whole].htlcs : h \in Ours'
    BY <1>2, <1>3, <1>5
  <2>2. Cardinality(Ours') >= 1 /\ Due' = 1
    BY <1>2, <1>5, <2>1, OursType, NotEmpty DEF Due
  <2> QED BY <1>2, <2>2 DEF BackingOK
<1>6. CASE kind = "relay" /\ block = "near"
  <2>1. preimage # "known"
    BY <1>0, <1>6 DEF PreimageOK, Forwarded
  <2>2. Exposed' => Exposed
    BY <1>2, <1>6, <2>1 DEF Exposed, Outstanding, Taken
  <2>3. Ours \subseteq Ours'
    BY <1>2 DEF Ours
  <2> QED BY <1>0, <1>2, <2>2, <2>3, BackKept
<1> QED BY <1>4, <1>5, <1>6

LEMMA BackCompletes ==
    ASSUME CoverInv, NEW k \in PaymentKey, Completes(k)
    PROVE  BackingOK'
<1>0. TypeOK /\ SetsOK /\ BackingOK /\ SwitchInv /\ RemovedOK /\ KindOK /\ Whole \in PaymentKey
  BY DEF CoverInv, SwitchInv, PaymentKey
<1>1. UNCHANGED <<kind, block, chan, htlc, preimage, info, session, down>> /\ sets[k].htlcs # {}
  BY <1>0, NotEmptySets DEF Completes
<1>2. CASE k # Whole
  <2>1. sets'[Whole] = sets[Whole]
    BY <1>0, <1>2 DEF Completes
  <2>2. (Exposed' => Exposed) /\ Ours' = Ours /\ Backed' = Backed
    BY <1>1, <2>1 DEF Exposed, Ours, Backed, Outstanding, Taken
  <2> QED BY <1>0, <1>1, <2>1, <2>2, BackKept
<1>3. CASE k = Whole
  <2>1. /\ kind = "held" /\ block = "fresh" /\ preimage = "unknown"
        /\ sets[Whole].resolution = "WAITING" /\ sets'[Whole].resolution = "COMPLETE"
        /\ sets'[Whole].htlcs = sets[Whole].htlcs
        /\ Cardinality(iter.seen[Whole].htlcs) >= Total /\ iter.seen[Whole].htlcs \subseteq sets[Whole].htlcs
    BY <1>1, <1>3 DEF Completes
  <2>2. ~Exposed'
    BY <1>1, <2>1 DEF Exposed, Forwarded
  <2>3. ASSUME NotHeldAndClosable PROVE Cardinality(Backed') >= Total
    <3>1. \A p \in Peer : ~Closed(p)
      BY <1>0, <2>1, <2>3 DEF KindOK, NotHeldAndClosable
    <3>2. ASSUME NEW h \in sets[Whole].htlcs PROVE h \in Backed'
      <4>1. h \in Htlc /\ htlc[h] \in {"added", "settled"} /\ (htlc[h] = "settled" => Closed(PeerOf[h]))
        BY <1>0, <2>1, <3>2, InTime
      <4>2. PeerOf[h] \in Peer
        BY <4>1, PeersAssumption
      <4> QED BY <1>1, <2>1, <3>1, <4>1, <4>2 DEF Backed
    <3> QED BY <2>1, <3>2, OursType, AtLeast, AmountsAssumption
  <2> QED BY <1>1, <2>2, <2>3 DEF BackingOK, NotHeldAndClosable
<1> QED BY <1>2, <1>3

LEMMA BackForwarding ==
    ASSUME CoverInv, Forwarding
    PROVE  BackingOK'
<1>0. TypeOK /\ BackingOK /\ KindOK
  BY DEF CoverInv, SwitchInv
<1>1. UNCHANGED <<kind, block, htlc, sets, info>>
  BY ForwardingKeeps
<1>2. Ours' = Ours /\ Backed' = Backed
  BY <1>1 DEF Ours, Backed
<1>3. Exposed' => Exposed
  <2>1. CASE Relay
    <3>1. /\ kind = "relay" /\ session = "scheduled" /\ session' = "none" /\ preimage' = preimage
          /\ down' # down => block = "fresh"
      BY <2>1 DEF Relay
    <3>2. CASE down' # down
      BY <3>1, <3>2 DEF Exposed
    <3>3. CASE down' = down
      BY <1>1, <3>1, <3>3 DEF Exposed, Outstanding, Taken
    <3> QED BY <3>2, <3>3
  <2>2. CASE StartPaying
    BY <2>2 DEF StartPaying, Exposed
  <2>3. CASE GiveUp
    BY <1>0, <2>3 DEF GiveUp, Exposed, KindOK
  <2>4. ASSUME NEW d \in Down, Pay(d) PROVE Exposed
    BY <1>0, <2>4 DEF Pay, Exposed, KindOK
  <2>5. ASSUME NEW d \in Down, Claim(d) \/ Fulfilled(d) \/ Failed(d) PROVE Exposed
    BY <1>0, <2>5 DEF Claim, Fulfilled, Failed, Exposed, KindOK, Fresh, Outstanding
  <2> QED BY <2>1, <2>2, <2>3, <2>4, <2>5 DEF Forwarding
<1> QED BY <1>0, <1>1, <1>2, <1>3, BackKept

LEMMA BackHolding ==
    ASSUME CoverInv, Holding
    PROVE  BackingOK'
<1>0. TypeOK /\ BackingOK /\ KindOK /\ SetsOK /\ PreimageOK
  BY DEF CoverInv, SwitchInv
<1>1. UNCHANGED <<kind, block, htlc, down>> /\ HoldingSets
  BY <1>0, HoldingKeeps
<1>2. ASSUME sets' = sets PROVE Ours' = Ours /\ Backed' = Backed
  BY <1>1, <1>2 DEF Ours, Backed
<1>3. ASSUME sets' = sets, Exposed' => Exposed PROVE BackingOK'
  BY <1>0, <1>1, <1>2, <1>3, BackKept
<1>4. ASSUME ~Exposed', kind = "swap" PROVE BackingOK'
  <2>1. sets'[Whole].resolution # "COMPLETE"
    BY <1>0, <1>1, <1>4 DEF HoldingSets, SetsOK
  <2> QED BY <1>4, <2>1 DEF BackingOK
<1>5. CASE SettleHoldInvoice
  <2>1. kind = "held" /\ preimage = "unknown" /\ preimage' = "known" /\ sets' = sets
    BY <1>5 DEF SettleHoldInvoice, switch
  <2>2. sets[Whole].resolution # "SETTLING"
    BY <1>0, <2>1 DEF PreimageOK, Forwarded
  <2>3. ~Exposed'
    BY <1>1, <2>1, <2>2 DEF Exposed, Forwarded
  <2> QED BY <1>3, <2>1, <2>3
<1>6. CASE CancelHoldInvoice
  <2>1. kind = "held" /\ UNCHANGED <<sets, preimage>>
    BY <1>6 DEF CancelHoldInvoice, switch
  <2>2. Exposed' => Exposed
    BY <1>1, <2>1 DEF Exposed, Forwarded
  <2> QED BY <1>3, <2>1, <2>2
<1>7. CASE HoldInvoiceCallback
  <2>1. kind = "swap" /\ session = "scheduled" /\ UNCHANGED <<preimage, info>>
    BY <1>7 DEF HoldInvoiceCallback
  <2>2. CASE info = "none"
    <3>1. preimage' = "unknown" /\ session' = "none"
      BY <1>0, <1>7, <2>1, <2>2 DEF HoldInvoiceCallback, is_cancelled, PreimageOK
    <3>2. ~Exposed'
      BY <1>1, <2>1, <3>1 DEF Exposed, Forwarded
    <3> QED BY <1>4, <2>1, <3>2
  <2>3. CASE info # "none"
    <3>1. Exposed /\ sets' = sets
      BY <1>7, <2>1, <2>3 DEF HoldInvoiceCallback, is_cancelled, Exposed
    <3> QED BY <1>3, <3>1
  <2> QED BY <2>2, <2>3
<1>8. CASE FailSwap
  <2>1. kind = "swap" /\ preimage' = "unknown" /\ info' = "none" /\ session' # "funded"
    BY <1>8 DEF FailSwap
  <2>2. ~Exposed'
    BY <1>1, <2>1 DEF Exposed, Forwarded
  <2> QED BY <1>4, <2>1, <2>2
<1>9. CASE SwapClaimed
  <2>1. Exposed /\ sets' = sets
    BY <1>0, <1>9 DEF SwapClaimed, switch, Exposed, KindOK
  <2> QED BY <1>3, <2>1
<1> QED BY <1>5, <1>6, <1>7, <1>8, <1>9 DEF Holding

LEMMA BackOnchain ==
    ASSUME CoverInv, NEW g \in Htlc, ClaimOnchain(g) \/ TimeoutOnchain(g)
    PROVE  BackingOK'
<1>0. TypeOK /\ BackingOK /\ SwitchInv /\ PreimageOK
  BY DEF CoverInv, SwitchInv
<1>1. UNCHANGED <<kind, block, sets, info, session, down>> /\ Closed(PeerOf[g]) /\ PeerOf[g] \in Peer
  BY PeersAssumption DEF ClaimOnchain, TimeoutOnchain, around, payment, Closed
<1>2. NotHeldAndClosable => sets[Whole].resolution # "COMPLETE"
  BY <1>0, <1>1, CompleteIsOffChain
<1>3. CASE ClaimOnchain(g)
  <2>1. /\ htlc' = [htlc EXCEPT ![g] = "settled"] /\ preimage' = "public"
        /\ preimage = "public" \/ (preimage = "known" /\ IsComplete)
    BY <1>3 DEF ClaimOnchain, may_reveal
  <2>2. Ours \subseteq Ours'
    BY <1>0, <1>1, <2>1 DEF Ours, TypeOK
  <2>3. NotHeldAndClosable => Exposed
    BY <1>2, <2>1 DEF IsComplete, Exposed
  <2>4. CASE Exposed
    BY <1>0, <1>1, <1>2, <2>2, <2>4, BackKept
  <2>5. CASE ~Exposed
    BY <1>1, <2>3, <2>5 DEF BackingOK, NotHeldAndClosable
  <2> QED BY <2>4, <2>5
<1>4. CASE TimeoutOnchain(g)
  <2>1. preimage' = preimage /\ session = "none" /\ ~may_reveal /\ \A d \in Down : ~Outstanding(d)
    BY <1>4 DEF TimeoutOnchain, payment
  <2>2. preimage # "public" /\ ~(preimage = "known" /\ sets[Whole].resolution = "SETTLING")
    BY <2>1 DEF may_reveal, IsComplete
  <2>3. kind \in Forwarded => \A d \in Down : ~Taken(d)
    BY <1>0, <2>2 DEF PreimageOK
  <2>4. ~Exposed'
    BY <1>1, <2>1, <2>2, <2>3 DEF Exposed, Outstanding, Taken
  <2> QED BY <1>1, <1>2, <2>4 DEF BackingOK, NotHeldAndClosable
<1> QED BY <1>3, <1>4

LEMMA BackRedeems ==
    ASSUME CoverInv, NEW p \in Peer, Redeems(p)
    PROVE  BackingOK'
<1>0. TypeOK /\ BackingOK /\ Whole \in PaymentKey /\ NoSet.resolution = "none"
  BY DEF CoverInv, SwitchInv, PaymentKey, NoSet
<1>1. UNCHANGED <<kind, block, htlc, preimage, info, session, down>>
      /\ \A h \in Htlc : PeerOf[h] = p => htlc[h] # "added"
  BY DEF Redeems
<1>2. \/ sets'[Whole] = sets[Whole]
      \/ sets'[Whole] = NoSet /\ \A h \in sets[Whole].htlcs : PeerOf[h] = p
      \/ /\ sets'[Whole].resolution = sets[Whole].resolution
         /\ sets'[Whole].htlcs = {h \in sets[Whole].htlcs : PeerOf[h] # p}
  BY <1>0 DEF Redeems
<1>3. Exposed' => Exposed
  BY <1>0, <1>1, <1>2 DEF Exposed, Outstanding, Taken
<1>4. Ours \subseteq Ours'
  BY <1>1, <1>2 DEF Ours
<1>5. sets'[Whole].resolution = "COMPLETE" => sets[Whole].resolution = "COMPLETE" /\ Backed \subseteq Backed'
  BY <1>0, <1>1, <1>2 DEF Backed
<1> QED BY <1>0, <1>1, <1>3, <1>4, <1>5, BackKept

LEMMA BackingStep ==
    ASSUME CoverInv, [Next]_vars, "collect" \notin CrashPoints
    PROVE  BackingOK'
<1>0. TypeOK /\ IterOK /\ SetsOK /\ KindOK /\ BackingOK /\ Whole \in PaymentKey
  BY DEF CoverInv, SwitchInv, PaymentKey
<1>1. ASSUME NEW k \in PaymentKey, Joins(k) PROVE BackingOK'
  <2>1. UNCHANGED <<kind, block, htlc, preimage, info, session, down>>
    BY <1>1 DEF Joins
  <2>2. /\ sets'[Whole].resolution \in {"SETTLING", "COMPLETE"} => sets'[Whole].resolution = sets[Whole].resolution
        /\ sets[Whole].resolution = "SETTLING" => sets'[Whole].resolution = "SETTLING"
        /\ sets[Whole].htlcs \subseteq sets'[Whole].htlcs
    BY <1>1 DEF Joins
  <2>3. (Exposed' => Exposed) /\ Ours \subseteq Ours' /\ Backed \subseteq Backed'
    BY <2>1, <2>2 DEF Exposed, Ours, Backed, Outstanding, Taken
  <2> QED BY <1>0, <2>1, <2>2, <2>3, BackKept
<1>2. ASSUME NEW h \in Htlc, Arrive(h) PROVE BackingOK'
  <2>1. UNCHANGED <<kind, block, sets, preimage, info, session, down>>
        /\ htlc[h] = "none" /\ htlc' = [htlc EXCEPT ![h] = "added"]
    BY <1>2 DEF Arrive, around, payment
  <2>2. (Exposed' => Exposed) /\ Ours \subseteq Ours' /\ Backed \subseteq Backed'
    BY <1>0, <2>1 DEF Exposed, Ours, Backed, Outstanding, Taken, TypeOK
  <2> QED BY <1>0, <2>1, <2>2, BackKept
<1>3. CASE Passes
  <2>1. (Exposed' => Exposed) /\ Ours' = Ours /\ Backed' = Backed
    BY <1>3 DEF Passes, Exposed, Ours, Backed, Outstanding, Taken
  <2> QED BY <1>0, <1>3, <2>1, BackKept DEF Passes
<1>4. CASE Loses
  <2>1. UNCHANGED <<kind, block, sets, preimage, info, down>> /\ session' \in {session, "none"}
        /\ \A h \in Htlc : htlc'[h] = htlc[h]
    BY <1>4 DEF Loses, Restarts
  <2>2. (Exposed' => Exposed) /\ Ours' = Ours /\ Backed' = Backed
    BY <2>1 DEF Exposed, Ours, Backed, Outstanding, Taken
  <2> QED BY <1>0, <2>1, <2>2, BackKept
<1>5. CASE UNCHANGED vars
  <2>1. (Exposed' => Exposed) /\ Ours' = Ours /\ Backed' = Backed
    BY <1>5 DEF vars, Exposed, Ours, Backed, Outstanding, Taken
  <2> QED BY <1>0, <1>5, <2>1, BackKept DEF vars
<1>6. ASSUME NEW d \in Down, Forgets(d) PROVE BackingOK'
  <2>1. UNCHANGED <<kind, block, htlc, sets, preimage, info>> /\ session' = "none"
    BY <1>6 DEF Forgets
  <2>2. Exposed
    BY <1>0, <1>6 DEF Forgets, Exposed, KindOK
  <2>3. Ours' = Ours /\ Backed' = Backed
    BY <2>1 DEF Ours, Backed
  <2> QED BY <1>0, <2>1, <2>2, <2>3, BackKept
<1> QED
  BY <1>0, <1>1, <1>2, <1>3, <1>4, <1>5, <1>6, Steps, BackStart, BackFails, BackSettles, BackSchedules, BackCompletes,
     BackForwarding, BackHolding, BackOnchain, BackRedeems

LEMMA CoverInit == Init => CoverInv
<1> SUFFICES ASSUME Init PROVE CoverInv OBVIOUS
<1>1. SwitchInv
  BY SwitchInit
<1>2. Whole \in PaymentKey /\ NoSet.htlcs = {} /\ NoSet.resolution = "none"
  BY DEF PaymentKey, NoSet
<1>3. RemovedOK
  BY <1>2 DEF Init, RemovedOK
<1>4. PreimageOK
  BY <1>2 DEF Init, PreimageOK, Forwarded, Taken
<1>5. FailureOK
  BY DEF Init, FailureOK
<1>6. ~Exposed /\ sets[Whole].resolution # "COMPLETE"
  BY <1>2 DEF Init, Exposed, Forwarded, Outstanding, Taken
<1> QED BY <1>1, <1>3, <1>4, <1>5, <1>6 DEF CoverInv, BackingOK

LEMMA CoverStep ==
    ASSUME "collect" \notin CrashPoints
    PROVE  CoverInv /\ [Next]_vars => CoverInv'
<1> SUFFICES ASSUME CoverInv, [Next]_vars PROVE CoverInv' OBVIOUS
<1>1. SwitchInv'
  BY SwitchStep DEF CoverInv
<1> QED BY <1>1, RemovedStep, PreimageStep, FailureStep, BackingStep DEF CoverInv

LEMMA CoverInvCovers ==
    ASSUME CoverInv, NotHeldAndClosable
    PROVE  Covered
<1>1. Exposed => Cardinality(Ours) >= Due
  BY DEF CoverInv, BackingOK
<1>2. \A h \in Htlc : htlc[h] = "settled" => Exposed
  BY DEF CoverInv, PreimageOK, Exposed
<1>3. Ours = {h \in Htlc : htlc[h] = "settled" \/ (htlc[h] = "added" /\
                  h \in (IF sets[Whole].resolution = "SETTLING" THEN sets[Whole].htlcs ELSE {}))}
  BY DEF Ours
<1>4. \/ kind \in Forwarded /\ \E d \in Down : Outstanding(d) \/ Taken(d)
      \/ kind = "swap" /\ session = "funded"
      \/ \E h \in Htlc : htlc[h] = "settled"
      => Exposed
  BY <1>2 DEF Exposed
<1> QED BY <1>1, <1>3, <1>4 DEF Covered, Due

\* What covers us holds in every state: which htlcs a set still needs, who knows the
\* preimage, when a forwarding may fail, and what is there when we are exposed.
THEOREM CoverInvAlways ==
    ASSUME "collect" \notin CrashPoints
    PROVE  Spec => []CoverInv
<1>1. Init => CoverInv
  BY CoverInit
<1>2. CoverInv /\ [Next]_vars => CoverInv'
  BY CoverStep
<1> QED BY <1>1, <1>2, PTL DEF Spec

\* Once others may take our money, or got the preimage of our invoice, we have or can
\* take the whole amount, whatever is closed and wherever it crashes, with two
\* exceptions the code has: a crash between the failing of an htlc and the saving of
\* unfulfilled_htlcs, after which it is collected again, and a held payment over a
\* channel that is closed, of which a part may time out.
THEOREM CoveredUnlessHeld ==
    ASSUME "collect" \notin CrashPoints
    PROVE  Spec => [](NotHeldAndClosable => Covered)
<1>1. CoverInv => (NotHeldAndClosable => Covered)
  BY CoverInvCovers
<1> QED BY <1>1, CoverInvAlways, PTL

\* The same where no channel of a held payment is closed
THEOREM CoveredAlways ==
    ASSUME "collect" \notin CrashPoints, "held" \notin ClosableKinds
    PROVE  Spec => []Covered
<1>1. NotHeldAndClosable
  BY DEF NotHeldAndClosable
<1>2. CoverInv => Covered
  BY <1>1, CoverInvCovers
<1> QED BY <1>2, CoverInvAlways, PTL

\* A closed channel's htlcs are not in the hands of its switch.
LEMMA MineIsOpen ==
    ASSUME NEW k, NEW h \in mine(k)
    PROVE  h \in sets[k].htlcs /\ PeerOf[h] = iter.peer /\ ~Closed(PeerOf[h])
  BY DEF mine, Own, CanSend, Closed

LEMMA RaisesNever ==
    ASSUME CoverInv, SwitchNeverRaises, [Next]_vars
    PROVE  SwitchNeverRaises'
<1> USE DEF SwitchNeverRaises
<1>0. TypeOK /\ IterOK /\ SetsOK /\ RemovedOK
  BY DEF CoverInv, SwitchInv
<1>1. ASSUME UNCHANGED alarms PROVE SwitchNeverRaises'
  BY <1>1
<1>2. ASSUME NEW p \in Peer, StartIteration(p) PROVE SwitchNeverRaises'
  <2>1. ASSUME NEW h \in Refused(p) PROVE htlc[h] = "added"
    <3>1. h \in unfulfilled /\ PeerOf[h] = p
      BY DEF Refused, Unprocessed
    <3>2. ~Closed(p)
      BY <1>2 DEF StartIteration, CanSend, Closed
    <3> QED BY <1>0, <3>1, <3>2 DEF RemovedOK
  <2>2. UNCHANGED alarms
    BY <1>2, <2>1 DEF StartIteration
  <2> QED BY <1>1, <2>2
<1>3. ASSUME NEW k \in PaymentKey, FailSet(k) PROVE SwitchNeverRaises'
  <2>1. k \in iter.todo /\ Verdict(k, iter.seen[k]) \in {"fail", "expire", "fail again"} /\ iter.seen[k] \in Sets
    BY <1>0, <1>3 DEF FailSet, Turn, TypeOK
  <2>2. sets[k].resolution # "SETTLING" \/ failure
    BY <1>0, <2>1, VerdictFacts DEF IterOK
  <2>3. ASSUME NEW h \in mine(k) PROVE htlc[h] # "settled"
    <3>1. h \in sets[k].htlcs /\ ~Closed(PeerOf[h]) /\ h \in Htlc
      BY <1>0, MineIsOpen, HtlcsOfOneSet
    <3> QED BY <1>0, <2>2, <3>1, FailureIsSafe DEF RemovedOK
  <2>4. UNCHANGED alarms
    BY <1>3, <2>3 DEF FailSet
  <2> QED BY <1>1, <2>4
<1>4. ASSUME NEW k \in PaymentKey, FulfillSet(k) PROVE SwitchNeverRaises'
  <2>1. k \in iter.todo /\ Verdict(k, iter.seen[k]) = "settle"
    BY <1>4 DEF FulfillSet, Turn
  <2>2. k # Whole => sets[k].resolution \notin {"COMPLETE", "SETTLING"}
    BY <1>0 DEF SetsOK
  <2>3. sets[k].resolution \in {"SETTLING", "WAITING", "COMPLETE"}
    BY <1>0, <2>1, <2>2, SettleFacts
  <2>4. ASSUME NEW h \in mine(k) PROVE htlc[h] # "failed"
    <3>1. h \in sets[k].htlcs /\ ~Closed(PeerOf[h])
      BY MineIsOpen
    <3> QED BY <1>0, <2>3, <3>1 DEF RemovedOK
  <2>5. UNCHANGED alarms
    BY <1>4, <2>4 DEF FulfillSet
  <2> QED BY <1>1, <2>5
<1>5. ASSUME NEW k \in PaymentKey, CallBack(k) \/ Completed(k) \/ MoveToParent(k) PROVE SwitchNeverRaises'
  BY <1>1, <1>5 DEF CallBack, Completed, MoveToParent
<1>6. CASE Forwarding \/ Holding
  BY <1>0, <1>1, <1>6, ForwardingKeeps, HoldingKeeps
<1>7. ASSUME NEW h \in Htlc, Arrive(h) \/ ClaimOnchain(h) \/ TimeoutOnchain(h) PROVE SwitchNeverRaises'
  BY <1>1, <1>7 DEF Arrive, ClaimOnchain, TimeoutOnchain
<1>8. CASE NewTip \/ TimePasses
  BY <1>1, <1>8 DEF NewTip, TimePasses, switch
<1>9. ASSUME NEW p \in Peer, Disconnect(p) \/ Reconnect(p) \/ ForceClose(p) PROVE SwitchNeverRaises'
  BY <1>1, <1>9 DEF Disconnect, Reconnect, ForceClose
<1>10. ASSUME NEW p \in Peer, Redeemed(p) PROVE SwitchNeverRaises'
  <2>1. alarms' \in {alarms, alarms \cup {"cleanup"}}
    BY <1>10 DEF Redeemed
  <2> QED BY <2>1
<1>11. CASE Crash \/ \E p \in Peer : CrashInCollect(p)
  BY <1>1, <1>11 DEF Crash, CrashInCollect, Restarted
<1>12. ASSUME NEW k \in PaymentKey, CrashInFail(k) \/ CrashInFulfill(k) PROVE SwitchNeverRaises'
  BY <1>1, <1>12 DEF CrashInFail, CrashInFulfill, Restarted
<1>13. ASSUME NEW d \in Down, CrashInForwarding(d) PROVE SwitchNeverRaises'
  BY <1>1, <1>13 DEF CrashInForwarding, Restarted
<1>14. CASE UNCHANGED vars
  BY <1>1, <1>14 DEF vars
<1> QED
  BY <1>2, <1>3, <1>4, <1>5, <1>6, <1>7, <1>8, <1>9, <1>10, <1>11, <1>12, <1>13, <1>14 DEF Next, SetTurn

\* No switch settles what was failed, by its own iterations, another peer's or those
\* before a restart, nor fails what was settled, nor removes an htlc twice, unless a
\* crash came between the failing of an htlc and the saving of unfulfilled_htlcs.
THEOREM SwitchNeverRaisesAlways ==
    ASSUME "collect" \notin CrashPoints
    PROVE  Spec => []SwitchNeverRaises
<1>1. Init => SwitchNeverRaises
  BY DEF Init, SwitchNeverRaises
<1>2. CoverInv /\ SwitchNeverRaises /\ [Next]_vars => SwitchNeverRaises'
  BY RaisesNever
<1> QED BY <1>1, <1>2, CoverInvAlways, PTL DEF Spec

=============================================================================
