-------------------------- MODULE LNChannel_ledger --------------------------
(***************************************************************************)
(* What the two nodes sign is fair: no ctx gives a node less than nothing, *)
(* or loses money, and the channel is a CommitmentLedger as long as no     *)
(* copy of a wallet file is restored.                                      *)
(*                                                                         *)
(* LedgerInv is that every log there is, in memory, in a file or in a copy *)
(* of one, is as HTLCManager_proofs shows its methods to keep it, and that *)
(* the messages on their way, or kept to be sent again, carry ids, amounts *)
(* and feerates of the right type.                                         *)
(***************************************************************************)
EXTENDS LNChannel_proofs, HTLCManager_proofs

-----------------------------------------------------------------------------
(* What holds of every log in the channel *)

Holdings(n) == [s \in Owner |-> InitialBalance[NodeOf(n, s)]]

\* What HTLCManager_proofs shows the methods of the log to keep, and that n's log knows
\* who funded the channel
GoodLog(n, m) ==
    /\ ConsistentLog(m) /\ ExactDelta(m) /\ SortedFees(m)
    /\ Solvent(m, Holdings(n))
    /\ m.initiator = SideOf(n, Funder)

\* A ctx that the ledger admits: nobody has less than nothing in it, and nothing is lost.
FairCtx(tx) == Ledger!IsCtx(tx, tx.owner, tx.ctn)

(* What each side had at the start *)
LEMMA HoldingsAre ==
    ASSUME NEW n \in Node
    PROVE  /\ Holdings(n) \in [Owner -> Nat]
           /\ \A s \in Owner : NodeOf(n, s) \in Node /\ Holdings(n)[s] = InitialBalance[NodeOf(n, s)]
           /\ \A q \in Node : SideOf(n, q) \in Owner /\ NodeOf(n, SideOf(n, q)) = q
           /\ SideOf(n, n) = Local /\ SideOf(n, Peer(n)) = Remote
<1>1. \A s \in Owner : NodeOf(n, s) \in Node
  BY PeerFacts DEF NodeOf
<1>2. \A q \in Node : SideOf(n, q) \in Owner /\ NodeOf(n, SideOf(n, q)) = q
  BY PeerFacts, OwnerFacts DEF SideOf
<1>3. SideOf(n, n) = Local /\ SideOf(n, Peer(n)) = Remote
  BY PeerFacts DEF SideOf
<1> QED BY <1>1, <1>2, <1>3, BalanceAssumption DEF Holdings

(* A call keeps a log good, if an htlc that it adds can be paid. *)
LEMMA GoodCall ==
    ASSUME NEW n \in Node, NEW h, GoodLog(n, h), NEW g, IsCall(h, g),
           \/ \A p \in Owner : g.next[p] <= h.next[p]
           \/ Affordable(h, g, Holdings(n))
    PROVE  GoodLog(n, g)
<1>1. ConsistentLog(h) /\ ExactDelta(h) /\ SortedFees(h) /\ Solvent(h, Holdings(n))
  BY DEF GoodLog
<1>2. Affordable(h, g, Holdings(n))
  BY <1>1, NothingToAfford
<1>3. Solvent(g, Holdings(n))
  BY <1>1, <1>2, HoldingsAre, CallKeepsSolvent
<1>4. ConsistentLog(g) /\ ExactDelta(g) /\ SortedFees(g) /\ g.initiator = h.initiator
  BY <1>1, CallPreserves, CallKeepsDelta, CallKeepsFees, CallFacts
<1> QED BY <1>3, <1>4 DEF GoodLog

(* A sum over the two nodes *)
LEMMA SumOfNodes ==
    ASSUME NEW n \in Node, NEW f, \A q \in Node : f[q] \in Int
    PROVE  OfInts(f, Node) /\ Total(f, Node) = f[n] + f[Peer(n)]
<1>1. OfInts(f, Node)
  BY NodeAssumption DEF OfInts
<1>2. Total(f, Node) = f[n] + Total(f, Node \ {n})
  BY <1>1, TotalSplit
<1>3. Node \ {n} = {Peer(n)}
  BY PeerFacts
<1>4. OfInts(f, {Peer(n)})
  BY <1>1, <1>3, OfIntsSubset
<1>5. Total(f, {Peer(n)}) = f[Peer(n)] + Total(f, {})
  <2>1. {Peer(n)} \ {Peer(n)} = {} /\ Peer(n) \in {Peer(n)}
    OBVIOUS
  <2> QED BY <1>4, <2>1, TotalSplit
<1>6. Total(f, {}) = 0
  <2>1. OfInts(f, {})
    BY <1>4, OfIntsSubset
  <2> QED BY <2>1, TotalSplit
<1>7. f[Peer(n)] \in Int /\ f[n] \in Int
  BY PeerFacts
<1>8. Total(f, {Peer(n)}) = f[Peer(n)]
  BY <1>5, <1>6, <1>7
<1> QED BY <1>1, <1>2, <1>3, <1>8

(* What is in the channel *)
LEMMA CapacityIs ==
    MapThenSumSet(LAMBDA n : InitialBalance[n], Node) = Total(InitialBalance, Node)
  BY DEF MapThenSumSet, MapThenFoldSet, Total, First
IsAmounts(g, S) ==
    g = [s \in SUBSET S |-> IF s = {} THEN 0 ELSE Ledger!Amount(First(s)) + g[s \ {First(s)}]]

LEMMA AmountTableExists ==
    ASSUME NEW S, NEW f, OfInts(f, S), \A x \in S : f[x] = x[2]
    PROVE  Ledger!MapThenSumSet(Ledger!Amount, S) = Total(f, S)
<1> DEFINE g == CHOOSE g : IsAmounts(g, S)
<1>1. ASSUME NEW h PROVE IsAmounts(h, S) <=> IsTable(h, f, S)
  <2>1. \A s \in SUBSET S : s # {} => f[First(s)] = Ledger!Amount(First(s))
    BY DEF First, Ledger!Amount
  <2>2. [s \in SUBSET S |-> IF s = {} THEN 0 ELSE Ledger!Amount(First(s)) + h[s \ {First(s)}]]
         = [s \in SUBSET S |-> IF s = {} THEN 0 ELSE f[First(s)] + h[s \ {First(s)}]]
    BY <2>1
  <2> QED BY <2>2 DEF IsAmounts, IsTable
<1>2. \E h : IsTable(h, f, S)
  BY TableExists DEF OfInts
<1>3. IsAmounts(g, S)
  BY <1>1, <1>2
<1>4. IsTable(g, f, S)
  BY <1>1, <1>3
<1>5. Ledger!MapThenSumSet(Ledger!Amount, S) = g[S]
  BY DEF Ledger!MapThenSumSet, Ledger!MapThenFoldSet, IsAmounts, First
<1>6. Total(f, S) = Sums(f, S)[S] /\ IsTable(Sums(f, S), f, S)
  BY TotalIsTable DEF OfInts
<1>7. g[S] = Sums(f, S)[S]
  <2> HIDE DEF g
  <2> QED BY <1>4, <1>6, TablesAgree DEF OfInts
<1> QED BY <1>5, <1>6, <1>7

AmountsIn(tx) == [q \in Node |-> Ledger!MapThenSumSet(Ledger!Amount, tx.htlcs[q])]

IsHtlcSums(g, tx) ==
    g = [s \in SUBSET Node |-> IF s = {} THEN 0
            ELSE Ledger!MapThenSumSet(Ledger!Amount, tx.htlcs[First(s)]) + g[s \ {First(s)}]]

LEMMA InHtlcsIsTotal ==
    ASSUME NEW tx, OfInts(AmountsIn(tx), Node)
    PROVE  Ledger!InHtlcs(tx) = Total(AmountsIn(tx), Node)
<1> DEFINE f == AmountsIn(tx)
           g == CHOOSE g : IsHtlcSums(g, tx)
<1>1. ASSUME NEW h PROVE IsHtlcSums(h, tx) <=> IsTable(h, f, Node)
  <2>1. \A s \in SUBSET Node : s # {} => f[First(s)] = Ledger!MapThenSumSet(Ledger!Amount, tx.htlcs[First(s)])
    BY DEF First, AmountsIn
  <2>2. [s \in SUBSET Node |-> IF s = {} THEN 0
            ELSE Ledger!MapThenSumSet(Ledger!Amount, tx.htlcs[First(s)]) + h[s \ {First(s)}]]
         = [s \in SUBSET Node |-> IF s = {} THEN 0 ELSE f[First(s)] + h[s \ {First(s)}]]
    BY <2>1
  <2> QED BY <2>2 DEF IsHtlcSums, IsTable
<1>2. \E h : IsTable(h, f, Node)
  BY TableExists DEF OfInts
<1>3. IsHtlcSums(g, tx)
  BY <1>1, <1>2
<1>4. IsTable(g, f, Node)
  BY <1>1, <1>3
<1>5. Ledger!InHtlcs(tx) = g[Node]
  BY DEF Ledger!InHtlcs, Ledger!MapThenSumSet, Ledger!MapThenFoldSet, IsHtlcSums, First
<1>6. Total(f, Node) = Sums(f, Node)[Node] /\ IsTable(Sums(f, Node), f, Node)
  BY TotalIsTable DEF OfInts
<1>7. g[Node] = Sums(f, Node)[Node]
  <2> HIDE DEF g
  <2> QED BY <1>4, <1>6, TablesAgree DEF OfInts
<1> QED BY <1>5, <1>6, <1>7
(* The amount in some htlcs, as the ledger has them *)
LEMMA AmountOfPairs ==
    ASSUME NEW A, NEW e, OfInts(e, A)
    PROVE  Ledger!MapThenSumSet(Ledger!Amount, {<<i, e[i]>> : i \in A}) = Total(e, A)
<1> DEFINE g == [i \in A |-> <<i, e[i]>>]
           S == {g[i] : i \in A}
           f == [x \in S |-> x[2]]
<1>1. {<<i, e[i]>> : i \in A} = S
  OBVIOUS
<1>2. \A x, y \in A : g[x] = g[y] => x = y
  OBVIOUS
<1>3. \A x \in A : f[g[x]] = e[x]
  OBVIOUS
<1>4. \A x \in S : f[x] = x[2]
  OBVIOUS
<1> HIDE DEF f, g
<1>5. OfInts(f, S) /\ Total(f, S) = Total(e, A)
  BY <1>2, <1>3, TotalOfImage
<1> HIDE DEF S
<1>6. Ledger!MapThenSumSet(Ledger!Amount, S) = Total(f, S)
  BY <1>4, <1>5, AmountTableExists
<1> QED BY <1>1, <1>5, <1>6

(* What is the same in a ctx that is computed from a good log as in the ledger *)
LEMMA LedgerCtx ==
    ASSUME NEW tx, NEW q \in Node, NEW c,
           tx \in [owner : {q}, ctn : {c}, rate : Rates, htlcs : [Node -> SUBSET (HtlcIds \X Amounts)],
                   balance : [Node -> 0 .. Total(InitialBalance, Node)]],
           OfInts(AmountsIn(tx), Node),
           Total(AmountsIn(tx), Node) + Total(tx.balance, Node) = Total(InitialBalance, Node)
    PROVE  FairCtx(tx)
<1>1. Ledger!InBalances(tx) = Total(tx.balance, Node)
  BY DEF Ledger!MapThenSumSet, Ledger!MapThenFoldSet, Total, First, Ledger!InBalances
<1>2. Ledger!InHtlcs(tx) = Total(AmountsIn(tx), Node)
  BY InHtlcsIsTotal
<1>3. tx.owner = q /\ tx.ctn = c
  OBVIOUS
<1>4. Ledger!IsCtx(tx, q, c)
  BY CapacityIs, <1>1, <1>2 DEF Ledger!IsCtx
<1> QED BY <1>3, <1>4 DEF FairCtx

(* The feerate and the htlcs of a ctx *)
LEMMA TermsAreTyped ==
    ASSUME NEW m, ConsistentLog(m), SortedFees(m), NEW s \in Owner, NEW c \in 0 .. next_ctn(m, s)
    PROVE  /\ get_feerate(m, s, c) \in Rates
           /\ \A p \in Owner : /\ htlcs(m, s, c)[p] \in SUBSET (HtlcIds \X Amounts)
                               /\ OfInts(m.adds[p], htlcs_by_proposer(m, s, c, p))
<1>1. TypedLog(m)
  BY DEF ConsistentLog
<1>2. get_feerate(m, s, c) \in Rates
  <2>1. PICK k \in DOMAIN m.fees : IsNewest(m, s, c, k)
    BY NewestFound DEF NewestExists
  <2>2. get_feerate(m, s, c) = m.fees[k].rate
    BY <2>1, FeeratesFound DEF FeeratesAreNewest
  <2>3. m.fees[k] \in FeeUpdate
    BY <1>1, <2>1 DEF TypedLog
  <2> QED BY <2>2, <2>3 DEF FeeUpdate
<1>3. ASSUME NEW p \in Owner
      PROVE  /\ htlcs(m, s, c)[p] \in SUBSET (HtlcIds \X Amounts)
             /\ OfInts(m.adds[p], htlcs_by_proposer(m, s, c, p))
  <2> DEFINE A == htlcs_by_proposer(m, s, c, p)
  <2>1. A \in SUBSET Known(m, p)
    BY OwedSplit
  <2>2. htlcs(m, s, c)[p] = {<<i, m.adds[p][i]>> : i \in A}
    BY DEF htlcs
  <2> HIDE DEF A
  <2>3. \A i \in A : i \in HtlcIds /\ m.adds[p][i] \in Amounts
    BY <1>1, <2>1 DEF Known, TypedLog
  <2>4. OfInts(m.adds[p], A)
    BY <2>1, KnownTotals
  <2> QED BY <2>2, <2>3, <2>4 DEF A
<1> QED BY <1>2, <1>3

(* A ctx up to the next one, which n computes from a good log, is fair. *)
LEMMA CommitmentIsFair ==
    ASSUME NEW n \in Node, NEW m, GoodLog(n, m), NEW s \in Owner, NEW c \in m.ctn[s] .. next_ctn(m, s)
    PROVE  FairCtx(make_commitment(n, m, s, c))
<1> DEFINE tx == make_commitment(n, m, s, c)
           p == Peer(n)
           A(r) == htlcs_by_proposer(m, s, c, r)
           a == InitialBalance[n]
           b == InitialBalance[p]
<1>1. /\ ConsistentLog(m) /\ ExactDelta(m) /\ SortedFees(m) /\ Solvent(m, Holdings(n))
      /\ TypedLog(m) /\ LogOK(m)
  BY TypedLogOK DEF GoodLog, ConsistentLog
<1>2. c \in 0 .. next_ctn(m, s)
  BY <1>1, CtnTypes
<1>3. p \in Node /\ a \in Nat /\ b \in Nat /\ Local \in Owner /\ Remote \in Owner
  BY PeerFacts, OwnerFacts, BalanceAssumption
<1>4. /\ tx.owner = NodeOf(n, s) /\ tx.ctn = c /\ tx.rate = get_feerate(m, s, c)
      /\ tx.htlcs = [q \in Node |-> htlcs(m, s, c)[SideOf(n, q)]]
      /\ tx.balance = [q \in Node |-> Spendable(m, SideOf(n, q), s, c, InitialBalance[q])]
      /\ tx = [owner |-> tx.owner, ctn |-> tx.ctn, rate |-> tx.rate, htlcs |-> tx.htlcs, balance |-> tx.balance]
  BY HoldingsAre DEF make_commitment, balance_minus_outgoing_htlcs, Spendable
<1> HIDE DEF tx
<1>5. /\ Spendable(m, Local, s, c, a) \in Int /\ Spendable(m, Remote, s, c, b) \in Int
      /\ Total(m.adds[Local], A(Local)) \in Nat /\ Total(m.adds[Remote], A(Remote)) \in Nat
      /\ Spendable(m, Local, s, c, a) + Spendable(m, Remote, s, c, b)
           + Total(m.adds[Local], A(Local)) + Total(m.adds[Remote], A(Remote)) = a + b
  BY <1>1, <1>2, <1>3, MoneyIsConserved
<1>6. Spendable(m, Local, s, c, a) >= 0 /\ Spendable(m, Remote, s, c, b) >= 0
  <2>1. Holdings(n)[Local] = a /\ Holdings(n)[Remote] = b
    BY <1>3, OwnerFacts DEF Holdings, NodeOf
  <2>2. Holdings(n)[Local] + Funds(m, Local, s, c) >= 0 /\ Holdings(n)[Remote] + Funds(m, Remote, s, c) >= 0
    BY <1>1, <1>3 DEF Solvent
  <2>3. Spendable(m, Local, s, c, a) = a + Funds(m, Local, s, c)
    BY <1>1, <1>2, <1>3, SpendableIsFunds
  <2>4. Spendable(m, Remote, s, c, b) = b + Funds(m, Remote, s, c)
    BY <1>1, <1>2, <1>3, SpendableIsFunds
  <2> QED BY <2>1, <2>2, <2>3, <2>4
<1>7. tx.balance[n] = Spendable(m, Local, s, c, a) /\ tx.balance[p] = Spendable(m, Remote, s, c, b)
  BY <1>3, <1>4, HoldingsAre
<1>8. /\ AmountsIn(tx)[n] = Total(m.adds[Local], A(Local))
      /\ AmountsIn(tx)[p] = Total(m.adds[Remote], A(Remote))
  <2>1. ASSUME NEW q \in Node
        PROVE  AmountsIn(tx)[q] = Total(m.adds[SideOf(n, q)], A(SideOf(n, q)))
    <3> DEFINE r == SideOf(n, q)
    <3>1. r \in Owner
      BY HoldingsAre
    <3> HIDE DEF r
    <3>2. OfInts(m.adds[r], A(r))
      BY <1>1, <1>2, <3>1, TermsAreTyped
    <3>3. tx.htlcs[q] = {<<i, m.adds[r][i]>> : i \in A(r)}
      BY <1>4, <3>1 DEF htlcs, r
    <3>4. AmountsIn(tx)[q] = Ledger!MapThenSumSet(Ledger!Amount, tx.htlcs[q])
      BY DEF AmountsIn
    <3> HIDE DEF A
    <3>5. Ledger!MapThenSumSet(Ledger!Amount, {<<i, m.adds[r][i]>> : i \in A(r)}) = Total(m.adds[r], A(r))
      BY <3>2, AmountOfPairs
    <3> QED BY <3>3, <3>4, <3>5 DEF r
  <2> HIDE DEF A
  <2> QED BY <1>3, <2>1, HoldingsAre
<1> HIDE DEF A, a, b
<1>9. Total(InitialBalance, Node) = a + b
  <2>1. \A q \in Node : InitialBalance[q] \in Int
    BY BalanceAssumption
  <2> QED BY <2>1, SumOfNodes DEF a, b
<1>10. OfInts(AmountsIn(tx), Node) /\ Total(AmountsIn(tx), Node) = AmountsIn(tx)[n] + AmountsIn(tx)[p]
  <2>1. \A q \in Node : AmountsIn(tx)[q] \in Int
    BY <1>5, <1>8, PeerFacts
  <2> QED BY <2>1, SumOfNodes
<1>11. Total(tx.balance, Node) = tx.balance[n] + tx.balance[p]
  <2>1. \A q \in Node : tx.balance[q] \in Int
    BY <1>5, <1>7, PeerFacts
  <2> QED BY <2>1, SumOfNodes
<1>12. Total(AmountsIn(tx), Node) + Total(tx.balance, Node) = Total(InitialBalance, Node)
  BY <1>5, <1>7, <1>8, <1>9, <1>10, <1>11
<1>13. tx.balance \in [Node -> 0 .. Total(InitialBalance, Node)]
  <2>1. \A q \in Node : tx.balance[q] \in 0 .. Total(InitialBalance, Node)
    <3>1. tx.balance[n] \in Nat /\ tx.balance[p] \in Nat
          /\ tx.balance[n] <= a + b /\ tx.balance[p] <= a + b /\ a + b \in Int
      BY <1>3, <1>5, <1>6, <1>7 DEF a, b
    <3> QED BY <1>9, <3>1, PeerFacts
  <2>2. tx.balance = [q \in Node |-> tx.balance[q]]
    BY <1>4
  <2> QED BY <2>1, <2>2
<1>14. tx.htlcs \in [Node -> SUBSET (HtlcIds \X Amounts)]
  <2>1. \A q \in Node : htlcs(m, s, c)[SideOf(n, q)] \in SUBSET (HtlcIds \X Amounts)
    BY <1>1, <1>2, HoldingsAre, TermsAreTyped
  <2> QED BY <1>4, <2>1
<1>15. tx.rate \in Rates
  BY <1>1, <1>2, <1>4, TermsAreTyped
<1>16. FairCtx(tx)
  <2>1. tx \in [owner : {NodeOf(n, s)}, ctn : {c}, rate : Rates, htlcs : [Node -> SUBSET (HtlcIds \X Amounts)],
                balance : [Node -> 0 .. Total(InitialBalance, Node)]]
    BY <1>4, <1>13, <1>14, <1>15
  <2>2. NodeOf(n, s) \in Node
    BY HoldingsAre
  <2> QED BY <1>10, <1>12, <2>1, <2>2, LedgerCtx
<1> QED BY <1>16 DEF tx

-----------------------------------------------------------------------------
(* The logs, and the messages *)

\* What a message carries, or an update that is kept to be sent again
IsPayload(x) ==
    /\ x.type = "update_add_htlc" => x.id \in HtlcIds /\ x.amount \in Amounts
    /\ x.type \in {"update_fulfill_htlc", "update_fail_htlc"} => x.id \in HtlcIds
    /\ x.type = "update_fee" => x.rate \in Rates
    /\ x.type = "commitment_signed" => FairCtx(x.sig)

AllPayload(s) == IsSeq(s) /\ \A k \in 1 .. Len(s) : IsPayload(s[k])

\* A log that n may have
Keeps(n, m) == GoodLog(n, m) /\ \A c \in DOMAIN m.unacked : AllPayload(m.unacked[c])

LedgerInv ==
    /\ \A n \in Node :
          /\ Keeps(n, ch[n].hm)
          /\ n \in Persistent => Keeps(n, disk[n].hm)
          /\ backup[n] # NoFile => Keeps(n, backup[n].hm)
          /\ \A k \in 1 .. Len(net[n]) : IsPayload(net[n][k])
    /\ \A tx \in signed : FairCtx(tx)

\* An outcome that keeps it
Honest(n, o) ==
    /\ DOMAIN o = OutcomeFields /\ DOMAIN o.c = ChannelFields
    /\ Keeps(n, o.c.hm)
    /\ n \in Persistent => Keeps(n, o.file.hm)
    /\ AllPayload(o.out)

(* Of messages in a row, each is as those before. *)
LEMMA PayloadAppended ==
    ASSUME NEW s, AllPayload(s), NEW x, IsPayload(x)
    PROVE  AllPayload(Append(s, x))
<1>1. /\ IsSeq(Append(s, x)) /\ Len(Append(s, x)) = Len(s) + 1
      /\ \A k \in 1 .. Len(s) : Append(s, x)[k] = s[k]
      /\ Append(s, x)[Len(s) + 1] = x
  BY AppendIs DEF AllPayload
<1>2. Len(s) \in Nat
  BY DEF AllPayload, IsSeq
<1>3. ASSUME NEW k \in 1 .. Len(Append(s, x)) PROVE IsPayload(Append(s, x)[k])
  <2>1. k \in 1 .. Len(s) \/ k = Len(s) + 1
    BY <1>1, <1>2
  <2> QED BY <1>1, <2>1 DEF AllPayload
<1> QED BY <1>1, <1>3 DEF AllPayload

(* So it is when two sequences of them are sent. *)
LEMMA PayloadConcat ==
    ASSUME NEW s, AllPayload(s), NEW t, AllPayload(t)
    PROVE  AllPayload(s \o t)
<1>1. IsSeq(s) /\ IsSeq(t)
  BY DEF AllPayload
<1>2. IsSeq(s \o t)
  BY <1>1, ConcatIs
<1>3. ASSUME NEW k \in 1 .. Len(s \o t) PROVE IsPayload((s \o t)[k])
  <2>1. \/ k \in 1 .. Len(s) /\ (s \o t)[k] = s[k]
        \/ \E j \in 1 .. Len(t) : k = Len(s) + j /\ (s \o t)[k] = t[j]
    BY <1>1, ConcatElements
  <2> QED BY <2>1 DEF AllPayload
<1> QED BY <1>2, <1>3 DEF AllPayload

(* A call of the log *)
LEMMA KeepsCall ==
    ASSUME NEW n \in Node, NEW h, Keeps(n, h), NEW g, IsCall(h, g),
           \/ \A p \in Owner : g.next[p] <= h.next[p]
           \/ Affordable(h, g, Holdings(n)),
           \A c \in DOMAIN g.unacked : c \in DOMAIN h.unacked /\ g.unacked[c] = h.unacked[c]
    PROVE  Keeps(n, g)
<1>1. GoodLog(n, g)
  BY GoodCall DEF Keeps
<1> QED BY <1>1 DEF Keeps

(* What is typed in a log *)
LEMMA KeepsTypes ==
    ASSUME NEW n, NEW m, Keeps(n, m)
    PROVE  /\ ConsistentLog(m) /\ TypedLog(m) /\ LogOK(m) /\ DOMAIN m = Fields
           /\ m.next \in [Owner -> Nat] /\ m.initiator = SideOf(n, Funder)
<1>1. ConsistentLog(m) /\ TypedLog(m) /\ m.initiator = SideOf(n, Funder)
  BY DEF Keeps, GoodLog, ConsistentLog
<1>2. DOMAIN m = Fields /\ LogOK(m)
  BY <1>1, LogFieldsAre, TypedLogOK
<1>3. m.next \in [Owner -> Nat]
  BY <1>1 DEF TypedLog
<1> QED BY <1>1, <1>2, <1>3

(* A call that adds no htlc *)
LEMMA KeepsOther ==
    ASSUME NEW n \in Node, NEW h, Keeps(n, h), NEW g, IsCall(h, g), g.next = h.next,
           \A c \in DOMAIN g.unacked : c \in DOMAIN h.unacked /\ g.unacked[c] = h.unacked[c]
    PROVE  Keeps(n, g)
<1>1. \A p \in Owner : g.next[p] <= h.next[p]
  BY KeepsTypes
<1> QED BY <1>1, KeepsCall

(* Keeping a message to send it again *)
LEMMA StoreKeeps ==
    ASSUME NEW n \in Node, NEW m, Keeps(n, m), NEW msg, IsPayload(msg), NEW b
    PROVE  Keeps(n, store_local_update_raw_msg(m, msg, b))
<1> DEFINE g == store_local_update_raw_msg(m, msg, b)
           c == IF b THEN ctn_latest(m, Remote) ELSE next_ctn(m, Remote)
           stored == IF c \in DOMAIN m.unacked THEN m.unacked[c] ELSE << >>
           u == [d \in DOMAIN m.unacked \cup {c} |-> IF d = c THEN Append(stored, msg) ELSE m.unacked[d]]
<1>1. DOMAIN m = Fields /\ m.next \in [Owner -> Nat]
  BY KeepsTypes
<1>2. g.unacked = u
  BY <1>1 DEF store_local_update_raw_msg, Fields
<1>3. OnlyChanges(Aside, m, g)
  BY <1>1, StoreIsAside
<1> HIDE DEF g, c
<1>4. IsCall(m, g) /\ \A p \in Owner : g.next[p] <= m.next[p]
  BY <1>1, <1>3 DEF IsCall, OnlyChanges, Aside, Fields
<1>5. GoodLog(n, g)
  BY <1>4, GoodCall DEF Keeps
<1>6. AllPayload(stored)
  <2>1. AllPayload(<< >>)
    BY ShortSeqs DEF AllPayload
  <2> QED BY <2>1 DEF Keeps
<1> HIDE DEF stored
<1>7. AllPayload(Append(stored, msg))
  BY <1>6, PayloadAppended
<1>8. \A d \in DOMAIN u : AllPayload(u[d])
  BY <1>7 DEF Keeps
<1> QED BY <1>2, <1>5, <1>8 DEF Keeps, g

-----------------------------------------------------------------------------
(* Outcomes *)

(* What n starts from *)
LEMMA HonestBegin ==
    ASSUME BasicInv, LedgerInv, NEW n \in Node
    PROVE  /\ Honest(n, Begin(n)) /\ Begin(n).c = ch[n] /\ Begin(n).out = << >>
           /\ Begin(n).file = disk[n]
<1>1. /\ Begin(n).c = ch[n] /\ Begin(n).out = << >> /\ Begin(n).file = disk[n]
  BY BeginIs
<1>2. DOMAIN Begin(n) = OutcomeFields
  BY DEF Begin, OutcomeFields
<1>3. DOMAIN ch[n] = ChannelFields
  BY DEF BasicInv, Types, IsChannel
<1>4. AllPayload(<< >>)
  BY ShortSeqs DEF AllPayload
<1> QED BY <1>1, <1>2, <1>3, <1>4 DEF Honest, LedgerInv

(* What other fields hold does not matter. *)
LEMMA HonestLike ==
    ASSUME NEW n, NEW o, Honest(n, o), NEW p,
           DOMAIN p = OutcomeFields, DOMAIN p.c = ChannelFields, p.c.hm = o.c.hm,
           p.file = o.file \/ p.file.hm = o.c.hm, p.out = o.out
    PROVE  Honest(n, p)
  BY DEF Honest

(* The steps that outcomes are made of *)
LEMMA HonestParts ==
    ASSUME NEW n, NEW o, Honest(n, o)
    PROVE  /\ \A w : Keeps(n, w) => Honest(n, Updated(o, w)) /\ Updated(o, w).c.hm = w
           /\ Honest(n, save_channel(o)) /\ save_channel(o).c = o.c
           /\ \A e : Honest(n, Raise(o, e)) /\ Raise(o, e).c = o.c
           /\ \A s : Honest(n, set_state(o, s)) /\ set_state(o, s).c.hm = o.c.hm
<1>1. DOMAIN o = OutcomeFields /\ DOMAIN o.c = ChannelFields
  BY DEF Honest
<1>2. ASSUME NEW w, Keeps(n, w) PROVE Honest(n, Updated(o, w)) /\ Updated(o, w).c.hm = w
  <2>1. /\ DOMAIN Updated(o, w) = OutcomeFields
        /\ DOMAIN Updated(o, w).c = ChannelFields
        /\ Updated(o, w).c.hm = w
        /\ Updated(o, w).out = o.out /\ Updated(o, w).file = o.file
    BY <1>1, OutcomeParts
  <2> QED BY <1>2, <2>1 DEF Honest
<1>3. Honest(n, save_channel(o)) /\ save_channel(o).c = o.c
  <2>1. /\ DOMAIN save_channel(o) = OutcomeFields
        /\ save_channel(o).c = o.c /\ save_channel(o).out = o.out
        /\ save_channel(o).file = FileOf(o.c)
    BY <1>1, OutcomeParts
  <2>2. FileOf(o.c).hm = o.c.hm
    BY DEF FileOf
  <2> QED BY <1>1, <2>1, <2>2, HonestLike
<1>4. ASSUME NEW e PROVE Honest(n, Raise(o, e)) /\ Raise(o, e).c = o.c
  <2>1. /\ DOMAIN Raise(o, e) = OutcomeFields
        /\ Raise(o, e).c = o.c /\ Raise(o, e).out = o.out
        /\ Raise(o, e).file = o.file
    BY <1>1, OutcomeParts
  <2> QED BY <1>1, <2>1, HonestLike
<1>5. ASSUME NEW s PROVE Honest(n, set_state(o, s)) /\ set_state(o, s).c.hm = o.c.hm
  <2>1. /\ DOMAIN set_state(o, s) = OutcomeFields
        /\ DOMAIN set_state(o, s).c = ChannelFields
        /\ SameBut({"state"}, o.c, set_state(o, s).c)
        /\ set_state(o, s).file = FileOf(set_state(o, s).c)
        /\ set_state(o, s).out = o.out
    BY <1>1, OutcomeParts
  <2>2. set_state(o, s).c.hm = o.c.hm
    BY <2>1 DEF SameBut, ChannelFields
  <2>3. FileOf(set_state(o, s).c).hm = o.c.hm
    BY <2>2 DEF FileOf
  <2> QED BY <2>1, <2>2, <2>3, HonestLike
<1> QED BY <1>2, <1>3, <1>4, <1>5

(* Sending a message *)
LEMMA HonestSent ==
    ASSUME NEW n \in Node, NEW o, Honest(n, o), NEW msg, IsPayload(msg)
    PROVE  Honest(n, send_message(o, msg))
<1> DEFINE is_cs == msg.type = "commitment_signed"
           w == store_local_update_raw_msg(o.c.hm, msg, is_cs)
           stored == Updated(o, w)
           q == CASE is_cs -> save_channel(stored)
                  [] msg.type \in Updates -> stored
                  [] OTHER -> o
           p == send_message(o, msg)
<1>1. p = [q EXCEPT !.out = Append(@, msg)]
  BY DEF send_message
<1>2. Honest(n, stored)
  <2>1. Keeps(n, o.c.hm)
    BY DEF Honest
  <2>2. Keeps(n, w)
    BY <2>1, StoreKeeps
  <2> HIDE DEF w
  <2> QED BY <2>2, HonestParts
<1> HIDE DEF stored
<1>3. Honest(n, q)
  BY <1>2, HonestParts
<1> HIDE DEF q, p
<1>4. /\ DOMAIN p = OutcomeFields /\ p.c = q.c /\ p.file = q.file /\ p.out = Append(q.out, msg)
  BY <1>1, <1>3 DEF Honest, OutcomeFields
<1>5. AllPayload(Append(q.out, msg))
  BY <1>3, PayloadAppended DEF Honest
<1> QED BY <1>3, <1>4, <1>5 DEF Honest, p

(* Signing the other side's next ctx *)
LEMMA HonestSigned ==
    ASSUME NEW n \in Node, NEW o, Honest(n, o), can_sign(o.c.hm, Remote)
    PROVE  Honest(n, send_commitment(n, o))
<1> DEFINE m == o.c.hm
           tx == make_commitment(n, m, Remote, next_ctn(m, Remote))
           msg == [type |-> "commitment_signed", sig |-> tx]
           g == send_ctx(m)
<1>1. Keeps(n, m) /\ ConsistentLog(m) /\ TypedLog(m) /\ LogOK(m) /\ DOMAIN m = Fields
  BY KeepsTypes DEF Honest
<1>2. FairCtx(tx)
  <2>1. next_ctn(m, Remote) \in m.ctn[Remote] .. next_ctn(m, Remote) /\ Remote \in Owner
    BY <1>1, CtnTypes, OwnerFacts
  <2> QED BY <1>1, <2>1, CommitmentIsFair DEF Keeps
<1>3. Keeps(n, g)
  <2>1. OnlyChanges({"revack", "revokeLast"}, m, g)
    BY <1>1 DEF send_ctx, OnlyChanges, Fields
  <2>2. OnlyChanges(Aside, g, g) /\ g.next = m.next /\ g.unacked = m.unacked
    BY <2>1 DEF OnlyChanges, Fields
  <2> HIDE DEF g
  <2>3. IsSigned(m, g, Remote)
    BY <1>1, <2>2, CtxIsSigned DEF g
  <2>4. IsCall(m, g)
    BY <2>3, OwnerFacts DEF IsCall
  <2> QED BY <1>1, <2>2, <2>4, KeepsOther
<1>4. IsPayload(msg)
  BY <1>2 DEF IsPayload
<1>5. Honest(n, Updated(o, g))
  BY <1>3, HonestParts
<1> HIDE DEF g
<1>6. Honest(n, send_message(Updated(o, g), msg))
  BY <1>4, <1>5, HonestSent
<1> QED BY <1>6 DEF send_commitment, g

(* Signing it if there is reason to *)
LEMMA HonestMaybe ==
    ASSUME NEW n \in Node, NEW o, Honest(n, o), NEW p \in maybe_send_commitment(n, o)
    PROVE  Honest(n, p)
  BY HonestSigned DEF maybe_send_commitment, can_send_commitment

-----------------------------------------------------------------------------
(* Calls of the log *)

(* An htlc that can be paid for is added. *)
LEMMA KeepsAdded ==
    ASSUME NEW n \in Node, NEW m, Keeps(n, m), NEW p \in Owner, NEW amount \in Amounts,
           m.next[p] \in HtlcIds, amount <= available_to_spend(n, m, p)
    PROVE  Keeps(n, add_htlc(m, p, amount))
<1> DEFINE g == add_htlc(m, p, amount)
           s == Other(p)
           c == next_ctn(m, s)
<1>1. /\ ConsistentLog(m) /\ TypedLog(m) /\ LogOK(m) /\ DOMAIN m = Fields /\ ExactDelta(m)
      /\ m.next \in [Owner -> Nat] /\ m.adds \in [Owner -> [HtlcIds -> Amounts \cup {0}]]
  BY KeepsTypes DEF Keeps, GoodLog, TypedLog
<1>2. DOMAIN g = Fields /\ g.unacked = m.unacked
  BY <1>1 DEF add_htlc, Fields
<1> HIDE DEF g
<1>3. IsAdded(m, g, p, amount)
  <2>1. OnlyChanges(Aside, g, g)
    BY <1>2 DEF OnlyChanges
  <2> QED BY <1>1, <2>1, AddHtlcIsAdded DEF g
<1>4. IsCall(m, g)
  BY <1>3 DEF IsCall
<1>5. amount <= Holdings(n)[p] + Funds(m, p, s, c)
  <2> DEFINE a == InitialBalance[NodeOf(n, p)]
             B(t) == balance_minus_outgoing_htlcs(n, m, p, t, next_ctn(m, t))
  <2>1. s \in Owner /\ p \in Owner /\ a \in Int /\ Holdings(n)[p] = a
    BY HoldingsAre, EntryFacts, BalanceAssumption DEF Holdings
  <2>2. \A t \in Owner : B(t) = Spendable(m, p, t, next_ctn(m, t), a)
    BY DEF balance_minus_outgoing_htlcs, Spendable
  <2> HIDE DEF B, a
  <2>3. \A t \in Owner : B(t) = a + Funds(m, p, t, next_ctn(m, t)) /\ B(t) \in Int
    <3> SUFFICES ASSUME NEW t \in Owner
                 PROVE  B(t) = a + Funds(m, p, t, next_ctn(m, t)) /\ B(t) \in Int
      OBVIOUS
    <3>1. next_ctn(m, t) \in 0 .. next_ctn(m, t)
      BY <1>1, CtnTypes
    <3>2. /\ Spendable(m, p, t, next_ctn(m, t), a) = a + Funds(m, p, t, next_ctn(m, t))
          /\ Funds(m, p, t, next_ctn(m, t)) \in Int
      BY <1>1, <2>1, <3>1, SpendableIsFunds
    <3> QED BY <2>1, <2>2, <3>2
  <2>4. available_to_spend(n, m, p) = Min({B(t) : t \in Owner})
    BY DEF available_to_spend, B
  <2>5. Min({B(t) : t \in Owner}) <= B(s)
    <3>1. {B(t) : t \in Owner} = {B(s), B(p)}
      BY <2>1, EntryFacts
    <3>2. \E x \in {B(s), B(p)} : \A y \in {B(s), B(p)} : x <= y
      BY <2>1, <2>3
    <3>3. Min({B(s), B(p)}) <= B(s)
      BY <3>2 DEF Min
    <3> QED BY <3>1, <3>3
  <2>6. amount \in Nat /\ available_to_spend(n, m, p) \in Int
    <3>1. amount \in Nat
      BY AmountsAssumption
    <3>2. \E x \in {B(t) : t \in Owner} : \A y \in {B(t) : t \in Owner} : x <= y
      <4>1. {B(t) : t \in Owner} = {B(s), B(p)}
        BY <2>1, EntryFacts
      <4>2. \E x \in {B(s), B(p)} : \A y \in {B(s), B(p)} : x <= y
        BY <2>1, <2>3
      <4> QED BY <4>1, <4>2
    <3>3. Min({B(t) : t \in Owner}) \in {B(t) : t \in Owner}
      BY <3>2 DEF Min
    <3> QED BY <2>3, <2>4, <3>1, <3>3
  <2> QED BY <2>1, <2>3, <2>4, <2>5, <2>6
<1>6. Affordable(m, g, Holdings(n))
  <2> SUFFICES ASSUME NEW q \in Owner, NEW b \in Amounts, IsAdded(m, g, q, b)
               PROVE  b <= Holdings(n)[q] + Funds(m, q, Other(q), next_ctn(m, Other(q)))
    BY DEF Affordable
  <2>1. q = p
    <3>1. g.next = [m.next EXCEPT ![p] = @ + 1] /\ g.next = [m.next EXCEPT ![q] = @ + 1]
      BY <1>3 DEF IsAdded
    <3>2. m.next[p] \in Nat /\ m.next[q] \in Nat
      BY <1>1
    <3> QED BY <1>1, <3>1, <3>2
  <2>2. b = amount
    <3>1. /\ g.adds = [m.adds EXCEPT ![p][m.next[p]] = amount]
          /\ g.adds = [m.adds EXCEPT ![p][m.next[p]] = b]
      BY <1>3, <2>1 DEF IsAdded
    <3>2. g.adds[p][m.next[p]] = amount /\ g.adds[p][m.next[p]] = b
      BY <1>1, <3>1
    <3> QED BY <3>2
  <2> QED BY <1>5, <2>1, <2>2
<1>7. Keeps(n, g)
  BY <1>2, <1>4, <1>6, KeepsCall
<1> QED BY <1>7 DEF g

(* One that can be removed is removed. *)
LEMMA KeepsRemoved ==
    ASSUME NEW n \in Node, NEW m, Keeps(n, m), NEW p \in Owner, NEW i,
           i \in Known(m, p), can_remove_htlc(m, p, i)
    PROVE  Keeps(n, settle_htlc(m, p, i)) /\ Keeps(n, fail_htlc(m, p, i))
<1>1. TypedLog(m) /\ DOMAIN m = Fields /\ i \in HtlcIds
  BY KeepsTypes DEF Known
<1>2. Keeps(n, settle_htlc(m, p, i))
  <2> DEFINE g == settle_htlc(m, p, i)
  <2>1. DOMAIN g = Fields /\ g.unacked = m.unacked /\ g.next = m.next
    BY <1>1 DEF settle_htlc, Fields
  <2>2. OnlyChanges(Aside, g, g)
    BY <2>1 DEF OnlyChanges
  <2>3. IsSettled(m, g, p, i)
    BY <1>1, <2>2, SettleHtlcIsSettled
  <2> HIDE DEF g
  <2>4. IsCall(m, g)
    BY <1>1, <2>3 DEF IsCall, IsRemoved
  <2>5. Keeps(n, g)
    BY <2>1, <2>4, KeepsOther
  <2> QED BY <2>5 DEF g
<1>3. Keeps(n, fail_htlc(m, p, i))
  <2> DEFINE g == fail_htlc(m, p, i)
  <2>1. DOMAIN g = Fields /\ g.unacked = m.unacked /\ g.next = m.next
    BY <1>1 DEF fail_htlc, Fields
  <2>2. OnlyChanges(Aside, g, g)
    BY <2>1 DEF OnlyChanges
  <2>3. IsFailed(m, g, p, i)
    BY <1>1, <2>2, FailHtlcIsFailed
  <2> HIDE DEF g
  <2>4. IsCall(m, g)
    BY <1>1, <2>3 DEF IsCall, IsRemoved
  <2>5. Keeps(n, g)
    BY <2>1, <2>4, KeepsOther
  <2> QED BY <2>5 DEF g
<1> QED BY <1>2, <1>3

(* Who funded the channel changes its feerate. *)
LEMMA KeepsFee ==
    ASSUME NEW n \in Node, NEW m, Keeps(n, m), NEW rate \in Rates
    PROVE  /\ n = Funder => Keeps(n, update_fee(m, Remote, rate))
           /\ n # Funder => Keeps(n, update_fee(m, Local, rate))
<1> DEFINE s == Other(m.initiator)
           g == update_fee(m, s, rate)
<1>1. TypedLog(m) /\ DOMAIN m = Fields
  BY KeepsTypes
<1>2. \E f : g = [m EXCEPT !.fees = f]
  BY DEF update_fee
<1>3. DOMAIN g = Fields /\ g.unacked = m.unacked /\ g.next = m.next
  BY <1>1, <1>2 DEF Fields
<1>4. OnlyChanges(Aside, g, g)
  BY <1>3 DEF OnlyChanges
<1>5. IsFeeUpdated(m, g, rate)
  BY <1>1, <1>4, UpdateFeeIsFeeUpdated
<1>6. m.initiator = SideOf(n, Funder)
  BY KeepsTypes
<1>7. (n = Funder => s = Remote) /\ (n # Funder => s = Local)
  BY <1>6, OwnerFacts DEF SideOf
<1> HIDE DEF g, s
<1>8. IsCall(m, g)
  BY <1>5 DEF IsCall
<1>9. Keeps(n, g)
  BY <1>3, <1>8, KeepsOther
<1> QED BY <1>7, <1>9 DEF g

(* On a signature we revoke. *)
LEMMA KeepsOurRevocation ==
    ASSUME NEW n \in Node, NEW m, Keeps(n, m), can_sign(m, Local)
    PROVE  Keeps(n, send_rev(recv_ctx(m)))
<1> DEFINE h == recv_ctx(m)
           g == send_rev(h)
<1>1. TypedLog(m) /\ DOMAIN m = Fields /\ m.revack \in [Owner -> BOOLEAN]
  BY KeepsTypes DEF TypedLog
<1>2. /\ DOMAIN h = Fields /\ h.unacked = m.unacked /\ h.next = m.next
      /\ h.revack = [m.revack EXCEPT ![Local] = TRUE]
  BY <1>1 DEF recv_ctx, Fields
<1>3. OnlyChanges(Aside, h, h)
  BY <1>2 DEF OnlyChanges
<1>4. IsSigned(m, h, Local)
  BY <1>1, <1>3, CtxIsSigned
<1> HIDE DEF h
<1>5. Keeps(n, h)
  <2>1. IsCall(m, h)
    BY <1>4, OwnerFacts DEF IsCall
  <2> QED BY <1>2, <2>1, KeepsOther
<1>6. TypedLog(h) /\ can_revoke(h, Local)
  BY <1>1, <1>2, <1>5, KeepsTypes, OwnerFacts DEF can_revoke
<1>7. /\ DOMAIN Revoked(h, Local) = Fields
      /\ Revoked(h, Local).next = h.next /\ Revoked(h, Local).unacked = h.unacked
  BY <1>6, OwnerFacts, RevokedEffect
<1>8. DOMAIN g = Fields /\ g.next = h.next /\ g.unacked = h.unacked
  BY <1>7 DEF send_rev, Fields
<1>9. IsRevoked(h, g, Local)
  <2>1. OnlyChanges(Aside, g, g)
    BY <1>8 DEF OnlyChanges
  <2> QED BY <1>6, <2>1, RevIsRevoked
<1> HIDE DEF g
<1>10. Keeps(n, g)
  <2>1. IsCall(h, g)
    BY <1>9, OwnerFacts DEF IsCall
  <2> QED BY <1>5, <1>8, <2>1, KeepsOther
<1> QED BY <1>10 DEF g, h

(* Their revocation *)
LEMMA KeepsTheirRevocation ==
    ASSUME NEW n \in Node, NEW m, Keeps(n, m), can_revoke(m, Remote)
    PROVE  Keeps(n, recv_rev(m))
<1> DEFINE r == Revoked(m, Remote)
           g == recv_rev(m)
<1>1. TypedLog(m) /\ DOMAIN m = Fields
  BY KeepsTypes
<1>2. DOMAIN r = Fields /\ r.next = m.next /\ r.unacked = m.unacked
  BY <1>1, OwnerFacts, RevokedEffect
<1> HIDE DEF r
<1>3. g = [r EXCEPT !.unacked = [c \in DOMAIN @ \ {r.ctn[Remote]} |-> @[c]]]
  BY DEF recv_rev, r
<1>4. /\ DOMAIN g = Fields /\ g.next = m.next
      /\ g.unacked = [c \in DOMAIN m.unacked \ {r.ctn[Remote]} |-> m.unacked[c]]
  BY <1>2, <1>3 DEF Fields
<1>5. IsRevoked(m, g, Remote)
  <2>1. OnlyChanges(Aside, g, g)
    BY <1>4 DEF OnlyChanges
  <2> QED BY <1>1, <2>1, RevIsRevoked
<1> HIDE DEF g
<1>6. IsCall(m, g)
  BY <1>5, OwnerFacts DEF IsCall
<1>7. \A c \in DOMAIN g.unacked : c \in DOMAIN m.unacked /\ g.unacked[c] = m.unacked[c]
  BY <1>4
<1>8. Keeps(n, g)
  BY <1>4, <1>6, <1>7, KeepsOther
<1> QED BY <1>8 DEF g

(* What was not signed is dropped, and a file is read. *)
LEMMA KeepsReset ==
    ASSUME NEW n \in Node, NEW m, Keeps(n, m)
    PROVE  /\ Keeps(n, discard_unsigned_remote_updates(m))
           /\ Keeps(n, init_maybe_active_htlc_ids(m))
<1>1. ConsistentLog(m) /\ TypedLog(m) /\ DOMAIN m = Fields /\ m.next \in [Owner -> Nat]
  BY KeepsTypes
<1>2. Keeps(n, discard_unsigned_remote_updates(m))
  <2> DEFINE g == discard_unsigned_remote_updates(m)
             kept == Known(m, Remote) \ DroppedIds(m)
             next == IF kept = {} THEN 0 ELSE Max(kept) + 1
  <2>1. IsDiscarded(m, g)
    BY DEF IsDiscarded
  <2> HIDE DEF g
  <2>2. /\ OnlyChanges({"next", "adds", "locked", "settles", "fails", "active", "fees"}, m, g)
        /\ g.next = [m.next EXCEPT ![Remote] = next]
    BY <1>1, <2>1, DiscardEffect
  <2>3. next \in Nat /\ next <= m.next[Remote]
    BY <1>1, KeptIds
  <2> HIDE DEF next
  <2>4. \A p \in Owner : g.next[p] <= m.next[p]
    BY <1>1, <2>2, <2>3
  <2>5. g.unacked = m.unacked
    BY <2>2 DEF OnlyChanges, Fields
  <2>6. Keeps(n, g)
    BY <2>1, <2>4, <2>5, KeepsCall DEF IsCall
  <2> QED BY <2>6 DEF g
<1>3. Keeps(n, init_maybe_active_htlc_ids(m))
  <2> DEFINE g == init_maybe_active_htlc_ids(m)
  <2>1. IsReloaded(m, g)
    BY DEF IsReloaded
  <2> HIDE DEF g
  <2>2. OnlyChanges({"active", "delta"}, m, g)
    BY <1>1, <2>1, ReloadEffect
  <2>3. g.next = m.next /\ g.unacked = m.unacked
    BY <2>2 DEF OnlyChanges, Fields
  <2>4. Keeps(n, g)
    BY <2>1, <2>3, KeepsOther DEF IsCall
  <2> QED BY <2>4 DEF g
<1> QED BY <1>2, <1>3

-----------------------------------------------------------------------------
(* What the nodes do *)

Honestly(n) == \E o, inbox : Step(n, o, inbox) /\ IsInbox(n, inbox) /\ Honest(n, o)

(* The message that is there to be handled *)
LEMMA ReceivedIsPayload ==
    ASSUME BasicInv, LedgerInv, NEW n \in Node, net[n] # << >>
    PROVE  IsPayload(Head(net[n]))
<1>1. Len(net[n]) \in Nat \ {0} /\ Head(net[n]) = net[n][1]
  BY HeadIs
<1>2. 1 \in 1 .. Len(net[n])
  BY <1>1
<1> QED BY <1>1, <1>2 DEF LedgerInv

(* An update that is sent, and maybe signed for *)
LEMMA HonestAnnounced ==
    ASSUME BasicInv, LedgerInv, NEW n \in Node, NEW w, Keeps(n, w), NEW msg, IsPayload(msg),
           NEW o \in maybe_send_commitment(n, send_message(Updated(Begin(n), w), msg))
    PROVE  Honest(n, o)
<1>1. Honest(n, Updated(Begin(n), w))
  BY HonestBegin, HonestParts
<1>2. Honest(n, send_message(Updated(Begin(n), w), msg))
  BY <1>1, HonestSent
<1> QED BY <1>2, HonestMaybe

(* A handler with an honest outcome *)
LEMMA HonestReceive ==
    ASSUME NEW n \in Node, net[n] # << >>, ~Blocked(ch[n]),
           NEW o, Step(n, o, Tail(net[n])), Honest(n, o)
    PROVE  Honestly(n)
  BY DEF Honestly, IsInbox

(* Blaming the other side *)
LEMMA HonestBlame ==
    ASSUME BasicInv, LedgerInv, NEW n \in Node, NEW e PROVE Honest(n, Raise(Begin(n), e))
  BY HonestBegin, HonestParts

LEMMA SendHtlcHonest ==
    ASSUME BasicInv, LedgerInv, NEW n \in Node, SendHtlc(n) PROVE Honestly(n)
<1> DEFINE m == ch[n].hm
           Msg(amount) == [type |-> "update_add_htlc", id |-> m.next[Local], amount |-> amount]
           Added(amount) == send_message(Updated(Begin(n), add_htlc(m, Local, amount)), Msg(amount))
<1>1. PICK amount \in Amounts :
        /\ can_add_htlc(n, Local, amount)
        /\ \E o \in maybe_send_commitment(n, Added(amount)) : Step(n, o, net[n])
  BY DEF SendHtlc
<1>2. PICK o \in maybe_send_commitment(n, Added(amount)) : Step(n, o, net[n])
  BY <1>1
<1>3. m.next[Local] \in HtlcIds /\ amount <= available_to_spend(n, m, Local)
  BY <1>1 DEF SendHtlc, can_add_htlc
<1>4. Keeps(n, m)
  BY DEF LedgerInv
<1> HIDE DEF m
<1>5. Keeps(n, add_htlc(m, Local, amount))
  BY <1>3, <1>4, KeepsAdded, OwnerFacts
<1>6. IsPayload(Msg(amount))
  BY <1>3 DEF IsPayload
<1>7. Honest(n, o)
  BY <1>2, <1>5, <1>6, HonestAnnounced
<1> QED BY <1>2, <1>7 DEF Honestly, IsInbox

LEMMA FulfillHtlcHonest ==
    ASSUME BasicInv, LedgerInv, NEW n \in Node, NEW i \in HtlcIds, FulfillHtlc(n, i)
    PROVE  Honestly(n)
<1> DEFINE w == settle_htlc(ch[n].hm, Remote, i)
           settled == Updated(Begin(n), w)
           msg == [type |-> "update_fulfill_htlc", id |-> i]
<1>1. PICK o \in {settled, save_channel(settled)} : Step(n, send_message(o, msg), net[n])
  BY DEF FulfillHtlc
<1>2. Keeps(n, w)
  BY KeepsRemoved, OwnerFacts DEF FulfillHtlc, CanRemove, LedgerInv
<1> HIDE DEF w
<1>3. Honest(n, o)
  BY <1>1, <1>2, HonestBegin, HonestParts
<1>4. IsPayload(msg)
  BY DEF IsPayload
<1>5. Honest(n, send_message(o, msg))
  BY <1>3, <1>4, HonestSent
<1> QED BY <1>1, <1>5 DEF Honestly, IsInbox

LEMMA FailHtlcHonest ==
    ASSUME BasicInv, LedgerInv, NEW n \in Node, NEW i \in HtlcIds, FailHtlc(n, i)
    PROVE  Honestly(n)
<1> DEFINE w == fail_htlc(ch[n].hm, Remote, i)
           msg == [type |-> "update_fail_htlc", id |-> i]
           failed == send_message(Updated(Begin(n), w), msg)
<1>1. PICK o \in maybe_send_commitment(n, failed) : Step(n, o, net[n])
  BY DEF FailHtlc
<1>2. Keeps(n, w)
  BY KeepsRemoved, OwnerFacts DEF FailHtlc, CanRemove, LedgerInv
<1>3. IsPayload(msg)
  BY DEF IsPayload
<1> HIDE DEF w
<1>4. Honest(n, o)
  BY <1>1, <1>2, <1>3, HonestAnnounced
<1> QED BY <1>1, <1>4 DEF Honestly, IsInbox

LEMMA UpdateFeeHonest ==
    ASSUME BasicInv, LedgerInv, NEW n \in Node, UpdateFee(n) PROVE Honestly(n)
<1> DEFINE W(rate) == update_fee(ch[n].hm, Remote, rate)
           Msg(rate) == [type |-> "update_fee", rate |-> rate]
<1>1. PICK rate \in Rates :
        \E o \in maybe_send_commitment(n, send_message(Updated(Begin(n), W(rate)), Msg(rate))) :
            Step(n, o, net[n])
  BY DEF UpdateFee
<1>2. PICK o \in maybe_send_commitment(n, send_message(Updated(Begin(n), W(rate)), Msg(rate))) :
        Step(n, o, net[n])
  BY <1>1
<1>3. Keeps(n, W(rate))
  BY KeepsFee DEF UpdateFee, LedgerInv
<1>4. IsPayload(Msg(rate))
  BY DEF IsPayload
<1> HIDE DEF W
<1>5. Honest(n, o)
  BY <1>2, <1>3, <1>4, HonestAnnounced
<1> QED BY <1>2, <1>5 DEF Honestly, IsInbox

LEMMA PollCommitmentHonest ==
    ASSUME BasicInv, LedgerInv, NEW n \in Node, PollCommitment(n) PROVE Honestly(n)
<1>1. Step(n, send_commitment(n, Begin(n)), net[n]) /\ can_sign(ch[n].hm, Remote)
  BY DEF PollCommitment, CanPoll, can_send_commitment
<1>2. Honest(n, Begin(n)) /\ Begin(n).c = ch[n]
  BY HonestBegin
<1>3. Honest(n, send_commitment(n, Begin(n)))
  BY <1>1, <1>2, HonestSigned
<1> QED BY <1>1, <1>3 DEF Honestly, IsInbox

LEMMA OnUpdateAddHtlcHonest ==
    ASSUME BasicInv, LedgerInv, NEW n \in Node, Receive(n, "update_add_htlc", OnUpdateAddHtlc)
    PROVE  Honestly(n)
<1> DEFINE msg == Head(net[n])
           m == ch[n].hm
<1>1. /\ net[n] # << >> /\ ~Blocked(ch[n]) /\ msg.type = "update_add_htlc"
      /\ \E o \in OnUpdateAddHtlc(n, msg) : Step(n, o, Tail(net[n]))
  BY DEF Receive
<1>2. PICK o \in OnUpdateAddHtlc(n, msg) : Step(n, o, Tail(net[n]))
  BY <1>1
<1>3. IsPayload(msg)
  BY <1>1, ReceivedIsPayload
<1> HIDE DEF msg
<1>4. Begin(n).c = ch[n] /\ Honest(n, Begin(n))
  BY HonestBegin
<1>5. Honest(n, o)
  <2>1. CASE msg.id = m.next[Remote] /\ can_add_htlc(n, Remote, msg.amount)
    <3>1. m.next[Remote] \in HtlcIds /\ msg.amount \in Amounts
      BY <1>1, <1>3, <2>1 DEF IsPayload
    <3>2. msg.amount <= available_to_spend(n, m, Remote)
      BY <2>1 DEF can_add_htlc
    <3>3. Keeps(n, m)
      BY DEF LedgerInv
    <3>4. o = Updated(Begin(n), add_htlc(m, Remote, msg.amount))
      BY <1>2, <1>4, <2>1 DEF OnUpdateAddHtlc
    <3> HIDE DEF m
    <3>5. Keeps(n, add_htlc(m, Remote, msg.amount))
      BY <3>1, <3>2, <3>3, KeepsAdded, OwnerFacts
    <3> QED BY <1>4, <3>4, <3>5, HonestParts
  <2>2. CASE ~(msg.id = m.next[Remote] /\ can_add_htlc(n, Remote, msg.amount))
    <3>1. o = Raise(Begin(n), msg.type)
      BY <1>2, <1>4, <2>2 DEF OnUpdateAddHtlc
    <3> QED BY <3>1, HonestBlame
  <2> QED BY <2>1, <2>2
<1> QED BY <1>1, <1>2, <1>5, HonestReceive

(* The other side removes an htlc that we know. *)
LEMMA RemovedIsKnown ==
    ASSUME NEW n \in Node, NEW m, Keeps(n, m), NEW i \in HtlcIds, can_remove_htlc(m, Local, i)
    PROVE  i \in Known(m, Local)
<1>1. ContiguousIds(m) /\ i < m.next[Local]
  BY KeepsTypes DEF ConsistentLog, can_remove_htlc, is_htlc_active_at_ctn
<1> QED BY <1>1, OwnerFacts DEF ContiguousIds, Known

LEMMA OnUpdateFulfillHtlcHonest ==
    ASSUME BasicInv, LedgerInv, NEW n \in Node, Receive(n, "update_fulfill_htlc", OnUpdateFulfillHtlc)
    PROVE  Honestly(n)
<1> DEFINE msg == Head(net[n])
           m == ch[n].hm
           w == settle_htlc(m, Local, msg.id)
<1>1. /\ net[n] # << >> /\ ~Blocked(ch[n]) /\ msg.type = "update_fulfill_htlc"
      /\ \E o \in OnUpdateFulfillHtlc(n, msg) : Step(n, o, Tail(net[n]))
  BY DEF Receive
<1>2. PICK o \in OnUpdateFulfillHtlc(n, msg) : Step(n, o, Tail(net[n]))
  BY <1>1
<1>3. msg.id \in HtlcIds
  BY <1>1, ReceivedIsPayload DEF IsPayload
<1> HIDE DEF msg
<1>4. Begin(n).c = ch[n] /\ Honest(n, Begin(n))
  BY HonestBegin
<1>5. Honest(n, o)
  <2>1. CASE can_progress_ctx(ch[n]) /\ can_remove_htlc(m, Local, msg.id)
    <3>1. o \in {Updated(Begin(n), w), save_channel(Updated(Begin(n), w))}
      BY <1>2, <1>4, <2>1 DEF OnUpdateFulfillHtlc
    <3>2. Keeps(n, m)
      BY DEF LedgerInv
    <3> HIDE DEF m
    <3>3. Keeps(n, w)
      BY <1>3, <2>1, <3>2, RemovedIsKnown, KeepsRemoved, OwnerFacts
    <3> HIDE DEF w
    <3> QED BY <1>4, <3>1, <3>3, HonestParts
  <2>2. CASE ~(can_progress_ctx(ch[n]) /\ can_remove_htlc(m, Local, msg.id))
    <3>1. o = Raise(Begin(n), msg.type)
      BY <1>2, <1>4, <2>2 DEF OnUpdateFulfillHtlc
    <3> QED BY <3>1, HonestBlame
  <2> QED BY <2>1, <2>2
<1> QED BY <1>1, <1>2, <1>5, HonestReceive

LEMMA OnUpdateFailHtlcHonest ==
    ASSUME BasicInv, LedgerInv, NEW n \in Node, Receive(n, "update_fail_htlc", OnUpdateFailHtlc)
    PROVE  Honestly(n)
<1> DEFINE msg == Head(net[n])
           m == ch[n].hm
           w == fail_htlc(m, Local, msg.id)
<1>1. /\ net[n] # << >> /\ ~Blocked(ch[n]) /\ msg.type = "update_fail_htlc"
      /\ \E o \in OnUpdateFailHtlc(n, msg) : Step(n, o, Tail(net[n]))
  BY DEF Receive
<1>2. PICK o \in OnUpdateFailHtlc(n, msg) : Step(n, o, Tail(net[n]))
  BY <1>1
<1>3. msg.id \in HtlcIds
  BY <1>1, ReceivedIsPayload DEF IsPayload
<1> HIDE DEF msg
<1>4. Begin(n).c = ch[n] /\ Honest(n, Begin(n))
  BY HonestBegin
<1>5. Honest(n, o)
  <2>1. CASE can_progress_ctx(ch[n]) /\ can_remove_htlc(m, Local, msg.id)
    <3>1. o = Updated(Begin(n), w)
      BY <1>2, <1>4, <2>1 DEF OnUpdateFailHtlc
    <3>2. Keeps(n, m)
      BY DEF LedgerInv
    <3> HIDE DEF m
    <3>3. Keeps(n, w)
      BY <1>3, <2>1, <3>2, RemovedIsKnown, KeepsRemoved, OwnerFacts
    <3> HIDE DEF w
    <3> QED BY <1>4, <3>1, <3>3, HonestParts
  <2>2. CASE ~(can_progress_ctx(ch[n]) /\ can_remove_htlc(m, Local, msg.id))
    <3>1. o = Raise(Begin(n), msg.type)
      BY <1>2, <1>4, <2>2 DEF OnUpdateFailHtlc
    <3> QED BY <3>1, HonestBlame
  <2> QED BY <2>1, <2>2
<1> QED BY <1>1, <1>2, <1>5, HonestReceive

LEMMA OnUpdateFeeHonest ==
    ASSUME BasicInv, LedgerInv, NEW n \in Node, Receive(n, "update_fee", OnUpdateFee)
    PROVE  Honestly(n)
<1> DEFINE msg == Head(net[n])
           m == ch[n].hm
           w == update_fee(m, Local, msg.rate)
<1>1. /\ net[n] # << >> /\ ~Blocked(ch[n]) /\ msg.type = "update_fee"
      /\ \E o \in OnUpdateFee(n, msg) : Step(n, o, Tail(net[n]))
  BY DEF Receive
<1>2. PICK o \in OnUpdateFee(n, msg) : Step(n, o, Tail(net[n]))
  BY <1>1
<1>3. msg.rate \in Rates
  BY <1>1, ReceivedIsPayload DEF IsPayload
<1> HIDE DEF msg
<1>4. Begin(n).c = ch[n] /\ Honest(n, Begin(n))
  BY HonestBegin
<1>5. Honest(n, o)
  <2>1. CASE can_progress_ctx(ch[n]) /\ n # Funder
    <3>1. o = Updated(Begin(n), w)
      BY <1>2, <1>4, <2>1 DEF OnUpdateFee
    <3>2. Keeps(n, m)
      BY DEF LedgerInv
    <3> HIDE DEF m
    <3>3. Keeps(n, w)
      BY <1>3, <2>1, <3>2, KeepsFee
    <3> HIDE DEF w
    <3> QED BY <1>4, <3>1, <3>3, HonestParts
  <2>2. CASE ~(can_progress_ctx(ch[n]) /\ n # Funder)
    <3>1. o = Raise(Begin(n), msg.type)
      BY <1>2, <1>4, <2>2 DEF OnUpdateFee
    <3> QED BY <3>1, HonestBlame
  <2> QED BY <2>1, <2>2
<1> QED BY <1>1, <1>2, <1>5, HonestReceive

LEMMA OnCommitmentSignedHonest ==
    ASSUME BasicInv, LedgerInv, NEW n \in Node, Receive(n, "commitment_signed", OnCommitmentSigned)
    PROVE  Honestly(n)
<1> DEFINE msg == Head(net[n])
           m == ch[n].hm
           w == send_rev(recv_ctx(m))
           reply == revoke_and_ack(m.ctn[Local])
           revoked == save_channel(Updated(Begin(n), w))
           answers == /\ can_progress_ctx(ch[n])
                      /\ has_pending_changes(m, Local)
                      /\ can_sign(m, Local)
                      /\ msg.sig = make_commitment(n, m, Local, next_ctn(m, Local))
<1>1. /\ net[n] # << >> /\ ~Blocked(ch[n]) /\ msg.type = "commitment_signed"
      /\ \E o \in OnCommitmentSigned(n, msg) : Step(n, o, Tail(net[n]))
  BY DEF Receive
<1>2. PICK o \in OnCommitmentSigned(n, msg) : Step(n, o, Tail(net[n]))
  BY <1>1
<1> HIDE DEF msg
<1>3. Begin(n).c = ch[n] /\ Honest(n, Begin(n))
  BY HonestBegin
<1>4. Honest(n, o)
  <2>1. CASE answers
    <3>1. o \in maybe_send_commitment(n, send_message(revoked, reply))
      BY <1>2, <1>3, <2>1 DEF OnCommitmentSigned
    <3>2. Keeps(n, m) /\ can_sign(m, Local)
      BY <2>1 DEF LedgerInv
    <3> HIDE DEF m
    <3>3. Keeps(n, w)
      BY <3>2, KeepsOurRevocation
    <3> HIDE DEF w
    <3>4. Honest(n, Updated(Begin(n), w))
      BY <1>3, <3>3, HonestParts
    <3>5. Honest(n, revoked)
      BY <3>4, HonestParts
    <3>6. IsPayload(reply)
      BY DEF IsPayload, revoke_and_ack
    <3> HIDE DEF revoked, reply
    <3>7. Honest(n, send_message(revoked, reply))
      BY <3>5, <3>6, HonestSent
    <3> QED BY <3>1, <3>7, HonestMaybe
  <2>2. CASE ~answers
    <3>1. o = Raise(Begin(n), msg.type)
      BY <1>2, <1>3, <2>2 DEF OnCommitmentSigned
    <3> QED BY <3>1, HonestBlame
  <2> QED BY <2>1, <2>2
<1> QED BY <1>1, <1>2, <1>4, HonestReceive

LEMMA OnRevokeAndAckHonest ==
    ASSUME BasicInv, LedgerInv, NEW n \in Node, Receive(n, "revoke_and_ack", OnRevokeAndAck)
    PROVE  Honestly(n)
<1> DEFINE msg == Head(net[n])
           m == ch[n].hm
           w == recv_rev(m)
           accepts == can_progress_ctx(ch[n]) /\ msg.secret = m.ctn[Remote] /\ can_revoke(m, Remote)
<1>1. /\ net[n] # << >> /\ ~Blocked(ch[n]) /\ msg.type = "revoke_and_ack"
      /\ \E o \in OnRevokeAndAck(n, msg) : Step(n, o, Tail(net[n]))
  BY DEF Receive
<1>2. PICK o \in OnRevokeAndAck(n, msg) : Step(n, o, Tail(net[n]))
  BY <1>1
<1> HIDE DEF msg
<1>3. Begin(n).c = ch[n] /\ Honest(n, Begin(n))
  BY HonestBegin
<1>4. Honest(n, o)
  <2>1. CASE accepts
    <3>1. o = save_channel(Updated(Begin(n), w))
      BY <1>2, <1>3, <2>1 DEF OnRevokeAndAck
    <3>2. Keeps(n, m) /\ can_revoke(m, Remote)
      BY <2>1 DEF LedgerInv
    <3> HIDE DEF m
    <3>3. Keeps(n, w)
      BY <3>2, KeepsTheirRevocation
    <3> HIDE DEF w
    <3>4. Honest(n, Updated(Begin(n), w))
      BY <1>3, <3>3, HonestParts
    <3> QED BY <3>1, <3>4, HonestParts
  <2>2. CASE ~accepts
    <3>1. o = Raise(Begin(n), msg.type)
      BY <1>2, <1>3, <2>2 DEF OnRevokeAndAck
    <3> QED BY <3>1, HonestBlame
  <2> QED BY <2>1, <2>2
<1> QED BY <1>1, <1>2, <1>4, HonestReceive

(* Force-closing *)
LEMMA HonestForced ==
    ASSUME NEW n, NEW o, Honest(n, o)
    PROVE  Honest(n, schedule_force_closing(o)) /\ schedule_force_closing(o).c.hm = o.c.hm
<1>1. /\ Honest(n, set_state(o, "FORCE_CLOSING"))
      /\ set_state(o, "FORCE_CLOSING").c.hm = o.c.hm
  BY HonestParts
<1> QED BY <1>1 DEF schedule_force_closing

(* Other fields of the channel are set. *)
LEMMA HonestChannel ==
    ASSUME NEW n, NEW o, Honest(n, o), NEW d, DOMAIN d = ChannelFields, d.hm = o.c.hm,
           NEW p, p = [o EXCEPT !.c = d]
    PROVE  Honest(n, p) /\ p.c = d /\ p.out = o.out /\ p.file = o.file
<1>1. /\ DOMAIN p = OutcomeFields /\ p.c = d /\ p.out = o.out /\ p.file = o.file
  BY DEF Honest, OutcomeFields
<1> QED BY <1>1, HonestLike

LEMMA OnChannelReestablishHonest ==
    ASSUME BasicInv, LedgerInv, NEW n \in Node,
           Receive(n, "channel_reestablish", OnChannelReestablish)
    PROVE  Honestly(n)
<1> DEFINE msg == Head(net[n])
           o == Begin(n)
           T == IF o.c.task = "none" THEN {"none", "spawned"} ELSE {o.c.task}
           Fails(r, t) == [r EXCEPT !.c.reest = <<Exception>>, !.c.task = t]
           toxic == [set_state(o, "WE_ARE_TOXIC") EXCEPT !.c.peer_state = "BAD"]
           forced == schedule_force_closing(o)
           hears == [o EXCEPT !.c.reest = <<msg>>]
<1>1. /\ net[n] # << >> /\ ~Blocked(ch[n])
      /\ \E p \in OnChannelReestablish(n, msg) : Step(n, p, Tail(net[n]))
  BY DEF Receive
<1>2. PICK p \in OnChannelReestablish(n, msg) : Step(n, p, Tail(net[n]))
  BY <1>1
<1>3. Honest(n, o)
  BY HonestBegin
<1>4. \/ p = o \/ p = hears
      \/ \E t \in T : p = Fails(toxic, t) \/ p = Fails(forced, t)
  <2> HIDE DEF o, msg
  <2> QED BY <1>2 DEF OnChannelReestablish, o, msg
<1> HIDE DEF o, msg
<1>5. Honest(n, hears)
  <2> DEFINE d == [o.c EXCEPT !.reest = <<msg>>]
  <2>1. DOMAIN d = ChannelFields /\ d.hm = o.c.hm
    BY <1>3 DEF Honest, ChannelFields
  <2>2. hears = [o EXCEPT !.c = d]
    BY <1>3 DEF Honest, OutcomeFields
  <2> HIDE DEF d, hears
  <2> QED BY <1>3, <2>1, <2>2, HonestChannel
<1>6. Honest(n, toxic)
  <2> DEFINE r == set_state(o, "WE_ARE_TOXIC")
             d == [r.c EXCEPT !.peer_state = "BAD"]
  <2>1. Honest(n, r)
    BY <1>3, HonestParts
  <2> HIDE DEF r
  <2>2. DOMAIN d = ChannelFields /\ d.hm = r.c.hm
    BY <2>1 DEF Honest, ChannelFields
  <2>3. toxic = [r EXCEPT !.c = d]
    BY <2>1 DEF Honest, OutcomeFields, r
  <2> HIDE DEF d, toxic
  <2> QED BY <2>1, <2>2, <2>3, HonestChannel
<1>7. Honest(n, forced)
  BY <1>3, HonestForced
<1>8. ASSUME NEW r, Honest(n, r), NEW t PROVE Honest(n, Fails(r, t))
  <2> DEFINE d == [r.c EXCEPT !.reest = <<Exception>>, !.task = t]
             q == Fails(r, t)
  <2>1. DOMAIN d = ChannelFields /\ d.hm = r.c.hm
    BY <1>8 DEF Honest, ChannelFields
  <2>2. q = [r EXCEPT !.c = d]
    BY <1>8 DEF Honest, OutcomeFields
  <2> HIDE DEF d, q
  <2>3. Honest(n, q)
    BY <1>8, <2>1, <2>2, HonestChannel
  <2> QED BY <2>3 DEF q
<1> HIDE DEF hears, toxic, forced, Fails
<1>9. Honest(n, p)
  BY <1>3, <1>4, <1>5, <1>6, <1>7, <1>8
<1> QED BY <1>1, <1>2, <1>9, HonestReceive

LEMMA OnErrorHonest ==
    ASSUME BasicInv, LedgerInv, NEW n \in Node, Receive(n, "error", OnError)
    PROVE  Honestly(n)
<1>1. /\ net[n] # << >> /\ ~Blocked(ch[n])
      /\ \E o \in OnError(n, Head(net[n])) : Step(n, o, Tail(net[n]))
  BY DEF Receive
<1>2. PICK o \in OnError(n, Head(net[n])) : Step(n, o, Tail(net[n]))
  BY <1>1
<1>3. o = Raise(schedule_force_closing(Begin(n)), GracefulDisconnect)
  BY <1>2 DEF OnError
<1>4. Honest(n, schedule_force_closing(Begin(n)))
  BY HonestBegin, HonestForced
<1>5. Honest(n, o)
  BY <1>3, <1>4, HonestParts
<1> QED BY <1>1, <1>2, <1>5, HonestReceive

LEMMA OnShutdownHonest ==
    ASSUME BasicInv, LedgerInv, NEW n \in Node, Receive(n, "shutdown", OnShutdown)
    PROVE  Honestly(n)
<1> DEFINE o == Begin(n)
           d == [o.c EXCEPT !.shutdown = TRUE]
<1>1. /\ net[n] # << >> /\ ~Blocked(ch[n])
      /\ \E p \in OnShutdown(n, Head(net[n])) : Step(n, p, Tail(net[n]))
  BY DEF Receive
<1>2. PICK p \in OnShutdown(n, Head(net[n])) : Step(n, p, Tail(net[n]))
  BY <1>1
<1>3. Honest(n, o)
  BY HonestBegin
<1>4. p = [o EXCEPT !.c.shutdown = TRUE]
  BY <1>2 DEF OnShutdown
<1> HIDE DEF o
<1>5. p = [o EXCEPT !.c = d] /\ DOMAIN d = ChannelFields /\ d.hm = o.c.hm
  BY <1>3, <1>4 DEF Honest, ChannelFields, OutcomeFields
<1> HIDE DEF d
<1>6. Honest(n, p)
  BY <1>3, <1>5, HonestChannel
<1> QED BY <1>1, <1>2, <1>6, HonestReceive

LEMMA OnClosingSignedHonest ==
    ASSUME BasicInv, LedgerInv, NEW n \in Node, Receive(n, "closing_signed", OnClosingSigned)
    PROVE  Honestly(n)
<1> DEFINE o == Begin(n)
           d == [o.c EXCEPT !.inbox = Append(@, Head(net[n]))]
<1>1. /\ net[n] # << >> /\ ~Blocked(ch[n])
      /\ \E p \in OnClosingSigned(n, Head(net[n])) : Step(n, p, Tail(net[n]))
  BY DEF Receive
<1>2. PICK p \in OnClosingSigned(n, Head(net[n])) : Step(n, p, Tail(net[n]))
  BY <1>1
<1>3. Honest(n, o)
  BY HonestBegin
<1>4. p = [o EXCEPT !.c.inbox = Append(@, Head(net[n]))]
  BY <1>2 DEF OnClosingSigned
<1> HIDE DEF o
<1>5. p = [o EXCEPT !.c = d] /\ DOMAIN d = ChannelFields /\ d.hm = o.c.hm
  BY <1>3, <1>4 DEF Honest, ChannelFields, OutcomeFields
<1> HIDE DEF d
<1>6. Honest(n, p)
  BY <1>3, <1>5, HonestChannel
<1> QED BY <1>1, <1>2, <1>6, HonestReceive

(* Everything that is received *)
LEMMA DeliverHonest ==
    ASSUME BasicInv, LedgerInv, NEW n \in Node, Deliver(n)
    PROVE  Honestly(n)
  BY OnUpdateAddHtlcHonest, OnUpdateFulfillHtlcHonest, OnUpdateFailHtlcHonest, OnUpdateFeeHonest,
     OnCommitmentSignedHonest, OnRevokeAndAckHonest, OnChannelReestablishHonest, OnErrorHonest,
     OnShutdownHonest, OnClosingSignedHonest
  DEF Deliver

LEMMA StartReestablishHonest ==
    ASSUME BasicInv, Dance, LedgerInv, NEW n \in Node, StartReestablish(n)
    PROVE  Honestly(n)
<1> DEFINE b == Begin(n)
           d == [b.c EXCEPT !.task = "none"]
           o == [b EXCEPT !.c.task = "none"]
           w == discard_unsigned_remote_updates(o.c.hm)
           u == Updated(o, w)
           e == [u.c EXCEPT !.peer_state = "REESTABLISHING", !.task = "waiting"]
           waiting == [u EXCEPT !.c.peer_state = "REESTABLISHING", !.c.task = "waiting"]
           x == CASE o.c.state = "WE_ARE_TOXIC"  -> request_force_close(o)
                  [] o.c.state = "FORCE_CLOSING" -> send_channel_reestablish(o)
                  [] o.c.state = "OPEN"          -> send_channel_reestablish(waiting)
<1>0. ch[n].state \in {"WE_ARE_TOXIC", "FORCE_CLOSING", "OPEN"}
  BY DEF StartReestablish, CanStart, Dance, Final
<1>1. Step(n, x, net[n])
  BY DEF StartReestablish
<1>2. Honest(n, b) /\ b.c = ch[n]
  BY HonestBegin
<1> HIDE DEF b
<1>3. o = [b EXCEPT !.c = d] /\ DOMAIN d = ChannelFields /\ d.hm = b.c.hm /\ d.state = ch[n].state
  BY <1>2 DEF Honest, ChannelFields, OutcomeFields
<1> HIDE DEF d, o
<1>4. Honest(n, o) /\ o.c.hm = ch[n].hm /\ o.c.state = ch[n].state
  <2>1. Honest(n, o) /\ o.c = d
    BY <1>2, <1>3, HonestChannel
  <2> QED BY <1>2, <1>3, <2>1
<1>5. Honest(n, u)
  <2>1. Keeps(n, o.c.hm)
    BY <1>4 DEF Honest
  <2>2. Keeps(n, w)
    BY <2>1, KeepsReset
  <2> HIDE DEF w
  <2> QED BY <1>4, <2>2, HonestParts
<1> HIDE DEF u
<1>6. waiting = [u EXCEPT !.c = e] /\ DOMAIN e = ChannelFields /\ e.hm = u.c.hm
  BY <1>5 DEF Honest, ChannelFields, OutcomeFields
<1> HIDE DEF waiting, e
<1>7. Honest(n, waiting)
  BY <1>5, <1>6, HonestChannel
<1>8. ASSUME NEW p, Honest(n, p), NEW k, NEW j
      PROVE  Honest(n, send_message(p, channel_reestablish(k, j)))
  <2> DEFINE msg == channel_reestablish(k, j)
  <2>1. IsPayload(msg)
    BY DEF IsPayload, channel_reestablish
  <2> HIDE DEF msg
  <2>2. Honest(n, send_message(p, msg))
    BY <1>8, <2>1, HonestSent
  <2> QED BY <2>2 DEF msg
<1>9. ASSUME NEW p, Honest(n, p) PROVE Honest(n, send_channel_reestablish(p))
  BY <1>8, <1>9 DEF send_channel_reestablish
<1>10. Honest(n, request_force_close(o))
  <2> DEFINE q == send_message(o, channel_reestablish(0, 0))
             msg == [type |-> "error"]
  <2>1. Honest(n, q)
    BY <1>4, <1>8
  <2>2. IsPayload(msg)
    BY DEF IsPayload
  <2> HIDE DEF q, msg
  <2>3. Honest(n, send_message(q, msg))
    BY <2>1, <2>2, HonestSent
  <2> QED BY <2>3 DEF request_force_close, q, msg
<1>11. Honest(n, x)
  BY <1>0, <1>4, <1>7, <1>9, <1>10
<1> HIDE DEF x
<1> QED BY <1>1, <1>11 DEF Honestly, IsInbox

LEMMA FinishReestablishHonest ==
    ASSUME BasicInv, LedgerInv, NEW n \in Node, FinishReestablish(n)
    PROVE  Honestly(n)
<1> DEFINE o == Begin(n)
           m == o.c.hm
           msg == o.c.reest[1]
           revack == resent_revoke_and_ack(m, msg)
           replay == unacked_from(m, msg.next_commitment_number)
           out == IF m.revokeLast THEN replay \o revack ELSE revack \o replay
           p == [o EXCEPT !.out = out,
                          !.c.peer_state = "GOOD", !.c.task = "none", !.c.reest = << >>]
           x == IF Blocked(o.c) THEN p ELSE Raise(o, GracefulDisconnect)
<1>1. Step(n, x, net[n])
  BY DEF FinishReestablish
<1>2. Honest(n, o)
  BY HonestBegin
<1>3. \A c \in DOMAIN m.unacked : AllPayload(m.unacked[c])
  BY <1>2 DEF Honest, Keeps
<1>4. AllPayload(<< >>)
  BY ShortSeqs DEF AllPayload
<1>5. AllPayload(replay)
  <2> DEFINE At(k) == IF k >= msg.next_commitment_number /\ k \in DOMAIN m.unacked
                      THEN m.unacked[k] ELSE << >>
             last == next_ctn(m, Remote)
  <2>1. \A k : AllPayload(At(k))
    BY <1>3, <1>4
  <2> HIDE DEF At
  <2>2. AllPayload(At(last - 1) \o At(last))
    BY <2>1, PayloadConcat
  <2> QED BY <2>2 DEF unacked_from, At
<1>6. AllPayload(revack)
  <2> DEFINE r == revoke_and_ack(m.ctn[Local] - 1)
  <2>1. IsPayload(r)
    BY DEF IsPayload, revoke_and_ack
  <2> HIDE DEF r
  <2>2. AllPayload(<<r>>)
    BY <2>1, ShortSeqs DEF AllPayload
  <2> QED BY <1>4, <2>2 DEF resent_revoke_and_ack, r
<1> HIDE DEF replay, revack
<1>7. AllPayload(out)
  BY <1>5, <1>6, PayloadConcat
<1> HIDE DEF out, m, msg, o
<1>8. Honest(n, p)
  <2>1. /\ DOMAIN p = OutcomeFields /\ DOMAIN p.c = ChannelFields /\ p.c.hm = o.c.hm
        /\ p.file = o.file /\ p.out = out
    BY <1>2 DEF Honest, ChannelFields, OutcomeFields
  <2> HIDE DEF p
  <2> QED BY <1>2, <1>7, <2>1 DEF Honest
<1>9. Honest(n, x)
  BY <1>2, <1>8, HonestParts
<1> HIDE DEF x
<1> QED BY <1>1, <1>9 DEF Honestly, IsInbox

-----------------------------------------------------------------------------
(* Closing the channel *)

(* A message that carries nothing *)
LEMMA HonestWord ==
    ASSUME NEW n \in Node, NEW o, Honest(n, o), NEW msg, msg.type \in {"shutdown", "closing_signed"}
    PROVE  Honest(n, send_message(o, msg)) /\ send_message(o, msg).c = o.c
<1>1. IsPayload(msg)
  BY DEF IsPayload
<1>2. Honest(n, send_message(o, msg))
  BY <1>1, HonestSent
<1>3. send_message(o, msg) = [o EXCEPT !.out = Append(@, msg)]
  BY DEF send_message, Updates
<1>4. send_message(o, msg).c = o.c
  BY <1>3 DEF Honest, OutcomeFields
<1> QED BY <1>2, <1>4

LEMMA HonestFails ==
    ASSUME NEW n, NEW o, Honest(n, o)
    PROVE  Honest(n, FailsToClose(o))
<1> DEFINE over == [o EXCEPT !.c.close = NotClosing]
           d == [o.c EXCEPT !.close = NotClosing]
<1>1. over = [o EXCEPT !.c = d] /\ DOMAIN d = ChannelFields /\ d.hm = o.c.hm
  BY DEF Honest, ChannelFields, OutcomeFields
<1>2. FailsToClose(o) = IF o.c.close.is_local THEN over ELSE Raise(over, GracefulDisconnect)
  BY DEF FailsToClose
<1> HIDE DEF d, over
<1>3. Honest(n, over)
  BY <1>1, HonestChannel
<1>4. Honest(n, Raise(over, GracefulDisconnect))
  BY <1>3, HonestParts
<1> QED BY <1>2, <1>3, <1>4

LEMMA HonestShutdown ==
    ASSUME NEW n \in Node, NEW o, Honest(n, o)
    PROVE  Honest(n, SendsShutdown(o)) /\ Honest(n, send_shutdown(o))
<1>1. ASSUME NEW q, Honest(n, q) PROVE Honest(n, SendsShutdown(q))
  <2> DEFINE sent == send_message(q, [type |-> "shutdown"])
             p == [sent EXCEPT !.c.may_update = TRUE, !.c.close.at = "sent"]
             d == [sent.c EXCEPT !.may_update = TRUE, !.close.at = "sent"]
  <2>1. Honest(n, sent)
    <3> DEFINE msg == [type |-> "shutdown"]
    <3>1. msg.type \in {"shutdown", "closing_signed"}
      OBVIOUS
    <3> HIDE DEF msg
    <3>2. Honest(n, send_message(q, msg))
      BY <1>1, <3>1, HonestWord
    <3> QED BY <3>2 DEF msg
  <2>2. SendsShutdown(q) = IF q.c.state \in {"OPEN", "SHUTDOWN"} THEN set_state(p, "SHUTDOWN")
                           ELSE FailsToClose(sent)
    BY DEF SendsShutdown
  <2> HIDE DEF sent
  <2>3. p = [sent EXCEPT !.c = d] /\ DOMAIN d = ChannelFields /\ d.hm = sent.c.hm
    BY <2>1 DEF Honest, ChannelFields, OutcomeFields
  <2> HIDE DEF p, d
  <2>4. Honest(n, p)
    BY <2>1, <2>3, HonestChannel
  <2> QED BY <2>1, <2>2, <2>4, HonestParts, HonestFails
<1>2. Honest(n, send_shutdown(o))
  <2> DEFINE waiting == [o EXCEPT !.c.may_update = FALSE, !.c.close.at = "pending"]
             d == [o.c EXCEPT !.may_update = FALSE, !.close.at = "pending"]
  <2>1. waiting = [o EXCEPT !.c = d] /\ DOMAIN d = ChannelFields /\ d.hm = o.c.hm
    BY DEF Honest, ChannelFields, OutcomeFields
  <2>2. send_shutdown(o) = IF has_pending_changes(o.c.hm, Remote) THEN waiting ELSE SendsShutdown(waiting)
    BY DEF send_shutdown
  <2> HIDE DEF waiting, d
  <2>3. Honest(n, waiting)
    BY <2>1, HonestChannel
  <2> QED BY <1>1, <2>2, <2>3
<1> QED BY <1>1, <1>2

LEMMA CloseChannelHonest ==
    ASSUME BasicInv, LedgerInv, NEW n \in Node, CloseChannel(n)
    PROVE  Honestly(n)
<1> DEFINE b == Begin(n)
           o == [b EXCEPT !.c.close.is_local = TRUE]
           d == [b.c EXCEPT !.close.is_local = TRUE]
<1>1. Step(n, send_shutdown(o), net[n])
  BY DEF CloseChannel
<1>2. Honest(n, b)
  BY HonestBegin
<1> HIDE DEF b
<1>3. o = [b EXCEPT !.c = d] /\ DOMAIN d = ChannelFields /\ d.hm = b.c.hm
  BY <1>2 DEF Honest, ChannelFields, OutcomeFields
<1> HIDE DEF o, d
<1>4. Honest(n, send_shutdown(o))
  BY <1>2, <1>3, HonestChannel, HonestShutdown
<1> QED BY <1>1, <1>4 DEF Honestly, IsInbox

LEMMA HandleShutdownHonest ==
    ASSUME BasicInv, LedgerInv, NEW n \in Node
    PROVE  Honest(n, HandleShutdown(n))
<1> DEFINE b == Begin(n)
           o == [b EXCEPT !.c.shutdown = FALSE, !.c.close.received = TRUE]
           d == [b.c EXCEPT !.shutdown = FALSE, !.close.received = TRUE]
<1>1. HandleShutdown(n) = IF o.c.peer_state # "GOOD" THEN Raise(o, "shutdown")
                          ELSE IF o.c.close.is_local THEN o ELSE send_shutdown(o)
  BY DEF HandleShutdown
<1>2. Honest(n, b)
  BY HonestBegin
<1> HIDE DEF b
<1>3. o = [b EXCEPT !.c = d] /\ DOMAIN d = ChannelFields /\ d.hm = b.c.hm
  BY <1>2 DEF Honest, ChannelFields, OutcomeFields
<1> HIDE DEF o, d
<1>4. Honest(n, o)
  BY <1>2, <1>3, HonestChannel
<1> QED BY <1>1, <1>4, HonestParts, HonestShutdown

LEMMA HonestClosingSigned ==
    ASSUME NEW n \in Node, NEW o, Honest(n, o)
    PROVE  Honest(n, send_closing_signed(n, o)) /\ send_closing_signed(n, o).c = o.c
<1> DEFINE r == o.c.fee_range
           msg == [type |-> "closing_signed", range |-> r, sig |-> make_closing_tx(n, o.c.hm, r.fee)]
<1>1. send_closing_signed(n, o) = send_message(o, msg)
  BY DEF send_closing_signed
<1>2. msg.type \in {"shutdown", "closing_signed"}
  OBVIOUS
<1> HIDE DEF msg
<1> QED BY <1>1, <1>2, HonestWord

LEMMA HonestCloses ==
    ASSUME NEW n \in Node, NEW o, Honest(n, o)
    PROVE  Honest(n, Closes(n, o))
<1> DEFINE told == IF n = Funder THEN o ELSE send_closing_signed(n, o)
           tx == <<make_closing_tx(n, o.c.hm, o.c.fee_range.fee)>>
           p == [told EXCEPT !.c.close = NotClosing, !.c.closing_tx = tx]
           d == [told.c EXCEPT !.close = NotClosing, !.closing_tx = tx]
<1>1. Honest(n, told)
  BY HonestClosingSigned
<1>2. Closes(n, o) = IF o.c.state \in {"SHUTDOWN", "CLOSING"} THEN set_state(p, "CLOSING")
                     ELSE FailsToClose(told)
  BY DEF Closes
<1> HIDE DEF told, tx
<1>3. p = [told EXCEPT !.c = d] /\ DOMAIN d = ChannelFields /\ d.hm = told.c.hm
  BY <1>1 DEF Honest, ChannelFields, OutcomeFields
<1> HIDE DEF p, d
<1>4. Honest(n, p)
  BY <1>1, <1>3, HonestChannel
<1>5. Honest(n, set_state(p, "CLOSING"))
  BY <1>4, HonestParts
<1>6. Honest(n, FailsToClose(told))
  BY <1>1, HonestFails
<1> QED BY <1>2, <1>5, <1>6

LEMMA StartsNegotiationHonest ==
    ASSUME BasicInv, LedgerInv, NEW n \in Node, NEW range
    PROVE  Honest(n, StartsNegotiation(n, range))
<1> DEFINE b == Begin(n)
           x == [at |-> "receiving", is_local |-> b.c.close.is_local, received |-> TRUE, replied |-> FALSE]
           o == [b EXCEPT !.c.may_update = FALSE, !.c.fee_range = range, !.c.close = x]
           d == [b.c EXCEPT !.may_update = FALSE, !.fee_range = range, !.close = x]
<1>1. Honest(n, b)
  BY HonestBegin
<1>2. StartsNegotiation(n, range) = IF n = Funder THEN send_closing_signed(n, o) ELSE o
  BY <1>1 DEF StartsNegotiation, Honest, OutcomeFields, ChannelFields
<1> HIDE DEF b, x
<1>3. o = [b EXCEPT !.c = d] /\ DOMAIN d = ChannelFields /\ d.hm = b.c.hm
  BY <1>1 DEF Honest, ChannelFields, OutcomeFields
<1> HIDE DEF o, d
<1>4. Honest(n, o)
  BY <1>1, <1>3, HonestChannel
<1> QED BY <1>2, <1>4, HonestClosingSigned

LEMMA ReceivesClosingSignedHonest ==
    ASSUME BasicInv, LedgerInv, NEW n \in Node
    PROVE  Honest(n, ReceivesClosingSigned(n))
<1> DEFINE b == Begin(n)
           o == [b EXCEPT !.c.inbox = Tail(@)]
           d == [b.c EXCEPT !.inbox = Tail(@)]
           msg == Head(ch[n].inbox)
           ours == ch[n].fee_range
           fee == choose_new_fee(n, ours, msg.range, ch[n].close.replied)
           chosen == [o EXCEPT !.c.close.replied = TRUE, !.c.fee_range.fee = fee,
                               !.c.fee_range.max = IF n = Funder THEN @ ELSE Max({@, msg.range.max})]
           e == [o.c EXCEPT !.close.replied = TRUE, !.fee_range.fee = fee,
                            !.fee_range.max = IF n = Funder THEN @ ELSE Max({@, msg.range.max})]
           x == ReceivesClosingSigned(n)
<1>1. Honest(n, b)
  BY HonestBegin
<1>2. \/ x = FailsToClose(o) \/ x = Closes(n, o)
      \/ x = FailsToClose(schedule_force_closing(o))
      \/ x = Closes(n, IF n = Funder THEN send_closing_signed(n, chosen) ELSE chosen)
      \/ x = send_closing_signed(n, chosen)
  <2> DEFINE sig == msg.sig # make_closing_tx(n, o.c.hm, msg.range.fee)
             same == msg.range.fee = ours.fee
             no == fee = NoFee
             their == fee = msg.range.fee
             x1 == FailsToClose(o)
             x2 == Closes(n, o)
             x3 == FailsToClose(schedule_force_closing(o))
             x4 == Closes(n, IF n = Funder THEN send_closing_signed(n, chosen) ELSE chosen)
             x5 == send_closing_signed(n, chosen)
  <2>1. x = IF sig THEN x1 ELSE IF same THEN x2 ELSE IF no THEN x3 ELSE IF their THEN x4 ELSE x5
    BY DEF ReceivesClosingSigned
  <2> HIDE DEF x, sig, same, no, their, x1, x2, x3, x4, x5
  <2>2. x = x1 \/ x = x2 \/ x = x3 \/ x = x4 \/ x = x5
    BY <2>1
  <2> QED BY <2>2 DEF x1, x2, x3, x4, x5
<1> HIDE DEF b, x, fee, msg
<1>3. o = [b EXCEPT !.c = d] /\ DOMAIN d = ChannelFields /\ d.hm = b.c.hm
  BY <1>1 DEF Honest, ChannelFields, OutcomeFields
<1> HIDE DEF o, d
<1>4. Honest(n, o)
  BY <1>1, <1>3, HonestChannel
<1>5. chosen = [o EXCEPT !.c = e] /\ DOMAIN e = ChannelFields /\ e.hm = o.c.hm
  BY <1>4 DEF Honest, ChannelFields, OutcomeFields
<1> HIDE DEF chosen, e
<1>6. Honest(n, chosen)
  BY <1>4, <1>5, HonestChannel
<1>7. Honest(n, x)
  BY <1>2, <1>4, <1>6, HonestFails, HonestForced, HonestCloses, HonestClosingSigned
<1> QED BY <1>7 DEF x

LEMMA CloseStepHonest ==
    ASSUME BasicInv, LedgerInv, NEW n \in Node, CloseStep(n)
    PROVE  Honestly(n)
<1>1. PICK o \in CloseOutcomes(n) : Step(n, o, net[n])
  BY DEF CloseStep
<1>2. \/ o = HandleShutdown(n) \/ o = SendsShutdown(Begin(n))
      \/ \E r \in CloseFees[n] : o = StartsNegotiation(n, r)
      \/ o = ReceivesClosingSigned(n)
      \/ o = FailsToClose(schedule_force_closing(Begin(n)))
  <2> DEFINE c == ch[n]
             A == IF c.shutdown THEN {HandleShutdown(n)} ELSE {}
             B == CASE c.close.at = "pending" /\ ~has_pending_changes(c.hm, Remote) /\ connected ->
                         {SendsShutdown(Begin(n))}
                    [] c.close.at = "sent" /\ c.close.received /\ ~has_unsettled_htlcs(c.hm) ->
                         {StartsNegotiation(n, r) : r \in CloseFees[n]}
                    [] c.close.at = "receiving" /\ c.inbox # << >> -> {ReceivesClosingSigned(n)}
                    [] c.close.at = "receiving" /\ c.inbox = << >> ->
                         {FailsToClose(schedule_force_closing(Begin(n)))}
                    [] OTHER -> {}
  <2>1. o \in A \/ o \in B
    BY <1>1 DEF CloseOutcomes
  <2>2. CASE o \in A
    BY <2>2
  <2>3. CASE o \in B
    BY <2>3
  <2> QED BY <2>1, <2>2, <2>3
<1>3. Honest(n, Begin(n))
  BY HonestBegin
<1>4. Honest(n, o)
  BY <1>2, <1>3, HandleShutdownHonest, HonestShutdown, StartsNegotiationHonest,
     ReceivesClosingSignedHonest, HonestForced, HonestFails
<1> QED BY <1>1, <1>4 DEF Honestly, IsInbox

(* Whatever a node does *)
LEMMA NodesHonest ==
    ASSUME DanceInv, LedgerInv, NEW n \in Node,
           \/ SendHtlc(n) \/ UpdateFee(n) \/ PollCommitment(n) \/ Deliver(n)
           \/ \E i \in HtlcIds : FulfillHtlc(n, i) \/ FailHtlc(n, i)
           \/ StartReestablish(n) \/ FinishReestablish(n)
           \/ CloseChannel(n) \/ CloseStep(n)
    PROVE  Honestly(n)
<1>1. BasicInv /\ Dance
  BY DEF DanceInv
<1> QED BY <1>1, SendHtlcHonest, UpdateFeeHonest, PollCommitmentHonest, DeliverHonest,
          FulfillHtlcHonest, FailHtlcHonest, StartReestablishHonest, FinishReestablishHonest,
          CloseChannelHonest, CloseStepHonest

-----------------------------------------------------------------------------
(* A step of the channel *)

\* What LedgerInv says of n
LedgerAt(n) ==
    /\ Keeps(n, ch[n].hm)
    /\ n \in Persistent => Keeps(n, disk[n].hm)
    /\ backup[n] # NoFile => Keeps(n, backup[n].hm)
    /\ \A k \in 1 .. Len(net[n]) : IsPayload(net[n][k])

LEMMA LedgerParts == LedgerInv <=> (\A n \in Node : LedgerAt(n)) /\ (\A tx \in signed : FairCtx(tx))
  BY DEF LedgerInv, LedgerAt

(* The end of the connection leaves the log. *)
LEMMA DisconnectedLog == ASSUME NEW c, DOMAIN c = ChannelFields PROVE Disconnected(c).hm = c.hm
  BY DEF Disconnected, ChannelFields

(* What a step does to the logs and the messages *)
LEMMA HonestMoves ==
    ASSUME BasicInv, LedgerInv, NEW n \in Node, NEW o, NEW inbox,
           Step(n, o, inbox), IsInbox(n, inbox), Honest(n, o)
    PROVE  /\ ch'[n].hm = o.c.hm /\ ch'[Peer(n)].hm = ch[Peer(n)].hm
           /\ \A q \in Node : \A k \in 1 .. Len(net'[q]) : IsPayload(net'[q][k])
<1> DEFINE p == Peer(n)
<1>1. p \in Node /\ p # n /\ \A q \in Node : q = n \/ q = p
  BY PeerFacts
<1>2. DOMAIN ch[p] = ChannelFields /\ DOMAIN o.c = ChannelFields /\ IsSeq(o.out)
  BY <1>1 DEF BasicInv, Types, IsChannel, Honest, AllPayload
<1>3. /\ \A q \in Node : \A k \in 1 .. Len(net[q]) : IsPayload(net[q][k])
      /\ \A k \in 1 .. Len(o.out) : IsPayload(o.out[k])
  BY DEF LedgerInv, Honest, AllPayload
<1>4. CASE o.exc = Ok
  <2>1. /\ ch'[n] = o.c /\ ch'[p] = ch[p]
        /\ \A k \in 1 .. Len(net'[n]) : \E j \in 1 .. Len(net[n]) : net'[n][k] = net[n][j]
        /\ \A k \in 1 .. Len(net'[p]) :
              \/ \E j \in 1 .. Len(net[p]) : net'[p][k] = net[p][j]
              \/ \E j \in 1 .. Len(o.out) : net'[p][k] = o.out[j]
    BY <1>2, <1>4, StepSends
  <2> HIDE DEF p
  <2>2. \A k \in 1 .. Len(net'[n]) : IsPayload(net'[n][k])
    BY <1>3, <2>1
  <2>3. \A k \in 1 .. Len(net'[p]) : IsPayload(net'[p][k])
    BY <1>1, <1>3, <2>1
  <2>4. \A q \in Node : \A k \in 1 .. Len(net'[q]) : IsPayload(net'[q][k])
    BY <1>1, <2>2, <2>3
  <2> QED BY <2>1, <2>4 DEF p
<1>5. CASE o.exc # Ok
  <2>1. /\ ch' = [q \in Node |-> Disconnected(IF q = n THEN o.c ELSE ch[q])]
        /\ net' = [q \in Node |-> << >>]
    BY <1>5 DEF Step
  <2>2. ch'[n] = Disconnected(o.c) /\ ch'[p] = Disconnected(ch[p])
    BY <1>1, <2>1
  <2>3. \A q \in Node : Len(net'[q]) = 0
    BY <2>1, ShortSeqs
  <2> QED BY <1>2, <2>2, <2>3, DisconnectedLog
<1> QED BY <1>4, <1>5

(* A step with such an outcome keeps LedgerInv. *)
LEMMA HonestStep ==
    ASSUME BasicInv, LedgerInv, NEW n \in Node, Honestly(n), backup' = backup
    PROVE  LedgerInv'
<1>1. PICK o, inbox : Step(n, o, inbox) /\ IsInbox(n, inbox) /\ Honest(n, o)
  BY DEF Honestly
<1> DEFINE p == Peer(n)
<1>2. p \in Node /\ p # n /\ \A q \in Node : q = n \/ q = p
  BY PeerFacts
<1>3. /\ ch'[n].hm = o.c.hm /\ ch'[p].hm = ch[p].hm
      /\ \A q \in Node : \A k \in 1 .. Len(net'[q]) : IsPayload(net'[q][k])
  BY <1>1, HonestMoves
<1>4. /\ DOMAIN disk = Node
      /\ disk' = IF n \in Persistent THEN [disk EXCEPT ![n] = o.file] ELSE disk
      /\ signed' = signed \cup Sigs(o)
  BY <1>1 DEF BasicInv, Types, Step, Sigs
<1>5. (n \in Persistent => disk'[n] = o.file) /\ disk'[p] = disk[p]
  BY <1>2, <1>4
<1>6. LedgerAt(n) /\ LedgerAt(p) /\ \A tx \in signed : FairCtx(tx)
  BY <1>2, LedgerParts
<1>7. LedgerAt(n)' /\ LedgerAt(p)'
  BY <1>1, <1>2, <1>3, <1>5, <1>6 DEF LedgerAt, Honest
<1>8. ASSUME NEW tx \in signed' PROVE FairCtx(tx)
  <2>1. CASE tx \in signed
    BY <1>6, <2>1
  <2>2. CASE tx \in Sigs(o)
    <3>1. PICK k \in DOMAIN o.out : o.out[k].type = "commitment_signed" /\ tx = o.out[k].sig
      BY <2>2 DEF Sigs
    <3>2. IsSeq(o.out) /\ \A j \in 1 .. Len(o.out) : IsPayload(o.out[j])
      BY <1>1 DEF Honest, AllPayload
    <3>3. k \in 1 .. Len(o.out)
      BY <3>2 DEF IsSeq
    <3> QED BY <3>1, <3>2, <3>3 DEF IsPayload
  <2> QED BY <1>4, <2>1, <2>2
<1>9. \A q \in Node : LedgerAt(q)'
  BY <1>2, <1>7
<1> QED BY <1>8, <1>9 DEF LedgerInv, LedgerAt

(* So does the end of the connection, whatever files the nodes go on from. *)
LEMMA DropKeepsLedger ==
    ASSUME LedgerInv, NEW channels, DropConnection(channels),
           \A q \in Node : DOMAIN channels[q] = ChannelFields /\ Keeps(q, channels[q].hm),
           \A q \in Node : q \in Persistent => Keeps(q, disk'[q].hm),
           backup' = backup
    PROVE  LedgerInv'
<1>1. /\ ch' = [q \in Node |-> Disconnected(channels[q])]
      /\ net' = [q \in Node |-> << >>] /\ signed' = signed
  BY DEF DropConnection
<1>2. ASSUME NEW q \in Node PROVE LedgerAt(q)'
  <2>1. ch'[q].hm = channels[q].hm
    BY <1>1, DisconnectedLog
  <2>2. Len(net'[q]) = 0
    BY <1>1, ShortSeqs
  <2>3. backup[q] # NoFile => Keeps(q, backup[q].hm)
    BY DEF LedgerInv
  <2> QED BY <2>1, <2>2, <2>3 DEF LedgerAt
<1>3. \A tx \in signed' : FairCtx(tx)
  BY <1>1 DEF LedgerInv
<1> QED BY <1>2, <1>3 DEF LedgerInv, LedgerAt

(* So does reading a file. *)
LEMMA LoadKeepsLedger ==
    ASSUME BasicInv, LedgerInv, NEW n \in Node, NEW file, Keeps(n, file.hm),
           DropConnection(Loaded(n, file)), backup' = backup,
           \A q \in Node : q \in Persistent => Keeps(q, disk'[q].hm)
    PROVE  LedgerInv'
<1> DEFINE w == init_maybe_active_htlc_ids(file.hm)
           channels == Loaded(n, file)
<1>1. \A q \in Node : DOMAIN ch[q] = ChannelFields /\ Keeps(q, ch[q].hm)
  BY DEF BasicInv, Types, IsChannel, LedgerInv
<1>2. channels[n] = Reads(n, file) /\ \A q \in Node : q # n => channels[q] = ch[q]
  BY LoadedIs
<1>3. Keeps(n, w)
  BY KeepsReset
<1> HIDE DEF w
<1>4. DOMAIN Reads(n, file) = ChannelFields /\ Reads(n, file).hm = w
  BY <1>1 DEF Reads, ChannelFields, w
<1> HIDE DEF channels
<1>5. \A q \in Node : DOMAIN channels[q] = ChannelFields /\ Keeps(q, channels[q].hm)
  BY <1>1, <1>2, <1>3, <1>4
<1> QED BY <1>5, DropKeepsLedger DEF channels

(* What no node does keeps it. *)
LEMMA EnvironmentLedger ==
    ASSUME DanceInv, LedgerInv,
           \/ Connect \/ Disconnect
           \/ \E n \in Node : Crash(n) \/ SaveDb(n) \/ Backup(n) \/ Restore(n)
    PROVE  LedgerInv'
<1>1. BasicInv /\ DOMAIN disk = Node /\ DOMAIN backup = Node
  BY DEF DanceInv, BasicInv, Types
<1>2. (\A q \in Node : LedgerAt(q)) /\ \A tx \in signed : FairCtx(tx)
  BY LedgerParts
<1>3. \A q \in Node : DOMAIN ch[q] = ChannelFields
  BY <1>1 DEF BasicInv, Types, IsChannel
<1>4. CASE Connect
  BY <1>2, <1>4 DEF Connect, LedgerInv, LedgerAt
<1>5. CASE Disconnect
  <2>1. DropConnection(ch) /\ disk' = disk /\ backup' = backup
    BY <1>5 DEF Disconnect
  <2>2. \A q \in Node : Keeps(q, ch[q].hm) /\ (q \in Persistent => Keeps(q, disk'[q].hm))
    BY <1>2, <2>1 DEF LedgerAt
  <2> QED BY <1>3, <2>1, <2>2, DropKeepsLedger
<1>6. ASSUME NEW n \in Node, Crash(n) PROVE LedgerInv'
  <2>1. /\ n \in Persistent /\ DropConnection(Loaded(n, disk[n]))
        /\ disk' = disk /\ backup' = backup
    BY <1>6 DEF Crash
  <2>2. \A q \in Node : q \in Persistent => Keeps(q, disk'[q].hm)
    BY <1>2, <2>1 DEF LedgerAt
  <2>3. Keeps(n, disk[n].hm)
    BY <1>2, <2>1 DEF LedgerAt
  <2> QED BY <1>1, <2>1, <2>2, <2>3, LoadKeepsLedger
<1>7. ASSUME NEW n \in Node, SaveDb(n) PROVE LedgerInv'
  <2>1. /\ disk' = [disk EXCEPT ![n] = FileOf(ch[n])]
        /\ ch' = ch /\ net' = net /\ backup' = backup /\ signed' = signed
    BY <1>7 DEF SaveDb
  <2>2. disk'[n] = FileOf(ch[n]) /\ FileOf(ch[n]).hm = ch[n].hm
    BY <1>1, <2>1 DEF FileOf
  <2>3. \A q \in Node : q # n => disk'[q] = disk[q]
    BY <1>1, <2>1
  <2>4. \A q \in Node : LedgerAt(q)'
    BY <1>2, <2>1, <2>2, <2>3 DEF LedgerAt
  <2> QED BY <1>2, <2>1, <2>4 DEF LedgerInv, LedgerAt
<1>8. ASSUME NEW n \in Node, Backup(n) PROVE LedgerInv'
  <2>1. /\ n \in Persistent /\ backup' = [backup EXCEPT ![n] = disk[n]]
        /\ ch' = ch /\ net' = net /\ disk' = disk /\ signed' = signed
    BY <1>8 DEF Backup
  <2>2. backup'[n] = disk[n] /\ \A q \in Node : q # n => backup'[q] = backup[q]
    BY <1>1, <2>1
  <2>3. \A q \in Node : LedgerAt(q)'
    BY <1>2, <2>1, <2>2 DEF LedgerAt
  <2> QED BY <1>2, <2>1, <2>3 DEF LedgerInv, LedgerAt
<1>9. ASSUME NEW n \in Node, Restore(n) PROVE LedgerInv'
  <2>1. /\ backup[n] # NoFile /\ DropConnection(Loaded(n, backup[n]))
        /\ disk' = [disk EXCEPT ![n] = backup[n]] /\ backup' = backup
    BY <1>9 DEF Restore
  <2>2. Keeps(n, backup[n].hm)
    BY <1>2, <2>1 DEF LedgerAt
  <2>3. disk'[n] = backup[n] /\ \A q \in Node : q # n => disk'[q] = disk[q]
    BY <1>1, <2>1
  <2>4. \A q \in Node : q \in Persistent => Keeps(q, disk'[q].hm)
    BY <1>2, <2>2, <2>3 DEF LedgerAt
  <2> QED BY <1>1, <2>1, <2>2, <2>4, LoadKeepsLedger
<1> QED BY <1>4, <1>5, <1>6, <1>7, <1>8, <1>9

(* At the start the logs are empty, and nothing is signed. *)
LEMMA InitLedger == Init => LedgerInv
<1> SUFFICES ASSUME Init PROVE LedgerInv
  OBVIOUS
<1> DEFINE rate == CHOOSE r \in Rates : TRUE
<1>1. rate \in Rates
  BY RatesAssumption
<1> HIDE DEF rate
<1>2. ASSUME NEW n \in Node
      PROVE  /\ ch[n].hm = NewLog(SideOf(n, Funder), rate)
             /\ net[n] = << >> /\ backup[n] = NoFile
             /\ n \in Persistent => disk[n] = FileOf(ch[n])
  BY <1>2 DEF Init, rate
<1>3. ASSUME NEW n \in Node PROVE LedgerAt(n)
  <2> DEFINE s == SideOf(n, Funder)
             m == NewLog(s, rate)
  <2>1. s \in Owner /\ Holdings(n) \in [Owner -> Nat]
    BY HoldingsAre, FunderAssumption
  <2>2. m.initiator = s /\ DOMAIN m.unacked = {}
    BY DEF NewLog
  <2> HIDE DEF s
  <2>3. ConsistentLog(m) /\ ExactDelta(m) /\ SortedFees(m) /\ Solvent(m, Holdings(n))
    BY <1>1, <2>1, NewLogIsConsistent, NewLogDelta, NewLogFees, NewLogSolvent
  <2> HIDE DEF m
  <2>4. Keeps(n, m)
    BY <2>2, <2>3 DEF Keeps, GoodLog, s
  <2>5. ch[n].hm = m /\ FileOf(ch[n]).hm = m
    BY <1>2 DEF m, s, FileOf
  <2>6. Len(net[n]) = 0
    BY <1>2, ShortSeqs
  <2> QED BY <1>2, <2>4, <2>5, <2>6 DEF LedgerAt
<1>4. signed = {}
  BY DEF Init
<1> QED BY <1>3, <1>4, LedgerParts

LedgersInv == DanceInv /\ LedgerInv

LEMMA LedgerStep == LedgersInv /\ [Next]_vars => LedgersInv'
<1> SUFFICES ASSUME LedgersInv, [Next]_vars PROVE LedgersInv'
  OBVIOUS
<1>1. DanceInv /\ LedgerInv /\ BasicInv /\ DanceInv'
  BY DanceStep DEF LedgersInv, DanceInv
<1>2. ASSUME NEW n \in Node,
             \/ SendHtlc(n) \/ UpdateFee(n) \/ PollCommitment(n) \/ Deliver(n)
             \/ \E i \in HtlcIds : FulfillHtlc(n, i) \/ FailHtlc(n, i)
             \/ StartReestablish(n) \/ FinishReestablish(n)
             \/ CloseChannel(n) \/ CloseStep(n)
      PROVE  LedgerInv'
  <2>1. backup' = backup
    BY <1>2 DEF SendHtlc, UpdateFee, PollCommitment, Deliver, Receive, FulfillHtlc, FailHtlc,
       StartReestablish, FinishReestablish, CloseChannel, CloseStep
  <2>2. Honestly(n)
    BY <1>1, <1>2, NodesHonest
  <2> QED BY <1>1, <2>1, <2>2, HonestStep
<1>3. CASE Next
  <2>1. CASE \/ Connect \/ Disconnect
             \/ \E n \in Node : Crash(n) \/ SaveDb(n) \/ Backup(n) \/ Restore(n)
    BY <1>1, <2>1, EnvironmentLedger DEF LedgersInv
  <2>2. CASE \E n \in Node :
               \/ SendHtlc(n) \/ UpdateFee(n) \/ PollCommitment(n) \/ Deliver(n)
               \/ \E i \in HtlcIds : FulfillHtlc(n, i) \/ FailHtlc(n, i)
               \/ StartReestablish(n) \/ FinishReestablish(n)
               \/ CloseChannel(n) \/ CloseStep(n)
    BY <1>1, <1>2, <2>2 DEF LedgersInv
  <2> QED BY <1>3, <2>1, <2>2 DEF Next
<1>4. CASE UNCHANGED vars
  <2>1. UNCHANGED <<ch, net, connected, disk, backup, left, signed, alarms>>
    BY <1>4 DEF vars
  <2> QED BY <1>1, <2>1 DEF LedgersInv, LedgerInv
<1> QED BY <1>3, <1>4

(* So they are at any time. *)
LEMMA LedgerAlways == Spec => []LedgersInv
<1>1. Init => LedgersInv
  BY InitDances, InitLedger DEF LedgersInv
<1> QED BY <1>1, LedgerStep, PTL DEF Spec

(* Nobody spends what he does not own: every ctx that a node signs leaves both of them    *)
(* at least nothing, although both add htlcs without asking each other                    *)
(* (_assert_can_add_htlc, available_to_spend), and whatever is lost, delayed, sent again  *)
(* or read from an old copy of the wallet file.                                           *)
THEOREM NobodyOverspends == Spec => []NoOverdraft
<1>1. LedgersInv => NoOverdraft
  <2> SUFFICES ASSUME LedgersInv, NEW tx \in signed, NEW q \in Node PROVE tx.balance[q] >= 0
    BY DEF NoOverdraft
  <2>1. FairCtx(tx)
    BY DEF LedgersInv, LedgerInv
  <2>2. tx.balance[q] \in 0 .. MapThenSumSet(LAMBDA n : InitialBalance[n], Node)
    BY <2>1 DEF FairCtx, Ledger!IsCtx
  <2> QED BY <2>2
<1> QED BY <1>1, LedgerAlways, PTL

(* The binary search of get_feerate finds the last feerate that is in the ctx, in the     *)
(* logs of two nodes that talk to each other, although a list can hold None for ctxs it   *)
(* has not reached, and is cut off when what was not signed is discarded.                 *)
THEOREM SearchFindsNewest == Spec => []FeerateIsNewest
<1>1. LedgersInv => FeerateIsNewest
  <2> SUFFICES ASSUME LedgersInv, NEW n \in Node, NEW s \in Owner, NEW c \in 0 .. next_ctn(ch[n].hm, s)
               PROVE  get_feerate(ch[n].hm, s, c)
                      = ch[n].hm.fees[Max({k \in DOMAIN ch[n].hm.fees : InCtx(ch[n].hm.fees[k].ctn, s, c)})].rate
    BY DEF FeerateIsNewest
  <2> DEFINE m == ch[n].hm
             reached == {k \in DOMAIN m.fees : InCtx(m.fees[k].ctn, s, c)}
  <2>1. ConsistentLog(m) /\ SortedFees(m)
    BY DEF LedgersInv, LedgerInv, Keeps, GoodLog
  <2> HIDE DEF m
  <2>2. c \in 0 .. next_ctn(m, s)
    BY DEF m
  <2>3. PICK k \in DOMAIN m.fees : IsNewest(m, s, c, k)
    BY <2>1, <2>2, NewestFound DEF NewestExists
  <2>4. get_feerate(m, s, c) = m.fees[k].rate
    BY <2>1, <2>2, <2>3, FeeratesFound DEF FeeratesAreNewest
  <2>5. \A j \in DOMAIN m.fees : j \in Nat
    BY <2>1, FeeFacts
  <2>6. k \in reached /\ \A j \in reached : j <= k
    BY <2>3, <2>5 DEF IsNewest
  <2>7. Max(reached) = k
    <3> HIDE DEF reached
    <3>1. reached \subseteq Nat
      BY <2>5 DEF reached
    <3>2. \A x \in reached : (\A y \in reached : x >= y) => x = k
      BY <2>6, <3>1
    <3>3. \A y \in reached : k >= y
      BY <2>6, <3>1
    <3> QED BY <2>6, <3>2, <3>3 DEF Max
  <2> QED BY <2>4, <2>7 DEF m
<1> QED BY <1>1, LedgerAlways, PTL

-----------------------------------------------------------------------------
(* The channel is a CommitmentLedger *)

\* The node has signed one ctx per ctn for the other, up to the latest.
Counted(n) ==
    /\ IsFiniteSet(SignedBy(n))
    /\ Cardinality(SignedBy(n)) = ctn_latest(ch[n].hm, Remote)

CtxsOf    == [q \in Node |-> {tx \in signed : tx.owner = q}]
RevokedOf == [q \in Node |-> ch[q].hm.ctn[Local]]

(* The variables of the ledger *)
LEMMA LedgerVariables ==
    ASSUME NEW n \in Node
    PROVE  /\ CtxsOf[Peer(n)] = SignedBy(n) /\ CtxsOf[n] = SignedBy(Peer(n))
           /\ RevokedOf[n] = ch[n].hm.ctn[Local]
           /\ RevokedOf[Peer(n)] = ch[Peer(n)].hm.ctn[Local]
  BY PeerFacts DEF CtxsOf, RevokedOf, SignedBy

(* The ledger counts as the channel does. *)
LEMMA CardinalityIs == ASSUME NEW S PROVE Ledger!Cardinality(S) = Cardinality(S)
  BY DEF Cardinality, Ledger!Cardinality

(* The actions of the ledger *)
LEMMA LedgerActions ==
    ASSUME NEW q, NEW p
    PROVE  LET signs(tx) == /\ Cardinality(CtxsOf[p]) = RevokedOf[p]
                            /\ Ledger!IsCtx(tx, p, RevokedOf[p] + 1)
                            /\ CtxsOf' = [CtxsOf EXCEPT ![p] = @ \cup {tx}]
               revokes == /\ RevokedOf[q] < Cardinality(CtxsOf[q])
                          /\ RevokedOf' = [RevokedOf EXCEPT ![q] = @ + 1]
           IN  /\ revokes /\ CtxsOf' = CtxsOf => Ledger!Revoke(q)
               /\ \A tx \in CtxsOf'[p] : signs(tx) /\ RevokedOf' = RevokedOf => Ledger!Sign(p)
               /\ \A tx \in CtxsOf'[p] : signs(tx) /\ revokes => Ledger!RevokeAndSign(q, p)
<1>1. /\ Ledger!Cardinality(CtxsOf[q]) = Cardinality(CtxsOf[q])
      /\ Ledger!Cardinality(CtxsOf[p]) = Cardinality(CtxsOf[p])
  BY CardinalityIs
<1>2. RevokedOf[q] < Cardinality(CtxsOf[q]) /\ RevokedOf' = [RevokedOf EXCEPT ![q] = @ + 1] /\ CtxsOf' = CtxsOf
      => Ledger!Revoke(q)
  BY <1>1 DEF Ledger!Revoke, CtxsOf, RevokedOf
<1>3. ASSUME NEW tx \in CtxsOf'[p], Cardinality(CtxsOf[p]) = RevokedOf[p],
             Ledger!IsCtx(tx, p, RevokedOf[p] + 1), CtxsOf' = [CtxsOf EXCEPT ![p] = @ \cup {tx}]
      PROVE  /\ RevokedOf' = RevokedOf => Ledger!Sign(p)
             /\ RevokedOf[q] < Cardinality(CtxsOf[q]) /\ RevokedOf' = [RevokedOf EXCEPT ![q] = @ + 1]
                => Ledger!RevokeAndSign(q, p)
  BY <1>1, <1>3 DEF Ledger!Sign, Ledger!RevokeAndSign, CtxsOf, RevokedOf
<1> QED BY <1>2, <1>3

(* What is replaced by itself stays. *)
LEMMA ExceptSame ==
    ASSUME NEW S, NEW f, f = [q \in S |-> f[q]], NEW x
    PROVE  [f EXCEPT ![x] = f[x]] = f
  OBVIOUS

(* What one node does to them *)
LEMMA LedgerChanges ==
    ASSUME NEW n \in Node, NEW C, SignedBy(n)' = C, SignedBy(Peer(n))' = SignedBy(Peer(n)),
           NEW r, ch'[n].hm.ctn[Local] = r, ch'[Peer(n)].hm = ch[Peer(n)].hm
    PROVE  /\ CtxsOf' = [CtxsOf EXCEPT ![Peer(n)] = C]
           /\ RevokedOf' = [RevokedOf EXCEPT ![n] = r]
<1> DEFINE p == Peer(n)
<1>1. p \in Node /\ p # n /\ Peer(p) = n /\ \A q \in Node : q = n \/ q = p
  BY PeerFacts
<1>2. \A q \in Node : CtxsOf[q] = SignedBy(Peer(q)) /\ CtxsOf'[q] = SignedBy(Peer(q))'
  BY PeerFacts DEF CtxsOf, SignedBy
<1>3. DOMAIN CtxsOf = Node /\ DOMAIN CtxsOf' = Node
      /\ CtxsOf = [q \in Node |-> CtxsOf[q]] /\ CtxsOf' = [q \in Node |-> CtxsOf'[q]]
  BY DEF CtxsOf
<1>4. RevokedOf' = [q \in Node |-> ch'[q].hm.ctn[Local]]
  BY DEF RevokedOf
<1>5. CtxsOf'[p] = C /\ CtxsOf'[n] = CtxsOf[n]
  BY <1>1, <1>2
<1>6. CtxsOf' = [CtxsOf EXCEPT ![p] = C]
  <2>1. \A q \in Node : CtxsOf'[q] = [CtxsOf EXCEPT ![p] = C][q]
    BY <1>1, <1>3, <1>5
  <2> QED BY <1>3, <2>1
<1>7. RevokedOf' = [RevokedOf EXCEPT ![n] = r]
  BY <1>1, <1>4 DEF RevokedOf
<1> QED BY <1>6, <1>7

(* Each step of a node signs the ctx that comes next, or revokes the one before, or both, *)
(* or leaves the ledger as it is.                                                         *)
LEMMA ActsRefine ==
    ASSUME ForwardInv, ForwardInv', NEW n \in Node, Acts(n), \A q \in Node : Counted(q),
           \A tx \in signed' : FairCtx(tx)
    PROVE  /\ \A q \in Node : Counted(q)'
           /\ Ledger!Next \/ (CtxsOf' = CtxsOf /\ RevokedOf' = RevokedOf)
<1> DEFINE p == Peer(n)
           m == ch[n].hm
<1>1. p \in Node /\ p # n /\ Peer(p) = n /\ \A q \in Node : q = n \/ q = p
  BY PeerFacts
<1>2. PICK o, inbox : Step(n, o, inbox) /\ Outcome(n, o)
  BY DEF Acts
<1> DEFINE w == o.c.hm
<1>3. BasicInv /\ ForwardAt(n) /\ ForwardAt(p) /\ ForwardAt(p)'
  BY <1>1 DEF ForwardInv, DanceInv, Forward, ForwardAt
<1>4. PICK txs : /\ Fine(n, o, txs)
                 /\ SignedBy(n)' = txs /\ SignedBy(p)' = SignedBy(p)
                 /\ \/ txs = SignedBy(n) /\ ctn_latest(w, Remote) = ctn_latest(m, Remote)
                    \/ \E tx : txs = SignedBy(n) \cup {tx} /\ IsNew(n, o.c, tx)
  BY <1>2, StepSigns
<1>5. ch'[n].hm = w /\ ch'[p].hm = ch[p].hm
  BY <1>2, <1>3, StepLogs
<1>6. /\ \A s \in Owner : m.ctn[s] \in Nat /\ w.ctn[s] \in Nat
      /\ \/ w.ctn[Remote] = m.ctn[Remote]
         \/ w.ctn[Remote] <= ch[p].hm.ctn[Local]
  BY <1>3, <1>4, MovesUp
<1>7. /\ ch[p].hm.ctn[Local] \in Nat /\ ch[p].hm.ctn[Remote] \in Nat
      /\ w.revack[Remote] \in BOOLEAN /\ m.revack[Remote] \in BOOLEAN
      /\ ch[p].hm.revack[Remote] \in BOOLEAN
  <2>1. IsLog(m, SignedBy(n)) /\ IsLog(w, txs) /\ IsLog(ch[p].hm, SignedBy(p))
    BY <1>1, <1>3, <1>4 DEF BasicInv, Types, IsChannel, Fine, Sound
  <2> HIDE DEF p, m, w
  <2> QED BY <2>1, OwnerFacts DEF IsLog
<1>8. w.ctn[Local] = m.ctn[Local] \/ w.ctn[Local] = m.ctn[Local] + 1
  BY <1>4 DEF Fine, Sound, Moves
<1>9. w.ctn[Local] <= ctn_latest(ch[p].hm, Remote)
  <2>1. ch'[n].hm.ctn[Local] <= ctn_latest(ch'[p].hm, Remote)
    BY <1>1, <1>3 DEF ForwardAt
  <2> QED BY <1>5, <2>1
<1>10. /\ \A tx \in SignedBy(n) : tx.ctn \in Nat /\ tx.ctn <= ctn_latest(m, Remote)
       /\ m.ctn[Remote] <= ch[p].hm.ctn[Local]
       /\ ch[p].hm.ctn[Local] <= ctn_latest(m, Remote)
  BY <1>3 DEF ForwardAt
<1>11. /\ IsFiniteSet(SignedBy(n)) /\ Cardinality(SignedBy(n)) = ctn_latest(m, Remote)
       /\ IsFiniteSet(SignedBy(p)) /\ Cardinality(SignedBy(p)) = ctn_latest(ch[p].hm, Remote)
  BY <1>1 DEF Counted
<1>12. /\ CtxsOf[p] = SignedBy(n) /\ CtxsOf[n] = SignedBy(p)
       /\ RevokedOf[n] = m.ctn[Local] /\ RevokedOf[p] = ch[p].hm.ctn[Local]
       /\ CtxsOf' = [CtxsOf EXCEPT ![p] = txs]
       /\ RevokedOf' = [RevokedOf EXCEPT ![n] = w.ctn[Local]]
  BY <1>4, <1>5, LedgerVariables, LedgerChanges
<1>13. ASSUME NEW tx, txs = SignedBy(n) \cup {tx}, IsNew(n, o.c, tx)
       PROVE  /\ ctn_latest(m, Remote) = ch[p].hm.ctn[Local]
              /\ ctn_latest(w, Remote) = ctn_latest(m, Remote) + 1
              /\ tx \in txs /\ tx \notin SignedBy(n)
              /\ Ledger!IsCtx(tx, p, ch[p].hm.ctn[Local] + 1)
  <2>1. /\ tx.owner = p /\ tx.ctn = ctn_latest(w, Remote)
        /\ ctn_latest(w, Remote) = ctn_latest(m, Remote) + 1
    BY <1>13 DEF IsNew
  <2> HIDE DEF m, w, p
  <2>2. ctn_latest(m, Remote) \in Nat /\ ctn_latest(w, Remote) \in Nat
    BY <1>6, <1>7, OwnerFacts DEF ctn_latest
  <2>3. tx \notin SignedBy(n)
    BY <1>10, <2>1, <2>2
  <2>4. ctn_latest(m, Remote) <= ch[p].hm.ctn[Local]
    <3>1. CASE w.ctn[Remote] = m.ctn[Remote]
      <4>1. ctn_latest(m, Remote) = m.ctn[Remote]
        BY <1>6, <1>7, <2>1, <3>1, OwnerFacts DEF ctn_latest
      <4> QED BY <1>10, <4>1
    <3>2. CASE w.ctn[Remote] <= ch[p].hm.ctn[Local]
      <4>1. ctn_latest(w, Remote) <= w.ctn[Remote] + 1
        BY <1>6, <1>7, OwnerFacts DEF ctn_latest
      <4> QED BY <1>6, <1>7, <2>1, <2>2, <3>2, <4>1, OwnerFacts
    <3> QED BY <1>6, <3>1, <3>2
  <2>5. ctn_latest(m, Remote) = ch[p].hm.ctn[Local]
    BY <1>7, <1>10, <2>2, <2>4
  <2>6. tx \in signed'
    <3>1. tx \in SignedBy(n)'
      BY <1>4, <1>13
    <3> QED BY <3>1 DEF SignedBy
  <2>7. FairCtx(tx)
    BY <2>6
  <2> QED BY <1>13, <2>1, <2>3, <2>5, <2>7 DEF FairCtx
<1>14. Counted(n)' /\ Counted(p)'
  <2>1. Counted(p)'
    BY <1>4, <1>5, <1>11 DEF Counted
  <2>2. CASE txs = SignedBy(n) /\ ctn_latest(w, Remote) = ctn_latest(m, Remote)
    BY <1>4, <1>5, <1>11, <2>2 DEF Counted
  <2>3. ASSUME NEW tx, txs = SignedBy(n) \cup {tx}, IsNew(n, o.c, tx) PROVE Counted(n)'
    <3>1. tx \notin SignedBy(n) /\ ctn_latest(w, Remote) = ctn_latest(m, Remote) + 1
      BY <1>13, <2>3
    <3>2. IsFiniteSet(txs) /\ Cardinality(txs) = Cardinality(SignedBy(n)) + 1
      BY <1>11, <2>3, <3>1, FS_AddElement
    <3> QED BY <1>4, <1>5, <1>11, <3>1, <3>2 DEF Counted
  <2> QED BY <1>4, <2>1, <2>2, <2>3
<1> HIDE DEF m, w, p
<1>15. Ledger!Next \/ (CtxsOf' = CtxsOf /\ RevokedOf' = RevokedOf)
  <2>1. /\ DOMAIN CtxsOf = Node /\ DOMAIN RevokedOf = Node
        /\ [CtxsOf EXCEPT ![p] = CtxsOf[p]] = CtxsOf
        /\ [RevokedOf EXCEPT ![n] = RevokedOf[n]] = RevokedOf
    <3>1. /\ CtxsOf = [q \in Node |-> CtxsOf[q]] /\ DOMAIN CtxsOf = Node
          /\ RevokedOf = [q \in Node |-> RevokedOf[q]] /\ DOMAIN RevokedOf = Node
      BY DEF CtxsOf, RevokedOf
    <3> QED BY <3>1, ExceptSame
  <2>2. w.ctn[Local] = m.ctn[Local] + 1 => m.ctn[Local] < Cardinality(CtxsOf[n])
    <3>1. ctn_latest(ch[p].hm, Remote) \in Nat
      BY <1>7 DEF ctn_latest
    <3> QED BY <1>6, <1>9, <1>11, <1>12, <3>1, OwnerFacts
  <2>3. CASE txs = SignedBy(n)
    <3>1. CtxsOf' = CtxsOf
      BY <1>12, <2>1, <2>3
    <3>2. CASE w.ctn[Local] = m.ctn[Local]
      <4>1. RevokedOf' = RevokedOf
        BY <1>12, <2>1, <3>2
      <4> QED BY <3>1, <4>1
    <3>3. CASE w.ctn[Local] = m.ctn[Local] + 1
      <4>1. Ledger!Revoke(n)
        BY <1>12, <2>2, <3>1, <3>3, LedgerActions
      <4> QED BY <4>1 DEF Ledger!Next
    <3> QED BY <1>8, <3>2, <3>3
  <2>4. ASSUME NEW tx, txs = SignedBy(n) \cup {tx}, IsNew(n, o.c, tx) PROVE Ledger!Next
    <3>1. /\ ctn_latest(m, Remote) = ch[p].hm.ctn[Local] /\ tx \in txs
          /\ Ledger!IsCtx(tx, p, RevokedOf[p] + 1)
      BY <1>12, <1>13, <2>4
    <3>2. /\ Cardinality(CtxsOf[p]) = RevokedOf[p]
          /\ CtxsOf' = [CtxsOf EXCEPT ![p] = @ \cup {tx}] /\ tx \in CtxsOf'[p]
      BY <1>1, <1>11, <1>12, <2>1, <2>4, <3>1
    <3>3. CASE w.ctn[Local] = m.ctn[Local]
      <4>1. RevokedOf' = RevokedOf
        BY <1>12, <2>1, <3>3
      <4>2. Ledger!Sign(p)
        BY <3>1, <3>2, <4>1, LedgerActions
      <4> QED BY <1>1, <4>2 DEF Ledger!Next
    <3>4. CASE w.ctn[Local] = m.ctn[Local] + 1
      <4>1. RevokedOf' = [RevokedOf EXCEPT ![n] = @ + 1] /\ RevokedOf[n] < Cardinality(CtxsOf[n])
        BY <1>12, <2>1, <2>2, <3>4
      <4>2. Ledger!RevokeAndSign(n, p)
        BY <3>1, <3>2, <4>1, LedgerActions
      <4> QED BY <1>1, <4>2 DEF Ledger!Next
    <3> QED BY <1>8, <3>3, <3>4
  <2> QED BY <1>4, <2>3, <2>4
<1> QED BY <1>1, <1>14, <1>15

(* Nothing else is told by connections, crashes and files. *)
LEMMA EnvironmentRefines ==
    ASSUME ForwardInv, \A q \in Node : Counted(q),
           \/ Connect \/ Disconnect
           \/ \E n \in Node : Crash(n) \/ SaveDb(n) \/ Backup(n) \/ Restore(n)
    PROVE  (\A q \in Node : Counted(q)') /\ CtxsOf' = CtxsOf /\ RevokedOf' = RevokedOf
<1>1. DanceInv /\ \A n \in Node : ~Restore(n)
  BY DEF ForwardInv, Forward, Restore
<1>2. signed' = signed /\ \A q \in Node : ch'[q].hm.ctn = ch[q].hm.ctn /\ ch'[q].hm.revack = ch[q].hm.revack
  BY <1>1, EnvironmentLogs
<1>3. CtxsOf' = CtxsOf
  BY <1>2 DEF CtxsOf
<1>4. RevokedOf' = RevokedOf
  BY <1>2 DEF RevokedOf
<1>5. ASSUME NEW q \in Node PROVE Counted(q)'
  <2>1. SignedBy(q)' = SignedBy(q) /\ ctn_latest(ch'[q].hm, Remote) = ctn_latest(ch[q].hm, Remote)
    BY <1>2 DEF SignedBy, ctn_latest
  <2> QED BY <2>1 DEF Counted
<1> QED BY <1>3, <1>4, <1>5

CountInv == ForwardInv /\ LedgerInv /\ \A q \in Node : Counted(q)

LEMMA CountStep ==
    CountInv /\ [Next]_vars =>
        CountInv' /\ (Ledger!Next \/ (CtxsOf' = CtxsOf /\ RevokedOf' = RevokedOf))
<1> SUFFICES ASSUME CountInv, [Next]_vars
             PROVE  CountInv' /\ (Ledger!Next \/ (CtxsOf' = CtxsOf /\ RevokedOf' = RevokedOf))
  OBVIOUS
<1>1. ForwardInv /\ DanceInv /\ ForwardInv' /\ LedgerInv'
  BY ForwardStep, LedgerStep DEF CountInv, ForwardInv, LedgersInv
<1>2. CASE Next
  <2>1. CASE \E n \in Node : Acts(n)
    <3>1. \A tx \in signed' : FairCtx(tx)
      BY <1>1 DEF LedgerInv
    <3> QED BY <1>1, <2>1, <3>1, ActsRefine DEF CountInv
  <2>2. CASE \/ Connect \/ Disconnect
             \/ \E n \in Node : Crash(n) \/ SaveDb(n) \/ Backup(n) \/ Restore(n)
    BY <1>1, <2>2, EnvironmentRefines DEF CountInv
  <2> QED BY <1>1, <1>2, <2>1, <2>2, NextIs
<1>3. CASE UNCHANGED vars
  <2>1. UNCHANGED <<ch, net, connected, disk, backup, left, signed, alarms>>
    BY <1>3 DEF vars
  <2>2. CtxsOf' = CtxsOf /\ RevokedOf' = RevokedOf /\ \A q \in Node : Counted(q)'
    BY <2>1 DEF CtxsOf, RevokedOf, CountInv, Counted, SignedBy
  <2> QED BY <1>1, <2>2 DEF CountInv
<1> QED BY <1>2, <1>3

LEMMA CountStarts == ASSUME MaxRestores = 0, Init PROVE CountInv /\ Ledger!Init
<1>1. ForwardInv /\ LedgerInv /\ signed = {}
  BY ForwardStarts, InitLedger DEF Init
<1>2. \A q \in Node : /\ ch[q].hm.ctn[Local] = 0 /\ ch[q].hm.ctn[Remote] = 0
                      /\ ch[q].hm.revack[Remote] = FALSE
  BY OwnerFacts DEF Init, NewLog
<1>3. ASSUME NEW q \in Node PROVE Counted(q)
  <2>1. SignedBy(q) = {}
    BY <1>1 DEF SignedBy
  <2>2. ctn_latest(ch[q].hm, Remote) = 0
    BY <1>2 DEF ctn_latest
  <2> QED BY <2>1, <2>2, FS_EmptySet DEF Counted
<1>4. Ledger!Init
  BY <1>1, <1>2 DEF Ledger!Init
<1> QED BY <1>1, <1>3, <1>4 DEF CountInv

(* The channel implements CommitmentLedger: whatever connections and programs do, each    *)
(* node is given one ctx per ctn, without gaps, the next one only when all but the last   *)
(* are revoked, and each of them is fair (sign_next_commitment, receive_revocation).  An  *)
(* old copy of a wallet file would undo it.                                               *)
THEOREM ChannelIsLedger == ASSUME MaxRestores = 0 PROVE Spec => LedgerSpec
<1>1. Init => CountInv /\ Ledger!Init
  BY CountStarts
<1>2. CountInv /\ [Next]_vars => CountInv' /\ [Ledger!Next]_(Ledger!vars)
  <2>1. CtxsOf' = CtxsOf /\ RevokedOf' = RevokedOf => UNCHANGED Ledger!vars
    BY DEF Ledger!vars, CtxsOf, RevokedOf
  <2> QED BY <2>1, CountStep
<1> QED BY <1>1, <1>2, PTL DEF Spec, LedgerSpec, Ledger!Spec

=============================================================================
