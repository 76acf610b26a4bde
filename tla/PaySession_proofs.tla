-------------------------- MODULE PaySession_proofs --------------------------
(***************************************************************************)
(* An htlc that resolves finds its session, and without trampoline a       *)
(* session that is over is deleted with its last htlc; what a session      *)
(* believes to be in flight is so, an invoice is paid at most once, and    *)
(* one that is paid stays so, for every amount, way to split it, and       *)
(* number of calls and restarts.                                           *)
(*                                                                         *)
(* SessionIsKept is not inductive: IInv adds that _nhtlcs_inflight counts  *)
(* the open htlcs and those in the queue, exactly so without buckets, and  *)
(* that no session that can be deleted is left behind by the last step.    *)
(***************************************************************************)
EXTENDS PaySession, FiniteSums, FiniteSetTheorems, TLAPS

Htlc == [amount : Int, state : States, bucket : Int, whole : BOOLEAN]
Log == [success : BOOLEAN, amount : Int]

IsSession(s) ==
    /\ s \in [active : BOOLEAN, amount : Int, n : Int, queue : Seq(Log), buckets : {s.buckets}]
    /\ \A b \in DOMAIN s.buckets : s.buckets[b] \in [sent : Int, failed : Int]

TypeOK ==
    /\ mode \in AllModes
    /\ htlcs \in Seq(Htlc)
    /\ routes \in Seq(Htlc)
    /\ mine \subseteq Ids /\ IsFiniteSet(mine)
    /\ session # NoSession => IsSession(session)

\* The session s counts the open htlcs H
Counts(s, H) ==
    /\ s.n >= Cardinality(H) + Len(s.queue)
    /\ mode = "gossip" => s.n = Cardinality(H) + Len(s.queue) /\ DOMAIN s.buckets = {}

SessionCounts == session # NoSession => Counts(session, mine)
NoneIsLeft == session # NoSession => ~can_be_deleted(session)
NoneIsMissed == session = NoSession => mine = {}
PayingHasSession == pc # "idle" => session # NoSession /\ session.active
SendingHasRoutes == pc = "sending" => routes # <<>>

IInv ==
    /\ TypeOK
    /\ SessionCounts
    /\ NoneIsLeft
    /\ NoneIsMissed
    /\ PayingHasSession
    /\ SendingHasRoutes

\* What the parts of IInv about the session say of a session s and open htlcs H
Kempt(s, H) ==
    /\ s # NoSession => IsSession(s) /\ Counts(s, H) /\ ~can_be_deleted(s)
    /\ s = NoSession => H = {}

-----------------------------------------------------------------------------
LEMMA SessionIsSome == \A s : IsSession(s) => s # NoSession
<1> TAKE s
<1>1. IsSession(s) => "active" \in DOMAIN s
  BY DEF IsSession
<1>2. "active" \notin DOMAIN NoSession
  BY DEF NoSession
<1> QED
  BY <1>1, <1>2

\* A session that is deleted has no open htlcs
LEMMA KeptIsKempt ==
    ASSUME NEW s, IsSession(s), NEW H, IsFiniteSet(H), Counts(s, H)
    PROVE  Kempt(Kept(s), H)
<1>1. Cardinality(H) \in Nat /\ (Cardinality(H) = 0 <=> H = {})
  BY FS_CardinalityType, FS_EmptySet
<1>2. Len(s.queue) \in Nat /\ s.n \in Int
  BY DEF IsSession
<1>3. CASE can_be_deleted(s)
  <2>1. Cardinality(H) = 0
    BY <1>1, <1>2, <1>3 DEF can_be_deleted, Counts
  <2> QED
    BY <2>1, <1>1, <1>3 DEF Kept, Kempt
<1>4. CASE ~can_be_deleted(s)
  BY <1>4, SessionIsSome DEF Kept, Kempt
<1> QED
  BY <1>3, <1>4

\* Without its active flag a session counts the same
LEMMA Inactive ==
    ASSUME NEW s, IsSession(s), NEW H, Counts(s, H)
    PROVE  LET t == [s EXCEPT !.active = FALSE] IN IsSession(t) /\ Counts(t, H)
  BY DEF IsSession, Counts

\* A session that puts a log into the queue for an htlc that resolved
LEMMA PutCounts ==
    ASSUME NEW s, IsSession(s), NEW H, IsFiniteSet(H), NEW h \in H, Counts(s, H),
           NEW success \in BOOLEAN, NEW amount \in Int
    PROVE  LET t == Put(s, success, amount)
           IN  /\ IsSession(t) /\ Counts(t, H \ {h}) /\ t.queue # s.queue
               /\ t.active = s.active /\ t.n = s.n
<1> DEFINE log == [success |-> success, amount |-> amount]
           t == Put(s, success, amount)
<1>1. s.queue \in Seq(Log) /\ log \in Log
  BY DEF IsSession, Log
<1>2. Append(s.queue, log) \in Seq(Log) /\ Len(Append(s.queue, log)) = Len(s.queue) + 1
  BY <1>1
<1>3. t = [s EXCEPT !.queue = Append(s.queue, log)]
  BY DEF Put
<1>4. /\ IsSession(t) /\ t.n = s.n /\ t.buckets = s.buckets
      /\ t.queue = Append(s.queue, log) /\ t.active = s.active
  BY <1>2, <1>3 DEF IsSession
<1>5. Cardinality(H \ {h}) = Cardinality(H) - 1 /\ Cardinality(H) \in Nat
  BY FS_RemoveElement, FS_CardinalityType
<1>6. Counts(t, H \ {h})
  BY <1>1, <1>2, <1>4, <1>5 DEF Counts, IsSession
<1>7. t.queue # s.queue
  BY <1>1, <1>2, <1>4
<1> QED
  BY <1>4, <1>6, <1>7

\* A failed htlc of a bucket is counted there, and may leave no log
LEMMA FailCounts ==
    ASSUME NEW s, IsSession(s), NEW H, IsFiniteSet(H), NEW h \in H, Counts(s, H),
           NEW htlc \in Htlc
    PROVE  LET t == on_htlc_fail(s, htlc)
           IN  /\ IsSession(t) /\ Counts(t, H \ {h})
               /\ t.active = s.active /\ t.n = s.n
<1> DEFINE b == htlc.bucket
           c == [s EXCEPT !.buckets[b].failed = @ + htlc.amount]
           t == on_htlc_fail(s, htlc)
<1>1. htlc.amount \in Int
  BY DEF Htlc
<1>2. CASE b \notin DOMAIN s.buckets
  BY <1>1, <1>2, PutCounts DEF on_htlc_fail
<1>3. CASE b \in DOMAIN s.buckets
  <2>1. s.buckets[b] \in [sent : Int, failed : Int]
    BY <1>3 DEF IsSession
  <2>2. c.queue = s.queue /\ c.n = s.n /\ c.active = s.active /\ DOMAIN c.buckets = DOMAIN s.buckets
    BY DEF IsSession
  <2>3. IsSession(c)
    <3> DEFINE d == [s.buckets[b] EXCEPT !.failed = @ + htlc.amount]
               B == [s.buckets EXCEPT ![b] = d]
    <3>1. d \in [sent : Int, failed : Int]
      BY <1>1, <2>1
    <3>2. c = [s EXCEPT !.buckets = B]
      OBVIOUS
    <3>3. \A x \in DOMAIN B : B[x] \in [sent : Int, failed : Int]
      BY <3>1 DEF IsSession
    <3> HIDE DEF B, c
    <3>4. c.buckets = B /\ c \in [active : BOOLEAN, amount : Int, n : Int, queue : Seq(Log), buckets : {B}]
      BY <3>2 DEF IsSession
    <3> QED
      BY <3>3, <3>4 DEF IsSession
  <2>4. Counts(c, H)
    BY <2>2 DEF Counts
  <2>5. mode # "gossip"
    BY <1>3 DEF Counts
  <2>6. CASE c.buckets[b].failed # s.buckets[b].sent
    <3>1. t = c
      BY <1>3, <2>6 DEF on_htlc_fail
    <3>2. Cardinality(H) \in Nat /\ Cardinality(H \ {h}) = Cardinality(H) - 1
      BY FS_RemoveElement, FS_CardinalityType
    <3>3. Counts(c, H \ {h})
      BY <2>3, <2>4, <2>5, <3>2 DEF Counts, IsSession
    <3> QED
      BY <2>2, <2>3, <3>1, <3>3
  <2>7. CASE c.buckets[b].failed = s.buckets[b].sent
    <3>1. t = Put(c, FALSE, s.buckets[b].sent)
      BY <1>3, <2>7 DEF on_htlc_fail
    <3>2. s.buckets[b].sent \in Int
      BY <2>1
    <3> HIDE DEF c
    <3>3. LET p == Put(c, FALSE, s.buckets[b].sent)
          IN  IsSession(p) /\ Counts(p, H \ {h}) /\ p.active = c.active /\ p.n = c.n
      BY <2>3, <2>4, <3>2, PutCounts
    <3> QED
      BY <2>2, <3>1, <3>3
  <2> QED
    BY <2>6, <2>7
<1> QED
  BY <1>2, <1>3

\* An htlc that is sent is counted
LEMMA AddCounts ==
    ASSUME NEW s, IsSession(s), NEW H, IsFiniteSet(H), NEW h, h \notin H, Counts(s, H),
           NEW htlc \in Htlc
    PROVE  LET t == add_new_htlc(s, htlc)
           IN  IsSession(t) /\ Counts(t, H \union {h}) /\ t.active = s.active
<1> DEFINE b == htlc.bucket
           added == [bucket_of(s, b) EXCEPT !.sent = @ + htlc.amount]
           B == IF mode = "gossip" \/ htlc.whole THEN s.buckets
                ELSE [x \in DOMAIN s.buckets \union {b} |-> IF x = b THEN added ELSE s.buckets[x]]
           t == add_new_htlc(s, htlc)
<1>1. htlc.amount \in Int /\ s.amount \in Int /\ s.n \in Int /\ s.queue \in Seq(Log) /\ s.active \in BOOLEAN
  BY DEF Htlc, IsSession
<1>2. bucket_of(s, b) \in [sent : Int, failed : Int]
  BY DEF bucket_of, IsSession
<1>3. added \in [sent : Int, failed : Int]
  BY <1>1, <1>2
<1>4. \A x \in DOMAIN B : B[x] \in [sent : Int, failed : Int]
  BY <1>3 DEF IsSession
<1>5. mode = "gossip" => B = s.buckets
  OBVIOUS
<1>6. t = [s EXCEPT !.n = s.n + 1, !.amount = s.amount + htlc.amount, !.buckets = B]
  BY DEF add_new_htlc
<1> HIDE DEF B, t
<1>7. s = [active |-> s.active, amount |-> s.amount, n |-> s.n, queue |-> s.queue, buckets |-> s.buckets]
  BY DEF IsSession
<1>8. t = [active |-> s.active, amount |-> s.amount + htlc.amount, n |-> s.n + 1, queue |-> s.queue, buckets |-> B]
  BY <1>6, <1>7
<1>9. IsSession(t)
  BY <1>1, <1>4, <1>8 DEF IsSession
<1>10. Cardinality(H \union {h}) = Cardinality(H) + 1 /\ Cardinality(H) \in Nat
  BY FS_AddElement, FS_CardinalityType
<1>11. Counts(t, H \union {h})
  <2>1. t.n = s.n + 1 /\ t.queue = s.queue /\ t.buckets = B
    BY <1>8
  <2>2. Len(s.queue) \in Nat
    BY <1>1
  <2>3. t.n >= Cardinality(H \union {h}) + Len(t.queue)
    BY <1>1, <1>10, <2>1, <2>2 DEF Counts
  <2>4. ASSUME mode = "gossip" PROVE t.n = Cardinality(H \union {h}) + Len(t.queue)
    <3>1. s.n = Cardinality(H) + Len(s.queue)
      BY <2>4 DEF Counts
    <3> QED
      BY <3>1, <1>1, <1>10, <2>1, <2>2
  <2>5. mode = "gossip" => DOMAIN t.buckets = {}
    BY <1>5, <2>1 DEF Counts
  <2> QED
    BY <2>3, <2>4, <2>5 DEF Counts
<1>12. t.active = s.active
  BY <1>8
<1> QED
  BY <1>9, <1>11, <1>12 DEF t

\* A log that is taken from the queue
LEMMA WaitCounts ==
    ASSUME NEW s, IsSession(s), NEW H, IsFiniteSet(H), Counts(s, H), s.queue # <<>>
    PROVE  LET t == wait_for_one_htlc_to_resolve(s)
           IN  IsSession(t) /\ Counts(t, H) /\ t.active = s.active
<1> DEFINE t == wait_for_one_htlc_to_resolve(s)
<1>1. s.queue \in Seq(Log) /\ Head(s.queue) \in Log
  BY DEF IsSession
<1>2. Tail(s.queue) \in Seq(Log) /\ Len(Tail(s.queue)) = Len(s.queue) - 1 /\ Len(s.queue) \in Nat
  BY <1>1
<1>3. Head(s.queue).amount \in Int
  BY <1>1 DEF Log
<1>4. s = [active |-> s.active, amount |-> s.amount, n |-> s.n, queue |-> s.queue, buckets |-> s.buckets]
      /\ s.amount \in Int /\ s.n \in Int /\ s.active \in BOOLEAN
  BY DEF IsSession
<1>5. t = [s EXCEPT !.queue = Tail(s.queue), !.amount = s.amount - Head(s.queue).amount, !.n = s.n - 1]
  BY DEF wait_for_one_htlc_to_resolve
<1> HIDE DEF t
<1>6. t = [active |-> s.active, amount |-> s.amount - Head(s.queue).amount, n |-> s.n - 1,
           queue |-> Tail(s.queue), buckets |-> s.buckets]
  BY <1>4, <1>5
<1>7. IsSession(t)
  BY <1>2, <1>3, <1>4, <1>6 DEF IsSession
<1>8. Counts(t, H) /\ t.active = s.active
  <2>1. t.n = s.n - 1 /\ t.queue = Tail(s.queue) /\ t.buckets = s.buckets /\ t.active = s.active
    BY <1>6
  <2>2. Cardinality(H) \in Nat
    BY FS_CardinalityType
  <2> QED
    BY <1>2, <1>4, <2>1, <2>2 DEF Counts
<1> QED
  BY <1>7, <1>8 DEF t

-----------------------------------------------------------------------------
\* What the steps of IInv need of the session and the open htlcs
LEMMA Unfold ==
    ASSUME IInv, session # NoSession
    PROVE  IsSession(session) /\ Counts(session, mine) /\ ~can_be_deleted(session)
  BY DEF IInv, TypeOK, SessionCounts, NoneIsLeft

\* IInv of the next state, from its parts
LEMMA Fold ==
    ASSUME mode' \in AllModes, htlcs' \in Seq(Htlc), routes' \in Seq(Htlc),
           mine' \subseteq Ids', IsFiniteSet(mine'), mode' = mode, Kempt(session', mine'),
           pc' # "idle" => session' # NoSession /\ session'.active,
           pc' = "sending" => routes' # <<>>
    PROVE  IInv'
  BY DEF IInv, TypeOK, SessionCounts, NoneIsLeft, NoneIsMissed, PayingHasSession, SendingHasRoutes,
         Kempt, Counts, can_be_deleted

LEMMA InitOK == Init => IInv
<1> SUFFICES ASSUME Init PROVE IInv
  OBVIOUS
<1>1. mine = {} /\ IsFiniteSet(mine) /\ session = NoSession /\ pc = "idle"
  BY FS_EmptySet DEF Init
<1>2. TypeOK
  BY <1>1, ModesAssumption DEF Init, TypeOK
<1> QED
  BY <1>1, <1>2 DEF IInv, SessionCounts, NoneIsLeft, NoneIsMissed, PayingHasSession, SendingHasRoutes

\* pay_to_node ends with a session that counts its htlcs
LEMMA EndsPreserves ==
    ASSUME NEW s, NEW success, Ends(s, success), IsSession(s), Counts(s, mine'), mode' = mode,
           mode \in AllModes, htlcs' \in Seq(Htlc), mine' \subseteq Ids', IsFiniteSet(mine')
    PROVE  IInv'
<1> DEFINE t == [s EXCEPT !.active = FALSE]
<1>1. IsSession(t) /\ Counts(t, mine')
  BY Inactive
<1> HIDE DEF t
<1>2. Kempt(Kept(t), mine')
  BY <1>1, KeptIsKempt
<1>3. session' = Kept(t) /\ pc' = "idle" /\ routes' = <<>>
  BY DEF Ends, t
<1> QED
  BY <1>2, <1>3, Fold

\* pay_to_node goes on with an active session that counts its htlcs
LEMMA ContinuesPreserves ==
    ASSUME NEW s, NEW where, Continues(s, where), where # "sending",
           IsSession(s), s.active, Counts(s, mine), IInv, mode' = mode,
           UNCHANGED <<htlcs, mine>>
    PROVE  IInv'
<1>1. Kempt(s, mine)
  BY SessionIsSome DEF Kempt, can_be_deleted
<1>2. session' = s /\ pc' = where /\ routes' = routes
  BY DEF Continues
<1> QED
  BY <1>1, <1>2, Fold, SessionIsSome DEF IInv, TypeOK, Ids

\* A step that leaves the sessions alone, and all htlcs but for their states
LEMMA OthersPreserve ==
    ASSUME IInv, UNCHANGED <<mode, mine, session, pc, routes>>,
           htlcs' \in Seq(Htlc), DOMAIN htlcs' = DOMAIN htlcs
    PROVE  IInv'
  BY DEF IInv, TypeOK, SessionCounts, NoneIsLeft, NoneIsMissed, PayingHasSession, SendingHasRoutes,
         Counts, can_be_deleted, Ids

\* What an htlc becomes
LEMMA BecomesOK ==
    ASSUME IInv, NEW h \in Ids, NEW state \in States, Becomes(h, state)
    PROVE  htlcs' \in Seq(Htlc) /\ DOMAIN htlcs' = DOMAIN htlcs
<1>1. htlcs \in Seq(Htlc) /\ h \in DOMAIN htlcs
  BY DEF IInv, TypeOK, Ids
<1>2. htlcs[h] \in Htlc
  BY <1>1
<1>3. [htlcs[h] EXCEPT !.state = state] \in Htlc
  BY <1>2 DEF Htlc
<1>4. htlcs' = [htlcs EXCEPT ![h] = [htlcs[h] EXCEPT !.state = state]]
  BY DEF Becomes
<1> QED
  BY <1>1, <1>3, <1>4

-----------------------------------------------------------------------------
(* One lemma per action *)

LEMMA PayInvoicePreserves == IInv /\ PayInvoice => IInv'
<1> SUFFICES ASSUME IInv, PayInvoice PROVE IInv'
  OBVIOUS
<1>1. mine' = {} /\ mine = {} /\ session' = NewSession /\ pc' = "loop"
  BY DEF PayInvoice, IInv, NoneIsMissed
<1>2. IsSession(NewSession) /\ NewSession.active
  BY DEF IsSession, NewSession
<1>3. Cardinality({}) = 0 /\ IsFiniteSet({})
  BY FS_EmptySet
<1>4. Counts(NewSession, {})
  BY <1>3 DEF Counts, NewSession
<1>5. Kempt(NewSession, {})
  BY <1>2, <1>4, SessionIsSome DEF Kempt, can_be_deleted
<1>6. UNCHANGED <<mode, htlcs, routes>>
  BY DEF PayInvoice
<1> QED
  BY <1>1, <1>2, <1>3, <1>5, <1>6, Fold, SessionIsSome DEF IInv, TypeOK

LEMMA CreateRoutesPreserves == IInv /\ CreateRoutes => IInv'
<1> SUFFICES ASSUME IInv, CreateRoutes PROVE IInv'
  OBVIOUS
<1> DEFINE outstanding == get_outstanding_amount_to_send(session)
<1>1. session # NoSession /\ session.active
  BY DEF CreateRoutes, IInv, PayingHasSession
<1>2. IsSession(session) /\ Counts(session, mine) /\ ~can_be_deleted(session)
  BY <1>1, Unfold
<1>3. outstanding \in Int
  BY <1>2, AmountsAssumption DEF IsSession, get_outstanding_amount_to_send
<1>4. PICK parts \in Splits(outstanding) :
         \E first \in Groupings(parts) : routes' = [i \in DOMAIN parts |-> Route(parts, first, i)]
  BY DEF CreateRoutes
<1>5. PICK first \in Groupings(parts) : routes' = [i \in DOMAIN parts |-> Route(parts, first, i)]
  BY <1>4
<1>6. PICK k \in 1 .. MaxParts : parts \in [1 .. k -> 1 .. outstanding]
  BY DEF Splits
<1>7. k \in Nat \ {0} /\ DOMAIN parts = 1 .. k
  BY <1>6, AmountsAssumption
<1>8. ASSUME NEW i \in 1 .. k PROVE Route(parts, first, i) \in Htlc
  <2>1. parts[i] \in Int
    BY <1>3, <1>6
  <2>2. first[i] \in Int
    BY <1>7, <1>5 DEF Groupings
  <2>3. Len(htlcs) + first[i] \in Int
    BY <2>2 DEF IInv, TypeOK
  <2> QED
    BY <2>1, <2>3 DEF Route, Htlc, States
<1>9. routes' \in Seq(Htlc) /\ routes' # <<>>
  <2>1. routes' = [i \in 1 .. k |-> Route(parts, first, i)]
    BY <1>7, <1>5
  <2>2. routes' \in Seq(Htlc)
    BY <1>7, <1>8, <2>1
  <2>3. DOMAIN routes' = 1 .. k /\ 1 \in 1 .. k
    BY <1>7, <2>1
  <2> QED
    BY <2>2, <2>3
<1>10. pc' = "sending" /\ UNCHANGED <<mode, htlcs, mine, session>>
  BY DEF CreateRoutes
<1> QED
  BY <1>1, <1>2, <1>9, <1>10, Fold DEF IInv, TypeOK, Kempt, Ids

LEMMA GivesUpPreserves == IInv /\ (NoRoutes \/ CannotSend) => IInv'
<1> SUFFICES ASSUME IInv, NoRoutes \/ CannotSend PROVE IInv'
  OBVIOUS
<1>1. /\ pc # "idle" /\ Ends(session, FALSE)
      /\ UNCHANGED <<mode, htlcs, mine>>
  BY DEF NoRoutes, CannotSend
<1>2. IsSession(session) /\ Counts(session, mine)
  BY <1>1, Unfold DEF IInv, PayingHasSession
<1> QED
  BY <1>1, <1>2, EndsPreserves DEF IInv, TypeOK, Ids

LEMMA PayToRoutePreserves == IInv /\ PayToRoute => IInv'
<1> SUFFICES ASSUME IInv, PayToRoute PROVE IInv'
  OBVIOUS
<1> DEFINE id == Len(htlcs) + 1
           s == add_new_htlc(session, Head(routes))
<1>1. pc = "sending" /\ session # NoSession /\ session.active /\ routes # <<>>
  BY DEF PayToRoute, IInv, PayingHasSession, SendingHasRoutes
<1>2. IsSession(session) /\ Counts(session, mine)
  BY <1>1, Unfold
<1>3. routes \in Seq(Htlc) /\ htlcs \in Seq(Htlc) /\ mine \subseteq DOMAIN htlcs /\ IsFiniteSet(mine)
      /\ mode \in AllModes
  BY DEF IInv, TypeOK, Ids
<1>4. Head(routes) \in Htlc /\ Tail(routes) \in Seq(Htlc) /\ Len(Tail(routes)) = Len(routes) - 1
  BY <1>1, <1>3
<1>5. htlcs' = Append(htlcs, Head(routes)) /\ mine' = mine \union {id} /\ mode' = mode
  BY DEF PayToRoute
<1>6. htlcs' \in Seq(Htlc) /\ DOMAIN htlcs' = DOMAIN htlcs \union {id} /\ id \notin DOMAIN htlcs
  BY <1>3, <1>4, <1>5
<1>7. mine' \subseteq Ids' /\ IsFiniteSet(mine') /\ id \notin mine
  BY <1>3, <1>5, <1>6, FS_AddElement DEF Ids
<1>8. IsSession(s) /\ Counts(s, mine') /\ s.active
  BY <1>1, <1>2, <1>3, <1>4, <1>5, <1>7, AddCounts
<1> HIDE DEF s
<1>9. CASE Ends(s, FALSE)
  BY <1>3, <1>5, <1>6, <1>7, <1>8, <1>9, EndsPreserves
<1>10. CASE ~Ends(s, FALSE)
  <2>1. /\ session' = s /\ routes' = Tail(routes)
        /\ pc' = IF Len(routes) = 1 THEN "waiting" ELSE "sending"
    BY <1>10 DEF PayToRoute, s
  <2>2. ASSUME pc' = "sending" PROVE routes' # <<>>
    <3>1. Len(routes) # 1 /\ Len(routes) # 0 /\ Len(routes) \in Nat
      BY <1>1, <1>3, <2>1, <2>2
    <3>2. Len(Tail(routes)) # 0
      BY <1>4, <3>1
    <3>3. Len(<<>>) = 0
      OBVIOUS
    <3>4. Tail(routes) # <<>>
      BY <3>2, <3>3
    <3> QED
      BY <2>1, <3>4
  <2>3. Kempt(session', mine')
    BY <1>8, <2>1, SessionIsSome DEF Kempt, can_be_deleted
  <2> QED
    BY <1>3, <1>4, <1>5, <1>6, <1>7, <1>8, <2>1, <2>2, <2>3, Fold, SessionIsSome
<1> QED
  BY <1>9, <1>10

LEMMA HtlcResolvedPreserves == IInv /\ HtlcResolved => IInv'
<1> SUFFICES ASSUME IInv, HtlcResolved PROVE IInv'
  OBVIOUS
<1> DEFINE s == wait_for_one_htlc_to_resolve(session)
           z == [s EXCEPT !.amount = 0]
<1>1. session # NoSession /\ session.active /\ session.queue # <<>>
  BY DEF HtlcResolved, IInv, PayingHasSession
<1>2. IsSession(session) /\ Counts(session, mine) /\ IsFiniteSet(mine)
  BY <1>1, Unfold DEF IInv, TypeOK
<1>3. IsSession(s) /\ Counts(s, mine) /\ s.active
  BY <1>1, <1>2, WaitCounts
<1> HIDE DEF s
<1>4. IsSession(z) /\ Counts(z, mine)
  BY <1>3 DEF IsSession, Counts
<1> HIDE DEF z
<1>5. UNCHANGED <<mode, htlcs, mine>>
  BY DEF HtlcResolved
<1>6. \/ Ends(z, FALSE) \/ Ends(s, TRUE) \/ Ends(s, FALSE)
      \/ Continues(s, "loop") \/ Continues(s, "draining")
  BY DEF HtlcResolved, TriesAgain, s, z
<1>7. mode \in AllModes /\ htlcs' \in Seq(Htlc) /\ mine' \subseteq Ids' /\ IsFiniteSet(mine')
  BY <1>5 DEF IInv, TypeOK, Ids
<1> QED
  BY <1>3, <1>4, <1>5, <1>6, <1>7, EndsPreserves, ContinuesPreserves

LEMMA NoMoreResolvedPreserves == IInv /\ NoMoreResolved => IInv'
<1> SUFFICES ASSUME IInv, NoMoreResolved PROVE IInv'
  OBVIOUS
<1>1. session # NoSession /\ session.active
  BY DEF NoMoreResolved, IInv, PayingHasSession
<1>2. IsSession(session) /\ Counts(session, mine)
  BY <1>1, Unfold
<1>3. (Continues(session, "loop") \/ Ends(session, FALSE)) /\ UNCHANGED <<mode, htlcs, mine>>
  BY DEF NoMoreResolved, TriesAgain
<1>4. mode \in AllModes /\ htlcs' \in Seq(Htlc) /\ mine' \subseteq Ids' /\ IsFiniteSet(mine')
  BY <1>3 DEF IInv, TypeOK, Ids
<1> QED
  BY <1>1, <1>2, <1>3, <1>4, EndsPreserves, ContinuesPreserves

LEMMA DecidePreserves == IInv /\ Decide => IInv'
<1> SUFFICES ASSUME IInv, Decide PROVE IInv'
  OBVIOUS
<1>1. htlcs \in Seq(Htlc)
  BY DEF IInv, TypeOK
<1>2. ASSUME NEW S, Take(S) PROVE htlcs' \in Seq(Htlc) /\ DOMAIN htlcs' = DOMAIN htlcs
  <2>1. \A h \in Ids : htlcs[h] \in Htlc
    BY <1>1 DEF Ids
  <2>2. \A h \in Ids : (IF h \in S THEN [htlcs[h] EXCEPT !.state = "taken"] ELSE htlcs[h]) \in Htlc
    BY <2>1 DEF Htlc, States
  <2>3. htlcs' = [h \in 1 .. Len(htlcs) |-> IF h \in S THEN [htlcs[h] EXCEPT !.state = "taken"] ELSE htlcs[h]]
    BY <1>1, <1>2 DEF Take, Ids
  <2>4. Len(htlcs) \in Nat /\ DOMAIN htlcs = 1 .. Len(htlcs)
    BY <1>1
  <2> QED
    BY <2>2, <2>3, <2>4 DEF Ids
<1>3. CASE \E S \in SUBSET InState({"sent"}) : Take(S)
  BY <1>2, <1>3, OthersPreserve DEF Take
<1>4. CASE \E h \in Ids : Refuse(h)
  BY <1>4, BecomesOK, OthersPreserve DEF Refuse, States
<1> QED
  BY <1>3, <1>4 DEF Decide

LEMMA HeardPreserves == ASSUME IInv, NEW h \in Ids, Heard(h) PROVE IInv'
<1>1. CASE receive_htlc_settle(h)
  BY <1>1, BecomesOK, OthersPreserve DEF receive_htlc_settle, States
<1>2. CASE receive_fail_htlc(h)
  BY <1>2, BecomesOK, OthersPreserve DEF receive_fail_htlc, States
<1>3. CASE HtlcFulfilled(h) \/ HtlcFailed(h)
  <2>1. htlcs' \in Seq(Htlc) /\ DOMAIN htlcs' = DOMAIN htlcs
    BY <1>3, BecomesOK DEF HtlcFulfilled, HtlcFailed, States
  <2>2. UNCHANGED <<mode, pc, routes>>
    BY <1>3 DEF HtlcFulfilled, HtlcFailed
  <2>3. CASE h \notin mine
    <3>1. UNCHANGED <<session, mine>>
      BY <1>3, <2>3 DEF HtlcFulfilled, HtlcFailed, fulfilled_of_none, failed_of_none
    <3> QED
      BY <2>1, <2>2, <3>1, OthersPreserve
  <2>4. CASE h \in mine
    <3>1. session # NoSession
      BY <2>4 DEF IInv, NoneIsMissed
    <3>2. IsSession(session) /\ Counts(session, mine) /\ ~can_be_deleted(session)
      BY <3>1, Unfold
    <3>3. IsFiniteSet(mine) /\ IsFiniteSet(mine \ {h}) /\ mine \ {h} \subseteq Ids'
      BY <2>1, FS_RemoveElement DEF IInv, TypeOK, Ids
    <3>4. htlcs[h] \in Htlc /\ htlcs[h].amount \in Int
      <4>1. htlcs \in Seq(Htlc) /\ h \in DOMAIN htlcs
        BY DEF IInv, TypeOK, Ids
      <4>2. htlcs[h] \in Htlc
        BY <4>1
      <4> QED
        BY <4>2 DEF Htlc
    <3>5. mine' = mine \ {h}
      BY <1>3, <2>4 DEF HtlcFulfilled, HtlcFailed, fulfilled_of_session, failed_of_session
    <3>6. Kempt(session', mine') /\ (session' # NoSession => session'.active = session.active)
      <4>1. CASE HtlcFulfilled(h)
        <5> DEFINE t == Put(session, TRUE, htlcs[h].amount)
        <5>1. IsSession(t) /\ Counts(t, mine \ {h}) /\ t.active = session.active
          BY <2>4, <3>2, <3>3, <3>4, PutCounts
        <5>2. session' = Kept(t)
          BY <2>4, <4>1 DEF HtlcFulfilled, fulfilled_of_session
        <5> HIDE DEF t
        <5> QED
          BY <3>3, <3>5, <5>1, <5>2, KeptIsKempt DEF Kept
      <4>2. CASE HtlcFailed(h)
        <5> DEFINE t == on_htlc_fail(session, htlcs[h])
        <5>1. IsSession(t) /\ Counts(t, mine \ {h}) /\ t.active = session.active /\ t.n = session.n
          BY <2>4, <3>2, <3>3, <3>4, FailCounts
        <5>2. session' = IF t.queue = session.queue THEN t ELSE Kept(t)
          BY <2>4, <4>2 DEF HtlcFailed, failed_of_session
        <5> HIDE DEF t
        <5>3. CASE t.queue = session.queue
          BY <3>2, <3>5, <5>1, <5>2, <5>3, SessionIsSome DEF Kempt, can_be_deleted
        <5>4. CASE t.queue # session.queue
          BY <3>3, <3>5, <5>1, <5>2, <5>4, KeptIsKempt DEF Kept
        <5> QED
          BY <5>3, <5>4
      <4> QED
        BY <1>3, <4>1, <4>2
    <3>7. pc' # "idle" => session' # NoSession /\ session'.active
      <4>1. pc' # "idle" => session.active
        BY <2>2 DEF IInv, PayingHasSession
      <4>2. session.active => session' # NoSession
        <5>1. ASSUME session.active PROVE session' # NoSession
          <6>1. CASE HtlcFulfilled(h)
            <7>1. LET t == Put(session, TRUE, htlcs[h].amount)
                  IN  IsSession(t) /\ t.active = session.active /\ session' = Kept(t)
              BY <2>4, <3>2, <3>3, <3>4, <6>1, PutCounts DEF HtlcFulfilled, fulfilled_of_session
            <7> QED
              BY <5>1, <7>1, SessionIsSome DEF Kept, can_be_deleted
          <6>2. CASE HtlcFailed(h)
            <7>1. LET t == on_htlc_fail(session, htlcs[h])
                  IN  IsSession(t) /\ t.active = session.active /\ (session' = t \/ session' = Kept(t))
              BY <2>4, <3>2, <3>3, <3>4, <6>2, FailCounts DEF HtlcFailed, failed_of_session
            <7> QED
              BY <5>1, <7>1, SessionIsSome DEF Kept, can_be_deleted
          <6> QED
            BY <1>3, <6>1, <6>2
        <5> QED
          BY <5>1
      <4> QED
        BY <3>6, <4>1, <4>2
    <3> QED
      BY <2>1, <2>2, <3>3, <3>5, <3>6, <3>7, Fold DEF IInv, TypeOK, SendingHasRoutes
  <2> QED
    BY <2>3, <2>4
<1> QED
  BY <1>1, <1>2, <1>3 DEF Heard

LEMMA RepeatedPreserves == ASSUME IInv, NEW h \in Ids, Repeated(h) PROVE IInv'
<1>1. UNCHANGED <<mode, htlcs, mine, session, pc, routes>>
  BY DEF Repeated, fulfilled_of_none, failed_of_none
<1> QED
  BY <1>1, OthersPreserve DEF IInv, TypeOK

LEMMA ReestablishPreserves == ASSUME IInv, NEW F, Reestablish(F) PROVE IInv'
<1> DEFINE forgotten(h) == [htlcs[h] EXCEPT !.state = IF @ = "claimed" THEN "taken" ELSE "refused"]
<1>1. htlcs \in Seq(Htlc)
  BY DEF IInv, TypeOK
<1>2. Len(htlcs) \in Nat /\ DOMAIN htlcs = 1 .. Len(htlcs) /\ \A h \in Ids : htlcs[h] \in Htlc
  BY <1>1 DEF Ids
<1>3. \A h \in Ids : (IF h \notin F THEN htlcs[h] ELSE forgotten(h)) \in Htlc
  BY <1>2 DEF Htlc, States
<1>4. htlcs' = [h \in 1 .. Len(htlcs) |-> IF h \notin F THEN htlcs[h] ELSE forgotten(h)]
  BY <1>2 DEF Reestablish, Ids
<1> HIDE DEF forgotten
<1>5. htlcs' \in Seq(Htlc) /\ DOMAIN htlcs' = DOMAIN htlcs
  BY <1>2, <1>3, <1>4 DEF Ids
<1>6. UNCHANGED <<mode, mine, session, pc, routes>>
  BY DEF Reestablish
<1> QED
  BY <1>5, <1>6, OthersPreserve

LEMMA RestartPreserves == IInv /\ Restart => IInv'
<1> SUFFICES ASSUME IInv, Restart PROVE IInv'
  OBVIOUS
<1>1. mine' = {} /\ session' = NoSession /\ pc' = "idle" /\ routes' = <<>>
      /\ UNCHANGED <<mode, htlcs>>
  BY DEF Restart
<1>2. IsFiniteSet({})
  BY FS_EmptySet
<1> QED
  BY <1>1, <1>2, Fold DEF IInv, TypeOK, Kempt

LEMMA StepPreserves == IInv /\ [Next]_vars => IInv'
<1> SUFFICES ASSUME IInv, [Next]_vars PROVE IInv'
  OBVIOUS
<1>1. CASE PayToNode
  BY <1>1, CreateRoutesPreserves, GivesUpPreserves, PayToRoutePreserves, HtlcResolvedPreserves,
     NoMoreResolvedPreserves DEF PayToNode
<1>2. CASE UNCHANGED vars
  BY <1>2, OthersPreserve DEF vars, IInv, TypeOK
<1> QED
  BY <1>1, <1>2, PayInvoicePreserves, DecidePreserves, HeardPreserves, RepeatedPreserves,
     ReestablishPreserves, RestartPreserves DEF Next

\* IInv holds of every reachable state.
THEOREM Invariance == Spec => []IInv
<1> QED
  BY InitOK, StepPreserves, PTL DEF Spec

LEMMA IInvKeepsSession == IInv => SessionIsKept
<1> SUFFICES ASSUME IInv PROVE SessionIsKept
  OBVIOUS
<1>1. mine # {} => session # NoSession
  BY DEF IInv, NoneIsMissed
<1>2. ASSUME session # NoSession, mode = "gossip", ~session.active PROVE mine # {}
  <2>1. IsSession(session) /\ Counts(session, mine) /\ ~can_be_deleted(session)
    BY <1>2, Unfold
  <2>2. session.n # Len(session.queue) /\ Len(session.queue) \in Nat
    BY <1>2, <2>1 DEF can_be_deleted, IsSession
  <2>3. Cardinality(mine) # 0
    BY <1>2, <2>1, <2>2 DEF Counts
  <2> QED
    BY <2>3, FS_EmptySet
<1> QED
  BY <1>1, <1>2 DEF SessionIsKept

\* An htlc of this process that resolves finds its session in _paysessions, and without
\* trampoline no session stays there once it is over and its htlcs resolved.
THEOREM SessionIsKeptAlways == Spec => []SessionIsKept
<1> QED
  BY Invariance, IInvKeepsSession, PTL

-----------------------------------------------------------------------------
(* Amounts, of htlcs or logs *)

Amounts(hs) == [h \in DOMAIN hs |-> hs[h].amount]
Successes(q) == [i \in DOMAIN q |-> IF q[i].success THEN q[i].amount ELSE 0]
Propagated(B) == [b \in DOMAIN B |-> B[b].failed % B[b].sent]

\* The sum of a sequence of amounts, and of amounts by bucket
TotalOf(f) == Total(f, DOMAIN f)

InBucket(hs, H, b) == {h \in H : hs[h].bucket = b}

\* The sums of PaySession
LEMMA SumIsTotal == \A f : SumOf(f) = TotalOf(f)
  BY FoldIsTotal DEF SumOf, TotalOf

LEMMA SequenceTotal ==
    ASSUME NEW r \in Seq(Int)
    PROVE  /\ OfInts(r, DOMAIN r) /\ TotalOf(r) \in Int
           /\ r = <<>> => TotalOf(r) = 0
<1>1. DOMAIN r = 1 .. Len(r) /\ Len(r) \in Nat /\ \A i \in DOMAIN r : r[i] \in Int
  OBVIOUS
<1>2. OfInts(r, DOMAIN r)
  BY <1>1, FS_Interval DEF OfInts
<1>3. r = <<>> => DOMAIN r = {}
  OBVIOUS
<1> QED BY <1>2, <1>3, TotalSplit DEF TotalOf

\* One more amount at the end
LEMMA AppendTotal ==
    ASSUME NEW r \in Seq(Int), NEW x \in Int
    PROVE  TotalOf(Append(r, x)) = TotalOf(r) + x
<1> DEFINE a == Append(r, x)
           n == Len(r) + 1
<1>1. /\ DOMAIN a = DOMAIN r \cup {n} /\ n \notin DOMAIN r
      /\ a[n] = x /\ \A i \in DOMAIN r : r[i] = a[i]
  OBVIOUS
<1>2. OfInts(r, DOMAIN r) /\ TotalOf(r) \in Int
  BY SequenceTotal
<1> HIDE DEF a, n
<1>3. OfInts(a, DOMAIN r) /\ Total(r, DOMAIN r) = Total(a, DOMAIN r)
  BY <1>1, <1>2, TotalSame
<1>4. Total(a, DOMAIN r \cup {n}) = a[n] + Total(a, DOMAIN r)
  BY <1>1, <1>3, TotalWith
<1> QED BY <1>1, <1>2, <1>3, <1>4 DEF TotalOf, a

\* The first amount is taken
LEMMA TailTotal ==
    ASSUME NEW r \in Seq(Int), r # <<>>
    PROVE  TotalOf(r) = Head(r) + TotalOf(Tail(r))
<1> DEFINE t == Tail(r)
           n == Len(t)
           G == {k \in Nat : k <= n => Total(r, 2 .. k + 1) = Total(t, 1 .. k)}
<1>1. /\ t \in Seq(Int) /\ n \in Nat /\ Len(r) = n + 1 /\ DOMAIN t = 1 .. n /\ DOMAIN r = 1 .. n + 1
      /\ Head(r) = r[1] /\ \A i \in 1 .. n : t[i] = r[i + 1]
      /\ \A i \in 1 .. n + 1 : r[i] \in Int
  OBVIOUS
<1> HIDE DEF t, n
<1>2. ASSUME NEW k \in Nat, k <= n
      PROVE  OfInts(r, 2 .. k + 1) /\ OfInts(t, 1 .. k)
  <2>1. IsFiniteSet(2 .. k + 1) /\ IsFiniteSet(1 .. k)
    BY FS_Interval
  <2>2. 2 .. k + 1 \subseteq 1 .. n + 1 /\ 1 .. k \subseteq 1 .. n
    BY <1>1, <1>2
  <2>3. \A i \in 1 .. n : t[i] \in Int
    BY <1>1
  <2>4. OfInts(r, 2 .. k + 1)
    BY <1>1, <2>1, <2>2 DEF OfInts
  <2>5. OfInts(t, 1 .. k)
    BY <2>1, <2>2, <2>3 DEF OfInts
  <2> QED BY <2>4, <2>5
<1>3. ASSUME NEW k \in Nat, \A j \in Nat : j < k => j \in G
      PROVE  k \in G
  <2> SUFFICES ASSUME k <= n PROVE Total(r, 2 .. k + 1) = Total(t, 1 .. k)
    OBVIOUS
  <2>1. CASE k = 0
    <3>1. 2 .. k + 1 = {} /\ 1 .. k = {}
      BY <2>1
    <3>2. OfInts(r, 2 .. k + 1) /\ OfInts(t, 1 .. k)
      BY <1>2
    <3>3. Total(r, 2 .. k + 1) = 0 /\ Total(t, 1 .. k) = 0
      BY <3>1, <3>2, TotalSplit
    <3> QED BY <3>3
  <2>2. CASE k > 0
    <3> DEFINE j == k - 1
    <3>1. /\ j \in Nat /\ j < k /\ j <= n /\ k = j + 1 /\ k + 1 = j + 2
          /\ 2 .. k + 1 = (2 .. j + 1) \cup {k + 1} /\ k + 1 \notin 2 .. j + 1
          /\ 1 .. k = (1 .. j) \cup {k} /\ k \notin 1 .. j
          /\ k \in 1 .. n /\ k + 1 \in 1 .. n + 1
      <4>1. j \in Nat /\ j < k /\ j <= n /\ k = j + 1 /\ k + 1 = j + 2 /\ n \in Nat
        BY <1>1, <2>2
      <4> HIDE DEF j
      <4>2. 2 .. k + 1 = (2 .. j + 1) \cup {k + 1} /\ 1 .. k = (1 .. j) \cup {k}
        BY <4>1
      <4> QED BY <4>1, <4>2
    <3> HIDE DEF j
    <3>2. j \in G
      BY <1>3, <3>1
    <3>3. Total(r, 2 .. j + 1) = Total(t, 1 .. j)
      BY <3>1, <3>2
    <3>4. OfInts(r, 2 .. j + 1) /\ OfInts(t, 1 .. j)
      BY <1>2, <3>1
    <3>5. r[k + 1] \in Int /\ t[k] = r[k + 1]
      BY <1>1, <3>1
    <3>6. Total(r, (2 .. j + 1) \cup {k + 1}) = r[k + 1] + Total(r, 2 .. j + 1)
      BY <3>1, <3>4, <3>5, TotalWith
    <3>7. Total(t, (1 .. j) \cup {k}) = t[k] + Total(t, 1 .. j)
      BY <3>1, <3>4, <3>5, TotalWith
    <3> QED BY <3>1, <3>3, <3>5, <3>6, <3>7
  <2> QED BY <2>1, <2>2
<1>4. n \in G
  <2>1. Nat \subseteq G
    <3> HIDE DEF G
    <3> QED BY <1>3, NumberInduction
  <2> QED BY <1>1, <2>1
<1>5. Total(r, 2 .. n + 1) = TotalOf(t)
  BY <1>1, <1>4 DEF TotalOf
<1>6. DOMAIN r = (2 .. n + 1) \cup {1} /\ 1 \notin 2 .. n + 1 /\ r[1] \in Int
  BY <1>1
<1>7. OfInts(r, 2 .. n + 1)
  BY <1>1, <1>2
<1>8. Total(r, (2 .. n + 1) \cup {1}) = r[1] + Total(r, 2 .. n + 1)
  BY <1>6, <1>7, TotalWith
<1> QED BY <1>1, <1>5, <1>6, <1>8 DEF TotalOf, t

\* What is appended to, and the rest of, a sequence
LEMMA AppendIs ==
    ASSUME NEW a \in Seq(Int), NEW x \in Int, NEW v \in Seq(Int), Len(v) = Len(a) + 1,
           v[Len(a) + 1] = x, \A i \in 1 .. Len(a) : v[i] = a[i]
    PROVE  v = Append(a, x)
<1> DEFINE w == Append(a, x)
<1>1. w \in Seq(Int) /\ Len(w) = Len(a) + 1 /\ \A i \in 1 .. Len(a) + 1 : v[i] = w[i]
  OBVIOUS
<1> HIDE DEF w
<1>2. v = w
  BY <1>1
<1> QED BY <1>2 DEF w

LEMMA TailIs ==
    ASSUME NEW a \in Seq(Int), a # <<>>, NEW v \in Seq(Int), Len(v) = Len(a) - 1,
           \A i \in 1 .. Len(a) - 1 : v[i] = a[i + 1]
    PROVE  v = Tail(a)
<1> DEFINE w == Tail(a)
<1>1. /\ w \in Seq(Int) /\ Len(w) = Len(v) /\ Len(v) \in Nat
      /\ \A i \in 1 .. Len(v) : v[i] = w[i]
  OBVIOUS
<1> HIDE DEF w
<1>2. v = w
  <2>1. w = [i \in 1 .. Len(v) |-> w[i]] /\ v = [i \in 1 .. Len(v) |-> v[i]]
    BY <1>1
  <2> QED BY <1>1, <2>1
<1> QED BY <1>2 DEF w

\* The amounts of the logs of a queue, and of those that succeeded
LEMMA QueueAmounts ==
    ASSUME NEW v \in Seq(Log)
    PROVE  /\ Amounts(v) \in Seq(Int) /\ Successes(v) \in Seq(Int)
           /\ Len(Amounts(v)) = Len(v) /\ Len(Successes(v)) = Len(v)
           /\ \A i \in 1 .. Len(v) : /\ v[i] \in Log /\ Amounts(v)[i] = v[i].amount
                                     /\ Successes(v)[i] = IF v[i].success THEN v[i].amount ELSE 0
<1>1. Len(v) \in Nat /\ DOMAIN v = 1 .. Len(v) /\ \A i \in 1 .. Len(v) : v[i] \in Log
  OBVIOUS
<1>2. \A i \in 1 .. Len(v) : v[i].amount \in Int /\ v[i].success \in BOOLEAN
  BY <1>1 DEF Log
<1>3. Amounts(v) = [i \in 1 .. Len(v) |-> v[i].amount]
  BY <1>1 DEF Amounts
<1>4. Successes(v) = [i \in 1 .. Len(v) |-> IF v[i].success THEN v[i].amount ELSE 0]
  BY <1>1 DEF Successes
<1>5. \A i \in 1 .. Len(v) : (IF v[i].success THEN v[i].amount ELSE 0) \in Int
  BY <1>2
<1>6. Amounts(v) \in Seq(Int) /\ Len(Amounts(v)) = Len(v)
  BY <1>1, <1>2, <1>3
<1>7. Successes(v) \in Seq(Int) /\ Len(Successes(v)) = Len(v)
  BY <1>1, <1>4, <1>5
<1> QED BY <1>1, <1>3, <1>4, <1>6, <1>7

\* What is summed of the queue, when a log is put into it or taken from it
LEMMA QueueTotals ==
    ASSUME NEW q \in Seq(Log)
    PROVE  /\ Amounts(q) \in Seq(Int) /\ Successes(q) \in Seq(Int)
           /\ TotalOf(Amounts(q)) \in Int /\ TotalOf(Successes(q)) \in Int
           /\ \A log \in Log :
                /\ TotalOf(Amounts(Append(q, log))) = TotalOf(Amounts(q)) + log.amount
                /\ TotalOf(Successes(Append(q, log)))
                       = TotalOf(Successes(q)) + (IF log.success THEN log.amount ELSE 0)
           /\ q # <<>> =>
                /\ TotalOf(Amounts(q)) = Head(q).amount + TotalOf(Amounts(Tail(q)))
                /\ TotalOf(Successes(q)) = (IF Head(q).success THEN Head(q).amount ELSE 0)
                                           + TotalOf(Successes(Tail(q)))
<1> DEFINE a == Amounts(q)
           u == Successes(q)
<1>1. /\ Len(q) \in Nat
      /\ a \in Seq(Int) /\ u \in Seq(Int) /\ Len(a) = Len(q) /\ Len(u) = Len(q)
      /\ \A i \in 1 .. Len(q) : a[i] = q[i].amount /\ u[i] = IF q[i].success THEN q[i].amount ELSE 0
  BY QueueAmounts
<1>2. a \in Seq(Int) /\ u \in Seq(Int) /\ TotalOf(a) \in Int /\ TotalOf(u) \in Int
  BY QueueAmounts, SequenceTotal
<1>3. ASSUME NEW log \in Log
      PROVE  /\ Amounts(Append(q, log)) = Append(a, log.amount)
             /\ Successes(Append(q, log)) = Append(u, IF log.success THEN log.amount ELSE 0)
             /\ log.amount \in Int /\ (IF log.success THEN log.amount ELSE 0) \in Int
  <2> DEFINE v == Append(q, log)
             x == IF log.success THEN log.amount ELSE 0
  <2>1. v \in Seq(Log) /\ Len(v) = Len(q) + 1 /\ v[Len(q) + 1] = log
        /\ \A i \in 1 .. Len(q) : v[i] = q[i] /\ i \in 1 .. Len(q) + 1
    OBVIOUS
  <2>2. log.amount \in Int /\ x \in Int
    BY DEF Log
  <2> HIDE DEF v, x, a, u
  <2>5. /\ Amounts(v) \in Seq(Int) /\ Successes(v) \in Seq(Int)
        /\ Len(Amounts(v)) = Len(v) /\ Len(Successes(v)) = Len(v)
        /\ \A i \in 1 .. Len(v) : /\ Amounts(v)[i] = v[i].amount
                                  /\ Successes(v)[i] = IF v[i].success THEN v[i].amount ELSE 0
    BY <2>1, QueueAmounts
  <2>3. Amounts(v) = Append(a, log.amount)
    <3>0. Len(a) + 1 \in 1 .. Len(v) /\ \A i \in 1 .. Len(a) : i \in 1 .. Len(q) /\ i \in 1 .. Len(v)
      BY <1>1, <2>1
    <3>1. /\ Amounts(v) \in Seq(Int) /\ Len(Amounts(v)) = Len(a) + 1
          /\ Amounts(v)[Len(a) + 1] = log.amount
          /\ \A i \in 1 .. Len(a) : Amounts(v)[i] = a[i]
      BY <1>1, <2>1, <2>5, <3>0
    <3> QED BY <1>2, <2>2, <3>1, AppendIs
  <2>4. Successes(v) = Append(u, x)
    <3>0. Len(u) + 1 \in 1 .. Len(v) /\ \A i \in 1 .. Len(u) : i \in 1 .. Len(q) /\ i \in 1 .. Len(v)
      BY <1>1, <2>1
    <3>1. /\ Successes(v) \in Seq(Int) /\ Len(Successes(v)) = Len(u) + 1
          /\ Successes(v)[Len(u) + 1] = x
          /\ \A i \in 1 .. Len(u) : Successes(v)[i] = u[i]
      BY <1>1, <2>1, <2>5, <3>0 DEF x
    <3> QED BY <1>2, <2>2, <3>1, AppendIs
  <2> QED BY <2>2, <2>3, <2>4 DEF v, x, a, u
<1>4. ASSUME q # <<>>
      PROVE  /\ Amounts(Tail(q)) = Tail(a) /\ Successes(Tail(q)) = Tail(u)
             /\ a # <<>> /\ u # <<>>
             /\ Head(a) = Head(q).amount
             /\ Head(u) = IF Head(q).success THEN Head(q).amount ELSE 0
  <2> DEFINE t == Tail(q)
  <2>1. t \in Seq(Log) /\ Len(t) = Len(q) - 1 /\ Head(q) = q[1] /\ Len(q) # 0
        /\ \A i \in 1 .. Len(q) - 1 : t[i] = q[i + 1] /\ i + 1 \in 1 .. Len(q)
    BY <1>4
  <2> HIDE DEF t, a, u
  <2>5. /\ Amounts(t) \in Seq(Int) /\ Successes(t) \in Seq(Int)
        /\ Len(Amounts(t)) = Len(t) /\ Len(Successes(t)) = Len(t)
        /\ \A i \in 1 .. Len(t) : /\ Amounts(t)[i] = t[i].amount
                                  /\ Successes(t)[i] = IF t[i].success THEN t[i].amount ELSE 0
    BY <2>1, QueueAmounts
  <2>2. a # <<>> /\ u # <<>> /\ Head(a) = a[1] /\ Head(u) = u[1] /\ 1 \in 1 .. Len(q)
    BY <1>1, <1>2, <2>1
  <2>3. Amounts(t) = Tail(a)
    <3>1. /\ Amounts(t) \in Seq(Int) /\ Len(Amounts(t)) = Len(a) - 1
          /\ \A i \in 1 .. Len(a) - 1 : Amounts(t)[i] = a[i + 1]
      BY <1>1, <2>1, <2>5
    <3> QED BY <1>2, <2>2, <3>1, TailIs
  <2>4. Successes(t) = Tail(u)
    <3>1. /\ Successes(t) \in Seq(Int) /\ Len(Successes(t)) = Len(u) - 1
          /\ \A i \in 1 .. Len(u) - 1 : Successes(t)[i] = u[i + 1]
      BY <1>1, <2>1, <2>5
    <3> QED BY <1>2, <2>2, <3>1, TailIs
  <2> QED BY <1>1, <2>1, <2>2, <2>3, <2>4 DEF t, a, u
<1> HIDE DEF a, u
<1>5. \A log \in Log :
         /\ TotalOf(Amounts(Append(q, log))) = TotalOf(a) + log.amount
         /\ TotalOf(Successes(Append(q, log))) = TotalOf(u) + (IF log.success THEN log.amount ELSE 0)
  BY <1>2, <1>3, AppendTotal
<1>6. q # <<>> =>
         /\ TotalOf(a) = Head(q).amount + TotalOf(Amounts(Tail(q)))
         /\ TotalOf(u) = (IF Head(q).success THEN Head(q).amount ELSE 0) + TotalOf(Successes(Tail(q)))
  BY <1>2, <1>4, TailTotal
<1> QED BY <1>2, <1>5, <1>6 DEF a, u

-----------------------------------------------------------------------------
(* The session is exact *)

\* A bucket has to resolve at least what of it is still open.
BucketOK(bucket, open) ==
    /\ bucket \in [sent : Nat \ {0}, failed : Nat]
    /\ bucket.failed + open <= bucket.sent

\* The session s, whose open htlcs are those H of hs
Balanced(s, H, hs) ==
    /\ s.amount = Total(Amounts(hs), H) + TotalOf(Amounts(s.queue)) + TotalOf(Propagated(s.buckets))
    /\ \A i \in DOMAIN s.queue : s.queue[i].amount > 0
    /\ DOMAIN s.buckets \subseteq 1 .. Len(hs)
    /\ \A b \in DOMAIN s.buckets : BucketOK(s.buckets[b], Total(Amounts(hs), InBucket(hs, H, b)))

\* The htlcs that are about to be sent, in place of those that are in no log
RoutesOK(r, s, H, hs) ==
    /\ s.amount + TotalOf(Amounts(r)) = AmountToPay
    /\ \A i \in DOMAIN r :
         /\ r[i].amount > 0 /\ r[i].state = "sent" /\ r[i].bucket \in 1 .. Len(hs) + i
         /\ mode # "gossip" =>
              IF r[i].whole
              THEN /\ r[i].bucket \notin DOMAIN s.buckets
                   /\ \A j \in DOMAIN r : r[j].bucket = r[i].bucket => j = i
              ELSE IF r[i].bucket \in DOMAIN s.buckets
                   THEN s.buckets[r[i].bucket].failed = 0
                   ELSE InBucket(hs, H, r[i].bucket) = {}

HtlcsOK == \A h \in Ids : htlcs[h].amount > 0 /\ htlcs[h].bucket \in 1 .. Len(htlcs)
SessionIsBalanced == session # NoSession => Balanced(session, mine, htlcs)
SendsNotTooMuch == pc # "idle" => session.amount <= AmountToPay
SendsTheRest == pc = "sending" => RoutesOK(routes, session, mine, htlcs)
DrainsLess == pc = "draining" => session.amount < AmountToPay

AmountsInv == IInv /\ HtlcsOK /\ SessionIsBalanced /\ SendsNotTooMuch /\ SendsTheRest /\ DrainsLess

-----------------------------------------------------------------------------
(* The payment is made once *)

Alive == InState({"sent", "taken", "claimed", "settled"})
Taken == InState({"taken", "claimed", "settled"})
Settled == InState({"settled"})

MineAreOpen == mine \cap InState({"settled", "failed"}) = {}
\* Who claims gives us the preimage.
PreimageKnown == InState({"claimed", "settled"}) # {} => preimage
\* The receiver takes nothing less than the amount.
TakenTogether == Taken # {} => Total(Amounts(htlcs), Taken) >= AmountToPay
\* As long as pay_to_node runs, no other attempt has htlcs that the receiver may take
PayingIsAlone ==
    pc # "idle" =>
        /\ Alive \subseteq mine \cup Settled
        /\ Total(Amounts(htlcs), Settled) <= TotalOf(Successes(session.queue))
SuccessIsSettled ==
    session # NoSession =>
        \A i \in DOMAIN session.queue : session.queue[i].success => Settled # {}
PaidIsSettled == status = "paid" => Settled # {}
\* PaidOnce, also for what was not given up by an attempt that is over
PaidAtMost == Total(Amounts(htlcs), Alive) <= AmountToPay

PaidInv ==
    /\ AmountsInv
    /\ MineAreOpen
    /\ PreimageKnown
    /\ TakenTogether
    /\ PayingIsAlone
    /\ SuccessIsSettled
    /\ PaidIsSettled
    /\ PaidAtMost

-----------------------------------------------------------------------------
(* Sums of htlcs and of buckets *)

\* A sequence of htlcs as it may be sent
Sendable(hs) ==
    /\ hs \in Seq(Htlc)
    /\ \A h \in DOMAIN hs : hs[h].amount > 0 /\ hs[h].bucket \in 1 .. Len(hs)

LEMMA HtlcTotals ==
    ASSUME NEW hs, Sendable(hs), NEW H \in SUBSET DOMAIN hs
    PROVE  /\ IsFiniteSet(H) /\ OfInts(Amounts(hs), H) /\ Total(Amounts(hs), H) \in Nat
           /\ \A h \in H : /\ hs[h].amount \in Nat \ {0}
                           /\ Total(Amounts(hs), H) = hs[h].amount + Total(Amounts(hs), H \ {h})
           /\ \A T \in SUBSET H : /\ Total(Amounts(hs), T) \in Nat
                                  /\ Total(Amounts(hs), T) <= Total(Amounts(hs), H)
           /\ H = {} <=> Total(Amounts(hs), H) = 0
<1>1. DOMAIN hs = 1 .. Len(hs) /\ Len(hs) \in Nat /\ \A h \in DOMAIN hs : hs[h] \in Htlc
  BY DEF Sendable
<1>2. \A h \in DOMAIN hs : hs[h].amount \in Nat \ {0} /\ Amounts(hs)[h] = hs[h].amount
  BY <1>1 DEF Sendable, Htlc, Amounts
<1>3. IsFiniteSet(H)
  <2>1. IsFiniteSet(DOMAIN hs)
    BY <1>1, FS_Interval
  <2> QED BY <2>1, FS_Subset
<1>4. \A h \in H : Amounts(hs)[h] \in Nat
  BY <1>2
<1>5. /\ OfInts(Amounts(hs), H) /\ Total(Amounts(hs), H) \in Nat
      /\ \A T \in SUBSET H : Total(Amounts(hs), T) \in Nat /\ Total(Amounts(hs), T) <= Total(Amounts(hs), H)
  BY <1>3, <1>4, TotalOfNaturals
<1>6. /\ H = {} => Total(Amounts(hs), H) = 0
      /\ \A h \in H : Total(Amounts(hs), H) = hs[h].amount + Total(Amounts(hs), H \ {h})
  BY <1>2, <1>5, TotalSplit
<1>7. H # {} => Total(Amounts(hs), H) # 0
  <2> SUFFICES ASSUME NEW h \in H PROVE Total(Amounts(hs), H) # 0
    OBVIOUS
  <2>1. H \ {h} \in SUBSET H
    OBVIOUS
  <2>2. hs[h].amount \in Nat \ {0} /\ Total(Amounts(hs), H \ {h}) \in Nat
    BY <1>2, <1>5, <2>1
  <2> QED BY <1>6, <2>2
<1> QED BY <1>2, <1>3, <1>5, <1>6, <1>7

Bucket == [sent : Nat \ {0}, failed : Nat]

LEMMA Remainders ==
    ASSUME NEW a \in Nat, NEW b \in Nat \ {0}
    PROVE  /\ a % b \in Nat
           /\ a < b => a % b = a
           /\ b % b = 0 /\ 0 % b = 0
<1>1. a % b \in Nat
  OBVIOUS
<1>2. a < b => a % b = a
  OBVIOUS
<1>3. b % b = 0
  OBVIOUS
<1>4. 0 % b = 0
  OBVIOUS
<1> QED BY <1>1, <1>2, <1>3, <1>4

LEMMA BucketTotal ==
    ASSUME NEW B, IsFiniteSet(DOMAIN B), \A b \in DOMAIN B : B[b] \in Bucket
    PROVE  LET f == Propagated(B)
           IN  /\ OfInts(f, DOMAIN B) /\ Total(f, DOMAIN B) \in Nat /\ TotalOf(f) = Total(f, DOMAIN B)
               /\ \A b \in DOMAIN B : f[b] = B[b].failed % B[b].sent /\ f[b] \in Nat
<1> DEFINE f == Propagated(B)
<1>1. /\ DOMAIN f = DOMAIN B
      /\ \A b \in DOMAIN B : f[b] = B[b].failed % B[b].sent /\ f[b] \in Nat
  BY Remainders DEF Propagated, Bucket
<1> HIDE DEF f
<1>2. OfInts(f, DOMAIN B) /\ Total(f, DOMAIN B) \in Nat
  BY <1>1, TotalOfNaturals
<1> QED BY <1>1, <1>2 DEF TotalOf, f

\* A bucket that is new, or changed, in C
ChangedAt(C, B, c, d) ==
    DOMAIN C = DOMAIN B \cup {c} /\ C[c] = d /\ \A b \in DOMAIN B : b # c => C[b] = B[b]

\* What counts of the bucket c for what is in flight
Counted(B, c) == IF c \in DOMAIN B THEN B[c].failed % B[c].sent ELSE 0

LEMMA BucketTotals ==
    ASSUME NEW B, IsFiniteSet(DOMAIN B), \A b \in DOMAIN B : B[b] \in Bucket,
           NEW c, NEW d \in Bucket, NEW C, ChangedAt(C, B, c, d)
    PROVE  TotalOf(Propagated(C)) = TotalOf(Propagated(B)) - Counted(B, c) + (d.failed % d.sent)
<1> DEFINE D == DOMAIN B
           f == Propagated(B)
<1>1. \A b \in D : f[b] = B[b].failed % B[b].sent /\ f[b] \in Nat
  BY BucketTotal
<1>2. OfInts(f, D) /\ Total(f, D) \in Nat /\ TotalOf(f) = Total(f, D)
  BY BucketTotal
<1> DEFINE g == Propagated(C)
<1>3. /\ DOMAIN g = (D \ {c}) \cup {c} /\ c \notin D \ {c}
      /\ g[c] = d.failed % d.sent /\ \A b \in D \ {c} : g[b] = f[b]
  BY DEF Propagated, ChangedAt
<1>4. d.failed % d.sent \in Nat
  BY Remainders DEF Bucket
<1> HIDE DEF f, g
<1>5. OfInts(f, D \ {c}) /\ Total(f, D \ {c}) \in Int
  BY <1>2, OfIntsSubset, TotalSplit
<1>6. OfInts(g, D \ {c}) /\ Total(f, D \ {c}) = Total(g, D \ {c})
  BY <1>3, <1>5, TotalSame
<1>7. TotalOf(g) = (d.failed % d.sent) + Total(f, D \ {c})
  <2>1. Total(g, (D \ {c}) \cup {c}) = g[c] + Total(g, D \ {c})
    <3>1. g[c] \in Int
      BY <1>3, <1>4
    <3> QED BY <1>3, <1>6, <3>1, TotalWith
  <2> QED BY <1>3, <1>6, <2>1 DEF TotalOf
<1>8. Total(f, D) = Counted(B, c) + Total(f, D \ {c})
  <2>1. CASE c \in D
    BY <1>1, <1>2, <2>1, TotalSplit DEF Counted
  <2>2. CASE c \notin D
    <3>1. D \ {c} = D
      BY <2>2
    <3> QED BY <1>2, <2>2, <3>1 DEF Counted
  <2> QED BY <2>1, <2>2
<1>9. Counted(B, c) \in Int
  BY <1>1 DEF Counted
<1> QED BY <1>2, <1>4, <1>5, <1>7, <1>8, <1>9 DEF f, g

-----------------------------------------------------------------------------
(* How a session stays balanced *)

\* Logs have amounts, and those of successes are no more than all.
LEMMA QueueBounds ==
    ASSUME NEW q \in Seq(Log), \A i \in DOMAIN q : q[i].amount > 0
    PROVE  /\ TotalOf(Amounts(q)) \in Nat /\ TotalOf(Successes(q)) \in Nat
           /\ TotalOf(Successes(q)) <= TotalOf(Amounts(q))
           /\ \A i \in DOMAIN q : ~q[i].success => TotalOf(Successes(q)) < TotalOf(Amounts(q))
<1> DEFINE D == DOMAIN q
           a == Amounts(q)
           u == Successes(q)
<1>1. /\ IsFiniteSet(D) /\ DOMAIN a = D /\ DOMAIN u = D
      /\ \A i \in D : /\ a[i] \in Nat \ {0} /\ u[i] \in Nat /\ u[i] <= a[i]
                      /\ ~q[i].success => u[i] = 0
  <2>1. D = 1 .. Len(q) /\ Len(q) \in Nat /\ \A i \in D : q[i] \in Log
    OBVIOUS
  <2>2. \A i \in D : q[i].amount \in Nat \ {0} /\ q[i].success \in BOOLEAN
    BY <2>1 DEF Log
  <2>3. DOMAIN a = D /\ DOMAIN u = D /\ \A i \in D : a[i] = q[i].amount
                            /\ u[i] = IF q[i].success THEN q[i].amount ELSE 0
    BY DEF Amounts, Successes
  <2>4. IsFiniteSet(D)
    BY <2>1, FS_Interval
  <2> HIDE DEF D, a, u
  <2>5. \A i \in D : a[i] \in Nat \ {0} /\ u[i] \in Nat /\ u[i] <= a[i] /\ (~q[i].success => u[i] = 0)
    BY <2>2, <2>3
  <2> QED BY <2>3, <2>4, <2>5
<1> HIDE DEF D, a, u
<1>2. ASSUME NEW T \in SUBSET D
      PROVE  /\ OfInts(a, T) /\ OfInts(u, T) /\ Total(a, T) \in Nat /\ Total(u, T) \in Nat
             /\ Total(u, T) <= Total(a, T)
  <2>1. IsFiniteSet(T) /\ \A i \in T : a[i] \in Nat /\ u[i] \in Nat
    BY <1>1, FS_Subset
  <2>2. /\ OfInts(a, T) /\ OfInts(u, T) /\ Total(a, T) \in Nat /\ Total(u, T) \in Nat
    BY <2>1, TotalOfNaturals
  <2> QED BY <1>1, <2>2, TotalMonotone
<1>3. ASSUME NEW i \in D, ~q[i].success PROVE Total(u, D) < Total(a, D)
  <2>1. D \ {i} \in SUBSET D /\ D \in SUBSET D
    OBVIOUS
  <2>2. Total(u, D) = u[i] + Total(u, D \ {i}) /\ Total(a, D) = a[i] + Total(a, D \ {i})
    BY <1>2, <2>1, TotalSplit
  <2>3. Total(u, D \ {i}) <= Total(a, D \ {i}) /\ Total(u, D \ {i}) \in Nat /\ Total(a, D \ {i}) \in Nat
    BY <1>2, <2>1
  <2>4. u[i] = 0 /\ a[i] \in Nat \ {0}
    BY <1>1, <1>3
  <2> QED BY <2>2, <2>3, <2>4
<1> QED BY <1>1, <1>2, <1>3 DEF TotalOf, D, a, u

\* What a balanced session is made of
LEMMA BalancedTypes ==
    ASSUME NEW hs, Sendable(hs), NEW H \in SUBSET DOMAIN hs, NEW s, IsSession(s), Balanced(s, H, hs)
    PROVE  /\ Total(Amounts(hs), H) \in Nat
           /\ TotalOf(Amounts(s.queue)) \in Nat /\ TotalOf(Successes(s.queue)) \in Nat
           /\ TotalOf(Successes(s.queue)) <= TotalOf(Amounts(s.queue))
           /\ TotalOf(Propagated(s.buckets)) \in Nat
           /\ s.queue \in Seq(Log) /\ s.amount \in Nat
           /\ IsFiniteSet(DOMAIN s.buckets) /\ \A b \in DOMAIN s.buckets : s.buckets[b] \in Bucket
<1>1. s.queue \in Seq(Log)
  BY DEF IsSession
<1>2. Len(hs) \in Nat
  BY DEF Sendable
<1>3. IsFiniteSet(DOMAIN s.buckets) /\ \A b \in DOMAIN s.buckets : s.buckets[b] \in Bucket
  <2>1. IsFiniteSet(1 .. Len(hs))
    BY <1>2, FS_Interval
  <2>2. DOMAIN s.buckets \in SUBSET (1 .. Len(hs))
    BY DEF Balanced
  <2> QED BY <2>1, <2>2, FS_Subset DEF Balanced, BucketOK, Bucket
<1>4. TotalOf(Propagated(s.buckets)) \in Nat
  BY <1>3, BucketTotal
<1>5. /\ TotalOf(Amounts(s.queue)) \in Nat /\ TotalOf(Successes(s.queue)) \in Nat
      /\ TotalOf(Successes(s.queue)) <= TotalOf(Amounts(s.queue))
  BY <1>1, QueueBounds DEF Balanced
<1>6. Total(Amounts(hs), H) \in Nat
  BY HtlcTotals
<1> QED BY <1>1, <1>3, <1>4, <1>5, <1>6 DEF Balanced

\* Only these fields matter, and only the terms of the htlcs.
SameTerms(hs, gs) ==
    /\ DOMAIN gs = DOMAIN hs /\ Len(gs) = Len(hs)
    /\ \A h \in DOMAIN hs : gs[h].amount = hs[h].amount /\ gs[h].bucket = hs[h].bucket
                            /\ gs[h].whole = hs[h].whole

LEMMA SameBalanced ==
    ASSUME NEW hs, NEW gs, SameTerms(hs, gs), NEW H \in SUBSET DOMAIN hs, NEW s, NEW t,
           t.amount = s.amount, t.queue = s.queue, t.buckets = s.buckets
    PROVE  /\ Amounts(gs) = Amounts(hs)
           /\ \A b : InBucket(gs, H, b) = InBucket(hs, H, b)
           /\ Balanced(s, H, hs) => Balanced(t, H, gs)
<1>1. Amounts(gs) = Amounts(hs)
  BY DEF SameTerms, Amounts
<1>2. \A b : InBucket(gs, H, b) = InBucket(hs, H, b)
  BY DEF SameTerms, InBucket
<1> QED BY <1>1, <1>2 DEF Balanced, SameTerms

\* An htlc that resolves goes to the queue, or to its bucket.
LEMMA ResolvedBalanced ==
    ASSUME NEW hs, Sendable(hs), NEW H \in SUBSET DOMAIN hs, NEW h \in H,
           NEW s, IsSession(s), Balanced(s, H, hs),
           NEW t, t.amount = s.amount, DOMAIN t.buckets = DOMAIN s.buckets,
           TotalOf(Amounts(t.queue)) + TotalOf(Propagated(t.buckets)) =
               TotalOf(Amounts(s.queue)) + TotalOf(Propagated(s.buckets)) + hs[h].amount,
           TotalOf(Amounts(t.queue)) \in Int, TotalOf(Propagated(t.buckets)) \in Int,
           \A i \in DOMAIN t.queue : t.queue[i].amount > 0,
           \A b \in DOMAIN s.buckets :
               \/ t.buckets[b] = s.buckets[b]
               \/ /\ b = hs[h].bucket
                  /\ t.buckets[b] = [s.buckets[b] EXCEPT !.failed = @ + hs[h].amount]
    PROVE  Balanced(t, H \ {h}, hs)
<1> DEFINE A == Amounts(hs)
<1>1. /\ Total(A, H) = hs[h].amount + Total(A, H \ {h}) /\ hs[h].amount \in Nat \ {0}
      /\ Total(A, H) \in Nat /\ Total(A, H \ {h}) \in Nat
  <2>1. H \ {h} \in SUBSET H
    OBVIOUS
  <2> QED BY <2>1, HtlcTotals
<1>2. t.amount = Total(A, H \ {h}) + TotalOf(Amounts(t.queue)) + TotalOf(Propagated(t.buckets))
  <2>1. /\ TotalOf(Amounts(s.queue)) \in Nat /\ TotalOf(Propagated(s.buckets)) \in Nat
        /\ s.amount = Total(A, H) + TotalOf(Amounts(s.queue)) + TotalOf(Propagated(s.buckets))
    BY BalancedTypes DEF Balanced
  <2> HIDE DEF A
  <2> QED BY <1>1, <2>1
<1>3. ASSUME NEW b \in DOMAIN s.buckets
      PROVE  BucketOK(t.buckets[b], Total(A, InBucket(hs, H \ {h}, b)))
  <2> DEFINE I == InBucket(hs, H, b)
             J == InBucket(hs, H \ {h}, b)
  <2>1. BucketOK(s.buckets[b], Total(A, I))
    BY DEF Balanced
  <2>2. I \in SUBSET DOMAIN hs /\ J \in SUBSET I
    BY DEF InBucket
  <2>3. Total(A, I) \in Nat /\ Total(A, J) \in Nat /\ Total(A, J) <= Total(A, I)
    BY <2>2, HtlcTotals
  <2>4. CASE t.buckets[b] = s.buckets[b]
    BY <2>1, <2>3, <2>4 DEF BucketOK
  <2>5. CASE /\ b = hs[h].bucket
             /\ t.buckets[b] = [s.buckets[b] EXCEPT !.failed = @ + hs[h].amount]
    <3>1. h \in I /\ J = I \ {h}
      BY <2>5 DEF InBucket
    <3>2. Total(A, I) = hs[h].amount + Total(A, I \ {h})
      BY <2>2, <3>1, HtlcTotals
    <3>3. Total(A, J) = Total(A, I) - hs[h].amount
      <4>1. Total(A, I) = hs[h].amount + Total(A, J)
        BY <3>1, <3>2
      <4> HIDE DEF A, I, J
      <4> QED BY <1>1, <2>3, <4>1
    <3>4. /\ t.buckets[b].sent = s.buckets[b].sent
          /\ t.buckets[b].failed = s.buckets[b].failed + hs[h].amount
          /\ t.buckets[b] \in [sent : Nat \ {0}, failed : Nat]
      BY <1>1, <2>1, <2>5 DEF BucketOK
    <3>5. s.buckets[b].failed + Total(A, I) <= s.buckets[b].sent
          /\ s.buckets[b].failed \in Nat /\ s.buckets[b].sent \in Nat
      BY <2>1 DEF BucketOK
    <3> HIDE DEF A, I, J
    <3>6. BucketOK(t.buckets[b], Total(A, J))
      BY <1>1, <2>3, <3>3, <3>4, <3>5 DEF BucketOK
    <3> QED BY <3>6 DEF J
  <2> QED BY <2>4, <2>5
<1> QED BY <1>2, <1>3 DEF Balanced

\* on_htlc_fulfilled
LEMMA FulfilledBalanced ==
    ASSUME NEW hs, Sendable(hs), NEW H \in SUBSET DOMAIN hs, NEW h \in H,
           NEW s, IsSession(s), Balanced(s, H, hs), NEW success \in BOOLEAN
    PROVE  Balanced(Put(s, success, hs[h].amount), H \ {h}, hs)
<1> DEFINE log == [success |-> success, amount |-> hs[h].amount]
           t == Put(s, success, hs[h].amount)
<1>1. hs[h].amount \in Nat \ {0} /\ log \in Log /\ s.queue \in Seq(Log)
  <2>1. hs[h].amount \in Nat \ {0}
    BY HtlcTotals
  <2> QED BY <2>1 DEF Log, IsSession
<1>2. t.amount = s.amount /\ t.buckets = s.buckets /\ t.queue = Append(s.queue, log)
  BY DEF Put, IsSession
<1>3. /\ TotalOf(Amounts(t.queue)) = TotalOf(Amounts(s.queue)) + log.amount
      /\ TotalOf(Amounts(s.queue)) \in Int /\ TotalOf(Propagated(s.buckets)) \in Int
  <2>1. TotalOf(Amounts(s.queue)) \in Nat /\ TotalOf(Propagated(s.buckets)) \in Nat
    BY BalancedTypes
  <2>2. TotalOf(Amounts(Append(s.queue, log))) = TotalOf(Amounts(s.queue)) + log.amount
    BY <1>1, QueueTotals
  <2> QED BY <1>2, <2>1, <2>2
<1>4. \A i \in DOMAIN t.queue : t.queue[i].amount > 0
  <2>1. \A i \in DOMAIN s.queue : s.queue[i].amount > 0
    BY DEF Balanced
  <2>2. log.amount > 0
    BY <1>1
  <2> HIDE DEF log, t
  <2> QED BY <1>1, <1>2, <2>1, <2>2
<1> HIDE DEF t
<1>5. /\ TotalOf(Amounts(t.queue)) + TotalOf(Propagated(t.buckets)) =
             TotalOf(Amounts(s.queue)) + TotalOf(Propagated(s.buckets)) + hs[h].amount
      /\ TotalOf(Amounts(t.queue)) \in Int /\ TotalOf(Propagated(t.buckets)) \in Int
  BY <1>1, <1>2, <1>3
<1> QED BY <1>2, <1>4, <1>5, ResolvedBalanced DEF t

\* on_htlc_failed
LEMMA FailedBalanced ==
    ASSUME NEW hs, Sendable(hs), NEW H \in SUBSET DOMAIN hs, NEW h \in H,
           NEW s, IsSession(s), Balanced(s, H, hs)
    PROVE  Balanced(on_htlc_fail(s, hs[h]), H \ {h}, hs)
<1> DEFINE x == hs[h].amount
           b == hs[h].bucket
           counted == [s EXCEPT !.buckets[b].failed = @ + x]
           t == on_htlc_fail(s, hs[h])
<1>1. CASE b \notin DOMAIN s.buckets
  BY <1>1, FulfilledBalanced DEF on_htlc_fail
<1>2. CASE b \in DOMAIN s.buckets
  <2> DEFINE d == [s.buckets[b] EXCEPT !.failed = @ + x]
             I == InBucket(hs, H, b)
             A == Amounts(hs)
             B == s.buckets
             C == counted.buckets
             sent == B[b].sent
             failed == B[b].failed
  <2>1. /\ s.queue \in Seq(Log) /\ IsFiniteSet(DOMAIN B) /\ \A c \in DOMAIN B : B[c] \in Bucket
        /\ TotalOf(Amounts(s.queue)) \in Nat /\ TotalOf(Propagated(B)) \in Nat
    BY BalancedTypes
  <2>2. x \in Nat \ {0} /\ x <= Total(A, I) /\ Total(A, I) \in Nat
    <3>1. I \in SUBSET DOMAIN hs /\ h \in I /\ I \ {h} \in SUBSET I
      BY DEF InBucket
    <3>2. /\ x \in Nat \ {0} /\ Total(A, I) \in Nat /\ Total(A, I \ {h}) \in Nat
          /\ Total(A, I) = x + Total(A, I \ {h})
      BY <3>1, HtlcTotals
    <3> HIDE DEF A, I, x
    <3> QED BY <3>2
  <2>3. /\ sent \in Nat \ {0} /\ failed \in Nat /\ failed + Total(A, I) <= sent
        /\ B[b] \in Bucket
    BY <1>2 DEF Balanced, BucketOK, Bucket
  <2>4. failed < sent /\ failed + x <= sent /\ failed + x \in Nat
    <3> HIDE DEF failed, sent, A, I, x
    <3> QED BY <2>2, <2>3
  <2>5. d = [sent |-> sent, failed |-> failed + x] /\ d \in Bucket
    BY <2>3, <2>4 DEF Bucket
  <2>6. /\ counted.queue = s.queue /\ counted.amount = s.amount
        /\ C = [c \in DOMAIN B \cup {b} |-> IF c = b THEN d ELSE B[c]]
        /\ DOMAIN C = DOMAIN B /\ C[b] = d /\ \A c \in DOMAIN B : c # b => C[c] = B[c]
    <3>1. /\ counted.queue = s.queue /\ counted.amount = s.amount
          /\ C = [B EXCEPT ![b] = d]
      BY DEF IsSession
    <3> HIDE DEF counted, d
    <3> QED BY <1>2, <3>1
  <2>7. TotalOf(Propagated(C)) = TotalOf(Propagated(B)) - failed + ((failed + x) % sent)
    <3>1. TotalOf(Propagated(C)) = TotalOf(Propagated(B)) - (failed % sent) + (d.failed % d.sent)
      <4> HIDE DEF C, d
      <4>1. TotalOf(Propagated(C)) = TotalOf(Propagated(B))
                - (IF b \in DOMAIN B THEN B[b].failed % B[b].sent ELSE 0) + (d.failed % d.sent)
        <5>1. ChangedAt(C, B, b, d)
          BY <2>6, <1>2 DEF ChangedAt
        <5>2. TotalOf(Propagated(C)) = TotalOf(Propagated(B)) - Counted(B, b) + (d.failed % d.sent)
          BY <2>1, <2>5, <5>1, BucketTotals
        <5> QED BY <5>2 DEF Counted
      <4> QED BY <1>2, <4>1
    <3>2. failed % sent = failed
      <4> HIDE DEF failed, sent
      <4> QED BY <2>3, <2>4, Remainders
    <3>3. d.failed % d.sent = (failed + x) % sent
      BY <2>5
    <3> HIDE DEF C, d, failed, sent, x, B
    <3> QED BY <3>1, <3>2, <3>3
  <2>8. \A i \in DOMAIN s.queue : s.queue[i].amount > 0
    BY DEF Balanced
  <2>9. CASE failed + x # sent
    <3>1. t = counted
      BY <1>2, <2>5, <2>6, <2>9 DEF on_htlc_fail
    <3>2. (failed + x) % sent = failed + x
      <4> HIDE DEF failed, sent, x
      <4> QED BY <2>3, <2>4, <2>9, Remainders
    <3>3. /\ TotalOf(Amounts(counted.queue)) + TotalOf(Propagated(C)) =
                 TotalOf(Amounts(s.queue)) + TotalOf(Propagated(B)) + x
          /\ TotalOf(Propagated(C)) \in Int /\ TotalOf(Amounts(counted.queue)) \in Int
      <4> HIDE DEF C, counted, failed, sent, x, B
      <4> QED BY <2>1, <2>2, <2>3, <2>6, <2>7, <3>2
    <3>4. Balanced(counted, H \ {h}, hs)
      <4> HIDE DEF counted
      <4> QED BY <2>6, <2>8, <3>3, ResolvedBalanced, Zenon
    <3> QED BY <3>1, <3>4
  <2>10. CASE failed + x = sent
    <3> DEFINE log == [success |-> FALSE, amount |-> sent]
               p == Put(counted, FALSE, sent)
    <3>1. t = p
      BY <1>2, <2>5, <2>6, <2>10 DEF on_htlc_fail
    <3>2. (failed + x) % sent = 0
      <4> HIDE DEF failed, sent, x
      <4> QED BY <2>3, <2>10, Remainders
    <3>3. p.amount = s.amount /\ p.buckets = C /\ p.queue = Append(s.queue, log)
      <4>1. DOMAIN counted = DOMAIN s
        OBVIOUS
      <4> HIDE DEF counted
      <4> QED BY <2>6, <4>1 DEF Put, IsSession
    <3>4. log \in Log /\ log.amount = sent
      BY <2>3 DEF Log
    <3>5. TotalOf(Amounts(p.queue)) = TotalOf(Amounts(s.queue)) + sent
      <4> HIDE DEF p, log, sent
      <4> QED BY <2>1, <3>3, <3>4, QueueTotals
    <3>6. \A i \in DOMAIN p.queue : p.queue[i].amount > 0
      <4>1. log.amount > 0
        BY <2>3
      <4> HIDE DEF log, p
      <4> QED BY <2>1, <2>8, <3>3, <4>1
    <3>7. /\ TotalOf(Amounts(p.queue)) + TotalOf(Propagated(C)) =
                 TotalOf(Amounts(s.queue)) + TotalOf(Propagated(B)) + x
          /\ TotalOf(Propagated(C)) \in Int /\ TotalOf(Amounts(p.queue)) \in Int
      <4>1. TotalOf(Propagated(C)) = TotalOf(Propagated(B)) - failed
        <5> HIDE DEF C, failed, sent, x, B
        <5> QED BY <2>1, <2>3, <2>7, <3>2
      <4> DEFINE qs == TotalOf(Amounts(s.queue))
                 bs == TotalOf(Propagated(B))
      <4>2. qs \in Int /\ bs \in Int /\ x \in Int /\ failed \in Int
        BY <2>1, <2>2, <2>3
      <4>3. TotalOf(Amounts(p.queue)) = qs + (failed + x) /\ TotalOf(Propagated(C)) = bs - failed
        BY <2>10, <3>5, <4>1
      <4> HIDE DEF C, p, failed, sent, x, B, qs, bs
      <4>4. /\ TotalOf(Amounts(p.queue)) + TotalOf(Propagated(C)) = qs + bs + x
            /\ TotalOf(Propagated(C)) \in Int /\ TotalOf(Amounts(p.queue)) \in Int
        BY <4>2, <4>3
      <4> QED BY <4>4 DEF qs, bs
    <3>8. Balanced(p, H \ {h}, hs)
      <4>1. \A c \in DOMAIN s.buckets :
                \/ p.buckets[c] = s.buckets[c]
                \/ c = hs[h].bucket /\ p.buckets[c] = [s.buckets[c] EXCEPT !.failed = @ + hs[h].amount]
        <5> HIDE DEF p, counted
        <5> QED BY <2>6, <3>3
      <4>2. p.amount = s.amount /\ DOMAIN p.buckets = DOMAIN s.buckets /\ p.buckets = C
        BY <2>6, <3>3, Zenon
      <4> HIDE DEF counted, p
      <4> QED BY <3>6, <3>7, <4>1, <4>2, ResolvedBalanced
    <3> QED BY <3>1, <3>8
  <2> QED BY <2>9, <2>10
<1> QED BY <1>1, <1>2

\* wait_for_one_htlc_to_resolve
LEMMA WaitBalanced ==
    ASSUME NEW hs, Sendable(hs), NEW H \in SUBSET DOMAIN hs,
           NEW s, IsSession(s), Balanced(s, H, hs), s.queue # <<>>
    PROVE  /\ Balanced(wait_for_one_htlc_to_resolve(s), H, hs)
           /\ Head(s.queue).amount \in Nat \ {0} /\ Head(s.queue) \in Log
           /\ s.amount >= Head(s.queue).amount
           /\ wait_for_one_htlc_to_resolve(s).amount = s.amount - Head(s.queue).amount
           /\ wait_for_one_htlc_to_resolve(s).queue = Tail(s.queue)
<1> DEFINE t == wait_for_one_htlc_to_resolve(s)
           log == Head(s.queue)
           A == Amounts(hs)
<1>1. t.queue = Tail(s.queue) /\ t.amount = s.amount - log.amount /\ t.buckets = s.buckets
  BY DEF wait_for_one_htlc_to_resolve, IsSession
<1>2. /\ s.queue \in Seq(Log) /\ TotalOf(Propagated(s.buckets)) \in Nat /\ Total(A, H) \in Nat
      /\ TotalOf(Amounts(s.queue)) \in Nat
  BY BalancedTypes
<1>3. /\ log \in Log /\ log.amount > 0 /\ Tail(s.queue) \in Seq(Log)
      /\ \A i \in DOMAIN Tail(s.queue) : Tail(s.queue)[i].amount > 0
  <2>1. log = s.queue[1] /\ 1 \in DOMAIN s.queue /\ Tail(s.queue) \in Seq(Log)
        /\ \A i \in DOMAIN Tail(s.queue) : i + 1 \in DOMAIN s.queue /\ Tail(s.queue)[i] = s.queue[i + 1]
    BY <1>2
  <2> QED BY <1>2, <2>1 DEF Balanced
<1>4. log.amount \in Nat \ {0}
  BY <1>3 DEF Log
<1>5. TotalOf(Amounts(s.queue)) = log.amount + TotalOf(Amounts(Tail(s.queue)))
      /\ TotalOf(Amounts(Tail(s.queue))) \in Nat
  BY <1>2, <1>3, QueueTotals, QueueBounds
<1> HIDE DEF t, log, A
<1>6. /\ t.amount = Total(A, H) + TotalOf(Amounts(t.queue)) + TotalOf(Propagated(t.buckets))
      /\ s.amount >= log.amount
  BY <1>1, <1>2, <1>4, <1>5 DEF Balanced, A
<1>7. Balanced(t, H, hs)
  BY <1>1, <1>3, <1>6 DEF Balanced, A
<1> QED BY <1>1, <1>3, <1>4, <1>6, <1>7 DEF t, log

\* Sums over the open htlcs, with one more
Appended(gs, hs, e) ==
    LET id == Len(hs) + 1
    IN  /\ Sendable(gs) /\ Len(gs) = id /\ DOMAIN gs = DOMAIN hs \cup {id} /\ id \notin DOMAIN hs
        /\ gs[id] = e /\ \A h \in DOMAIN hs : gs[h] = hs[h]
        /\ \A H \in SUBSET DOMAIN hs :
              /\ Total(Amounts(gs), H) = Total(Amounts(hs), H)
              /\ Total(Amounts(gs), H \cup {id}) = e.amount + Total(Amounts(hs), H)

LEMMA AppendedTotals ==
    ASSUME NEW hs, Sendable(hs), NEW e \in Htlc, e.amount > 0, e.bucket \in 1 .. Len(hs) + 1
    PROVE  Appended(Append(hs, e), hs, e)
<1> DEFINE gs == Append(hs, e)
           id == Len(hs) + 1
<1>1. hs \in Seq(Htlc) /\ DOMAIN hs = 1 .. Len(hs) /\ Len(hs) \in Nat
  BY DEF Sendable
<1>2. /\ gs \in Seq(Htlc) /\ Len(gs) = id /\ DOMAIN gs = DOMAIN hs \cup {id} /\ id \notin DOMAIN hs
      /\ gs[id] = e /\ \A h \in DOMAIN hs : gs[h] = hs[h]
  BY <1>1
<1> HIDE DEF gs
<1>3. Sendable(gs)
  <2>1. ASSUME NEW h \in DOMAIN gs PROVE gs[h].amount > 0 /\ gs[h].bucket \in 1 .. Len(gs)
    <3>1. CASE h = id
      BY <1>1, <1>2, <3>1
    <3>2. CASE h \in DOMAIN hs
      <4>1. hs[h].amount > 0 /\ hs[h].bucket \in 1 .. Len(hs)
        BY <3>2 DEF Sendable
      <4> QED BY <1>1, <1>2, <3>2, <4>1
    <3> QED BY <1>2, <3>1, <3>2
  <2> QED BY <1>2, <2>1 DEF Sendable
<1>4. ASSUME NEW H \in SUBSET DOMAIN hs
      PROVE  /\ Total(Amounts(gs), H) = Total(Amounts(hs), H)
             /\ Total(Amounts(gs), H \cup {id}) = e.amount + Total(Amounts(hs), H)
  <2>1. OfInts(Amounts(hs), H) /\ \A h \in H : Amounts(hs)[h] = Amounts(gs)[h]
    BY <1>2, HtlcTotals DEF Amounts
  <2>2. OfInts(Amounts(gs), H) /\ Total(Amounts(gs), H) = Total(Amounts(hs), H)
    BY <2>1, TotalSame
  <2>3. id \notin H /\ Amounts(gs)[id] = e.amount /\ e.amount \in Int
    BY <1>2 DEF Amounts, Htlc
  <2>4. Total(Amounts(gs), H \cup {id}) = Amounts(gs)[id] + Total(Amounts(gs), H)
    BY <2>2, <2>3, TotalWith
  <2> QED BY <2>2, <2>3, <2>4
<1>5. Appended(gs, hs, e)
  BY <1>2, <1>3, <1>4 DEF Appended
<1> QED BY <1>5 DEF gs

\* What add_new_htlc does to the buckets
Added(t, s, e) ==
    /\ t.amount = s.amount + e.amount /\ t.queue = s.queue
    /\ t.buckets = IF mode = "gossip" \/ e.whole THEN s.buckets
                   ELSE [x \in DOMAIN s.buckets \union {e.bucket} |->
                           IF x = e.bucket
                           THEN [bucket_of(s, e.bucket) EXCEPT !.sent = @ + e.amount]
                           ELSE s.buckets[x]]

LEMMA AddedFields ==
    ASSUME NEW s, IsSession(s), NEW e \in Htlc
    PROVE  Added(add_new_htlc(s, e), s, e)
<1> DEFINE b == e.bucket
           added == [bucket_of(s, b) EXCEPT !.sent = @ + e.amount]
           B == IF mode = "gossip" \/ e.whole THEN s.buckets
                ELSE [x \in DOMAIN s.buckets \union {b} |-> IF x = b THEN added ELSE s.buckets[x]]
           t == add_new_htlc(s, e)
<1>1. t = [s EXCEPT !.n = s.n + 1, !.amount = s.amount + e.amount, !.buckets = B]
  BY DEF add_new_htlc
<1> HIDE DEF B
<1>2. t.amount = s.amount + e.amount /\ t.queue = s.queue /\ t.buckets = B
  BY <1>1 DEF IsSession
<1> QED BY <1>2 DEF B, Added

LEMMA AddBalanced ==
    ASSUME NEW hs, Sendable(hs), NEW H \in SUBSET DOMAIN hs,
           NEW s, IsSession(s), Balanced(s, H, hs), mode = "gossip" => DOMAIN s.buckets = {},
           NEW e \in Htlc, e.amount > 0, e.bucket \in 1 .. Len(hs) + 1,
           mode # "gossip" =>
               IF e.whole THEN e.bucket \notin DOMAIN s.buckets
               ELSE IF e.bucket \in DOMAIN s.buckets THEN s.buckets[e.bucket].failed = 0
               ELSE InBucket(hs, H, e.bucket) = {}
    PROVE  Balanced(add_new_htlc(s, e), H \cup {Len(hs) + 1}, Append(hs, e))
<1> DEFINE b == e.bucket
           t == add_new_htlc(s, e)
           B == s.buckets
           C == t.buckets
           gs == Append(hs, e)
           id == Len(hs) + 1
           K == H \cup {id}
           A == Amounts(hs)
           d == [sent |-> (IF b \in DOMAIN B THEN B[b].sent ELSE 0) + e.amount, failed |-> 0]
<1>1. /\ IsFiniteSet(DOMAIN B) /\ \A c \in DOMAIN B : B[c] \in Bucket
      /\ Total(A, H) \in Nat /\ TotalOf(Amounts(s.queue)) \in Nat /\ TotalOf(Propagated(B)) \in Nat
  BY BalancedTypes
<1>2. /\ Sendable(gs) /\ Len(gs) = id /\ DOMAIN gs = DOMAIN hs \cup {id} /\ id \notin DOMAIN hs
      /\ gs[id] = e /\ \A h \in DOMAIN hs : gs[h] = hs[h]
      /\ Total(Amounts(gs), K) = e.amount + Total(A, H)
      /\ \A I \in SUBSET DOMAIN hs : /\ Total(Amounts(gs), I) = Total(A, I)
                                     /\ Total(Amounts(gs), I \cup {id}) = e.amount + Total(A, I)
  <2>1. Appended(gs, hs, e)
    BY AppendedTotals
  <2> HIDE DEF gs
  <2> QED BY <2>1 DEF Appended
<1>3. e.amount \in Nat \ {0} /\ Len(hs) \in Nat
  BY DEF Htlc, Sendable
<1>4. /\ t.amount = s.amount + e.amount /\ t.queue = s.queue
      /\ C = IF mode = "gossip" \/ e.whole THEN B
             ELSE [x \in DOMAIN B \union {b} |->
                     IF x = b THEN [bucket_of(s, b) EXCEPT !.sent = @ + e.amount] ELSE B[x]]
  <2>1. Added(t, s, e)
    BY AddedFields
  <2> HIDE DEF t
  <2> QED BY <2>1 DEF Added
<1>5. ASSUME NEW c PROVE InBucket(hs, H, c) \in SUBSET DOMAIN hs
  BY DEF InBucket
<1>6. ASSUME NEW c, c # b PROVE Total(Amounts(gs), InBucket(gs, K, c)) = Total(A, InBucket(hs, H, c))
  <2>1. InBucket(gs, K, c) = InBucket(hs, H, c)
    BY <1>2, <1>6 DEF InBucket
  <2>2. LET I == InBucket(hs, H, c) IN Total(Amounts(gs), I) = Total(A, I)
    BY <1>2, <1>5
  <2> QED BY <2>1, <2>2
<1>7. Total(Amounts(gs), InBucket(gs, K, b)) = e.amount + Total(A, InBucket(hs, H, b))
  <2>1. InBucket(gs, K, b) = InBucket(hs, H, b) \cup {id}
    BY <1>2 DEF InBucket
  <2>2. LET I == InBucket(hs, H, b) IN Total(Amounts(gs), I \cup {id}) = e.amount + Total(A, I)
    BY <1>2, <1>5
  <2> QED BY <2>1, <2>2
<1>8. \A c \in DOMAIN B : c # b => BucketOK(B[c], Total(Amounts(gs), InBucket(gs, K, c)))
  BY <1>6 DEF Balanced
<1>9. CASE mode = "gossip" \/ e.whole
  <2>1. C = B
    BY <1>4, <1>9
  <2>2. b \notin DOMAIN B
    BY <1>9
  <2>3. \A c \in DOMAIN C : BucketOK(C[c], Total(Amounts(gs), InBucket(gs, K, c)))
    <3> HIDE DEF t, gs, K, C
    <3> QED BY <1>8, <2>1, <2>2
  <2>4. t.amount = Total(Amounts(gs), K) + TotalOf(Amounts(t.queue)) + TotalOf(Propagated(C))
    <3>1. s.amount = Total(A, H) + TotalOf(Amounts(s.queue)) + TotalOf(Propagated(B))
      BY DEF Balanced
    <3> HIDE DEF A, B, C, gs, K, t
    <3> QED BY <1>1, <1>2, <1>3, <1>4, <2>1, <3>1
  <2>5. DOMAIN C \subseteq 1 .. Len(gs)
    <3>1. DOMAIN B \subseteq 1 .. Len(hs)
      BY DEF Balanced
    <3> HIDE DEF B, C, gs
    <3> QED BY <1>2, <1>3, <2>1, <3>1
  <2>6. \A i \in DOMAIN t.queue : t.queue[i].amount > 0
    BY <1>4 DEF Balanced
  <2> HIDE DEF t, gs, K
  <2>7. Balanced(t, K, gs)
    BY <2>3, <2>4, <2>5, <2>6 DEF Balanced
  <2> QED BY <2>7 DEF t, gs, K
<1>10. CASE mode # "gossip" /\ ~e.whole
  <2>1. /\ d \in Bucket /\ C = [c \in DOMAIN B \cup {b} |-> IF c = b THEN d ELSE B[c]]
        /\ b \in DOMAIN B => B[b].failed = 0
        /\ b \notin DOMAIN B => InBucket(hs, H, b) = {}
    <3>1. [bucket_of(s, b) EXCEPT !.sent = @ + e.amount] = d
      <4>1. CASE b \in DOMAIN B
        <5>1. B[b] \in Bucket /\ B[b].failed = 0
          BY <1>1, <1>10, <4>1
        <5> QED BY <4>1, <5>1 DEF bucket_of, Bucket
      <4>2. CASE b \notin DOMAIN B
        BY <4>2 DEF bucket_of
      <4> QED BY <4>1, <4>2
    <3>2. C = [c \in DOMAIN B \cup {b} |->
                 IF c = b THEN [bucket_of(s, b) EXCEPT !.sent = @ + e.amount] ELSE B[c]]
      BY <1>4, <1>10
    <3>3. d \in Bucket
      <4>1. b \in DOMAIN B => B[b].sent \in Nat
        BY <1>1 DEF Bucket
      <4> QED BY <1>3, <4>1 DEF Bucket
    <3>4. /\ b \in DOMAIN B => B[b].failed = 0
          /\ b \notin DOMAIN B => InBucket(hs, H, b) = {}
      BY <1>10
    <3> QED BY <3>1, <3>2, <3>3, <3>4
  <2>2. TotalOf(Propagated(C)) = TotalOf(Propagated(B))
    <3>1. TotalOf(Propagated(C)) = TotalOf(Propagated(B))
              - (IF b \in DOMAIN B THEN B[b].failed % B[b].sent ELSE 0) + (d.failed % d.sent)
      <4>1. ChangedAt(C, B, b, d)
        BY <2>1 DEF ChangedAt
      <4> HIDE DEF C, d
      <4>2. TotalOf(Propagated(C)) = TotalOf(Propagated(B)) - Counted(B, b) + (d.failed % d.sent)
        BY <1>1, <2>1, <4>1, BucketTotals
      <4> QED BY <4>2 DEF Counted
    <3>2. (IF b \in DOMAIN B THEN B[b].failed % B[b].sent ELSE 0) = 0
      BY <1>1, <2>1, Remainders DEF Bucket
    <3>3. d.failed % d.sent = 0
      <4>1. d.failed = 0 /\ d.sent \in Nat \ {0}
        BY <2>1 DEF Bucket
      <4> HIDE DEF d
      <4> QED BY <4>1, Remainders
    <3> HIDE DEF C, d, B
    <3> QED BY <1>1, <3>1, <3>2, <3>3
  <2>3. t.amount = Total(Amounts(gs), K) + TotalOf(Amounts(t.queue)) + TotalOf(Propagated(C))
    <3>1. s.amount = Total(A, H) + TotalOf(Amounts(s.queue)) + TotalOf(Propagated(B))
      BY DEF Balanced
    <3> HIDE DEF A, B, C, gs, K, t
    <3> QED BY <1>1, <1>2, <1>3, <1>4, <2>2, <3>1
  <2>4. BucketOK(d, Total(Amounts(gs), InBucket(gs, K, b)))
    <3>1. CASE b \in DOMAIN B
      <4>1. BucketOK(B[b], Total(A, InBucket(hs, H, b))) /\ B[b].failed = 0
        BY <2>1, <3>1 DEF Balanced
      <4>2. Total(A, InBucket(hs, H, b)) \in Nat
        BY <1>5, HtlcTotals
      <4>3. d.sent = B[b].sent + e.amount /\ d.failed = 0 /\ d \in [sent : Nat \ {0}, failed : Nat]
        BY <2>1, <3>1 DEF Bucket
      <4> HIDE DEF A, B, d, gs, K
      <4> QED BY <1>3, <1>7, <4>1, <4>2, <4>3 DEF BucketOK
    <3>2. CASE b \notin DOMAIN B
      <4>1. Total(A, InBucket(hs, H, b)) = 0
        BY <1>5, <2>1, <3>2, HtlcTotals
      <4>2. d.sent = e.amount /\ d.failed = 0 /\ d \in [sent : Nat \ {0}, failed : Nat]
        BY <1>3, <2>1, <3>2 DEF Bucket
      <4> HIDE DEF A, B, d, gs, K
      <4> QED BY <1>3, <1>7, <4>1, <4>2 DEF BucketOK
    <3> QED BY <3>1, <3>2
  <2>5. \A c \in DOMAIN C : BucketOK(C[c], Total(Amounts(gs), InBucket(gs, K, c)))
    <3>1. \A c \in DOMAIN C : (c = b /\ C[c] = d) \/ (c # b /\ c \in DOMAIN B /\ C[c] = B[c])
      BY <2>1
    <3> HIDE DEF t, gs, K, C, d, B
    <3> QED BY <1>8, <2>4, <3>1
  <2>6. DOMAIN C \subseteq 1 .. Len(gs)
    <3>1. DOMAIN B \subseteq 1 .. Len(hs) /\ DOMAIN C = DOMAIN B \cup {b}
      BY <2>1 DEF Balanced
    <3> HIDE DEF B, C, gs
    <3> QED BY <1>2, <1>3, <3>1
  <2> QED BY <1>4, <2>3, <2>5, <2>6 DEF Balanced
<1> QED BY <1>9, <1>10

\* What a session that is Balanced, and what is about to be sent, say together
Ready(hs, H, s) ==
    /\ Sendable(hs) /\ H \in SUBSET DOMAIN hs
    /\ IsSession(s) /\ Balanced(s, H, hs) /\ (mode = "gossip" => DOMAIN s.buckets = {})

\* The first of the htlcs that are about to be sent
LEMMA SentAmounts ==
    ASSUME NEW hs, NEW H, NEW s, Ready(hs, H, s),
           NEW r \in Seq(Htlc), r # <<>>, RoutesOK(r, s, H, hs)
    PROVE  LET e == Head(r)
               t == add_new_htlc(s, e)
           IN  /\ e \in Htlc /\ e.amount > 0 /\ e.state = "sent" /\ e.bucket \in 1 .. Len(hs) + 1
               /\ Tail(r) \in Seq(Htlc) /\ Len(Tail(r)) = Len(r) - 1
               /\ \A i \in 1 .. Len(r) - 1 : Tail(r)[i] = r[i + 1] /\ i + 1 \in DOMAIN r
               /\ 1 \in DOMAIN r /\ r[1] = e
               /\ t.amount + TotalOf(Amounts(Tail(r))) = AmountToPay
               /\ t.amount <= AmountToPay
               /\ Len(r) = 1 => t.amount = AmountToPay
<1> DEFINE e == Head(r)
           t == add_new_htlc(s, e)
           q == Tail(r)
           a == Amounts(r)
           c == Amounts(q)
<1>1. /\ e \in Htlc /\ e = r[1] /\ 1 \in DOMAIN r /\ q \in Seq(Htlc) /\ Len(q) = Len(r) - 1 /\ Len(r) \in Nat
      /\ Len(hs) \in Nat /\ DOMAIN r = 1 .. Len(r) /\ Len(r) # 0
  BY DEF Ready, Sendable
<1>2. \A i \in 1 .. Len(r) - 1 : q[i] = r[i + 1] /\ i + 1 \in DOMAIN r
  BY <1>1
<1>3. e.amount > 0 /\ e.state = "sent" /\ e.bucket \in 1 .. Len(hs) + 1
  BY <1>1 DEF RoutesOK
<1>4. \A i \in DOMAIN r : r[i] \in Htlc /\ r[i].amount \in Int /\ r[i].amount > 0
  <2>1. \A i \in DOMAIN r : r[i] \in Htlc
    BY <1>1
  <2>2. \A i \in DOMAIN r : r[i].amount > 0
    BY DEF RoutesOK
  <2> QED BY <2>1, <2>2 DEF Htlc
<1>5. a \in Seq(Int) /\ Len(a) = Len(r) /\ \A i \in DOMAIN r : a[i] = r[i].amount
  BY <1>1, <1>4 DEF Amounts
<1>6. /\ DOMAIN q = 1 .. Len(q) /\ Len(q) \in Nat
      /\ \A i \in 1 .. Len(q) : q[i] \in Htlc /\ q[i].amount \in Int /\ q[i].amount > 0
  BY <1>1, <1>2, <1>4
<1>7. c \in Seq(Int) /\ Len(c) = Len(q) /\ \A i \in 1 .. Len(q) : c[i] = q[i].amount
  BY <1>6 DEF Amounts
<1>0. IsSession(s)
  BY DEF Ready
<1> HIDE DEF a, c, q, e
<1>8. t.amount = s.amount + e.amount /\ e.amount \in Int /\ s.amount \in Int
  <2>1. Added(t, s, e)
    BY <1>0, <1>1, AddedFields
  <2>2. e.amount \in Int /\ s.amount \in Int
    BY <1>0, <1>1, <1>4 DEF IsSession
  <2> HIDE DEF t
  <2> QED BY <2>1, <2>2 DEF Added
<1> HIDE DEF t
<1>9. c = Tail(a)
  <2>1. \A i \in 1 .. Len(a) - 1 : c[i] = a[i + 1]
    BY <1>1, <1>2, <1>5, <1>7
  <2>2. a # <<>>
    BY <1>1, <1>5
  <2> QED BY <1>1, <1>5, <1>7, <2>1, <2>2, TailIs
<1>10. TotalOf(a) = e.amount + TotalOf(c) /\ TotalOf(c) \in Int
  <2>1. a # <<>> /\ Head(a) = a[1] /\ a[1] = e.amount
    BY <1>1, <1>5
  <2> QED BY <1>5, <1>7, <1>9, <2>1, TailTotal, SequenceTotal
<1>11. TotalOf(c) \in Nat
  <2>1. DOMAIN c = 1 .. Len(q) /\ \A i \in DOMAIN c : c[i] \in Nat
    BY <1>6, <1>7
  <2>2. IsFiniteSet(DOMAIN c)
    BY <1>6, <2>1, FS_Interval
  <2> QED BY <2>1, <2>2, TotalOfNaturals DEF TotalOf
<1>12. s.amount + TotalOf(a) = AmountToPay
  BY DEF RoutesOK, a
<1>13. t.amount + TotalOf(c) = AmountToPay /\ t.amount <= AmountToPay
  BY <1>8, <1>10, <1>11, <1>12
<1>14. Len(r) = 1 => t.amount = AmountToPay
  <2>1. Len(r) = 1 => c = <<>>
    BY <1>1, <1>7
  <2>2. Len(r) = 1 => TotalOf(c) = 0
    BY <1>7, <2>1, SequenceTotal
  <2> QED BY <1>8, <1>13, <2>2
<1> QED BY <1>1, <1>2, <1>3, <1>13, <1>14 DEF a, c, q, t, e

LEMMA SentBalanced ==
    ASSUME NEW hs, NEW H, NEW s, Ready(hs, H, s),
           NEW r \in Seq(Htlc), r # <<>>, RoutesOK(r, s, H, hs)
    PROVE  LET t == add_new_htlc(s, Head(r))
               K == H \cup {Len(hs) + 1}
               gs == Append(hs, Head(r))
           IN  Sendable(gs) /\ Balanced(t, K, gs) /\ RoutesOK(Tail(r), t, K, gs)
<1> DEFINE e == Head(r)
           t == add_new_htlc(s, e)
           q == Tail(r)
           gs == Append(hs, e)
           id == Len(hs) + 1
           K == H \cup {id}
           B == s.buckets
           C == t.buckets
<1>1. /\ e \in Htlc /\ e.amount > 0 /\ e.state = "sent" /\ e.bucket \in 1 .. Len(hs) + 1
      /\ q \in Seq(Htlc) /\ Len(q) = Len(r) - 1
      /\ \A i \in 1 .. Len(r) - 1 : q[i] = r[i + 1] /\ i + 1 \in DOMAIN r
      /\ 1 \in DOMAIN r /\ r[1] = e
      /\ t.amount + TotalOf(Amounts(q)) = AmountToPay
  BY SentAmounts
<1>2. /\ Sendable(hs) /\ H \in SUBSET DOMAIN hs
      /\ IsSession(s) /\ Balanced(s, H, hs) /\ (mode = "gossip" => DOMAIN B = {})
  BY DEF Ready
<1>3. /\ Sendable(gs) /\ Len(gs) = id /\ id \notin DOMAIN hs /\ gs[id] = e
      /\ \A h \in DOMAIN hs : gs[h] = hs[h]
  <2> HIDE DEF e
  <2>1. Appended(gs, hs, e)
    BY <1>1, <1>2, AppendedTotals
  <2> HIDE DEF gs
  <2> QED BY <2>1 DEF Appended
<1>4. mode # "gossip" =>
        IF e.whole
        THEN /\ e.bucket \notin DOMAIN B
             /\ \A j \in DOMAIN r : r[j].bucket = e.bucket => j = 1
        ELSE IF e.bucket \in DOMAIN B THEN B[e.bucket].failed = 0
             ELSE InBucket(hs, H, e.bucket) = {}
  BY <1>1 DEF RoutesOK
<1>5. Balanced(t, K, gs)
  BY <1>1, <1>2, <1>4, AddBalanced
<1>6. ASSUME mode # "gossip"
      PROVE  /\ DOMAIN C = DOMAIN B \cup (IF e.whole THEN {} ELSE {e.bucket})
             /\ \A c \in DOMAIN B : c # e.bucket \/ e.whole => C[c] = B[c]
             /\ ~e.whole => C[e.bucket].failed = 0
  <2>1. C = IF e.whole THEN B
            ELSE [x \in DOMAIN B \union {e.bucket} |->
                    IF x = e.bucket THEN [bucket_of(s, e.bucket) EXCEPT !.sent = @ + e.amount] ELSE B[x]]
    <3>0. IsSession(s) /\ e \in Htlc
      BY <1>1, <1>2
    <3> HIDE DEF e
    <3>1. C = IF mode = "gossip" \/ e.whole THEN B
              ELSE [x \in DOMAIN B \union {e.bucket} |->
                      IF x = e.bucket THEN [bucket_of(s, e.bucket) EXCEPT !.sent = @ + e.amount] ELSE B[x]]
      <4>1. Added(t, s, e)
        BY <3>0, AddedFields
      <4> HIDE DEF t
      <4> QED BY <4>1 DEF Added
    <3> HIDE DEF C, B
    <3> QED BY <1>6, <3>1
  <2>2. ~e.whole => [bucket_of(s, e.bucket) EXCEPT !.sent = @ + e.amount].failed = 0
    <3>1. e.bucket \in DOMAIN B => B[e.bucket] \in [sent : Int, failed : Int]
      BY <1>2 DEF IsSession
    <3> QED BY <1>4, <1>6, <3>1 DEF bucket_of
  <2> HIDE DEF C, B, e
  <2> QED BY <2>1, <2>2
<1>7. ASSUME NEW i \in DOMAIN q
      PROVE  /\ i + 1 \in DOMAIN r /\ q[i] = r[i + 1] /\ i \in Nat /\ i + 1 # 1
             /\ q[i].bucket \in 1 .. Len(gs) + i
  <2>1. i \in 1 .. Len(r) - 1 /\ i \in Nat
    BY <1>1
  <2>2. r[i + 1].bucket \in 1 .. Len(hs) + (i + 1) /\ Len(hs) \in Nat
    BY <1>1, <1>2, <2>1 DEF RoutesOK, Sendable
  <2>3. q[i] = r[i + 1]
    BY <1>1, <2>1
  <2> HIDE DEF q, gs
  <2> QED BY <1>1, <1>3, <2>1, <2>2, <2>3
<1>8. ASSUME mode # "gossip", NEW i \in DOMAIN q
      PROVE  IF q[i].whole
             THEN /\ q[i].bucket \notin DOMAIN C
                  /\ \A j \in DOMAIN q : q[j].bucket = q[i].bucket => j = i
             ELSE IF q[i].bucket \in DOMAIN C
                  THEN C[q[i].bucket].failed = 0
                  ELSE InBucket(gs, K, q[i].bucket) = {}
  <2>1. i + 1 \in DOMAIN r /\ q[i] = r[i + 1] /\ i \in Nat /\ i + 1 # 1
    BY <1>7, <1>8
  <2>2. IF q[i].whole
        THEN /\ q[i].bucket \notin DOMAIN B
             /\ \A j \in DOMAIN r : r[j].bucket = q[i].bucket => j = i + 1
        ELSE IF q[i].bucket \in DOMAIN B
             THEN B[q[i].bucket].failed = 0
             ELSE InBucket(hs, H, q[i].bucket) = {}
    BY <1>8, <2>1 DEF RoutesOK
  <2>3. CASE q[i].whole
    <3>1. q[i].bucket # e.bucket
      BY <1>1, <2>1, <2>2, <2>3
    <3>2. \A j \in DOMAIN q : q[j].bucket = q[i].bucket => j = i
      <4> SUFFICES ASSUME NEW j \in DOMAIN q, q[j].bucket = q[i].bucket PROVE j = i
        OBVIOUS
      <4>1. j + 1 = i + 1 /\ j \in Nat
        BY <1>7, <2>2, <2>3
      <4> QED BY <2>1, <4>1
    <3> HIDE DEF C, B, e, q
    <3> QED BY <1>6, <1>8, <2>2, <2>3, <3>1, <3>2
  <2>4. CASE ~q[i].whole
    <3>1. e.whole => e.bucket # q[i].bucket
      BY <1>4, <1>8, <2>1
    <3>2. InBucket(gs, K, q[i].bucket) = {} \/ q[i].bucket \in DOMAIN C \/ e.bucket = q[i].bucket
      <4>1. SUFFICES ASSUME e.bucket # q[i].bucket, q[i].bucket \notin DOMAIN C
                     PROVE  InBucket(gs, K, q[i].bucket) = {}
        OBVIOUS
      <4>2. InBucket(hs, H, q[i].bucket) = {}
        BY <1>6, <1>8, <2>2, <2>4, <4>1
      <4> QED BY <1>2, <1>3, <4>1, <4>2 DEF InBucket
    <3> HIDE DEF C, B, e, q, gs, K
    <3> QED BY <1>6, <1>8, <2>2, <2>4, <3>1, <3>2
  <2> QED BY <2>3, <2>4
<1>9. \A i \in DOMAIN q : q[i].amount > 0 /\ q[i].state = "sent"
  BY <1>7 DEF RoutesOK
<1>10. RoutesOK(q, t, K, gs)
  BY <1>1, <1>7, <1>8, <1>9 DEF RoutesOK
<1> QED BY <1>3, <1>5, <1>10

\* A part that is not alone in its bucket is less than what is sent there.
LEMMA PartOfMore ==
    ASSUME NEW k \in Nat, NEW m \in Nat, NEW parts \in [1 .. k -> 1 .. m], NEW G \in SUBSET (1 .. k),
           NEW i \in G, NEW j \in G, i # j
    PROVE  parts[i] # SumOf(Restrict(parts, G))
<1> DEFINE f == Restrict(parts, G)
<1>1. DOMAIN f = G /\ \A x \in G : f[x] = parts[x] /\ f[x] \in Nat \ {0}
  BY DEF Restrict
<1>2. IsFiniteSet(G)
  <2>1. IsFiniteSet(1 .. k)
    BY FS_Interval
  <2> QED BY <2>1, FS_Subset
<1> HIDE DEF f
<1>3. OfInts(f, G)
  BY <1>1, <1>2 DEF OfInts
<1>4. Total(f, G) = f[i] + Total(f, G \ {i}) /\ OfInts(f, G \ {i})
  BY <1>3, TotalSplit
<1>5. Total(f, G \ {i}) = f[j] + Total(f, (G \ {i}) \ {j})
  BY <1>4, TotalSplit
<1>6. Total(f, (G \ {i}) \ {j}) \in Nat
  <2>1. \A T \in SUBSET G : Total(f, T) \in Nat
    BY <1>1, <1>2, TotalOfNaturals
  <2> QED BY <2>1
<1>7. SumOf(f) = Total(f, G)
  BY <1>1, SumIsTotal DEF TotalOf
<1> QED BY <1>1, <1>4, <1>5, <1>6, <1>7 DEF f

\* create_routes_for_payment splits what is in no log into buckets of their own.
LEMMA CreatedRoutes ==
    ASSUME NEW hs, NEW H, NEW s, Ready(hs, H, s), s.amount < AmountToPay, hs = htlcs,
           NEW parts \in Splits(get_outstanding_amount_to_send(s)), NEW first \in Groupings(parts)
    PROVE  RoutesOK([i \in DOMAIN parts |-> Route(parts, first, i)], s, H, hs)
<1> DEFINE m == get_outstanding_amount_to_send(s)
           r == [i \in DOMAIN parts |-> Route(parts, first, i)]
<1>1. /\ Sendable(hs) /\ H \in SUBSET DOMAIN hs /\ IsSession(s) /\ Balanced(s, H, hs)
      /\ Len(hs) \in Nat
  BY DEF Ready, Sendable
<1>2. m \in Nat \ {0} /\ s.amount + m = AmountToPay
  BY <1>1, AmountsAssumption DEF get_outstanding_amount_to_send, IsSession
<1>3. PICK k \in 1 .. MaxParts : parts \in [1 .. k -> 1 .. m]
  BY DEF Splits
<1>4. SumOf(parts) = m
  BY DEF Splits
<1> HIDE DEF m
<1>5. k \in Nat \ {0} /\ DOMAIN parts = 1 .. k /\ \A i \in 1 .. k : parts[i] \in Nat \ {0}
  BY <1>2, <1>3, AmountsAssumption
<1>6. \A i \in 1 .. k : first[i] \in 1 .. k /\ first[i] <= i
  BY <1>5 DEF Groupings
<1>7. \A i \in 1 .. k :
         /\ r[i].amount = parts[i] /\ r[i].state = "sent" /\ r[i].bucket = Len(hs) + first[i]
         /\ r[i].whole = (parts[i] = SumOf(Restrict(parts, {j \in 1 .. k : first[j] = first[i]})))
  BY <1>5 DEF Route
<1>8. DOMAIN r = 1 .. k
  BY <1>5
<1> HIDE DEF r
<1>9. Amounts(r) = parts
  <2>1. Amounts(r) = [i \in 1 .. k |-> parts[i]]
    BY <1>7, <1>8 DEF Amounts
  <2> QED BY <1>3, <2>1
<1>10. s.amount + TotalOf(Amounts(r)) = AmountToPay
  BY <1>2, <1>4, <1>9, SumIsTotal
<1>11. ASSUME NEW i \in DOMAIN r
       PROVE  /\ r[i].amount > 0 /\ r[i].state = "sent" /\ r[i].bucket \in 1 .. Len(hs) + i
              /\ r[i].bucket > Len(hs)
  <2>1. i \in Nat /\ first[i] \in Nat /\ 1 <= first[i] /\ first[i] <= i /\ parts[i] \in Nat \ {0}
    BY <1>5, <1>6, <1>8
  <2>2. r[i].amount = parts[i] /\ r[i].state = "sent" /\ r[i].bucket = Len(hs) + first[i]
    BY <1>7, <1>8
  <2>3. r[i].bucket \in 1 .. Len(hs) + i /\ r[i].bucket > Len(hs)
    BY <1>1, <2>1, <2>2
  <2> QED BY <2>1, <2>2, <2>3
<1>12. ASSUME NEW i \in DOMAIN r
       PROVE  r[i].bucket \notin DOMAIN s.buckets /\ InBucket(hs, H, r[i].bucket) = {}
  <2>1. DOMAIN s.buckets \subseteq 1 .. Len(hs)
    BY <1>1 DEF Balanced
  <2>2. \A h \in H : hs[h].bucket \in 1 .. Len(hs)
    BY <1>1 DEF Sendable
  <2> QED BY <1>1, <1>11, <2>1, <2>2 DEF InBucket
<1>13. ASSUME NEW i \in DOMAIN r, r[i].whole, NEW j \in DOMAIN r, r[j].bucket = r[i].bucket
       PROVE  j = i
  <2> DEFINE G == {x \in 1 .. k : first[x] = first[i]}
  <2>1. first[j] = first[i]
    <3>1. Len(hs) + first[j] = Len(hs) + first[i]
      <4>1. r[j].bucket = Len(hs) + first[j]
        BY <1>7, <1>8
      <4>2. r[i].bucket = Len(hs) + first[i]
        BY <1>7, <1>8
      <4> QED BY <1>13, <4>1, <4>2
    <3>2. first[j] \in Int /\ first[i] \in Int
      BY <1>6, <1>8
    <3> QED BY <1>1, <3>1, <3>2
  <2>2. i \in G /\ j \in G /\ G \in SUBSET (1 .. k)
    BY <1>8, <2>1
  <2>3. parts[i] = SumOf(Restrict(parts, G))
    BY <1>7, <1>8, <1>13
  <2> HIDE DEF G
  <2> QED BY <1>2, <1>3, <1>5, <2>2, <2>3, PartOfMore
<1>14. RoutesOK(r, s, H, hs)
  BY <1>10, <1>11, <1>12, <1>13 DEF RoutesOK
<1> QED BY <1>14 DEF r

-----------------------------------------------------------------------------
(* Every step keeps the amounts *)

LEMMA ReadyNow ==
    ASSUME AmountsInv, session # NoSession
    PROVE  Ready(htlcs, mine, session) /\ IsSession(session) /\ Counts(session, mine)
<1>1. IsSession(session) /\ Counts(session, mine) /\ IInv
  BY Unfold DEF AmountsInv
<1>2. htlcs \in Seq(Htlc) /\ mine \in SUBSET DOMAIN htlcs
  BY <1>1 DEF IInv, TypeOK, Ids
<1>3. Sendable(htlcs) /\ Balanced(session, mine, htlcs)
  BY <1>2 DEF AmountsInv, HtlcsOK, SessionIsBalanced, Sendable, Ids
<1>4. mode = "gossip" => DOMAIN session.buckets = {}
  BY <1>1 DEF Counts
<1> QED BY <1>1, <1>2, <1>3, <1>4 DEF Ready

\* As long as pay_to_node runs there is a session
LEMMA PayingReady ==
    ASSUME AmountsInv, pc # "idle"
    PROVE  /\ Ready(htlcs, mine, session) /\ IsSession(session) /\ Counts(session, mine)
           /\ session # NoSession /\ session.amount <= AmountToPay
  BY ReadyNow DEF AmountsInv, IInv, PayingHasSession, SendsNotTooMuch

\* Terms of htlcs that are sendable stay so
LEMMA SameSendable ==
    ASSUME NEW hs, NEW gs, SameTerms(hs, gs), Sendable(hs), gs \in Seq(Htlc)
    PROVE  Sendable(gs)
  BY DEF SameTerms, Sendable

LEMMA SameRoutes ==
    ASSUME NEW hs, NEW gs, SameTerms(hs, gs), NEW H \in SUBSET DOMAIN hs, NEW s, NEW r,
           RoutesOK(r, s, H, hs)
    PROVE  RoutesOK(r, s, H, gs)
<1>1. \A b : InBucket(gs, H, b) = InBucket(hs, H, b)
  BY DEF SameTerms, InBucket
<1>2. Len(gs) = Len(hs)
  BY DEF SameTerms
<1> QED BY <1>1, <1>2 DEF RoutesOK

\* pay_to_node ends with a balanced session.
LEMMA EndsAmounts ==
    ASSUME IInv', HtlcsOK', NEW s, IsSession(s), mine' \in SUBSET DOMAIN htlcs',
           Balanced(s, mine', htlcs'), NEW success, Ends(s, success)
    PROVE  AmountsInv'
<1> DEFINE t == [s EXCEPT !.active = FALSE]
<1>1. t.amount = s.amount /\ t.queue = s.queue /\ t.buckets = s.buckets
  BY DEF IsSession
<1>2. session' = Kept(t) /\ pc' = "idle"
  BY DEF Ends
<1> HIDE DEF t
<1>3. session' # NoSession => session' = t
  BY <1>2 DEF Kept
<1>4. SameTerms(htlcs', htlcs')
  BY DEF SameTerms
<1>5. Balanced(t, mine', htlcs')
  <2> DEFINE hs == htlcs'
             H == mine'
  <2>1. SameTerms(hs, hs) /\ H \in SUBSET DOMAIN hs /\ Balanced(s, H, hs)
    BY <1>4
  <2> HIDE DEF hs, H
  <2>2. Balanced(t, H, hs)
    BY <1>1, <2>1, SameBalanced
  <2> QED BY <2>2 DEF hs, H
<1> QED BY <1>2, <1>3, <1>5 DEF AmountsInv, SessionIsBalanced, SendsNotTooMuch, SendsTheRest, DrainsLess

\* pay_to_node goes on with a balanced session.
LEMMA ContinuesAmounts ==
    ASSUME IInv', HtlcsOK', NEW s, Balanced(s, mine', htlcs'), s.amount <= AmountToPay,
           NEW where \in {"loop", "draining", "waiting"}, session' = s, pc' = where,
           where = "draining" => s.amount < AmountToPay
    PROVE  AmountsInv'
  BY DEF AmountsInv, SessionIsBalanced, SendsNotTooMuch, SendsTheRest, DrainsLess

LEMMA InitAmounts == Init => AmountsInv
<1> SUFFICES ASSUME Init PROVE AmountsInv
  OBVIOUS
<1>1. IInv
  BY InitOK
<1>2. htlcs = <<>> /\ session = NoSession /\ pc = "idle"
  BY DEF Init
<1>3. Ids = {}
  BY <1>2 DEF Ids
<1> QED BY <1>1, <1>2, <1>3 DEF AmountsInv, HtlcsOK, SessionIsBalanced, SendsNotTooMuch, SendsTheRest, DrainsLess

LEMMA PayInvoiceAmounts == AmountsInv /\ PayInvoice => AmountsInv'
<1> SUFFICES ASSUME AmountsInv, PayInvoice PROVE AmountsInv'
  OBVIOUS
<1>1. IInv /\ IInv' /\ htlcs' = htlcs /\ HtlcsOK'
  BY PayInvoicePreserves DEF AmountsInv, PayInvoice, HtlcsOK, Ids
<1>2. mine' = {} /\ session' = NewSession /\ pc' = "loop"
  BY <1>1 DEF PayInvoice, IInv, NoneIsMissed
<1>3. Balanced(NewSession, {}, htlcs)
  <2>1. TotalOf(<<>>) = 0
    <3>1. <<>> \in Seq(Int)
      OBVIOUS
    <3> QED BY <3>1, SequenceTotal
  <2>2. Amounts(<<>>) = <<>> /\ Propagated(<<>>) = <<>>
    BY DEF Amounts, Propagated
  <2>3. Total(Amounts(htlcs), {}) = 0
    <3>1. OfInts(Amounts(htlcs), {})
      BY FS_EmptySet DEF OfInts
    <3> QED BY <3>1, TotalSplit
  <2>4. NewSession.amount = 0 /\ NewSession.queue = <<>> /\ NewSession.buckets = <<>>
    BY DEF NewSession
  <2> QED BY <2>1, <2>2, <2>3, <2>4 DEF Balanced
<1>4. NewSession.amount <= AmountToPay
  BY AmountsAssumption DEF NewSession
<1> QED BY <1>1, <1>2, <1>3, <1>4, ContinuesAmounts

LEMMA CreateRoutesAmounts == AmountsInv /\ CreateRoutes => AmountsInv'
<1> SUFFICES ASSUME AmountsInv, CreateRoutes PROVE AmountsInv'
  OBVIOUS
<1>1. /\ pc = "loop" /\ get_outstanding_amount_to_send(session) > 0 /\ pc' = "sending"
      /\ UNCHANGED <<mode, htlcs, mine, session>>
  BY DEF CreateRoutes
<1>2. IInv' /\ HtlcsOK'
  BY <1>1, CreateRoutesPreserves DEF AmountsInv, HtlcsOK, Ids
<1>3. Ready(htlcs, mine, session) /\ IsSession(session)
  BY <1>1, PayingReady
<1>4. session.amount < AmountToPay
  BY <1>1, <1>3, AmountsAssumption DEF get_outstanding_amount_to_send, IsSession
<1>5. PICK parts \in Splits(get_outstanding_amount_to_send(session)) :
         \E first \in Groupings(parts) : routes' = [i \in DOMAIN parts |-> Route(parts, first, i)]
  BY DEF CreateRoutes
<1>6. PICK first \in Groupings(parts) : routes' = [i \in DOMAIN parts |-> Route(parts, first, i)]
  BY <1>5
<1>7. RoutesOK(routes', session, mine, htlcs)
  BY <1>3, <1>4, <1>6, CreatedRoutes
<1>8. SendsTheRest'
  BY <1>1, <1>7 DEF SendsTheRest, RoutesOK, InBucket
<1> QED BY <1>1, <1>2, <1>8 DEF AmountsInv, SessionIsBalanced, SendsNotTooMuch, DrainsLess, Balanced, InBucket

LEMMA GivesUpAmounts == AmountsInv /\ (NoRoutes \/ CannotSend) => AmountsInv'
<1> SUFFICES ASSUME AmountsInv, NoRoutes \/ CannotSend PROVE AmountsInv'
  OBVIOUS
<1>1. pc # "idle" /\ Ends(session, FALSE) /\ UNCHANGED <<mode, htlcs, mine>>
  BY DEF NoRoutes, CannotSend
<1>2. IInv' /\ HtlcsOK'
  BY <1>1, GivesUpPreserves DEF AmountsInv, HtlcsOK, Ids
<1>3. Ready(htlcs, mine, session) /\ IsSession(session)
  BY <1>1, PayingReady
<1>4. mine' \in SUBSET DOMAIN htlcs' /\ Balanced(session, mine', htlcs')
  BY <1>1, <1>3 DEF Ready
<1> QED BY <1>1, <1>2, <1>3, <1>4, EndsAmounts

LEMMA PayToRouteAmounts == AmountsInv /\ PayToRoute => AmountsInv'
<1> SUFFICES ASSUME AmountsInv, PayToRoute PROVE AmountsInv'
  OBVIOUS
<1> DEFINE e == Head(routes)
           t == add_new_htlc(session, e)
           gs == Append(htlcs, e)
           K == mine \cup {Len(htlcs) + 1}
<1>1. /\ pc = "sending" /\ routes # <<>> /\ routes \in Seq(Htlc) /\ RoutesOK(routes, session, mine, htlcs)
      /\ Len(routes) # 0
  <2>1. pc = "sending" /\ routes # <<>> /\ routes \in Seq(Htlc)
    BY DEF PayToRoute, AmountsInv, IInv, TypeOK, SendingHasRoutes
  <2> QED BY <2>1 DEF AmountsInv, SendsTheRest
<1>2. Ready(htlcs, mine, session)
  BY <1>1, PayingReady
<1>3. Sendable(gs) /\ Balanced(t, K, gs) /\ RoutesOK(Tail(routes), t, K, gs)
  BY <1>1, <1>2, SentBalanced
<1>4. t.amount <= AmountToPay /\ ~(t.amount > AmountToPay)
  <2>1. t.amount <= AmountToPay
    BY <1>1, <1>2, SentAmounts
  <2>2. t.amount \in Int
    <3>1. e \in Htlc
      BY <1>1
    <3>2. t.amount = session.amount + e.amount
      <4>1. Added(t, session, e)
        BY <1>2, <3>1, AddedFields DEF Ready
      <4> HIDE DEF t
      <4> QED BY <4>1 DEF Added
    <3> QED BY <1>2, <3>1, <3>2 DEF Htlc, Ready, IsSession
  <2> HIDE DEF t
  <2> QED BY <2>1, <2>2, AmountsAssumption
<1>5. /\ htlcs' = gs /\ mine' = K /\ session' = t /\ routes' = Tail(routes) /\ mode' = mode
      /\ pc' = IF Len(routes) = 1 THEN "waiting" ELSE "sending"
  BY <1>4 DEF PayToRoute
<1>6. IInv'
  BY PayToRoutePreserves DEF AmountsInv
<1> HIDE DEF t, gs, K, e
<1>7. HtlcsOK'
  BY <1>3, <1>5 DEF HtlcsOK, Sendable, Ids
<1>8. SendsTheRest'
  BY <1>3, <1>5 DEF SendsTheRest, RoutesOK, InBucket
<1> QED BY <1>3, <1>4, <1>5, <1>6, <1>7, <1>8
        DEF AmountsInv, SessionIsBalanced, SendsNotTooMuch, DrainsLess

\* _amount_inflight and _nhtlcs_inflight are never too low for the log that is taken.
LEMMA ResolvedIsCounted ==
    ASSUME AmountsInv, pc # "idle", session.queue # <<>>
    PROVE  ~(session.amount < Head(session.queue).amount \/ session.n < 1)
<1>1. Ready(htlcs, mine, session) /\ IsSession(session) /\ Counts(session, mine)
  BY PayingReady
<1>2. session.amount >= Head(session.queue).amount /\ Head(session.queue).amount \in Nat
  BY <1>1, WaitBalanced DEF Ready
<1>3. session.n >= Cardinality(mine) + Len(session.queue) /\ Cardinality(mine) \in Nat
  BY <1>1, FS_CardinalityType DEF Counts, AmountsInv, IInv, TypeOK
<1>4. Len(session.queue) \in Nat \ {0} /\ session.n \in Int /\ session.amount \in Int
  BY <1>1 DEF IsSession
<1> QED BY <1>2, <1>3, <1>4

LEMMA HtlcResolvedAmounts == AmountsInv /\ HtlcResolved => AmountsInv'
<1> SUFFICES ASSUME AmountsInv, HtlcResolved PROVE AmountsInv'
  OBVIOUS
<1> DEFINE s == wait_for_one_htlc_to_resolve(session)
<1>1. /\ pc \in {"waiting", "draining"} /\ session.queue # <<>>
      /\ UNCHANGED <<mode, htlcs, mine>>
  BY DEF HtlcResolved
<1>2. IInv' /\ HtlcsOK'
  BY <1>1, HtlcResolvedPreserves DEF AmountsInv, HtlcsOK, Ids
<1>3. /\ Ready(htlcs, mine, session) /\ IsSession(session) /\ Counts(session, mine)
      /\ session.amount <= AmountToPay
  BY <1>1, PayingReady
<1>4. /\ Balanced(s, mine, htlcs) /\ Head(session.queue).amount \in Nat \ {0}
      /\ s.amount = session.amount - Head(session.queue).amount
  BY <1>1, <1>3, WaitBalanced DEF Ready
<1>5. IsSession(s)
  BY <1>1, <1>3, WaitCounts DEF AmountsInv, IInv, TypeOK
<1>6. s.amount < AmountToPay /\ s.amount <= AmountToPay
  <2>1. session.amount \in Int /\ AmountToPay \in Int
    BY <1>3, AmountsAssumption DEF IsSession
  <2> HIDE DEF s
  <2> QED BY <1>3, <1>4, <2>1
<1>7. ~(session.amount < Head(session.queue).amount \/ session.n < 1)
  BY <1>1, ResolvedIsCounted
<1>8. \/ \E success : Ends(s, success)
      \/ Continues(s, "loop") \/ Continues(s, "draining")
  BY <1>7 DEF HtlcResolved, TriesAgain
<1>9. mine' \in SUBSET DOMAIN htlcs' /\ Balanced(s, mine', htlcs')
  BY <1>1, <1>3, <1>4 DEF Ready
<1> HIDE DEF s
<1>10. CASE \E success : Ends(s, success)
  BY <1>2, <1>5, <1>9, <1>10, EndsAmounts
<1>11. CASE Continues(s, "loop") \/ Continues(s, "draining")
  BY <1>2, <1>6, <1>9, <1>11, ContinuesAmounts DEF Continues
<1> QED BY <1>8, <1>10, <1>11

LEMMA NoMoreResolvedAmounts == AmountsInv /\ NoMoreResolved => AmountsInv'
<1> SUFFICES ASSUME AmountsInv, NoMoreResolved PROVE AmountsInv'
  OBVIOUS
<1>1. pc # "idle" /\ UNCHANGED <<mode, htlcs, mine>>
  BY DEF NoMoreResolved
<1>2. IInv' /\ HtlcsOK'
  BY <1>1, NoMoreResolvedPreserves DEF AmountsInv, HtlcsOK, Ids
<1>3. Ready(htlcs, mine, session) /\ IsSession(session) /\ session.amount <= AmountToPay
  BY <1>1, PayingReady
<1>4. mine' \in SUBSET DOMAIN htlcs' /\ Balanced(session, mine', htlcs')
  BY <1>1, <1>3 DEF Ready
<1>5. Ends(session, FALSE) \/ Continues(session, "loop")
  BY DEF NoMoreResolved, TriesAgain
<1> QED BY <1>2, <1>3, <1>4, <1>5, EndsAmounts, ContinuesAmounts DEF Continues

\* A step that leaves the sessions alone, and all htlcs but for their states
LEMMA OthersAmounts ==
    ASSUME AmountsInv, UNCHANGED <<mode, mine, session, pc, routes>>,
           htlcs' \in Seq(Htlc), SameTerms(htlcs, htlcs')
    PROVE  AmountsInv'
<1>1. DOMAIN htlcs' = DOMAIN htlcs
  BY DEF SameTerms
<1>2. IInv'
  BY <1>1, OthersPreserve DEF AmountsInv
<1>3. HtlcsOK'
  BY DEF AmountsInv, HtlcsOK, SameTerms, Ids
<1> DEFINE gs == htlcs'
<1>4. ASSUME session # NoSession PROVE Balanced(session, mine, gs)
  <2>1. SameTerms(htlcs, gs) /\ mine \in SUBSET DOMAIN htlcs /\ Balanced(session, mine, htlcs)
    BY <1>4, ReadyNow DEF Ready
  <2> HIDE DEF gs
  <2> QED BY <2>1, SameBalanced
<1>5. ASSUME pc = "sending" PROVE RoutesOK(routes, session, mine, gs)
  <2>1. SameTerms(htlcs, gs) /\ mine \in SUBSET DOMAIN htlcs /\ RoutesOK(routes, session, mine, htlcs)
    BY <1>5, PayingReady DEF Ready, AmountsInv, SendsTheRest
  <2> HIDE DEF gs
  <2> QED BY <2>1, SameRoutes
<1>6. SessionIsBalanced'
  BY <1>4 DEF SessionIsBalanced
<1>7. SendsTheRest'
  BY <1>5 DEF SendsTheRest, RoutesOK, InBucket
<1> QED BY <1>2, <1>3, <1>6, <1>7 DEF AmountsInv, SendsNotTooMuch, DrainsLess

LEMMA BecomesSame ==
    ASSUME IInv, NEW h \in Ids, NEW state \in States, Becomes(h, state)
    PROVE  htlcs' \in Seq(Htlc) /\ SameTerms(htlcs, htlcs')
<1>1. htlcs' \in Seq(Htlc) /\ DOMAIN htlcs' = DOMAIN htlcs
  BY BecomesOK
<1>2. htlcs \in Seq(Htlc) /\ h \in DOMAIN htlcs
  BY DEF IInv, TypeOK, Ids
<1>3. Len(htlcs') = Len(htlcs)
  <2>1. DOMAIN htlcs = 1 .. Len(htlcs) /\ Len(htlcs) \in Nat
    BY <1>2
  <2>2. htlcs' = [htlcs EXCEPT ![h] = [htlcs[h] EXCEPT !.state = state]]
    BY DEF Becomes
  <2> QED BY <1>1, <1>2, <2>1, <2>2
<1>4. \A i \in DOMAIN htlcs : htlcs[i] \in Htlc
  BY <1>2
<1>5. \A i \in DOMAIN htlcs : htlcs'[i] = IF i = h THEN [htlcs[h] EXCEPT !.state = state] ELSE htlcs[i]
  BY <1>2 DEF Becomes
<1>6. \A i \in DOMAIN htlcs : htlcs'[i].amount = htlcs[i].amount /\ htlcs'[i].bucket = htlcs[i].bucket
                              /\ htlcs'[i].whole = htlcs[i].whole
  BY <1>4, <1>5 DEF Htlc
<1> QED BY <1>1, <1>3, <1>6 DEF SameTerms

\* Some htlcs become what state says
LEMMA StatesChange ==
    ASSUME IInv, NEW S \in SUBSET Ids, NEW state \in [S -> States],
           htlcs' = [h \in Ids |-> IF h \in S THEN [htlcs[h] EXCEPT !.state = state[h]] ELSE htlcs[h]]
    PROVE  htlcs' \in Seq(Htlc) /\ SameTerms(htlcs, htlcs')
<1>1. htlcs \in Seq(Htlc) /\ Ids = 1 .. Len(htlcs) /\ Len(htlcs) \in Nat
  BY DEF IInv, TypeOK, Ids
<1>2. \A h \in Ids : htlcs[h] \in Htlc
  BY <1>1
<1>3. \A h \in Ids : /\ htlcs'[h] \in Htlc /\ htlcs'[h].amount = htlcs[h].amount
                     /\ htlcs'[h].bucket = htlcs[h].bucket /\ htlcs'[h].whole = htlcs[h].whole
  <2> SUFFICES ASSUME NEW h \in Ids
               PROVE  /\ htlcs'[h] \in Htlc /\ htlcs'[h].amount = htlcs[h].amount
                      /\ htlcs'[h].bucket = htlcs[h].bucket /\ htlcs'[h].whole = htlcs[h].whole
    OBVIOUS
  <2>1. htlcs'[h] = IF h \in S THEN [htlcs[h] EXCEPT !.state = state[h]] ELSE htlcs[h]
    OBVIOUS
  <2>2. htlcs[h] \in Htlc
    BY <1>2
  <2> QED BY <2>1, <2>2 DEF Htlc
<1>4. DOMAIN htlcs' = 1 .. Len(htlcs)
  BY <1>1
<1>5. htlcs' \in Seq(Htlc) /\ Len(htlcs') = Len(htlcs)
  <2>1. htlcs' = [h \in 1 .. Len(htlcs) |-> htlcs'[h]]
    BY <1>1
  <2>2. \A h \in 1 .. Len(htlcs) : htlcs'[h] \in Htlc
    BY <1>1, <1>3
  <2> QED BY <1>1, <2>1, <2>2
<1> QED BY <1>1, <1>3, <1>4, <1>5 DEF SameTerms, Ids

LEMMA DecideSame ==
    ASSUME IInv, Decide
    PROVE  htlcs' \in Seq(Htlc) /\ SameTerms(htlcs, htlcs')
<1>1. CASE \E S \in SUBSET InState({"sent"}) : Take(S)
  <2>1. PICK S \in SUBSET InState({"sent"}) : Take(S)
    BY <1>1
  <2> DEFINE state == [h \in S |-> "taken"]
  <2>2. S \in SUBSET Ids /\ state \in [S -> States]
    BY DEF InState, States
  <2>3. htlcs' = [h \in Ids |-> IF h \in S THEN [htlcs[h] EXCEPT !.state = state[h]] ELSE htlcs[h]]
    BY <2>1 DEF Take
  <2> HIDE DEF state
  <2> QED BY <2>2, <2>3, StatesChange
<1>2. CASE \E h \in Ids : Refuse(h)
  BY <1>2, BecomesSame DEF Refuse, States
<1> QED BY <1>1, <1>2 DEF Decide

LEMMA ReestablishSame ==
    ASSUME IInv, NEW F \in SUBSET InState({"claimed", "failing"}), Reestablish(F)
    PROVE  htlcs' \in Seq(Htlc) /\ SameTerms(htlcs, htlcs')
<1> DEFINE state == [h \in F |-> IF htlcs[h].state = "claimed" THEN "taken" ELSE "refused"]
<1>1. F \in SUBSET Ids /\ state \in [F -> States]
  BY DEF InState, States
<1>2. htlcs' = [h \in Ids |-> IF h \in F THEN [htlcs[h] EXCEPT !.state = state[h]] ELSE htlcs[h]]
  <2>1. \A h \in Ids : htlcs[h] \in Htlc
    BY DEF IInv, TypeOK, Ids
  <2>2. \A h \in F : [htlcs[h] EXCEPT !.state = IF @ = "claimed" THEN "taken" ELSE "refused"]
                       = [htlcs[h] EXCEPT !.state = state[h]]
    BY <1>1, <2>1 DEF Htlc
  <2> HIDE DEF state
  <2> QED BY <1>1, <2>2 DEF Reestablish
<1> HIDE DEF state
<1> QED BY <1>1, <1>2, StatesChange

\* The amount in flight is left to pay_to_node.
LEMMA ResolvedAmount ==
    ASSUME NEW s, IsSession(s), NEW htlc \in Htlc
    PROVE  on_htlc_fail(s, htlc).amount = s.amount
<1>1. s = [active |-> s.active, amount |-> s.amount, n |-> s.n, queue |-> s.queue, buckets |-> s.buckets]
  BY DEF IsSession
<1> DEFINE c == [s EXCEPT !.buckets[htlc.bucket].failed = @ + htlc.amount]
<1>3. /\ c.amount = s.amount
      /\ \A x, y : Put(s, x, y).amount = s.amount /\ Put(c, x, y).amount = c.amount
  BY <1>1 DEF Put
<1> QED BY <1>3 DEF on_htlc_fail

\* What is sent without trampoline does not depend on what resolves meanwhile
LEMMA GossipRoutes ==
    ASSUME mode = "gossip", NEW r, NEW s, NEW H, NEW hs, RoutesOK(r, s, H, hs),
           NEW t, t.amount = s.amount, NEW K, NEW gs, Len(gs) = Len(hs)
    PROVE  RoutesOK(r, t, K, gs)
  BY DEF RoutesOK

\* The session of an htlc that resolved
LEMMA ResolvedAmounts ==
    ASSUME AmountsInv, IInv', UNCHANGED <<mode, pc, routes>>,
           htlcs' \in Seq(Htlc), SameTerms(htlcs, htlcs'), pc = "sending" => mode = "gossip",
           NEW h \in mine, mine' = mine \ {h},
           NEW t, Balanced(t, mine \ {h}, htlcs), t.amount = session.amount,
           session' # NoSession => session' = t
    PROVE  AmountsInv'
<1>1. HtlcsOK'
  BY DEF AmountsInv, HtlcsOK, SameTerms, Ids
<1>2. pc # "idle" => session' = t
  BY DEF IInv, PayingHasSession
<1> DEFINE gs == htlcs'
           H == mine \ {h}
<1>3. SameTerms(htlcs, gs) /\ H \in SUBSET DOMAIN htlcs /\ Balanced(t, H, htlcs)
  BY DEF AmountsInv, IInv, TypeOK, Ids
<1>4. Balanced(t, H, gs)
  <2> HIDE DEF gs, H
  <2> QED BY <1>3, SameBalanced
<1>5. SessionIsBalanced'
  BY <1>4 DEF SessionIsBalanced
<1>6. ASSUME pc = "sending" PROVE RoutesOK(routes, t, H, gs)
  <2>1. mode = "gossip" /\ RoutesOK(routes, session, mine, htlcs) /\ Len(gs) = Len(htlcs)
    BY <1>6 DEF AmountsInv, SendsTheRest, SameTerms
  <2> HIDE DEF gs, H
  <2> QED BY <2>1, GossipRoutes
<1>7. SendsTheRest'
  BY <1>2, <1>6 DEF SendsTheRest, RoutesOK, InBucket
<1> QED BY <1>1, <1>2, <1>5, <1>7 DEF AmountsInv, SendsNotTooMuch, DrainsLess

LEMMA HeardAmounts == ASSUME AmountsInv, NEW h \in Ids, Heard(h) PROVE AmountsInv'
<1>0. IInv /\ IInv' /\ htlcs \in Seq(Htlc) /\ htlcs[h] \in Htlc
  <2>1. IInv /\ htlcs \in Seq(Htlc) /\ h \in DOMAIN htlcs
    BY DEF AmountsInv, IInv, TypeOK, Ids
  <2> QED BY <2>1, HeardPreserves
<1>1. CASE receive_htlc_settle(h) \/ receive_fail_htlc(h)
  <2>1. htlcs' \in Seq(Htlc) /\ SameTerms(htlcs, htlcs') /\ UNCHANGED <<mode, mine, session, pc, routes>>
    BY <1>0, <1>1, BecomesSame DEF receive_htlc_settle, receive_fail_htlc, States
  <2> QED BY <2>1, OthersAmounts
<1>2. CASE HtlcFulfilled(h) \/ HtlcFailed(h)
  <2>1. /\ htlcs' \in Seq(Htlc) /\ SameTerms(htlcs, htlcs') /\ UNCHANGED <<mode, pc, routes>>
        /\ pc = "sending" => mode = "gossip"
    BY <1>0, <1>2, BecomesSame DEF HtlcFulfilled, HtlcFailed, Heard, Awaiting, States
  <2>2. CASE h \notin mine
    <3>1. UNCHANGED <<mine, session>>
      BY <1>2, <2>2 DEF HtlcFulfilled, HtlcFailed, fulfilled_of_none, failed_of_none
    <3> QED BY <2>1, <3>1, OthersAmounts
  <2>3. CASE h \in mine
    <3>1. session # NoSession
      BY <1>0, <2>3 DEF IInv, NoneIsMissed
    <3>2. /\ Sendable(htlcs) /\ mine \in SUBSET DOMAIN htlcs /\ IsSession(session)
          /\ Balanced(session, mine, htlcs)
      BY <3>1, ReadyNow DEF Ready
    <3>3. mine' = mine \ {h}
      BY <1>2, <2>3 DEF HtlcFulfilled, HtlcFailed, fulfilled_of_session, failed_of_session
    <3>4. CASE HtlcFulfilled(h)
      <4> DEFINE t == Put(session, TRUE, htlcs[h].amount)
      <4>1. Balanced(t, mine \ {h}, htlcs) /\ t.amount = session.amount
        <5>1. Balanced(t, mine \ {h}, htlcs)
          <6>1. \A success \in BOOLEAN : Balanced(Put(session, success, htlcs[h].amount), mine \ {h}, htlcs)
            BY <2>3, <3>2, FulfilledBalanced
          <6> QED BY <6>1
        <5>2. t.amount = session.amount
          BY <3>2 DEF Put, IsSession
        <5> QED BY <5>1, <5>2
      <4>2. session' # NoSession => session' = t
        BY <2>3, <3>4 DEF HtlcFulfilled, fulfilled_of_session, Kept
      <4> HIDE DEF t
      <4> QED BY <1>0, <2>1, <2>3, <3>3, <4>1, <4>2, ResolvedAmounts
    <3>5. CASE HtlcFailed(h)
      <4> DEFINE t == on_htlc_fail(session, htlcs[h])
      <4>1. Balanced(t, mine \ {h}, htlcs) /\ t.amount = session.amount
        BY <1>0, <2>3, <3>2, FailedBalanced, ResolvedAmount
      <4>2. session' # NoSession => session' = t
        BY <2>3, <3>5 DEF HtlcFailed, failed_of_session, Kept
      <4> HIDE DEF t
      <4> QED BY <1>0, <2>1, <2>3, <3>3, <4>1, <4>2, ResolvedAmounts
    <3> QED BY <1>2, <3>4, <3>5
  <2> QED BY <2>2, <2>3
<1> QED BY <1>1, <1>2 DEF Heard

LEMMA UnchangedAmounts ==
    ASSUME AmountsInv, UNCHANGED <<mode, htlcs, mine, session, pc, routes>>
    PROVE  AmountsInv'
<1>1. htlcs' \in Seq(Htlc) /\ SameTerms(htlcs, htlcs')
  BY DEF AmountsInv, IInv, TypeOK, SameTerms
<1> QED BY <1>1, OthersAmounts

LEMMA RestartAmounts == AmountsInv /\ Restart => AmountsInv'
<1> SUFFICES ASSUME AmountsInv, Restart PROVE AmountsInv'
  OBVIOUS
<1>1. session' = NoSession /\ pc' = "idle" /\ htlcs' = htlcs
  BY DEF Restart
<1>2. IInv' /\ HtlcsOK'
  BY <1>1, RestartPreserves DEF AmountsInv, HtlcsOK, Ids
<1> QED BY <1>1, <1>2 DEF AmountsInv, SessionIsBalanced, SendsNotTooMuch, SendsTheRest, DrainsLess

LEMMA StepAmounts == AmountsInv /\ [Next]_vars => AmountsInv'
<1> SUFFICES ASSUME AmountsInv, [Next]_vars PROVE AmountsInv'
  OBVIOUS
<1>1. CASE PayToNode
  BY <1>1, CreateRoutesAmounts, GivesUpAmounts, PayToRouteAmounts, HtlcResolvedAmounts,
     NoMoreResolvedAmounts DEF PayToNode
<1>2. CASE Decide
  <2>1. UNCHANGED <<mode, mine, session, pc, routes>>
    BY <1>2 DEF Decide, Take, Refuse
  <2> QED BY <1>2, <2>1, DecideSame, OthersAmounts DEF AmountsInv
<1>3. ASSUME NEW F \in SUBSET InState({"claimed", "failing"}), Reestablish(F) PROVE AmountsInv'
  <2>1. UNCHANGED <<mode, mine, session, pc, routes>>
    BY <1>3 DEF Reestablish
  <2> QED BY <1>3, <2>1, ReestablishSame, OthersAmounts DEF AmountsInv
<1>4. ASSUME NEW h \in Ids, Repeated(h) PROVE AmountsInv'
  BY <1>4, UnchangedAmounts DEF Repeated, fulfilled_of_none, failed_of_none
<1>5. CASE UNCHANGED vars
  BY <1>5, UnchangedAmounts DEF vars
<1> QED BY <1>1, <1>2, <1>3, <1>4, <1>5, PayInvoiceAmounts, HeardAmounts, RestartAmounts DEF Next

\* The amounts of every reachable state: what every session counts, and what it is about to send.
THEOREM AmountsAlways == Spec => []AmountsInv
<1> QED BY InitAmounts, StepAmounts, PTL DEF Spec

LEMMA ExactInAmounts == AmountsInv => CountersAreExact
<1> SUFFICES ASSUME AmountsInv, session # NoSession
             PROVE  session.amount = Amount(mine)
                         + SumOf([i \in DOMAIN session.queue |-> session.queue[i].amount])
                         + SumOf([b \in DOMAIN session.buckets |->
                                    session.buckets[b].failed % session.buckets[b].sent])
  BY DEF CountersAreExact
<1> DEFINE f == [h \in mine |-> htlcs[h].amount]
<1>1. Sendable(htlcs) /\ mine \in SUBSET DOMAIN htlcs /\ Balanced(session, mine, htlcs)
  BY ReadyNow DEF Ready
<1>2. OfInts(Amounts(htlcs), mine)
  BY <1>1, HtlcTotals
<1>3. DOMAIN f = mine /\ \A h \in mine : Amounts(htlcs)[h] = f[h]
  BY <1>1 DEF Amounts
<1>4. Amount(mine) = SumOf(f)
  BY DEF Amount
<1> HIDE DEF f
<1>5. Amount(mine) = Total(Amounts(htlcs), mine)
  BY <1>2, <1>3, <1>4, TotalSame, SumIsTotal DEF TotalOf
<1>6. SumOf([i \in DOMAIN session.queue |-> session.queue[i].amount]) = TotalOf(Amounts(session.queue))
  BY SumIsTotal DEF Amounts
<1>7. SumOf([b \in DOMAIN session.buckets |-> session.buckets[b].failed % session.buckets[b].sent])
        = TotalOf(Propagated(session.buckets))
  BY SumIsTotal DEF Propagated
<1> QED BY <1>1, <1>5, <1>6, <1>7 DEF Balanced

\* _amount_inflight is what the open htlcs, the queue and the incomplete buckets add up to,
\* for every split into parts and buckets, in whatever order the htlcs are sent and resolve.
THEOREM CountersAreExactAlways == Spec => []CountersAreExact
<1> QED BY AmountsAlways, ExactInAmounts, PTL

Nested ==
    Sendable(htlcs) /\ Alive \subseteq Ids /\ Taken \subseteq Alive /\ Settled \subseteq Taken

LEMMA SendableNow == AmountsInv => Nested
  BY DEF Nested, AmountsInv, IInv, TypeOK, HtlcsOK, Sendable, Ids, Alive, Taken, Settled, InState

LEMMA SendableNext == AmountsInv' => Nested'
  BY SendableNow, PTL

\* Which htlcs are in the states S when the one at h becomes state
LEMMA BecomesStates ==
    ASSUME IInv, NEW h \in Ids, NEW state \in States, Becomes(h, state)
    PROVE  \A S : InState(S)' = IF state \in S THEN InState(S) \cup {h} ELSE InState(S) \ {h}
<1>1. htlcs \in Seq(Htlc) /\ h \in DOMAIN htlcs
  BY DEF IInv, TypeOK, Ids
<1>2. htlcs[h] \in Htlc
  BY <1>1
<1>3. DOMAIN htlcs' = DOMAIN htlcs /\ \A i \in DOMAIN htlcs :
         htlcs'[i] = IF i = h THEN [htlcs[h] EXCEPT !.state = state] ELSE htlcs[i]
  BY <1>1 DEF Becomes
<1>4. htlcs'[h].state = state /\ \A i \in DOMAIN htlcs : i # h => htlcs'[i] = htlcs[i]
  BY <1>1, <1>2, <1>3 DEF Htlc
<1> QED BY <1>1, <1>3, <1>4 DEF InState, Ids

\* Fewer htlcs, of the same amounts
LEMMA FewerTotals ==
    ASSUME NEW hs, Sendable(hs), NEW gs, SameTerms(hs, gs), NEW H \in SUBSET DOMAIN hs, NEW K \in SUBSET H
    PROVE  /\ Total(Amounts(gs), K) = Total(Amounts(hs), K)
           /\ Total(Amounts(hs), K) \in Nat /\ Total(Amounts(hs), H) \in Nat
           /\ Total(Amounts(hs), K) <= Total(Amounts(hs), H)
<1>1. Amounts(gs) = Amounts(hs)
  BY DEF SameTerms, Amounts
<1> QED BY <1>1, HtlcTotals

\* What is alive is in flight for the session, or was noted to be fulfilled.
LEMMA AloneTotals ==
    ASSUME AmountsInv, PayingIsAlone, pc # "idle"
    PROVE  LET A == Amounts(htlcs)
               q == session.queue
           IN  /\ Total(A, Alive) \in Nat /\ Total(A, Taken) \in Nat
               /\ Total(A, Taken) <= Total(A, Alive)
               /\ Total(A, Alive) <= Total(A, mine) + TotalOf(Successes(q))
               /\ session.amount = Total(A, mine) + TotalOf(Amounts(q)) + TotalOf(Propagated(session.buckets))
               /\ Total(A, mine) \in Nat /\ TotalOf(Amounts(q)) \in Nat /\ TotalOf(Successes(q)) \in Nat
               /\ TotalOf(Propagated(session.buckets)) \in Nat
               /\ TotalOf(Successes(q)) <= TotalOf(Amounts(q))
               /\ session.amount \in Nat /\ session.amount <= AmountToPay
               /\ q \in Seq(Log)
<1> DEFINE A == Amounts(htlcs)
           R == Settled \ mine
<1>1. Ready(htlcs, mine, session) /\ session.amount <= AmountToPay
  BY PayingReady
<1>2. /\ Sendable(htlcs) /\ mine \in SUBSET DOMAIN htlcs /\ IsSession(session)
      /\ Balanced(session, mine, htlcs)
  BY <1>1 DEF Ready
<1>3. /\ Total(A, mine) \in Nat
      /\ TotalOf(Amounts(session.queue)) \in Nat /\ TotalOf(Successes(session.queue)) \in Nat
      /\ TotalOf(Successes(session.queue)) <= TotalOf(Amounts(session.queue))
      /\ TotalOf(Propagated(session.buckets)) \in Nat
      /\ session.queue \in Seq(Log) /\ session.amount \in Nat
  BY <1>2, BalancedTypes
<1>4. session.amount = Total(A, mine) + TotalOf(Amounts(session.queue)) + TotalOf(Propagated(session.buckets))
  BY <1>2 DEF Balanced
<1>5. /\ Alive \in SUBSET DOMAIN htlcs /\ Taken \in SUBSET Alive /\ Settled \in SUBSET DOMAIN htlcs
  BY SendableNow DEF Nested, Ids
<1>6. Total(A, Alive) \in Nat /\ Total(A, Taken) \in Nat /\ Total(A, Taken) <= Total(A, Alive)
  BY <1>2, <1>5, HtlcTotals
<1>7. Alive \subseteq mine \cup R /\ Total(A, Settled) <= TotalOf(Successes(session.queue))
  BY DEF PayingIsAlone
<1>8. mine \cup R \in SUBSET DOMAIN htlcs /\ R \in SUBSET Settled /\ mine \cap R = {}
  BY <1>2, <1>5
<1> HIDE DEF A, R
<1>9. Total(A, Alive) <= Total(A, mine \cup R) /\ Total(A, mine \cup R) \in Nat
  BY <1>2, <1>7, <1>8, HtlcTotals DEF A
<1>10. /\ OfInts(A, mine) /\ OfInts(A, R) /\ Total(A, R) \in Nat /\ Total(A, Settled) \in Nat
       /\ Total(A, R) <= Total(A, Settled)
  <2>1. R \in SUBSET DOMAIN htlcs
    BY <1>8
  <2> QED BY <1>2, <1>5, <1>8, <2>1, HtlcTotals DEF A
<1>11. Total(A, mine \cup R) = Total(A, mine) + Total(A, R)
  BY <1>8, <1>10, TotalUnion
<1>12. Total(A, Alive) <= Total(A, mine) + TotalOf(Successes(session.queue))
  BY <1>3, <1>6, <1>7, <1>9, <1>10, <1>11
<1> QED BY <1>1, <1>3, <1>4, <1>6, <1>12 DEF A

LEMMA AloneIsAtMost == AmountsInv /\ PayingIsAlone /\ pc # "idle" => PaidAtMost
<1> SUFFICES ASSUME AmountsInv, PayingIsAlone, pc # "idle" PROVE PaidAtMost
  OBVIOUS
<1> DEFINE m == Total(Amounts(htlcs), mine)
           a == Total(Amounts(htlcs), Alive)
           u == TotalOf(Successes(session.queue))
           v == TotalOf(Amounts(session.queue))
           w == TotalOf(Propagated(session.buckets))
<1>1. /\ a \in Nat /\ m \in Nat /\ u \in Nat /\ v \in Nat /\ w \in Nat
      /\ a <= m + u /\ u <= v /\ session.amount = m + v + w /\ session.amount <= AmountToPay
  BY AloneTotals
<1>2. AmountToPay \in Nat
  BY AmountsAssumption
<1> HIDE DEF m, a, u, v, w
<1>3. a <= AmountToPay
  BY <1>1, <1>2
<1> QED BY <1>3 DEF PaidAtMost, a

LEMMA AloneIsAtMostNext == (AmountsInv /\ PayingIsAlone /\ pc # "idle" => PaidAtMost)'
  BY AloneIsAtMost, PTL

\* Once the receiver has taken the payment, pay_to_node has nothing left to send, and nothing
\* that failed to read.
LEMMA TakenLeavesNothing ==
    ASSUME AmountsInv, PayingIsAlone, TakenTogether, pc # "idle", Taken # {}
    PROVE  /\ session.amount = AmountToPay
           /\ \A i \in DOMAIN session.queue : session.queue[i].success
<1> DEFINE q == session.queue
           m == Total(Amounts(htlcs), mine)
           a == Total(Amounts(htlcs), Alive)
           k == Total(Amounts(htlcs), Taken)
           u == TotalOf(Successes(q))
           v == TotalOf(Amounts(q))
           w == TotalOf(Propagated(session.buckets))
<1>1. /\ a \in Nat /\ k \in Nat /\ m \in Nat /\ u \in Nat /\ v \in Nat /\ w \in Nat
      /\ k <= a /\ a <= m + u /\ u <= v /\ session.amount = m + v + w /\ session.amount <= AmountToPay
  BY AloneTotals
<1>2. k >= AmountToPay
  BY DEF TakenTogether
<1>3. AmountToPay \in Nat
  BY AmountsAssumption
<1>4. q \in Seq(Log)
  BY AloneTotals
<1>5. Balanced(session, mine, htlcs)
  BY PayingReady DEF Ready
<1>6. \A i \in DOMAIN q : q[i].amount > 0
  BY <1>5 DEF Balanced
<1>7. \A i \in DOMAIN q : ~q[i].success => u < v
  <2> HIDE DEF q
  <2> QED BY <1>4, <1>6, QueueBounds
<1> HIDE DEF m, a, k, u, v, w
<1>8. session.amount = AmountToPay /\ ~(u < v)
  BY <1>1, <1>2, <1>3
<1> QED BY <1>7, <1>8

-----------------------------------------------------------------------------
(* Every step keeps what was paid *)

\* What an attempt that runs has to know
Alone(H, q, hs, alive, settled) ==
    alive \subseteq H \cup settled /\ Total(Amounts(hs), settled) <= TotalOf(Successes(q))

\* No htlc is sent, taken or settled by the step.
LEMMA CalmPaid ==
    ASSUME PaidInv, AmountsInv', SameTerms(htlcs, htlcs'),
           Alive' \subseteq Alive, Taken' = Taken, Settled' = Settled,
           MineAreOpen', PreimageKnown', SuccessIsSettled', PaidIsSettled',
           pc' # "idle" => Alone(mine', session'.queue, htlcs, Alive', Settled)
    PROVE  PaidInv'
<1> DEFINE gs == htlcs'
           alive == Alive'
<1>1. Nested /\ SameTerms(htlcs, gs) /\ alive \in SUBSET Alive
  BY SendableNow DEF PaidInv
<1>2. /\ Sendable(htlcs) /\ Alive \in SUBSET DOMAIN htlcs /\ Taken \in SUBSET DOMAIN htlcs
      /\ Settled \in SUBSET DOMAIN htlcs
  BY <1>1 DEF Nested, Ids
<1> HIDE DEF gs, alive
<1>3. \A H \in SUBSET DOMAIN htlcs : Total(Amounts(gs), H) = Total(Amounts(htlcs), H)
  BY <1>1, <1>2, FewerTotals
<1>4. /\ Total(Amounts(gs), alive) = Total(Amounts(htlcs), alive)
      /\ Total(Amounts(htlcs), alive) <= Total(Amounts(htlcs), Alive)
      /\ Total(Amounts(htlcs), alive) \in Nat /\ Total(Amounts(htlcs), Alive) \in Nat
  BY <1>1, <1>2, FewerTotals
<1>5. Total(Amounts(htlcs), Alive) <= AmountToPay /\ AmountToPay \in Nat
  BY AmountsAssumption DEF PaidInv, PaidAtMost
<1>6. Total(Amounts(gs), alive) <= AmountToPay
  BY <1>4, <1>5
<1>7. PaidAtMost'
  BY <1>6 DEF PaidAtMost, gs, alive
<1>8. Taken # {} => Total(Amounts(gs), Taken) >= AmountToPay
  BY <1>2, <1>3 DEF PaidInv, TakenTogether
<1>9. TakenTogether'
  BY <1>8 DEF TakenTogether, gs
<1>10. pc' # "idle" =>
          alive \subseteq mine' \cup Settled /\ Total(Amounts(gs), Settled) <= TotalOf(Successes(session'.queue))
  BY <1>2, <1>3 DEF Alone, alive
<1>11. PayingIsAlone'
  BY <1>10 DEF PayingIsAlone, gs, alive
<1> QED BY <1>7, <1>9, <1>11 DEF PaidInv

\* The htlcs stay as they are, and the session may take logs from its queue.
LEMMA QuietPaid ==
    ASSUME PaidInv, AmountsInv', UNCHANGED <<htlcs, mine, preimage>>,
           SuccessIsSettled', PaidIsSettled',
           pc' # "idle" => Alone(mine, session'.queue, htlcs, Alive, Settled)
    PROVE  PaidInv'
<1>1. \A S : InState(S)' = InState(S)
  BY DEF InState, Ids
<1>2. Alive' = Alive /\ Taken' = Taken /\ Settled' = Settled
  BY <1>1 DEF Alive, Taken, Settled
<1>3. MineAreOpen' /\ PreimageKnown'
  BY <1>1 DEF PaidInv, MineAreOpen, PreimageKnown
<1>4. SameTerms(htlcs, htlcs')
  BY DEF SameTerms
<1> QED BY <1>2, <1>3, <1>4, CalmPaid

LEMMA StillAlone ==
    ASSUME PaidInv, pc # "idle", NEW q, TotalOf(Successes(q)) = TotalOf(Successes(session.queue))
    PROVE  Alone(mine, q, htlcs, Alive, Settled)
  BY DEF PaidInv, PayingIsAlone, Alone

LEMMA InitPaid == Init => PaidInv
<1> SUFFICES ASSUME Init PROVE PaidInv
  OBVIOUS
<1>1. AmountsInv
  BY InitAmounts
<1>2. htlcs = <<>> /\ mine = {} /\ session = NoSession /\ pc = "idle" /\ status = "unpaid"
  BY DEF Init
<1>3. Ids = {}
  BY <1>2 DEF Ids
<1>4. \A S : InState(S) = {}
  BY <1>3 DEF InState
<1>5. Alive = {} /\ Taken = {}
  BY <1>4 DEF Alive, Taken
<1>6. Total(Amounts(htlcs), {}) = 0
  <2>1. OfInts(Amounts(htlcs), {})
    BY FS_EmptySet DEF OfInts
  <2> QED BY <2>1, TotalSplit
<1> QED BY <1>1, <1>2, <1>4, <1>5, <1>6, AmountsAssumption
        DEF PaidInv, MineAreOpen, PreimageKnown, TakenTogether, PayingIsAlone, SuccessIsSettled,
            PaidIsSettled, PaidAtMost

LEMMA PayInvoicePaid == ASSUME ~RetriesKnown PROVE PaidInv /\ PayInvoice => PaidInv'
<1> SUFFICES ASSUME PaidInv, PayInvoice PROVE PaidInv'
  OBVIOUS
<1>1. AmountsInv' /\ AmountsInv
  BY PayInvoiceAmounts DEF PaidInv
<1>2. /\ UNCHANGED <<htlcs, mine, preimage, status>> /\ session' = NewSession /\ in_flight = {} /\ ~preimage
  BY DEF PayInvoice
<1>3. InState({"claimed", "settled"}) = {}
  BY <1>2 DEF PaidInv, PreimageKnown
<1>4. Alive = {} /\ Settled = {}
  BY <1>2, <1>3 DEF in_flight, Alive, Settled, InState
<1>5. NewSession.queue = <<>>
  BY DEF NewSession
<1>6. SuccessIsSettled' /\ PaidIsSettled'
  <2>1. \A S : InState(S)' = InState(S)
    BY <1>2 DEF InState, Ids
  <2> QED BY <1>2, <1>5, <2>1 DEF SuccessIsSettled, PaidInv, PaidIsSettled, Settled
<1>7. Alone(mine, <<>>, htlcs, Alive, Settled)
  <2>1. Successes(<<>>) = <<>> /\ <<>> \in Seq(Int)
    BY DEF Successes
  <2>2. TotalOf(Successes(<<>>)) = 0
    BY <2>1, SequenceTotal
  <2>3. OfInts(Amounts(htlcs), {})
    BY FS_EmptySet DEF OfInts
  <2>4. Total(Amounts(htlcs), {}) = 0
    BY <2>3, TotalSplit
  <2> QED BY <1>4, <2>2, <2>4 DEF Alone
<1> QED BY <1>1, <1>2, <1>5, <1>6, <1>7, QuietPaid

\* pay_to_node ends, having read a success or none
LEMMA EndsPaid ==
    ASSUME PaidInv, AmountsInv', UNCHANGED <<htlcs, mine, preimage>>,
           NEW s, IsSession(s), \A i \in DOMAIN s.queue : s.queue[i].success => Settled # {},
           NEW success, success => Settled # {}, Ends(s, success)
    PROVE  PaidInv'
<1> DEFINE t == [s EXCEPT !.active = FALSE]
<1>1. t.queue = s.queue
  BY DEF IsSession
<1>2. session' = Kept(t) /\ pc' = "idle" /\ (status' = "paid" => success)
  BY DEF Ends
<1> HIDE DEF t
<1>3. session' # NoSession => session' = t
  BY <1>2 DEF Kept
<1>4. Settled' = Settled
  BY DEF Settled, InState, Ids
<1>5. SuccessIsSettled' /\ PaidIsSettled'
  BY <1>1, <1>2, <1>3, <1>4 DEF SuccessIsSettled, PaidIsSettled
<1> QED BY <1>2, <1>5, QuietPaid

\* pay_to_node goes on
LEMMA ContinuesPaid ==
    ASSUME PaidInv, AmountsInv', UNCHANGED <<htlcs, mine, preimage, status>>, pc # "idle",
           \A i \in DOMAIN session'.queue : session'.queue[i].success => Settled # {},
           TotalOf(Successes(session'.queue)) = TotalOf(Successes(session.queue))
    PROVE  PaidInv'
<1>1. Settled' = Settled
  BY DEF Settled, InState, Ids
<1>2. SuccessIsSettled' /\ PaidIsSettled'
  BY <1>1 DEF SuccessIsSettled, PaidInv, PaidIsSettled
<1>3. Alone(mine, session'.queue, htlcs, Alive, Settled)
  BY StillAlone
<1> QED BY <1>2, <1>3, QuietPaid

LEMMA PlansPaid == PaidInv /\ (CreateRoutes \/ NoRoutes \/ CannotSend \/ NoMoreResolved) => PaidInv'
<1> SUFFICES ASSUME PaidInv, CreateRoutes \/ NoRoutes \/ CannotSend \/ NoMoreResolved PROVE PaidInv'
  OBVIOUS
<1>1. AmountsInv /\ AmountsInv'
  BY CreateRoutesAmounts, GivesUpAmounts, NoMoreResolvedAmounts DEF PaidInv
<1>2. pc # "idle" /\ UNCHANGED <<htlcs, mine, preimage>>
  BY DEF CreateRoutes, NoRoutes, CannotSend, NoMoreResolved
<1>3. IsSession(session) /\ session # NoSession
  BY <1>1, <1>2, PayingReady
<1>4. \A i \in DOMAIN session.queue : session.queue[i].success => Settled # {}
  BY <1>3 DEF PaidInv, SuccessIsSettled
<1>5. \/ Ends(session, FALSE)
      \/ session' = session /\ status' = status
  BY DEF CreateRoutes, NoRoutes, CannotSend, NoMoreResolved, TriesAgain, Continues
<1>6. CASE Ends(session, FALSE)
  BY <1>1, <1>2, <1>3, <1>4, <1>6, EndsPaid
<1>7. CASE session' = session /\ status' = status
  BY <1>1, <1>2, <1>4, <1>7, ContinuesPaid
<1> QED BY <1>5, <1>6, <1>7

LEMMA HtlcResolvedPaid == PaidInv /\ HtlcResolved => PaidInv'
<1> SUFFICES ASSUME PaidInv, HtlcResolved PROVE PaidInv'
  OBVIOUS
<1> DEFINE s == wait_for_one_htlc_to_resolve(session)
           log == Head(session.queue)
<1>1. AmountsInv /\ AmountsInv' /\ IInv
  BY HtlcResolvedAmounts DEF PaidInv, AmountsInv
<1>2. pc # "idle" /\ session.queue # <<>> /\ UNCHANGED <<htlcs, mine, preimage>>
  BY DEF HtlcResolved
<1>3. /\ IsSession(session) /\ session # NoSession /\ Counts(session, mine)
      /\ Ready(htlcs, mine, session)
  BY <1>1, <1>2, PayingReady
<1>4. IsSession(s)
  BY <1>1, <1>2, <1>3, WaitCounts DEF IInv, TypeOK
<1>5. s.queue = Tail(session.queue)
  BY <1>2, <1>3, WaitBalanced DEF Ready
<1>6. session.queue \in Seq(Log)
  BY <1>3 DEF IsSession
<1>7. \A i \in DOMAIN session.queue : session.queue[i].success => Settled # {}
  BY <1>3 DEF PaidInv, SuccessIsSettled
<1>8. log.success => Settled # {}
  BY <1>2, <1>6, <1>7
<1>9. \A i \in DOMAIN s.queue : s.queue[i].success => Settled # {}
  <2>1. \A i \in DOMAIN Tail(session.queue) :
           i + 1 \in DOMAIN session.queue /\ Tail(session.queue)[i] = session.queue[i + 1]
    BY <1>2, <1>6
  <2> HIDE DEF s
  <2> QED BY <1>5, <1>7, <2>1
<1>10. ~log.success => TotalOf(Successes(s.queue)) = TotalOf(Successes(session.queue))
  <2>1. /\ TotalOf(Successes(session.queue)) = (IF log.success THEN log.amount ELSE 0)
                                               + TotalOf(Successes(Tail(session.queue)))
    BY <1>2, <1>6, QueueTotals
  <2>2. TotalOf(Successes(Tail(session.queue))) \in Int
    <3>1. Tail(session.queue) \in Seq(Log)
      BY <1>2, <1>6
    <3> QED BY <3>1, QueueTotals
  <2> HIDE DEF s, log
  <2> QED BY <1>5, <2>1, <2>2
<1>11. \/ log.success /\ Ends(s, TRUE)
       \/ Ends(s, FALSE)
       \/ ~log.success /\ session' = s /\ status' = status
  BY <1>1, <1>2, ResolvedIsCounted DEF HtlcResolved, TriesAgain, Continues
<1> HIDE DEF s, log
<1>12. CASE log.success /\ Ends(s, TRUE)
  BY <1>1, <1>2, <1>4, <1>8, <1>9, <1>12, EndsPaid
<1>13. CASE Ends(s, FALSE)
  BY <1>1, <1>2, <1>4, <1>9, <1>13, EndsPaid
<1>14. CASE ~log.success /\ session' = s /\ status' = status
  BY <1>1, <1>2, <1>9, <1>10, <1>14, ContinuesPaid
<1> QED BY <1>11, <1>12, <1>13, <1>14

\* One more htlc that is sent
LEMMA SentStates ==
    ASSUME NEW e \in Htlc, e.state = "sent", htlcs' = Append(htlcs, e), htlcs \in Seq(Htlc)
    PROVE  LET id == Len(htlcs) + 1
           IN  /\ Alive' = Alive \cup {id} /\ Taken' = Taken /\ Settled' = Settled
               /\ InState({"settled", "failed"})' = InState({"settled", "failed"})
               /\ InState({"claimed", "settled"})' = InState({"claimed", "settled"})
<1>1. /\ DOMAIN htlcs' = DOMAIN htlcs \cup {Len(htlcs) + 1} /\ Len(htlcs) + 1 \notin DOMAIN htlcs
      /\ htlcs'[Len(htlcs) + 1] = e /\ \A h \in DOMAIN htlcs : htlcs'[h] = htlcs[h]
  OBVIOUS
<1>2. \A S : InState(S)' = InState(S) \cup (IF "sent" \in S THEN {Len(htlcs) + 1} ELSE {})
  BY <1>1 DEF InState, Ids
<1> QED BY <1>2 DEF Alive, Taken, Settled

LEMMA PayToRoutePaid == PaidInv /\ PayToRoute => PaidInv'
<1> SUFFICES ASSUME PaidInv, PayToRoute PROVE PaidInv'
  OBVIOUS
<1> DEFINE e == Head(routes)
           id == Len(htlcs) + 1
           t == add_new_htlc(session, e)
           gs == Append(htlcs, e)
<1>1. AmountsInv /\ AmountsInv' /\ IInv' /\ htlcs \in Seq(Htlc) /\ Sendable(htlcs)
      /\ mine \subseteq Ids /\ Settled \subseteq Ids /\ Taken \subseteq Ids
  BY PayToRouteAmounts, SendableNow DEF PaidInv, AmountsInv, IInv, TypeOK, Nested
<1>2. /\ pc = "sending" /\ routes # <<>> /\ routes \in Seq(Htlc) /\ RoutesOK(routes, session, mine, htlcs)
  BY <1>1 DEF PayToRoute, AmountsInv, IInv, TypeOK, SendingHasRoutes, SendsTheRest
<1>3. Ready(htlcs, mine, session) /\ session # NoSession
  BY <1>1, <1>2, PayingReady
<1>4. e \in Htlc /\ e.amount > 0 /\ e.state = "sent" /\ e.bucket \in 1 .. Len(htlcs) + 1
      /\ t.amount <= AmountToPay
  BY <1>2, <1>3, SentAmounts
<1>5. ~(t.amount > AmountToPay) /\ t.queue = session.queue
  <2>1. t.amount = session.amount + e.amount /\ t.queue = session.queue
    <3>1. Added(t, session, e)
      BY <1>3, <1>4, AddedFields DEF Ready
    <3> HIDE DEF t
    <3> QED BY <3>1 DEF Added
  <2>2. t.amount \in Int
    BY <1>3, <1>4, <2>1 DEF Htlc, Ready, IsSession
  <2> HIDE DEF t
  <2> QED BY <1>4, <2>1, <2>2, AmountsAssumption
<1>6. /\ htlcs' = gs /\ mine' = mine \cup {id} /\ session' = t /\ pc' # "idle"
      /\ UNCHANGED <<preimage, status>>
  BY <1>5 DEF PayToRoute
<1> HIDE DEF e, t
<1>7. /\ Alive' = Alive \cup {id} /\ Taken' = Taken /\ Settled' = Settled
      /\ InState({"settled", "failed"})' = InState({"settled", "failed"})
      /\ InState({"claimed", "settled"})' = InState({"claimed", "settled"})
  BY <1>1, <1>4, <1>6, SentStates
<1>8. id \notin Ids
  BY <1>1 DEF Ids
<1>9. \A H \in SUBSET DOMAIN htlcs : Total(Amounts(gs), H) = Total(Amounts(htlcs), H)
  <2>1. Appended(gs, htlcs, e)
    BY <1>1, <1>4, AppendedTotals
  <2> HIDE DEF gs
  <2> QED BY <2>1 DEF Appended
<1> HIDE DEF gs, id
<1>10. MineAreOpen'
  <2>1. InState({"settled", "failed"}) \subseteq Ids
    BY DEF InState
  <2>2. mine \cap InState({"settled", "failed"}) = {}
    BY DEF PaidInv, MineAreOpen
  <2> QED BY <1>6, <1>7, <1>8, <2>1, <2>2 DEF MineAreOpen
<1>11. PreimageKnown' /\ PaidIsSettled'
  BY <1>6, <1>7 DEF PaidInv, PreimageKnown, PaidIsSettled
<1>12. SuccessIsSettled'
  BY <1>3, <1>5, <1>6, <1>7 DEF PaidInv, SuccessIsSettled
<1>13. TakenTogether'
  BY <1>1, <1>6, <1>7, <1>9 DEF PaidInv, TakenTogether, Ids
<1>14. PayingIsAlone'
  <2>1. Alive \subseteq mine \cup Settled /\ Total(Amounts(htlcs), Settled) <= TotalOf(Successes(session.queue))
    BY <1>2 DEF PaidInv, PayingIsAlone
  <2>2. Alive' \subseteq mine' \cup Settled'
    BY <1>6, <1>7, <2>1
  <2>3. Total(Amounts(htlcs'), Settled') <= TotalOf(Successes(session'.queue))
    BY <1>1, <1>5, <1>6, <1>7, <1>9, <2>1 DEF Ids
  <2> QED BY <2>2, <2>3 DEF PayingIsAlone
<1>15. PaidAtMost'
  BY <1>1, <1>6, <1>14, AloneIsAtMostNext
<1> QED BY <1>1, <1>10, <1>11, <1>12, <1>13, <1>14, <1>15 DEF PaidInv

\* A step that leaves the sessions, the status and the amounts alone
LEMMA OthersPaid ==
    ASSUME PaidInv, AmountsInv', UNCHANGED <<mine, session, pc, status>>, SameTerms(htlcs, htlcs'),
           Alive' \subseteq Alive, Taken' = Taken, Settled' = Settled,
           InState({"failed"})' = InState({"failed"}), PreimageKnown'
    PROVE  PaidInv'
<1>1. \A S : InState(S) = {h \in Ids : htlcs[h].state \in S} /\ InState(S)' = {h \in Ids' : htlcs'[h].state \in S}
  BY DEF InState
<1>2. InState({"settled", "failed"})' = InState({"settled", "failed"})
  <2>1. InState({"settled", "failed"}) = Settled \cup InState({"failed"})
    BY <1>1 DEF Settled
  <2>2. InState({"settled", "failed"})' = Settled' \cup InState({"failed"})'
    BY <1>1 DEF Settled
  <2> QED BY <2>1, <2>2
<1>3. MineAreOpen'
  BY <1>2 DEF PaidInv, MineAreOpen
<1>4. SuccessIsSettled' /\ PaidIsSettled'
  BY DEF PaidInv, SuccessIsSettled, PaidIsSettled
<1>5. ASSUME pc # "idle" PROVE Alone(mine, session.queue, htlcs, Alive', Settled)
  BY <1>5 DEF PaidInv, PayingIsAlone, Alone
<1> QED BY <1>3, <1>4, <1>5, CalmPaid

LEMMA RefusedPaid ==
    ASSUME PaidInv, NEW h \in Ids,
           Refuse(h) \/ (Heard(h) /\ (receive_htlc_settle(h) \/ receive_fail_htlc(h))), AmountsInv'
    PROVE  PaidInv'
<1>1. IInv
  BY DEF PaidInv, AmountsInv
<1>2. PICK from, to \in States :
         /\ htlcs[h].state = from /\ Becomes(h, to)
         /\ \/ from = "sent" /\ to = "refused" /\ preimage' = preimage
            \/ from = "taken" /\ to = "claimed" /\ preimage'
            \/ from = "refused" /\ to = "failing" /\ preimage' = preimage
  BY DEF Refuse, receive_htlc_settle, receive_fail_htlc, States
<1>3. UNCHANGED <<mine, session, pc, status>>
  BY DEF Refuse, receive_htlc_settle, receive_fail_htlc
<1>4. SameTerms(htlcs, htlcs')
  BY <1>1, <1>2, BecomesSame
<1>5. \A S : InState(S)' = IF to \in S THEN InState(S) \cup {h} ELSE InState(S) \ {h}
  BY <1>1, <1>2, BecomesStates
<1>6. \A S : h \in InState(S) <=> from \in S
  BY <1>2 DEF InState
<1>7. /\ Alive' \subseteq Alive /\ Taken' = Taken /\ Settled' = Settled
      /\ InState({"failed"})' = InState({"failed"})
      /\ InState({"claimed", "settled"})' \subseteq InState({"claimed", "settled"}) \/ preimage'
  BY <1>2, <1>5, <1>6 DEF Alive, Taken, Settled
<1>8. PreimageKnown'
  BY <1>2, <1>7 DEF PaidInv, PreimageKnown
<1> QED BY <1>3, <1>4, <1>7, <1>8, OthersPaid

LEMMA TakePaid ==
    ASSUME PaidInv, AmountsInv', NEW S \in SUBSET InState({"sent"}), Take(S)
    PROVE  PaidInv'
<1> DEFINE gs == htlcs'
<1>1. IInv /\ Nested /\ S \subseteq Ids /\ \A h \in S : htlcs[h].state = "sent"
  BY SendableNow DEF PaidInv, AmountsInv, InState
<1>2. UNCHANGED <<mine, session, pc, status, preimage>>
  BY DEF Take
<1>3. SameTerms(htlcs, htlcs')
  BY <1>1, DecideSame DEF Decide
<1>4. /\ DOMAIN htlcs' = DOMAIN htlcs
      /\ \A h \in Ids : h \in S => htlcs'[h].state = "taken"
      /\ \A h \in Ids : h \notin S => htlcs'[h] = htlcs[h]
  <2>1. \A h \in Ids : htlcs[h] \in Htlc
    BY <1>1 DEF IInv, TypeOK, Ids
  <2> QED BY <2>1 DEF Take, Htlc, Ids
<1>5. /\ Alive' = Alive /\ Taken' = Taken \cup S /\ Settled' = Settled
      /\ InState({"settled", "failed"})' = InState({"settled", "failed"})
      /\ InState({"claimed", "settled"})' = InState({"claimed", "settled"})
  BY <1>1, <1>4 DEF Alive, Taken, Settled, InState, Ids
<1>6. Sendable(htlcs) /\ Sendable(gs) /\ SameTerms(htlcs, gs)
  BY <1>1, <1>3, SendableNext DEF Nested
<1>7. MineAreOpen' /\ PreimageKnown' /\ SuccessIsSettled' /\ PaidIsSettled'
  BY <1>2, <1>5 DEF PaidInv, MineAreOpen, PreimageKnown, SuccessIsSettled, PaidIsSettled
<1>8. Taken \subseteq Ids /\ S \subseteq Ids /\ Alive \subseteq Ids /\ Settled \subseteq Ids
  BY <1>1 DEF Nested
<1> HIDE DEF gs
<1>9. \A H \in SUBSET Ids : Total(Amounts(gs), H) = Total(Amounts(htlcs), H)
  <2> SUFFICES ASSUME NEW H \in SUBSET Ids PROVE Total(Amounts(gs), H) = Total(Amounts(htlcs), H)
    OBVIOUS
  <2>1. H \in SUBSET DOMAIN htlcs /\ H \in SUBSET H
    BY DEF Ids
  <2> QED BY <1>6, <2>1, FewerTotals
<1>10. Total(Amounts(htlcs), S) >= AmountToPay
  <2> DEFINE f == [h \in S |-> htlcs[h].amount]
  <2>1. S \in SUBSET DOMAIN htlcs
    BY <1>8 DEF Ids
  <2>2. OfInts(Amounts(htlcs), S)
    BY <1>6, <2>1, HtlcTotals
  <2>3. DOMAIN f = S /\ \A h \in S : Amounts(htlcs)[h] = f[h]
    BY <2>1 DEF Amounts
  <2>4. Amount(S) = SumOf(f) /\ Amount(S) >= AmountToPay
    BY DEF Amount, Take
  <2> HIDE DEF f
  <2>5. Total(Amounts(htlcs), S) = Total(f, S)
    BY <2>2, <2>3, TotalSame
  <2> QED BY <2>3, <2>4, <2>5, SumIsTotal DEF TotalOf
<1>11. Total(Amounts(gs), Taken \cup S) >= AmountToPay
  <2> DEFINE T == Taken \cup S
  <2>1. T \in SUBSET DOMAIN htlcs /\ S \in SUBSET T /\ T \in SUBSET Ids
    BY <1>8 DEF Ids
  <2> HIDE DEF T
  <2>2. /\ Total(Amounts(htlcs), S) <= Total(Amounts(htlcs), T)
        /\ Total(Amounts(htlcs), S) \in Nat /\ Total(Amounts(htlcs), T) \in Nat
    BY <1>6, <2>1, HtlcTotals
  <2>3. Total(Amounts(gs), T) >= AmountToPay
    BY <1>9, <1>10, <2>1, <2>2, AmountsAssumption
  <2> QED BY <2>3 DEF T
<1>12. TakenTogether'
  BY <1>5, <1>11 DEF TakenTogether, gs
<1>13. PaidAtMost'
  BY <1>5, <1>8, <1>9 DEF PaidInv, PaidAtMost, gs
<1>14. PayingIsAlone'
  <2>1. pc # "idle" =>
            Alive \subseteq mine \cup Settled
            /\ Total(Amounts(gs), Settled) <= TotalOf(Successes(session.queue))
    BY <1>8, <1>9 DEF PaidInv, PayingIsAlone
  <2> QED BY <1>2, <1>5, <2>1 DEF PayingIsAlone, gs
<1> QED BY <1>7, <1>12, <1>13, <1>14 DEF PaidInv

LEMMA ReestablishPaid ==
    ASSUME PaidInv, AmountsInv', NEW F \in SUBSET InState({"claimed", "failing"}), Reestablish(F)
    PROVE  PaidInv'
<1>1. IInv /\ F \subseteq Ids /\ \A h \in F : htlcs[h].state \in {"claimed", "failing"}
  BY DEF PaidInv, AmountsInv, InState
<1>2. UNCHANGED <<mine, session, pc, status, preimage>>
  BY DEF Reestablish
<1>3. SameTerms(htlcs, htlcs')
  BY <1>1, ReestablishSame
<1>4. /\ DOMAIN htlcs' = DOMAIN htlcs
      /\ \A h \in F : htlcs'[h].state = IF htlcs[h].state = "claimed" THEN "taken" ELSE "refused"
      /\ \A h \in Ids : h \notin F => htlcs'[h] = htlcs[h]
  <2>1. \A h \in Ids : htlcs[h] \in Htlc
    BY <1>1 DEF IInv, TypeOK, Ids
  <2> QED BY <1>1, <2>1 DEF Reestablish, Htlc, Ids
<1>5. \A h \in Ids : \/ htlcs'[h] = htlcs[h]
                     \/ htlcs[h].state = "claimed" /\ htlcs'[h].state = "taken"
                     \/ htlcs[h].state = "failing" /\ htlcs'[h].state = "refused"
  BY <1>1, <1>4
<1>6. Ids' = Ids
  BY <1>4 DEF Ids
<1>7. /\ Alive' = Alive /\ Taken' = Taken /\ Settled' = Settled
      /\ InState({"failed"})' = InState({"failed"})
      /\ InState({"claimed", "settled"})' \subseteq InState({"claimed", "settled"})
  BY <1>5, <1>6 DEF Alive, Taken, Settled, InState
<1>8. PreimageKnown'
  BY <1>2, <1>7 DEF PaidInv, PreimageKnown
<1> QED BY <1>2, <1>3, <1>7, <1>8, OthersPaid

LEMMA HtlcFulfilledPaid ==
    ASSUME PaidInv, AmountsInv', NEW h \in Ids, HtlcFulfilled(h)
    PROVE  PaidInv'
<1> DEFINE x == htlcs[h].amount
           q == session.queue
           log == [success |-> TRUE, amount |-> x]
<1>1. IInv /\ IInv' /\ Nested /\ Sendable(htlcs) /\ h \in DOMAIN htlcs /\ x \in Int
  <2>1. IInv /\ IInv' /\ Nested /\ Sendable(htlcs) /\ h \in DOMAIN htlcs
    BY SendableNow DEF PaidInv, AmountsInv, Nested, Ids
  <2>2. htlcs[h] \in Htlc
    BY <2>1 DEF Sendable
  <2> QED BY <2>1, <2>2 DEF Htlc
<1>2. htlcs[h].state = "claimed" /\ Becomes(h, "settled") /\ UNCHANGED <<pc, preimage>>
  BY DEF HtlcFulfilled
<1>3. SameTerms(htlcs, htlcs')
  BY <1>1, <1>2, BecomesSame DEF States
<1>4. \A S : InState(S)' = IF "settled" \in S THEN InState(S) \cup {h} ELSE InState(S) \ {h}
  BY <1>1, <1>2, BecomesStates DEF States
<1>5. \A S : h \in InState(S) <=> "claimed" \in S
  BY <1>2 DEF InState
<1>6. /\ Alive' = Alive /\ Taken' = Taken /\ Settled' = Settled \cup {h} /\ h \notin Settled
      /\ h \in Alive /\ h \in InState({"claimed", "settled"})
      /\ InState({"settled", "failed"})' = InState({"settled", "failed"}) \cup {h}
  <2>1. h \in Alive /\ h \in Taken /\ h \notin Settled /\ h \in InState({"claimed", "settled"})
    BY <1>5 DEF Alive, Taken, Settled
  <2>2. /\ Alive' = Alive \cup {h} /\ Taken' = Taken \cup {h} /\ Settled' = Settled \cup {h}
        /\ InState({"settled", "failed"})' = InState({"settled", "failed"}) \cup {h}
    BY <1>4 DEF Alive, Taken, Settled
  <2> QED BY <2>1, <2>2
<1>7. PreimageKnown'
  BY <1>2, <1>6 DEF PaidInv, PreimageKnown
<1>8. SuccessIsSettled' /\ PaidIsSettled'
  BY <1>6 DEF SuccessIsSettled, PaidIsSettled
<1>9. mine' = mine \ {h}
  BY DEF HtlcFulfilled, fulfilled_of_session, fulfilled_of_none
<1>10. MineAreOpen'
  BY <1>6, <1>9 DEF PaidInv, MineAreOpen
<1> DEFINE gs == htlcs'
<1>11. SameTerms(htlcs, gs)
  BY <1>3
<1>12. Alive \in SUBSET DOMAIN htlcs /\ Taken \in SUBSET DOMAIN htlcs /\ Settled \in SUBSET DOMAIN htlcs
       /\ Settled \cup {h} \in SUBSET DOMAIN htlcs
  BY <1>1 DEF Nested, Ids
<1> HIDE DEF gs, x, q, log
<1>13. \A H \in SUBSET DOMAIN htlcs : Total(Amounts(gs), H) = Total(Amounts(htlcs), H)
  <2> SUFFICES ASSUME NEW H \in SUBSET DOMAIN htlcs PROVE Total(Amounts(gs), H) = Total(Amounts(htlcs), H)
    OBVIOUS
  <2>1. H \in SUBSET H
    OBVIOUS
  <2> QED BY <1>1, <1>11, <2>1, FewerTotals
<1>14. PaidAtMost' /\ TakenTogether'
  BY <1>6, <1>12, <1>13 DEF PaidInv, PaidAtMost, TakenTogether, gs
<1>15. ASSUME pc # "idle"
       PROVE  /\ Alive \subseteq mine' \cup Settled'
              /\ Total(Amounts(gs), Settled \cup {h}) <= TotalOf(Successes(session'.queue))
  <2>1. Alive \subseteq mine \cup Settled /\ Total(Amounts(htlcs), Settled) <= TotalOf(Successes(q))
    BY <1>15 DEF PaidInv, PayingIsAlone, q
  <2>2. h \in mine
    BY <1>6, <2>1
  <2>3. IsSession(session) /\ session # NoSession /\ session.active
    BY <1>15, PayingReady DEF PaidInv, AmountsInv, IInv, PayingHasSession
  <2> DEFINE t == Put(session, TRUE, x)
  <2>4. t.queue = Append(q, log) /\ t.active = session.active
    BY <2>3 DEF Put, IsSession, q, log
  <2>5. session' = Kept(t)
    BY <2>2 DEF HtlcFulfilled, fulfilled_of_session, x
  <2> HIDE DEF t
  <2>6. session' = t
    BY <2>3, <2>4, <2>5 DEF Kept, can_be_deleted
  <2>7. q \in Seq(Log) /\ log \in Log /\ log.success /\ log.amount = x
    BY <1>1, <2>3 DEF IsSession, Log, q, log
  <2>8. TotalOf(Successes(Append(q, log))) = TotalOf(Successes(q)) + x /\ TotalOf(Successes(q)) \in Int
    BY <2>7, QueueTotals
  <2>9. Total(Amounts(htlcs), Settled \cup {h}) = x + Total(Amounts(htlcs), Settled)
        /\ Total(Amounts(htlcs), Settled) \in Int
    <3>1. OfInts(Amounts(htlcs), Settled) /\ Amounts(htlcs)[h] = x
      BY <1>1, <1>12, HtlcTotals DEF Amounts, x
    <3> QED BY <1>1, <1>6, <3>1, TotalWith, TotalSplit
  <2>10. Total(Amounts(gs), Settled \cup {h}) <= TotalOf(Successes(session'.queue))
    <3>1. Total(Amounts(gs), Settled \cup {h}) = Total(Amounts(htlcs), Settled \cup {h})
      BY <1>12, <1>13
    <3>2. session'.queue = Append(q, log)
      BY <2>4, <2>6
    <3> QED BY <1>1, <2>1, <2>8, <2>9, <3>1, <3>2
  <2> QED BY <1>6, <1>9, <2>1, <2>10
<1>16. PayingIsAlone'
  BY <1>2, <1>6, <1>15 DEF PayingIsAlone, gs
<1> QED BY <1>7, <1>8, <1>10, <1>14, <1>16 DEF PaidInv

\* A failed htlc puts no success into the queue
LEMMA FailedQueue ==
    ASSUME NEW s, IsSession(s), NEW htlc \in Htlc
    PROVE  \/ on_htlc_fail(s, htlc).queue = s.queue
           \/ \E log \in Log : ~log.success /\ on_htlc_fail(s, htlc).queue = Append(s.queue, log)
<1> DEFINE b == htlc.bucket
           c == [s EXCEPT !.buckets[b].failed = @ + htlc.amount]
           log(a) == [success |-> FALSE, amount |-> a]
<1>1. c.queue = s.queue /\ \A a : /\ Put(s, FALSE, a).queue = Append(s.queue, log(a))
                                  /\ Put(c, FALSE, a).queue = Append(s.queue, log(a))
  BY DEF IsSession, Put
<1>2. \A a \in Int : log(a) \in Log /\ ~log(a).success
  BY DEF Log
<1>3. htlc.amount \in Int /\ (b \in DOMAIN s.buckets => s.buckets[b].sent \in Int)
  BY DEF Htlc, IsSession
<1> HIDE DEF c, log
<1>4. on_htlc_fail(s, htlc) = IF b \notin DOMAIN s.buckets THEN Put(s, FALSE, htlc.amount)
                              ELSE IF c.buckets[b].failed # s.buckets[b].sent THEN c
                              ELSE Put(c, FALSE, s.buckets[b].sent)
  BY DEF on_htlc_fail, c
<1> HIDE DEF b
<1> QED BY <1>1, <1>2, <1>3, <1>4

LEMMA HtlcFailedPaid ==
    ASSUME PaidInv, AmountsInv', NEW h \in Ids, HtlcFailed(h)
    PROVE  PaidInv'
<1>1. IInv /\ IInv' /\ h \in DOMAIN htlcs /\ htlcs[h] \in Htlc
  <2>1. IInv /\ IInv' /\ htlcs \in Seq(Htlc) /\ h \in DOMAIN htlcs
    BY DEF PaidInv, AmountsInv, IInv, TypeOK, Ids
  <2> QED BY <2>1
<1>2. htlcs[h].state = "failing" /\ Becomes(h, "failed") /\ UNCHANGED <<pc, preimage>>
  BY DEF HtlcFailed
<1>3. SameTerms(htlcs, htlcs')
  BY <1>1, <1>2, BecomesSame DEF States
<1>4. \A S : InState(S)' = IF "failed" \in S THEN InState(S) \cup {h} ELSE InState(S) \ {h}
  BY <1>1, <1>2, BecomesStates DEF States
<1>5. \A S : h \in InState(S) <=> "failing" \in S
  BY <1>2 DEF InState
<1>6. /\ Alive' = Alive /\ Taken' = Taken /\ Settled' = Settled /\ h \notin Alive
      /\ InState({"settled", "failed"})' = InState({"settled", "failed"}) \cup {h}
      /\ InState({"claimed", "settled"})' = InState({"claimed", "settled"})
  <2>1. h \notin Alive /\ h \notin Taken /\ h \notin Settled /\ h \notin InState({"claimed", "settled"})
    BY <1>5 DEF Alive, Taken, Settled
  <2>2. /\ Alive' = Alive \ {h} /\ Taken' = Taken \ {h} /\ Settled' = Settled \ {h}
        /\ InState({"settled", "failed"})' = InState({"settled", "failed"}) \cup {h}
        /\ InState({"claimed", "settled"})' = InState({"claimed", "settled"}) \ {h}
    BY <1>4 DEF Alive, Taken, Settled
  <2> QED BY <2>1, <2>2
<1>7. PreimageKnown' /\ PaidIsSettled'
  <2>1. status' = status \/ status' = "unpaid"
    BY DEF HtlcFailed, failed_of_session, failed_of_none
  <2> QED BY <1>2, <1>6, <2>1 DEF PaidInv, PreimageKnown, PaidIsSettled
<1>8. mine' = mine \ {h}
  BY DEF HtlcFailed, failed_of_session, failed_of_none
<1>9. MineAreOpen'
  BY <1>6, <1>8 DEF PaidInv, MineAreOpen
<1>10. /\ session' # NoSession =>
            /\ TotalOf(Successes(session'.queue)) = TotalOf(Successes(session.queue))
            /\ \A i \in DOMAIN session'.queue : session'.queue[i].success => Settled # {}
  <2> SUFFICES ASSUME session' # NoSession
               PROVE  /\ TotalOf(Successes(session'.queue)) = TotalOf(Successes(session.queue))
                      /\ \A i \in DOMAIN session'.queue : session'.queue[i].success => Settled # {}
    OBVIOUS
  <2>1. CASE h \notin mine
    <3>1. session' = session
      BY <2>1 DEF HtlcFailed, failed_of_none
    <3> QED BY <3>1 DEF PaidInv, SuccessIsSettled
  <2>2. CASE h \in mine
    <3> DEFINE t == on_htlc_fail(session, htlcs[h])
    <3>1. session # NoSession
      BY <1>1, <2>2 DEF IInv, NoneIsMissed
    <3>2. IsSession(session)
      BY <3>1, ReadyNow DEF PaidInv
    <3>3. session' = t
      BY <2>2 DEF HtlcFailed, failed_of_session, Kept
    <3>4. \A i \in DOMAIN session.queue : session.queue[i].success => Settled # {}
      BY <3>1 DEF PaidInv, SuccessIsSettled
    <3>5. t.queue = session.queue \/ \E log \in Log : ~log.success /\ t.queue = Append(session.queue, log)
      BY <1>1, <3>2, FailedQueue
    <3> HIDE DEF t
    <3>6. session.queue \in Seq(Log)
      BY <3>2 DEF IsSession
    <3>7. CASE t.queue = session.queue
      BY <3>3, <3>4, <3>7
    <3>8. CASE \E log \in Log : ~log.success /\ t.queue = Append(session.queue, log)
      <4>1. PICK log \in Log : ~log.success /\ t.queue = Append(session.queue, log)
        BY <3>8
      <4>2. TotalOf(Successes(Append(session.queue, log))) = TotalOf(Successes(session.queue)) + 0
            /\ TotalOf(Successes(session.queue)) \in Int
        BY <3>6, <4>1, QueueTotals
      <4>3. \A i \in DOMAIN Append(session.queue, log) :
               \/ i \in DOMAIN session.queue /\ Append(session.queue, log)[i] = session.queue[i]
               \/ Append(session.queue, log)[i] = log
        BY <3>6
      <4> QED BY <3>3, <3>4, <4>1, <4>2, <4>3
    <3> QED BY <3>5, <3>7, <3>8
  <2> QED BY <2>1, <2>2
<1>11. SuccessIsSettled'
  BY <1>6, <1>10 DEF SuccessIsSettled
<1>12. ASSUME pc # "idle" PROVE Alone(mine', session'.queue, htlcs, Alive', Settled)
  <2>1. session' # NoSession
    BY <1>1, <1>2, <1>12 DEF IInv, PayingHasSession
  <2>2. Alive \subseteq mine \cup Settled /\ Total(Amounts(htlcs), Settled) <= TotalOf(Successes(session.queue))
    BY <1>12 DEF PaidInv, PayingIsAlone
  <2> QED BY <1>6, <1>8, <1>10, <2>1, <2>2 DEF Alone
<1> QED BY <1>2, <1>3, <1>6, <1>7, <1>9, <1>11, <1>12, CalmPaid

LEMMA RepeatedPaid ==
    ASSUME PaidInv, AmountsInv', NEW h \in Ids, Repeated(h)
    PROVE  PaidInv'
<1>1. UNCHANGED <<htlcs, mine, preimage, session, pc>>
  BY DEF Repeated, fulfilled_of_none, failed_of_none
<1>2. Settled' = Settled
  BY <1>1 DEF Settled, InState, Ids
<1>3. status' = "paid" => Settled # {}
  <2>1. CASE htlcs[h].state = "settled"
    BY <2>1 DEF Settled, InState
  <2>2. CASE htlcs[h].state # "settled"
    BY <2>2 DEF Repeated, failed_of_none, PaidInv, PaidIsSettled
  <2> QED BY <2>1, <2>2
<1>4. SuccessIsSettled' /\ PaidIsSettled'
  BY <1>1, <1>2, <1>3 DEF PaidInv, SuccessIsSettled, PaidIsSettled
<1>5. pc # "idle" => Alone(mine, session.queue, htlcs, Alive, Settled)
  BY StillAlone
<1> QED BY <1>1, <1>4, <1>5, QuietPaid

LEMMA RestartPaid == ASSUME PaidInv, AmountsInv', Restart PROVE PaidInv'
<1>1. /\ UNCHANGED <<htlcs, preimage, status>> /\ mine' = {} /\ session' = NoSession /\ pc' = "idle"
  BY DEF Restart
<1>2. \A S : InState(S)' = InState(S)
  BY <1>1 DEF InState, Ids
<1>3. /\ Alive' = Alive /\ Taken' = Taken /\ Settled' = Settled
      /\ MineAreOpen' /\ PreimageKnown' /\ SuccessIsSettled' /\ PaidIsSettled'
  BY <1>1, <1>2 DEF Alive, Taken, Settled, MineAreOpen, PreimageKnown, SuccessIsSettled, PaidIsSettled,
                    PaidInv
<1>4. SameTerms(htlcs, htlcs')
  BY <1>1 DEF SameTerms
<1> QED BY <1>1, <1>3, <1>4, CalmPaid

LEMMA StepPaid == ASSUME ~RetriesKnown PROVE PaidInv /\ [Next]_vars => PaidInv'
<1> SUFFICES ASSUME PaidInv, [Next]_vars PROVE PaidInv'
  OBVIOUS
<1>1. AmountsInv'
  BY StepAmounts DEF PaidInv
<1>2. CASE PayToNode
  BY <1>2, PlansPaid, PayToRoutePaid, HtlcResolvedPaid DEF PayToNode
<1>3. CASE Decide
  BY <1>1, <1>3, TakePaid, RefusedPaid DEF Decide
<1>4. ASSUME NEW h \in Ids, Heard(h) PROVE PaidInv'
  BY <1>1, <1>4, RefusedPaid, HtlcFulfilledPaid, HtlcFailedPaid DEF Heard
<1>5. CASE UNCHANGED vars
  <2>1. UNCHANGED <<htlcs, mine, preimage, session, pc, status>>
    BY <1>5 DEF vars
  <2>2. SuccessIsSettled' /\ PaidIsSettled'
    BY <2>1 DEF PaidInv, SuccessIsSettled, PaidIsSettled, Settled, InState, Ids
  <2>3. pc # "idle" => Alone(mine, session.queue, htlcs, Alive, Settled)
    BY StillAlone
  <2> QED BY <1>1, <2>1, <2>2, <2>3, QuietPaid
<1> QED BY <1>1, <1>2, <1>3, <1>4, <1>5, PayInvoicePaid, RepeatedPaid, ReestablishPaid, RestartPaid DEF Next

\* What was paid in every reachable state, unless pay_invoice is called although the preimage
\* is known.
THEOREM PaidInvariance == ASSUME ~RetriesKnown PROVE Spec => []PaidInv
<1>1. PaidInv /\ [Next]_vars => PaidInv'
  BY StepPaid
<1> QED BY <1>1, InitPaid, PTL DEF Spec

LEMMA OnceInPaid == PaidInv => PaidOnce
<1> SUFFICES ASSUME PaidInv PROVE PaidOnce
  OBVIOUS
<1> DEFINE f == [h \in Alive |-> htlcs[h].amount]
<1>1. Sendable(htlcs) /\ Alive \in SUBSET DOMAIN htlcs
  BY SendableNow DEF PaidInv, Nested, Ids
<1>2. OfInts(Amounts(htlcs), Alive)
  BY <1>1, HtlcTotals
<1>3. DOMAIN f = Alive /\ \A h \in Alive : Amounts(htlcs)[h] = f[h]
  BY <1>1 DEF Amounts
<1>4. Amount(Alive) = SumOf(f)
  BY DEF Amount
<1> HIDE DEF f
<1>5. Amount(Alive) = Total(Amounts(htlcs), Alive)
  BY <1>2, <1>3, <1>4, TotalSame, SumIsTotal DEF TotalOf
<1> QED BY <1>5 DEF PaidInv, PaidAtMost, PaidOnce, Alive

\* An invoice is paid at most once, over all its attempts, however the amount is split, in
\* whatever order htlcs resolve and callbacks come, over disconnections and restarts: as long
\* as pay_invoice is not called with the preimage known.
THEOREM PaidOnceAlways == ASSUME ~RetriesKnown PROVE Spec => []PaidOnce
<1> QED BY PaidInvariance, OnceInPaid, PTL

-----------------------------------------------------------------------------
(* A paid invoice stays paid *)

\* pay_to_node cannot fail once an htlc was settled.
LEMMA SettledIsRead ==
    ASSUME PaidInv, Settled # {}, PayToNode, status = "paid"
    PROVE  status' = "paid"
<1>1. AmountsInv /\ PayingIsAlone /\ TakenTogether /\ pc # "idle" /\ Taken # {}
  BY SendableNow DEF PaidInv, Nested, PayToNode, CreateRoutes, NoRoutes, PayToRoute, CannotSend,
                     HtlcResolved, NoMoreResolved
<1>2. session.amount = AmountToPay /\ \A i \in DOMAIN session.queue : session.queue[i].success
  BY <1>1, TakenLeavesNothing
<1>3. IsSession(session) /\ Ready(htlcs, mine, session)
  BY <1>1, PayingReady
<1>4. ~NoRoutes /\ ~NoMoreResolved
  <2>1. AmountToPay \in Nat
    BY AmountsAssumption
  <2>2. ~(get_outstanding_amount_to_send(session) > 0)
    BY <1>2, <2>1 DEF get_outstanding_amount_to_send
  <2>3. pc # "draining"
    BY <1>1, <1>2, <2>1 DEF AmountsInv, DrainsLess
  <2> QED BY <2>2, <2>3 DEF NoRoutes, NoMoreResolved
<1>5. pc # "sending"
  <2> SUFFICES ASSUME pc = "sending" PROVE FALSE
    OBVIOUS
  <2> DEFINE e == Head(routes)
             t == add_new_htlc(session, e)
  <2>1. routes # <<>> /\ routes \in Seq(Htlc) /\ RoutesOK(routes, session, mine, htlcs)
    BY <1>1 DEF AmountsInv, IInv, TypeOK, SendingHasRoutes, SendsTheRest
  <2>2. t.amount <= AmountToPay /\ e \in Htlc /\ e.amount > 0
    BY <1>3, <2>1, SentAmounts
  <2>3. t.amount = session.amount + e.amount /\ e.amount \in Int /\ AmountToPay \in Int
    <3>1. t.amount = session.amount + e.amount
      <4>1. Added(t, session, e)
        BY <1>3, <2>2, AddedFields
      <4> HIDE DEF t
      <4> QED BY <4>1 DEF Added
    <3>2. e.amount \in Int
      BY <2>2 DEF Htlc
    <3> QED BY <3>1, <3>2, AmountsAssumption
  <2> HIDE DEF t, e
  <2> QED BY <1>2, <2>2, <2>3
<1>6. ASSUME HtlcResolved PROVE status' = "paid"
  <2>1. session.queue # <<>> /\ session.queue \in Seq(Log)
    BY <1>3, <1>6 DEF HtlcResolved, IsSession
  <2>2. Head(session.queue).success
    BY <1>2, <2>1
  <2>3. Ends(wait_for_one_htlc_to_resolve(session), TRUE)
    BY <1>1, <1>6, <2>1, <2>2, ResolvedIsCounted DEF HtlcResolved
  <2> QED BY <2>3 DEF Ends
<1>7. CreateRoutes => status' = status
  BY DEF CreateRoutes
<1> QED BY <1>4, <1>5, <1>6, <1>7 DEF PayToNode, PayToRoute, CannotSend

LEMMA PaidStays == PaidInv /\ [Next]_vars => (status = "paid" => status' = "paid")
<1> SUFFICES ASSUME PaidInv, [Next]_vars, status = "paid" PROVE status' = "paid"
  OBVIOUS
<1>1. Settled # {} /\ preimage
  BY DEF PaidInv, PaidIsSettled, PreimageKnown, Settled, InState
<1>2. CASE PayToNode
  BY <1>1, <1>2, SettledIsRead
<1>3. ASSUME NEW h \in Ids, Heard(h) PROVE status' = "paid"
  BY <1>1, <1>3 DEF Heard, receive_htlc_settle, receive_fail_htlc, HtlcFulfilled, HtlcFailed,
                    fulfilled_of_session, fulfilled_of_none, failed_of_session, failed_of_none
<1>4. ASSUME NEW h \in Ids, Repeated(h) PROVE status' = "paid"
  BY <1>1, <1>4 DEF Repeated, fulfilled_of_none, failed_of_none
<1>5. CASE UNCHANGED vars
  BY <1>5 DEF vars
<1> QED BY <1>2, <1>3, <1>4, <1>5
        DEF Next, PayInvoice, Decide, Take, Refuse, Reestablish, Restart

\* The attempt that runs and the callbacks, late or repeated, never offer a payment again that
\* was found to be paid: as long as pay_invoice is not called with the preimage known.
THEOREM PaidForGoodAlways == ASSUME ~RetriesKnown PROVE Spec => PaidForGood
<1>1. Spec => [][PaidInv /\ [Next]_vars]_vars
  BY PaidInvariance, PTL DEF Spec
<1> QED BY <1>1, PaidStays, PTL DEF PaidForGood

=============================================================================
