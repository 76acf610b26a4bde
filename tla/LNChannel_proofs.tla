-------------------------- MODULE LNChannel_proofs --------------------------
(***************************************************************************)
(* Proofs about LNChannel, for any number of htlcs, disconnects, crashes   *)
(* and fee updates.                                                        *)
(*                                                                         *)
(* What a node does comes down to a few kinds of outcomes (Kind), each of  *)
(* which changes but some fields of the channel and sends but some types   *)
(* of messages; the invariants are shown to be kept by these, and not by   *)
(* every handler anew:                                                     *)
(*   BasicInv  the types, and that the file has the channel's ctns;        *)
(*   Dance     what is true of the messages after a connection is made;    *)
(*   Forward   without restored copies no log is behind what was signed or *)
(*             revoked, so that no ctn is signed twice and the file is     *)
(*             never behind;                                               *)
(*   OpenAt    then, without a user who closes it, the channel stays open; *)
(*   OneLoses  if one node restores copies, it does not go on with a       *)
(*             channel that is ahead of it, nor publish a revoked ctx;     *)
(*   CloseInv  what each node has to say in a close, and whose turn it is, *)
(*             is agreed, and so is the closing tx at the end.             *)
(***************************************************************************)
EXTENDS LNChannel, FiniteSetTheorems, SequenceTheorems, TLAPS

LogFields == {"ctn", "revack", "next", "adds", "locked", "settles", "fails", "fees",
              "initiator", "unacked", "revokeLast", "active", "delta"}
ChannelFields == {"hm", "state", "peer_state", "task", "reest", "may_update", "shutdown",
                  "close", "inbox", "fee_range", "closing_tx"}
States     == {"OPEN", "SHUTDOWN", "CLOSING", "FORCE_CLOSING", "WE_ARE_TOXIC"}
Final      == {"FORCE_CLOSING", "WE_ARE_TOXIC"}
PeerStates == {"DISCONNECTED", "REESTABLISHING", "GOOD", "BAD"}

IsSeq(s) == Len(s) \in Nat /\ s = [k \in 1 .. Len(s) |-> s[k]]

\* What is kept for a replay: updates, and signatures among txs
IsUnacked(u, txs) ==
    \A c \in DOMAIN u :
        /\ IsSeq(u[c])
        /\ \A k \in 1 .. Len(u[c]) :
              /\ u[c][k].type \in Updates \cup {"commitment_signed"}
              /\ u[c][k].type = "commitment_signed" => u[c][k].sig \in txs

\* A log of a node that signed the txs
IsLog(m, txs) ==
    /\ DOMAIN m = LogFields
    /\ m.ctn \in [Owner -> Nat]
    /\ m.revack \in [Owner -> BOOLEAN]
    /\ ~m.revack[Local]
    /\ IsUnacked(m.unacked, txs)

IsChannel(c, txs) ==
    /\ DOMAIN c = ChannelFields
    /\ IsLog(c.hm, txs)
    /\ c.state \in States
    /\ c.peer_state \in PeerStates
    /\ c.task \in {"none", "spawned", "waiting"}
    /\ \/ c.reest \in {<< >>, <<Exception>>}
       \/ /\ c.reest = <<c.reest[1]>>
          /\ c.reest[1].type = "channel_reestablish"
          /\ c.reest[1].next_commitment_number \in Nat
          /\ c.reest[1].next_revocation_number \in Nat
    /\ {"at", "is_local", "received"} \subseteq DOMAIN c.close
    /\ c.close.is_local \in BOOLEAN
    /\ c.shutdown \in BOOLEAN

IsFile(f, txs) == DOMAIN f = {"hm", "state"} /\ IsLog(f.hm, txs) /\ f.state \in States

\* What n signed
SignedBy(n) == {tx \in signed : tx.owner = Peer(n)}

\* What goes out when somebody who signed txs has channel c
IsSent(c, x, txs) ==
    /\ x.type \in Messages
    /\ x.type = "commitment_signed" => x.sig \in txs
    /\ x.type = "revoke_and_ack" => x.secret \in Nat /\ x.secret < c.hm.ctn[Local]
    /\ x.type = "channel_reestablish" =>
          x.next_commitment_number \in Nat /\ x.next_revocation_number \in Nat

\* A message on its way to n
IsMessage(n, x) == IsSent(ch[Peer(n)], x, SignedBy(Peer(n)))

Types ==
    /\ DOMAIN ch = Node /\ DOMAIN net = Node /\ DOMAIN disk = Node /\ DOMAIN backup = Node
    /\ DOMAIN left = {"disconnects", "crashes", "feeUpdates", "restores"}
    /\ connected \in BOOLEAN
    /\ alarms \subseteq Messages
    /\ \A n \in Node :
          /\ IsChannel(ch[n], SignedBy(n))
          /\ IsSeq(net[n])
          /\ \A k \in 1 .. Len(net[n]) : IsMessage(n, net[n][k])
          /\ n \in Persistent => IsFile(disk[n], SignedBy(n))
          /\ backup[n] # NoFile => n \in Persistent /\ IsFile(backup[n], SignedBy(n))
          /\ ~connected => /\ net[n] = << >>
                           /\ ch[n].peer_state = "DISCONNECTED"
                           /\ ch[n].task = "none" /\ ch[n].reest = << >> /\ ~ch[n].shutdown

\* The ctns in the file are those of the channel.
Saved ==
    \A n \in Persistent :
        /\ disk[n].hm.ctn = ch[n].hm.ctn /\ disk[n].hm.revack = ch[n].hm.revack
        /\ disk[n].state = ch[n].state

BasicInv == Types /\ Saved

\* No copy of a wallet file is restored.
Forward ==
    /\ left.restores = 0
    /\ UniqueSignedCtx
    /\ \A n \in Node : \A tx \in SignedBy(n) :
          tx.ctn \in Nat /\ tx.ctn <= ctn_latest(ch[n].hm, Remote)
    /\ \A n \in Node :
          /\ ch[n].hm.ctn[Remote] <= ch[Peer(n)].hm.ctn[Local]
          /\ ch[Peer(n)].hm.ctn[Local] <= ctn_latest(ch[n].hm, Remote)

-----------------------------------------------------------------------------
Good(n) == ch[n].peer_state = "GOOD"

\* What the other node says of itself when it reestablishes the channel
Tells(n, x) ==
    /\ x.next_commitment_number = ch[Peer(n)].hm.ctn[Local] + 1
    /\ x.next_revocation_number = ch[Peer(n)].hm.ctn[Remote]

IsAnnouncement(n, x) ==
    x.type = "channel_reestablish" =>
        /\ x.next_revocation_number <= ch[Peer(n)].hm.ctn[Remote]
        /\ ~Good(n) => \/ Tells(n, x)
                       \/ ch[Peer(n)].state = "WE_ARE_TOXIC"
                          /\ x.next_commitment_number = 0 /\ x.next_revocation_number = 0

Dance ==
    \A n \in Node :
        /\ Good(n) => ch[Peer(n)].hm.ctn[Remote] <= ch[n].hm.ctn[Local]
        /\ ~Good(n) => \A k \in 1 .. Len(net[Peer(n)]) :
              net[Peer(n)][k].type \notin {"revoke_and_ack", "commitment_signed"}
        /\ \A k \in 1 .. Len(net[n]) : IsAnnouncement(n, net[n][k])
        /\ Blocked(ch[n]) =>
              LET x == ch[n].reest[1]
              IN  /\ x.type = "channel_reestablish"
                  /\ x.next_revocation_number <= ch[n].hm.ctn[Local]
                  /\ ~Good(n) => Tells(n, x)
        /\ \A k \in 1 .. Len(net[n]) :
              net[n][k].type = "error" => ch[Peer(n)].state = "WE_ARE_TOXIC"
        /\ ch[n].close.is_local => left.restores = 0 /\ left.crashes = 0
        /\ ch[n].task = "spawned" => ch[n].state \in Final

\* What one can say of something that l may go on from
CopyIs(l, ctn, state) ==
    /\ ctn[Remote] <= ch[Peer(l)].hm.ctn[Local]
    /\ state = "WE_ARE_TOXIC" => ctn[Local] < ch[Peer(l)].hm.ctn[Remote]

\* No node but l restores copies of its wallet file.
OneLoses(l) ==
    /\ CopyIs(l, ch[l].hm.ctn, ch[l].state)
    /\ backup[l] # NoFile => CopyIs(l, backup[l].hm.ctn, backup[l].state)
    /\ ch[Peer(l)].state # "WE_ARE_TOXIC"
    /\ ch[l].state = "FORCE_CLOSING" \/ ch[l].close.at # "none" =>
          ch[Peer(l)].hm.ctn[Remote] <= ch[l].hm.ctn[Local]
    /\ backup[l] # NoFile /\ backup[l].state = "FORCE_CLOSING" =>
          ch[l].state = "FORCE_CLOSING" /\ ch[l].hm.ctn = backup[l].hm.ctn

-----------------------------------------------------------------------------
(* The two nodes *)

(* Each node's peer is the other one. *)
LEMMA PeerFacts ==
    ASSUME NEW n \in Node
    PROVE  /\ Peer(n) \in Node /\ Peer(n) # n /\ Peer(Peer(n)) = n
           /\ \A q \in Node : q = n \/ q = Peer(n)
<1>1. \E p \in Node : p # n
  <2>1. CASE Node = {n}
    <3>1. Cardinality(Node) = 1
      BY <2>1, FS_Singleton
    <3> QED BY <3>1, NodeAssumption
  <2>2. CASE Node # {n}
    BY <2>2
  <2> QED BY <2>1, <2>2
<1>2. Peer(n) \in Node /\ Peer(n) # n
  BY <1>1 DEF Peer
<1>3. \A q \in Node : q = n \/ q = Peer(n)
  <2> SUFFICES ASSUME NEW q \in Node, q # n, q # Peer(n) PROVE FALSE
    OBVIOUS
  <2>1. /\ IsFiniteSet({n, Peer(n)}) /\ Cardinality({n, Peer(n)}) = 2
    <3>1. {n} \cup {Peer(n)} = {n, Peer(n)} /\ Peer(n) \notin {n}
      BY <1>2
    <3>2. IsFiniteSet({n}) /\ Cardinality({n}) = 1
      BY FS_Singleton
    <3> QED BY <3>1, <3>2, FS_AddElement
  <2>2. IsFiniteSet({n, Peer(n), q}) /\ Cardinality({n, Peer(n), q}) = 3
    <3>1. /\ {n, Peer(n)} \cup {q} = {n, Peer(n), q} /\ q \notin {n, Peer(n)}
      OBVIOUS
    <3> QED BY <2>1, <3>1, FS_AddElement
  <2>3. Cardinality({n, Peer(n), q}) <= Cardinality(Node)
    BY <1>2, FS_Subset, NodeAssumption
  <2> QED BY <2>2, <2>3, NodeAssumption
<1>4. Peer(Peer(n)) = n
  <2>1. \E p \in Node : p # Peer(n)
    BY <1>2
  <2>2. Peer(Peer(n)) \in Node /\ Peer(Peer(n)) # Peer(n)
    BY <2>1 DEF Peer
  <2> QED BY <1>3, <2>2
<1> QED BY <1>2, <1>3, <1>4

(* A node has a Local and a Remote side. *)
LEMMA OwnerFacts ==
    /\ Local \in Owner /\ Remote \in Owner /\ Local # Remote
    /\ \A s \in Owner : s = Local \/ s = Remote
    /\ Other(Local) = Remote /\ Other(Remote) = Local
    /\ \A n : NodeOf(n, Remote) = Peer(n) /\ NodeOf(n, Local) = n
  BY DEF Owner, Local, Remote, Other, NodeOf

-----------------------------------------------------------------------------
(* What the operators of HTLCManager do to the ctns *)

\* A log with the same ctns, and the same messages to replay
Alike(m, w) ==
    DOMAIN w = LogFields /\ w.ctn = m.ctn /\ w.revack = m.revack /\ w.unacked = m.unacked

(* Updates of the log, and what discards them, leave the ctns alone. *)
LEMMA UpdatesAreAlike ==
    ASSUME NEW m, DOMAIN m = LogFields
    PROVE  /\ \A p, a : Alike(m, add_htlc(m, p, a))
           /\ \A p, i : Alike(m, settle_htlc(m, p, i)) /\ Alike(m, fail_htlc(m, p, i))
           /\ \A s, rate : Alike(m, update_fee(m, s, rate))
           /\ Alike(m, discard_unsigned_remote_updates(m))
           /\ Alike(m, init_maybe_active_htlc_ids(m))
<1>1. \A p, a : Alike(m, add_htlc(m, p, a))
  BY DEF add_htlc, Alike, LogFields
<1>2. \A p, i : Alike(m, settle_htlc(m, p, i)) /\ Alike(m, fail_htlc(m, p, i))
  BY DEF settle_htlc, fail_htlc, Alike, LogFields
<1>3. \A s, rate : Alike(m, update_fee(m, s, rate))
  <2>1. \A s, rate : \E f : update_fee(m, s, rate) = [m EXCEPT !.fees = f]
    BY DEF update_fee
  <2>2. \A f : Alike(m, [m EXCEPT !.fees = f])
    BY DEF Alike, LogFields
  <2> QED BY <2>1, <2>2
<1>4. Alike(m, discard_unsigned_remote_updates(m))
  BY DEF discard_unsigned_remote_updates, Alike, LogFields
<1>5. Alike(m, init_maybe_active_htlc_ids(m))
  BY DEF init_maybe_active_htlc_ids, update_maybe_active_htlc_ids, Alike, LogFields
<1> QED BY <1>1, <1>2, <1>3, <1>4, <1>5

(* A revocation by s moves the ctn of s, and ends its waiting for one. *)
LEMMA RevokedIs ==
    ASSUME NEW m, DOMAIN m = LogFields, NEW s \in Owner,
           m.ctn \in [Owner -> Nat], m.revack \in [Owner -> BOOLEAN]
    PROVE  /\ DOMAIN Revoked(m, s) = LogFields
           /\ Revoked(m, s).ctn = [m.ctn EXCEPT ![s] = m.ctn[s] + 1]
           /\ Revoked(m, s).revack = [m.revack EXCEPT ![s] = FALSE]
           /\ Revoked(m, s).unacked = m.unacked
<1> DEFINE o == Other(s)
           r == [m EXCEPT !.ctn[s] = @ + 1, !.revack[s] = FALSE]
           Carried(table, ids) == [i \in HtlcIds |->
               IF i \in ids THEN CarryOver(r, s, table[i]) ELSE table[i]]
           moved == [r EXCEPT !.locked[o]  = Carried(@, m.active[o]),
                              !.settles[s] = Carried(@, m.active[s]),
                              !.fails[s]   = Carried(@, m.active[s])]
           u == update_maybe_active_htlc_ids(moved)
           fees == IF m.initiator = o
                   THEN [k \in DOMAIN u.fees |-> CarryOverFee(r, s, u.fees[k])]
                   ELSE u.fees
           n == Revoked(m, s)
<1>1. n = [u EXCEPT !.fees = fees]
  BY DEF Revoked
<1> HIDE DEF n, fees
<1>2. /\ DOMAIN r = LogFields /\ r.unacked = m.unacked
      /\ r.ctn = [m.ctn EXCEPT ![s] = m.ctn[s] + 1]
      /\ r.revack = [m.revack EXCEPT ![s] = FALSE]
  BY DEF LogFields
<1> HIDE DEF r, Carried
<1>3. Alike(r, moved)
  BY <1>2 DEF Alike, LogFields
<1> HIDE DEF moved
<1>4. Alike(moved, u)
  BY <1>3 DEF update_maybe_active_htlc_ids, Alike, LogFields
<1> HIDE DEF u
<1>5. Alike(u, n)
  BY <1>1, <1>4 DEF Alike, LogFields
<1> QED BY <1>2, <1>3, <1>4, <1>5 DEF Alike, n
-----------------------------------------------------------------------------
(* Sequences *)

(* A sequence is one of the sets its elements are in. *)
LEMMA SeqWithin ==
    ASSUME NEW s, IsSeq(s), NEW S, \A k \in 1 .. Len(s) : s[k] \in S
    PROVE  s \in Seq(S)
<1>1. Len(s) \in Nat /\ s = [k \in 1 .. Len(s) |-> s[k]]
  BY DEF IsSeq
<1>2. \A n \in Nat : [1 .. n -> S] \subseteq Seq(S)
  OBVIOUS
<1>3. s \in [1 .. Len(s) -> S]
  BY <1>1
<1> QED BY <1>1, <1>2, <1>3

(* Whatever is in a Seq is a sequence. *)
LEMMA SeqIsSeq == ASSUME NEW S, NEW s \in Seq(S) PROVE IsSeq(s)
  BY LenProperties DEF IsSeq

(* Appending to a sequence *)
LEMMA AppendIs ==
    ASSUME NEW s, IsSeq(s), NEW x
    PROVE  /\ IsSeq(Append(s, x)) /\ Len(Append(s, x)) = Len(s) + 1
           /\ \A k \in 1 .. Len(s) : Append(s, x)[k] = s[k]
           /\ Append(s, x)[Len(s) + 1] = x
<1> DEFINE S == {s[k] : k \in 1 .. Len(s)} \cup {x}
<1>1. s \in Seq(S)
  BY SeqWithin
<1>2. Append(s, x) \in Seq(S) /\ Len(s) \in Nat
  BY <1>1, AppendProperties, LenProperties
<1>3. IsSeq(Append(s, x))
  BY <1>2, SeqIsSeq
<1> HIDE DEF S
<1> QED BY <1>1, <1>3, AppendProperties

(* Two sequences in a row *)
LEMMA ConcatIs ==
    ASSUME NEW s, IsSeq(s), NEW t, IsSeq(t)
    PROVE  /\ IsSeq(s \o t) /\ Len(s \o t) = Len(s) + Len(t)
           /\ \A k \in 1 .. Len(s \o t) :
                 (s \o t)[k] = IF k <= Len(s) THEN s[k] ELSE t[k - Len(s)]
<1> DEFINE S == {s[k] : k \in 1 .. Len(s)} \cup {t[k] : k \in 1 .. Len(t)}
<1>1. s \in Seq(S) /\ t \in Seq(S)
  BY SeqWithin
<1> HIDE DEF S
<1>2. s \o t \in Seq(S)
  BY <1>1, ConcatProperties
<1>3. IsSeq(s \o t)
  BY <1>2, SeqIsSeq
<1> QED BY <1>1, <1>3, ConcatProperties

(* The elements of two sequences in a row are those of the one and of the other. *)
LEMMA ConcatElements ==
    ASSUME NEW s, IsSeq(s), NEW t, IsSeq(t), NEW k \in 1 .. Len(s \o t)
    PROVE  \/ k \in 1 .. Len(s) /\ (s \o t)[k] = s[k]
           \/ \E j \in 1 .. Len(t) : k = Len(s) + j /\ (s \o t)[k] = t[j]
<1>1. /\ Len(s) \in Nat /\ Len(t) \in Nat /\ k \in 1 .. Len(s) + Len(t)
      /\ (s \o t)[k] = IF k <= Len(s) THEN s[k] ELSE t[k - Len(s)]
  BY ConcatIs DEF IsSeq
<1>2. CASE k <= Len(s)
  BY <1>1, <1>2
<1>3. CASE k > Len(s)
  <2> DEFINE j == k - Len(s)
  <2>1. j \in 1 .. Len(t) /\ k = Len(s) + j /\ (s \o t)[k] = t[j]
    BY <1>1, <1>3
  <2> QED BY <2>1
<1> QED BY <1>1, <1>2, <1>3

(* What remains after the first element *)
LEMMA TailIs ==
    ASSUME NEW s, IsSeq(s), s # << >>
    PROVE  /\ Len(s) \in Nat \ {0} /\ Head(s) = s[1]
           /\ IsSeq(Tail(s)) /\ Len(Tail(s)) = Len(s) - 1
           /\ \A k \in 1 .. Len(s) - 1 : Tail(s)[k] = s[k + 1]
<1> DEFINE S == {s[k] : k \in 1 .. Len(s)}
<1>1. s \in Seq(S)
  BY SeqWithin
<1> HIDE DEF S
<1>2. /\ Tail(s) \in Seq(S) /\ Head(s) = s[1] /\ Len(Tail(s)) = Len(s) - 1
      /\ Len(s) \in Nat \ {0}
      /\ \A k \in 1 .. Len(s) - 1 : Tail(s)[k] = s[k + 1]
  BY <1>1, HeadTailProperties, EmptySeq, LenProperties
<1>3. IsSeq(Tail(s))
  BY <1>2, SeqIsSeq
<1> QED BY <1>2, <1>3

(* Short sequences *)
LEMMA ShortSeqs ==
    /\ IsSeq(<< >>) /\ Len(<< >>) = 0
    /\ \A x : IsSeq(<<x>>) /\ Len(<<x>>) = 1 /\ <<x>>[1] = x
  BY DEF IsSeq
-----------------------------------------------------------------------------
(* Outcomes *)

OutcomeFields == {"c", "out", "file", "exc"}

\* The other fields of a channel are those of another.
SameBut(F, c, d) == \A f \in ChannelFields \ F : d[f] = c[f]

\* A file that says what the channel does of ctns and state
Agrees(f, c, txs) ==
    /\ IsFile(f, txs)
    /\ f.hm.ctn = c.hm.ctn /\ f.hm.revack = c.hm.revack /\ f.state = c.state

\* The next message is a signature for n's next ctx, or the secret of the other's latest.
SignatureArrived(n) ==
    /\ net[n] # << >> /\ Head(net[n]).type = "commitment_signed"
    /\ Head(net[n]).sig.owner = n /\ Head(net[n]).sig.ctn = ch[n].hm.ctn[Local] + 1
SecretArrived(n) ==
    /\ net[n] # << >> /\ Head(net[n]).type = "revoke_and_ack"
    /\ Head(net[n]).secret = ch[n].hm.ctn[Remote] /\ ch[n].hm.revack[Remote]

\* From the log of n, the ctns can become those of w.
Moves(n, w) ==
    /\ \/ w.ctn[Local] = ch[n].hm.ctn[Local]
       \/ w.ctn[Local] = ch[n].hm.ctn[Local] + 1 /\ SignatureArrived(n)
    /\ \/ w.ctn[Remote] = ch[n].hm.ctn[Remote]
       \/ w.ctn[Remote] = ch[n].hm.ctn[Remote] + 1 /\ SecretArrived(n)

\* What the connection and its end have to do with
OfConnection == {"peer_state", "task", "reest", "shutdown"}

\* An outcome that n can have, if txs are what it signed by then, but for the file
Sound(n, o, txs) ==
    /\ DOMAIN o = OutcomeFields
    /\ IsChannel(o.c, txs)
    /\ IsSeq(o.out)
    /\ \A k \in 1 .. Len(o.out) : IsSent(o.c, o.out[k], txs)
    /\ o.exc \in {Ok, GracefulDisconnect} \cup Messages
    /\ Moves(n, o.c.hm)
    /\ connected \/ SameBut(ChannelFields \ OfConnection, ch[n], o.c)

Fine(n, o, txs) == Sound(n, o, txs) /\ (n \in Persistent => Agrees(o.file, o.c, txs))

\* tx is a signature that n had not made.
IsNew(n, c, tx) ==
    /\ tx.owner = Peer(n)
    /\ tx.ctn = ctn_latest(c.hm, Remote)
    /\ ctn_latest(c.hm, Remote) = ctn_latest(ch[n].hm, Remote) + 1

Sigs(o) == {o.out[k].sig : k \in {k \in DOMAIN o.out : o.out[k].type = "commitment_signed"}}

Unsigning(n, o) ==
    Fine(n, o, SignedBy(n)) /\ ctn_latest(o.c.hm, Remote) = ctn_latest(ch[n].hm, Remote)
Signing(n, o) ==
    \E tx \in Sigs(o) : Fine(n, o, SignedBy(n) \cup {tx}) /\ IsNew(n, o.c, tx)

(* A log that is Alike is a log. *)
LEMMA AlikeIsLog ==
    ASSUME NEW m, NEW txs, IsLog(m, txs), NEW w, Alike(m, w)
    PROVE  IsLog(w, txs)
  BY DEF IsLog, Alike

(* Whoever has signed more has signed that too. *)
LEMMA MoreSigned ==
    ASSUME NEW S, NEW T, S \subseteq T
    PROVE  /\ \A u : IsUnacked(u, S) => IsUnacked(u, T)
           /\ \A m : IsLog(m, S) => IsLog(m, T)
           /\ \A c : IsChannel(c, S) => IsChannel(c, T)
           /\ \A f : IsFile(f, S) => IsFile(f, T)
<1>1. \A u : IsUnacked(u, S) => IsUnacked(u, T)
  BY DEF IsUnacked
<1>2. \A m : IsLog(m, S) => IsLog(m, T)
  BY <1>1 DEF IsLog
<1>3. \A c : IsChannel(c, S) => IsChannel(c, T)
  BY <1>2 DEF IsChannel
<1> QED BY <1>1, <1>2, <1>3 DEF IsFile

(* Storing a message for a replay leaves the ctns alone. *)
LEMMA StoreIs ==
    ASSUME NEW m, NEW txs, IsLog(m, txs), NEW msg, NEW is_cs \in BOOLEAN,
           msg.type \in Updates \cup {"commitment_signed"},
           msg.type = "commitment_signed" => msg.sig \in txs
    PROVE  LET w == store_local_update_raw_msg(m, msg, is_cs)
           IN  IsLog(w, txs) /\ w.ctn = m.ctn /\ w.revack = m.revack
<1> DEFINE c == IF is_cs THEN ctn_latest(m, Remote) ELSE next_ctn(m, Remote)
           stored == IF c \in DOMAIN m.unacked THEN m.unacked[c] ELSE << >>
           u == [d \in DOMAIN m.unacked \cup {c} |-> IF d = c THEN Append(stored, msg) ELSE m.unacked[d]]
           w == store_local_update_raw_msg(m, msg, is_cs)
<1>1. w = [m EXCEPT !.unacked = u]
  BY DEF store_local_update_raw_msg
<1>2. /\ IsSeq(stored)
      /\ \A k \in 1 .. Len(stored) :
            /\ stored[k].type \in Updates \cup {"commitment_signed"}
            /\ stored[k].type = "commitment_signed" => stored[k].sig \in txs
  BY ShortSeqs DEF IsLog, IsUnacked
<1> HIDE DEF c, stored, w
<1>3. /\ IsSeq(Append(stored, msg))
      /\ \A k \in 1 .. Len(Append(stored, msg)) :
            /\ Append(stored, msg)[k].type \in Updates \cup {"commitment_signed"}
            /\ Append(stored, msg)[k].type = "commitment_signed" => Append(stored, msg)[k].sig \in txs
  <2>1. /\ IsSeq(Append(stored, msg)) /\ Len(Append(stored, msg)) = Len(stored) + 1
        /\ \A k \in 1 .. Len(stored) : Append(stored, msg)[k] = stored[k]
        /\ Append(stored, msg)[Len(stored) + 1] = msg
        /\ Len(stored) \in Nat
    BY <1>2, AppendIs DEF IsSeq
  <2>2. \A k \in 1 .. Len(stored) + 1 : k \in 1 .. Len(stored) \/ k = Len(stored) + 1
    BY <2>1
  <2> QED BY <1>2, <2>1, <2>2
<1>4. IsUnacked(u, txs)
  BY <1>3 DEF IsUnacked, IsLog
<1> HIDE DEF u
<1>5. DOMAIN w = LogFields /\ w.ctn = m.ctn /\ w.revack = m.revack /\ w.unacked = u
  BY <1>1 DEF IsLog, LogFields
<1> QED BY <1>4, <1>5 DEF IsLog, w

(* The parts of an outcome after the calls that outcomes are built from *)
LEMMA OutcomeParts ==
    ASSUME NEW o, DOMAIN o = OutcomeFields, DOMAIN o.c = ChannelFields
    PROVE  /\ \A w : /\ DOMAIN Updated(o, w) = OutcomeFields
                     /\ DOMAIN Updated(o, w).c = ChannelFields
                     /\ Updated(o, w).c.hm = w /\ SameBut({"hm"}, o.c, Updated(o, w).c)
                     /\ Updated(o, w).out = o.out /\ Updated(o, w).file = o.file
                     /\ Updated(o, w).exc = o.exc
           /\ /\ DOMAIN save_channel(o) = OutcomeFields
              /\ save_channel(o).c = o.c /\ save_channel(o).out = o.out
              /\ save_channel(o).file = FileOf(o.c) /\ save_channel(o).exc = o.exc
           /\ \A e : /\ DOMAIN Raise(o, e) = OutcomeFields
                     /\ Raise(o, e).c = o.c /\ Raise(o, e).out = o.out
                     /\ Raise(o, e).file = o.file /\ Raise(o, e).exc = e
           /\ \A s : /\ DOMAIN set_state(o, s) = OutcomeFields
                     /\ DOMAIN set_state(o, s).c = ChannelFields
                     /\ SameBut({"state"}, o.c, set_state(o, s).c)
                     /\ set_state(o, s).c.state = s
                     /\ set_state(o, s).file = FileOf(set_state(o, s).c)
                     /\ set_state(o, s).out = o.out /\ set_state(o, s).exc = o.exc
<1>1. \A w : /\ DOMAIN Updated(o, w) = OutcomeFields
             /\ DOMAIN Updated(o, w).c = ChannelFields
             /\ Updated(o, w).c.hm = w /\ SameBut({"hm"}, o.c, Updated(o, w).c)
             /\ Updated(o, w).out = o.out /\ Updated(o, w).file = o.file
             /\ Updated(o, w).exc = o.exc
  BY DEF Updated, OutcomeFields, ChannelFields, SameBut
<1>2. /\ DOMAIN save_channel(o) = OutcomeFields
      /\ save_channel(o).c = o.c /\ save_channel(o).out = o.out
      /\ save_channel(o).file = FileOf(o.c) /\ save_channel(o).exc = o.exc
  BY DEF save_channel, OutcomeFields
<1>3. \A e : /\ DOMAIN Raise(o, e) = OutcomeFields
             /\ Raise(o, e).c = o.c /\ Raise(o, e).out = o.out
             /\ Raise(o, e).file = o.file /\ Raise(o, e).exc = e
  BY DEF Raise, OutcomeFields
<1>4. ASSUME NEW s
      PROVE  /\ DOMAIN set_state(o, s) = OutcomeFields
             /\ DOMAIN set_state(o, s).c = ChannelFields
             /\ SameBut({"state"}, o.c, set_state(o, s).c)
             /\ set_state(o, s).c.state = s
             /\ set_state(o, s).file = FileOf(set_state(o, s).c)
             /\ set_state(o, s).out = o.out /\ set_state(o, s).exc = o.exc
  <2> DEFINE p == [o EXCEPT !.c.state = s]
  <2>1. /\ DOMAIN p = OutcomeFields /\ DOMAIN p.c = ChannelFields
        /\ SameBut({"state"}, o.c, p.c) /\ p.c.state = s
        /\ p.out = o.out /\ p.exc = o.exc
    BY DEF OutcomeFields, ChannelFields, SameBut
  <2>2. set_state(o, s) = [p EXCEPT !.file = FileOf(p.c)]
    BY DEF set_state, save_channel
  <2> HIDE DEF p
  <2> QED BY <2>1, <2>2 DEF OutcomeFields
<1> QED BY <1>1, <1>2, <1>3, <1>4

(* A channel of which the log changed, or what only close_channel looks at *)
LEMMA ChannelWith ==
    ASSUME NEW c, NEW txs, IsChannel(c, txs), NEW d, DOMAIN d = ChannelFields
    PROVE  /\ SameBut({"hm"}, c, d) /\ IsLog(d.hm, txs) => IsChannel(d, txs)
           /\ SameBut({"state"}, c, d) /\ d.state \in States => IsChannel(d, txs)
<1>1. ASSUME SameBut({"hm"}, c, d), IsLog(d.hm, txs) PROVE IsChannel(d, txs)
  <2>1. /\ d.state = c.state /\ d.peer_state = c.peer_state /\ d.task = c.task
        /\ d.reest = c.reest /\ d.close = c.close /\ d.shutdown = c.shutdown
    BY <1>1 DEF SameBut, ChannelFields
  <2> QED BY <1>1, <2>1 DEF IsChannel
<1>2. ASSUME SameBut({"state"}, c, d), d.state \in States PROVE IsChannel(d, txs)
  <2>1. /\ d.hm = c.hm /\ d.peer_state = c.peer_state /\ d.task = c.task
        /\ d.reest = c.reest /\ d.close = c.close /\ d.shutdown = c.shutdown
    BY <1>2 DEF SameBut, ChannelFields
  <2> QED BY <1>2, <2>1 DEF IsChannel
<1> QED BY <1>1, <1>2

(* The file of a channel agrees with it. *)
LEMMA FileAgrees ==
    ASSUME NEW c, NEW txs, IsChannel(c, txs)
    PROVE  Agrees(FileOf(c), c, txs)
  BY DEF Agrees, IsFile, FileOf, IsChannel

(* What changes neither ctns nor messages, nor the connection, leaves an outcome sound. *)
LEMMA SoundKept ==
    ASSUME NEW n \in Node, NEW o, NEW txs, Sound(n, o, txs),
           NEW p, DOMAIN p = OutcomeFields, IsChannel(p.c, txs),
           p.c.hm.ctn = o.c.hm.ctn, p.out = o.out,
           p.exc \in {Ok, GracefulDisconnect} \cup Messages,
           connected \/ SameBut(ChannelFields \ OfConnection, o.c, p.c)
    PROVE  Sound(n, p, txs)
<1>1. \A k \in 1 .. Len(p.out) : IsSent(p.c, p.out[k], txs)
  BY DEF Sound, IsSent
<1>2. Moves(n, p.c.hm)
  BY DEF Sound, Moves
<1>3. connected \/ SameBut(ChannelFields \ OfConnection, ch[n], p.c)
  BY DEF Sound, SameBut
<1> QED BY <1>1, <1>2, <1>3 DEF Sound

(* The calls that outcomes are built from keep them fine. *)
LEMMA FineUpdated ==
    ASSUME NEW n \in Node, NEW o, NEW txs, Fine(n, o, txs),
           NEW w, IsLog(w, txs), w.ctn = o.c.hm.ctn, w.revack = o.c.hm.revack
    PROVE  Fine(n, Updated(o, w), txs)
<1> DEFINE p == Updated(o, w)
<1>1. /\ DOMAIN p = OutcomeFields /\ DOMAIN p.c = ChannelFields
      /\ p.c.hm = w /\ SameBut({"hm"}, o.c, p.c)
      /\ p.out = o.out /\ p.file = o.file /\ p.exc = o.exc
  BY OutcomeParts DEF Fine, Sound, IsChannel
<1> HIDE DEF p
<1>2. IsChannel(p.c, txs)
  BY <1>1, ChannelWith DEF Fine, Sound
<1>3. SameBut(ChannelFields \ OfConnection, o.c, p.c)
  BY <1>1 DEF SameBut, OfConnection, ChannelFields
<1>4. Sound(n, p, txs)
  BY <1>1, <1>2, <1>3, SoundKept DEF Fine, Sound
<1>5. n \in Persistent => Agrees(p.file, p.c, txs)
  <2>1. p.c.state = o.c.state
    BY <1>1 DEF SameBut, ChannelFields
  <2> QED BY <1>1, <2>1 DEF Fine, Agrees
<1> QED BY <1>4, <1>5 DEF Fine, p

(* Such an outcome stays sound when the channel is saved... *)
LEMMA FineSaved ==
    ASSUME NEW n \in Node, NEW o, NEW txs, Sound(n, o, txs)
    PROVE  Fine(n, save_channel(o), txs)
<1> DEFINE p == save_channel(o)
<1>1. /\ DOMAIN p = OutcomeFields /\ p.c = o.c /\ p.out = o.out
      /\ p.file = FileOf(o.c) /\ p.exc = o.exc
  BY OutcomeParts DEF Sound, IsChannel
<1> HIDE DEF p
<1>2. SameBut(ChannelFields \ OfConnection, o.c, p.c)
  BY <1>1 DEF SameBut
<1>3. Sound(n, p, txs)
  BY <1>1, <1>2, SoundKept DEF Sound
<1> QED BY <1>1, <1>3, FileAgrees DEF Fine, Sound, p

(* ... when it gets another state, which is saved... *)
LEMMA FineState ==
    ASSUME NEW n \in Node, NEW o, NEW txs, Sound(n, o, txs), NEW s \in States
    PROVE  Fine(n, set_state(o, s), txs)
<1> DEFINE p == set_state(o, s)
<1>1. /\ DOMAIN p = OutcomeFields /\ DOMAIN p.c = ChannelFields
      /\ SameBut({"state"}, o.c, p.c) /\ p.c.state = s
      /\ p.file = FileOf(p.c) /\ p.out = o.out /\ p.exc = o.exc
  BY OutcomeParts DEF Sound, IsChannel
<1> HIDE DEF p
<1>2. IsChannel(p.c, txs)
  BY <1>1, ChannelWith DEF Sound
<1>3. /\ SameBut(ChannelFields \ OfConnection, o.c, p.c)
      /\ p.c.hm = o.c.hm
  BY <1>1 DEF SameBut, OfConnection, ChannelFields
<1>4. Sound(n, p, txs)
  BY <1>1, <1>2, <1>3, SoundKept DEF Sound
<1> QED BY <1>1, <1>2, <1>4, FileAgrees DEF Fine, p

(* ... and when an exception is raised. *)
LEMMA FineRaised ==
    ASSUME NEW n \in Node, NEW o, NEW txs, Fine(n, o, txs),
           NEW e \in {GracefulDisconnect} \cup Messages
    PROVE  Fine(n, Raise(o, e), txs)
<1> DEFINE p == Raise(o, e)
<1>1. /\ DOMAIN p = OutcomeFields /\ p.c = o.c /\ p.out = o.out
      /\ p.file = o.file /\ p.exc = e
  BY OutcomeParts DEF Fine, Sound, IsChannel
<1> HIDE DEF p
<1>2. SameBut(ChannelFields \ OfConnection, o.c, p.c)
  BY <1>1 DEF SameBut
<1>3. Sound(n, p, txs)
  BY <1>1, <1>2, SoundKept DEF Fine, Sound
<1> QED BY <1>1, <1>3 DEF Fine, p

(* Sending anything but a signature *)
LEMMA SendIs ==
    ASSUME NEW n \in Node, NEW o, NEW txs, Fine(n, o, txs), NEW msg,
           IsSent(o.c, msg, txs), msg.type # "commitment_signed"
    PROVE  LET p == send_message(o, msg)
           IN  /\ Fine(n, p, txs)
               /\ p.out = Append(o.out, msg)
               /\ p.c.hm.ctn = o.c.hm.ctn /\ p.c.hm.revack = o.c.hm.revack
               /\ SameBut({"hm"}, o.c, p.c) /\ p.exc = o.exc
               /\ msg.type \notin Updates => p.c = o.c /\ p.file = o.file
<1> DEFINE w == store_local_update_raw_msg(o.c.hm, msg, FALSE)
           q == IF msg.type \in Updates THEN Updated(o, w) ELSE o
           p == send_message(o, msg)
<1>1. p = [q EXCEPT !.out = Append(@, msg)]
  BY DEF send_message, Updates
<1>2. /\ Fine(n, q, txs) /\ q.out = o.out
      /\ q.c.hm.ctn = o.c.hm.ctn /\ q.c.hm.revack = o.c.hm.revack
      /\ SameBut({"hm"}, o.c, q.c) /\ q.exc = o.exc
  <2>1. CASE msg.type \in Updates
    <3>1. IsLog(o.c.hm, txs) /\ DOMAIN o = OutcomeFields /\ DOMAIN o.c = ChannelFields
      BY DEF Fine, Sound, IsChannel
    <3>2. IsLog(w, txs) /\ w.ctn = o.c.hm.ctn /\ w.revack = o.c.hm.revack
      BY <2>1, <3>1, StoreIs
    <3> HIDE DEF w
    <3>3. Fine(n, Updated(o, w), txs)
      BY <3>2, FineUpdated
    <3> QED BY <2>1, <3>1, <3>2, <3>3, OutcomeParts
  <2>2. CASE msg.type \notin Updates
    BY <2>2 DEF SameBut
  <2> QED BY <2>1, <2>2
<1>3. msg.type \notin Updates => q = o
  OBVIOUS
<1> HIDE DEF w, q, p
<1>4. /\ DOMAIN p = OutcomeFields /\ p.c = q.c /\ p.file = q.file /\ p.exc = q.exc
      /\ p.out = Append(o.out, msg)
  BY <1>1, <1>2 DEF OutcomeFields, Fine, Sound
<1>5. IsSeq(p.out) /\ \A k \in 1 .. Len(p.out) : IsSent(p.c, p.out[k], txs)
  <2>1. /\ IsSeq(o.out) /\ IsSeq(p.out) /\ Len(p.out) = Len(o.out) + 1 /\ Len(o.out) \in Nat
        /\ \A k \in 1 .. Len(o.out) : p.out[k] = o.out[k]
        /\ p.out[Len(o.out) + 1] = msg
    BY <1>4, AppendIs DEF Fine, Sound, IsSeq
  <2>2. \A k \in 1 .. Len(p.out) : k \in 1 .. Len(o.out) \/ k = Len(o.out) + 1
    BY <2>1
  <2>3. \A k \in 1 .. Len(o.out) : IsSent(p.c, p.out[k], txs)
    BY <1>2, <1>4, <2>1 DEF Fine, Sound, IsSent
  <2>4. IsSent(p.c, msg, txs)
    BY <1>2, <1>4 DEF IsSent
  <2> QED BY <2>1, <2>2, <2>3, <2>4
<1>6. Fine(n, p, txs)
  BY <1>2, <1>4, <1>5 DEF Fine, Sound
<1> QED BY <1>2, <1>3, <1>4, <1>6 DEF p

-----------------------------------------------------------------------------
(* Signing *)

\* What the exchange of updates, signatures and revocations does: it changes the log only,
\* and sends its messages while the channel can make progress.
Work(n, o) ==
    /\ SameBut({"hm"}, ch[n], o.c)
    /\ \A k \in 1 .. Len(o.out) :
          o.out[k].type \in Updates \cup {"commitment_signed", "revoke_and_ack"}
    /\ \/ can_progress_ctx(ch[n])
       \/ o.out = << >> /\ o.c.hm.ctn = ch[n].hm.ctn

Outcome(n, o) == Unsigning(n, o) \/ Signing(n, o)

(* What n begins with *)
LEMMA BeginIs ==
    ASSUME BasicInv, NEW n \in Node
    PROVE  /\ Begin(n).c = ch[n] /\ Begin(n).out = << >> /\ Begin(n).file = disk[n]
           /\ Begin(n).exc = Ok
           /\ Unsigning(n, Begin(n)) /\ Work(n, Begin(n))
<1> DEFINE o == Begin(n)
<1>1. /\ DOMAIN o = OutcomeFields /\ o.c = ch[n] /\ o.out = << >> /\ o.file = disk[n]
      /\ o.exc = Ok
  BY DEF Begin, OutcomeFields
<1> HIDE DEF o
<1>2. IsChannel(ch[n], SignedBy(n)) /\ (n \in Persistent => IsFile(disk[n], SignedBy(n)))
  BY DEF BasicInv, Types
<1>3. n \in Persistent => Agrees(o.file, o.c, SignedBy(n))
  BY <1>1, <1>2 DEF Agrees, BasicInv, Saved
<1>4. SameBut(ChannelFields \ OfConnection, ch[n], o.c) /\ SameBut({"hm"}, ch[n], o.c)
  BY <1>1 DEF SameBut
<1>5. Moves(n, o.c.hm)
  BY <1>1 DEF Moves
<1>6. Sound(n, o, SignedBy(n))
  BY <1>1, <1>2, <1>4, <1>5, ShortSeqs DEF Sound
<1> QED BY <1>1, <1>3, <1>4, <1>6, ShortSeqs DEF Unsigning, Fine, Work, o

(* An outcome without a new signature has those n made before. *)
LEMMA NothingNew ==
    ASSUME NEW n \in Node, NEW o, NEW txs, Sound(n, o, txs)
    PROVE  Sigs(o) \subseteq txs
<1>1. IsSeq(o.out) /\ DOMAIN o.out = 1 .. Len(o.out)
  BY DEF Sound, IsSeq
<1> QED BY <1>1 DEF Sigs, Sound, IsSent

(* Sending a signature, which is stored and saved before *)
LEMMA SendSigned ==
    ASSUME NEW o, NEW msg, msg.type = "commitment_signed"
    PROVE  send_message(o, msg)
               = [save_channel(Updated(o, store_local_update_raw_msg(o.c.hm, msg, TRUE)))
                      EXCEPT !.out = Append(@, msg)]
<1> DEFINE is_cs == msg.type = "commitment_signed"
           Stored(b) == Updated(o, store_local_update_raw_msg(o.c.hm, msg, b))
           q == CASE is_cs -> save_channel(Stored(is_cs))
                  [] msg.type \in Updates -> Stored(is_cs)
                  [] OTHER -> o
<1>1. send_message(o, msg) = [q EXCEPT !.out = Append(@, msg)]
  BY Zenon DEF send_message
<1>2. is_cs = TRUE
  OBVIOUS
<1>3. q = save_channel(Stored(TRUE))
  <2>1. is_cs
    OBVIOUS
  <2>2. "commitment_signed" \notin Updates
    BY DEF Updates
  <2> HIDE DEF Stored
  <2>3. q = save_channel(Stored(is_cs))
    BY <2>1, <2>2
  <2> QED BY <1>2, <2>3
<1> HIDE DEF q
<1> QED BY <1>1, <1>3

(* Signing the next ctx of the other node, whose latest is not waiting for a revocation *)
LEMMA SendCommitment ==
    ASSUME BasicInv, NEW n \in Node, NEW o, Unsigning(n, o), ~o.c.hm.revack[Remote]
    PROVE  LET p == send_commitment(n, o)
           IN  /\ Signing(n, p)
               /\ p.c.hm.ctn = o.c.hm.ctn /\ SameBut({"hm"}, o.c, p.c) /\ p.exc = o.exc
               /\ \E x : x.type = "commitment_signed" /\ p.out = Append(o.out, x)
<1> DEFINE m == o.c.hm
           tx == make_commitment(n, m, Remote, next_ctn(m, Remote))
           msg == [type |-> "commitment_signed", sig |-> tx]
           txs == SignedBy(n) \cup {tx}
           s == send_ctx(m)
           w == store_local_update_raw_msg(s, msg, TRUE)
           a == Updated(Updated(o, s), w)
           b == save_channel(a)
           p == send_commitment(n, o)
<1>0. msg.type = "commitment_signed" /\ msg.sig = tx /\ tx \in txs
  OBVIOUS
<1>1. p = [b EXCEPT !.out = Append(@, msg)]
  <2> DEFINE q == Updated(o, s)
  <2>1. q.c.hm = s
    BY OutcomeParts DEF Unsigning, Fine, Sound, IsChannel
  <2>2. p = send_message(q, msg)
    BY DEF send_commitment
  <2> HIDE DEF p, q, msg
  <2>3. send_message(q, msg)
            = [save_channel(Updated(q, store_local_update_raw_msg(q.c.hm, msg, TRUE)))
                   EXCEPT !.out = Append(@, msg)]
    BY <1>0, SendSigned
  <2> QED BY <2>1, <2>2, <2>3 DEF q
<1>2. tx.owner = Peer(n) /\ tx.ctn = next_ctn(m, Remote)
  BY OwnerFacts DEF make_commitment
<1>3. /\ IsLog(m, SignedBy(n)) /\ DOMAIN o = OutcomeFields /\ DOMAIN o.c = ChannelFields
      /\ m.ctn[Remote] \in Nat
  BY OwnerFacts DEF Unsigning, Fine, Sound, IsChannel, IsLog
<1>4. IsLog(m, txs) /\ Sound(n, o, txs)
  <2>1. SignedBy(n) \subseteq txs
    OBVIOUS
  <2>2. IsChannel(o.c, txs) /\ IsLog(m, txs)
    BY <1>3, <2>1, MoreSigned DEF Unsigning, Fine, Sound
  <2> QED BY <2>2 DEF Unsigning, Fine, Sound, IsSent
<1>5. IsLog(s, txs) /\ s.ctn = m.ctn /\ s.revack = [m.revack EXCEPT ![Remote] = TRUE]
  BY <1>4, OwnerFacts DEF send_ctx, IsLog, LogFields
<1> HIDE DEF tx, s, msg, txs
<1>6. IsLog(w, txs) /\ w.ctn = m.ctn /\ w.revack = s.revack
  <2>1. IsLog(s, txs) /\ TRUE \in BOOLEAN /\ msg.sig \in txs
        /\ msg.type \in Updates \cup {"commitment_signed"}
    BY <1>0, <1>5
  <2>2. IsLog(w, txs) /\ w.ctn = s.ctn /\ w.revack = s.revack
    <3> HIDE DEF m
    <3> QED BY <2>1, StoreIs
  <2> QED BY <1>5, <2>2
<1> HIDE DEF w
<1>7. /\ DOMAIN a = OutcomeFields /\ DOMAIN a.c = ChannelFields
      /\ a.c.hm = w /\ SameBut({"hm"}, o.c, a.c)
      /\ a.out = o.out /\ a.exc = o.exc
  <2> DEFINE q == Updated(o, s)
  <2>1. /\ DOMAIN q = OutcomeFields /\ DOMAIN q.c = ChannelFields
        /\ SameBut({"hm"}, o.c, q.c) /\ q.out = o.out /\ q.exc = o.exc
    BY <1>3, OutcomeParts
  <2> HIDE DEF q
  <2>2. /\ DOMAIN Updated(q, w) = OutcomeFields /\ DOMAIN Updated(q, w).c = ChannelFields
        /\ Updated(q, w).c.hm = w /\ SameBut({"hm"}, q.c, Updated(q, w).c)
        /\ Updated(q, w).out = q.out /\ Updated(q, w).exc = q.exc
    BY <2>1, OutcomeParts
  <2>3. SameBut({"hm"}, o.c, Updated(q, w).c)
    BY <2>1, <2>2 DEF SameBut
  <2> QED BY <2>1, <2>2, <2>3 DEF q
<1> HIDE DEF a
<1>8. Sound(n, a, txs)
  <2>1. IsChannel(a.c, txs)
    BY <1>4, <1>6, <1>7, ChannelWith DEF Sound
  <2>2. SameBut(ChannelFields \ OfConnection, o.c, a.c)
    BY <1>7 DEF SameBut, OfConnection, ChannelFields
  <2> QED BY <1>4, <1>6, <1>7, <2>1, <2>2, SoundKept DEF Sound
<1>9. Fine(n, b, txs) /\ b.c = a.c /\ b.out = o.out /\ b.exc = o.exc
  BY <1>7, <1>8, FineSaved, OutcomeParts
<1> HIDE DEF b, p
<1>10. /\ DOMAIN p = OutcomeFields /\ p.c = b.c /\ p.file = b.file /\ p.exc = b.exc
       /\ p.out = Append(o.out, msg)
  BY <1>1, <1>9 DEF OutcomeFields, Fine, Sound
<1>11. /\ IsSeq(o.out) /\ IsSeq(p.out) /\ Len(p.out) = Len(o.out) + 1 /\ Len(o.out) \in Nat
       /\ \A k \in 1 .. Len(o.out) : p.out[k] = o.out[k]
       /\ p.out[Len(o.out) + 1] = msg
  BY <1>10, AppendIs DEF Unsigning, Fine, Sound, IsSeq
<1>12. \A k \in 1 .. Len(p.out) : IsSent(p.c, p.out[k], txs)
  <2>1. \A k \in 1 .. Len(p.out) : k \in 1 .. Len(o.out) \/ k = Len(o.out) + 1
    BY <1>11
  <2>2. \A k \in 1 .. Len(o.out) : IsSent(p.c, p.out[k], txs)
    BY <1>9, <1>10, <1>11 DEF Fine, Sound
  <2>3. IsSent(p.c, msg, txs)
    BY <1>0 DEF IsSent, Messages
  <2> QED BY <1>11, <2>1, <2>2, <2>3
<1>13. Fine(n, p, txs)
  BY <1>9, <1>10, <1>11, <1>12 DEF Fine, Sound
<1>14. tx \in Sigs(p)
  <2>1. Len(o.out) + 1 \in DOMAIN p.out
    BY <1>11 DEF IsSeq
  <2> QED BY <1>0, <1>11, <2>1 DEF Sigs
<1>15. IsNew(n, p.c, tx)
  <2>1. p.c.hm.ctn = m.ctn /\ p.c.hm.revack = [m.revack EXCEPT ![Remote] = TRUE]
    BY <1>5, <1>6, <1>7, <1>9, <1>10
  <2>2. ctn_latest(m, Remote) = ctn_latest(ch[n].hm, Remote)
    BY DEF Unsigning
  <2>3. p.c.hm.revack[Remote]
    BY <1>3, <2>1, OwnerFacts DEF IsLog
  <2> QED BY <1>2, <1>3, <2>1, <2>2, <2>3 DEF IsNew, ctn_latest, next_ctn
<1>16. Signing(n, p)
  BY <1>13, <1>14, <1>15 DEF Signing, txs
<1> QED BY <1>0, <1>6, <1>7, <1>9, <1>10, <1>16 DEF p

(* What sends one more message of the exchange is still work. *)
LEMMA WorkSends ==
    ASSUME NEW n \in Node, NEW o, NEW txs, Sound(n, o, txs), Work(n, o), can_progress_ctx(ch[n]),
           NEW p, NEW x, x.type \in Updates \cup {"commitment_signed", "revoke_and_ack"},
           SameBut({"hm"}, o.c, p.c), p.out = Append(o.out, x)
    PROVE  Work(n, p)
<1>1. SameBut({"hm"}, ch[n], p.c)
  BY DEF Work, SameBut
<1>2. /\ Len(p.out) = Len(o.out) + 1 /\ Len(o.out) \in Nat
      /\ \A k \in 1 .. Len(o.out) : p.out[k] = o.out[k]
      /\ p.out[Len(o.out) + 1] = x
  BY AppendIs DEF Sound, IsSeq
<1>3. \A k \in 1 .. Len(p.out) : k \in 1 .. Len(o.out) \/ k = Len(o.out) + 1
  BY <1>2
<1> QED BY <1>1, <1>2, <1>3 DEF Work

(* The parts of a channel that can make progress are those of the outcome. *)
LEMMA WorkIsLike ==
    ASSUME NEW n \in Node, NEW o, Work(n, o), can_progress_ctx(o.c)
    PROVE  can_progress_ctx(ch[n])
  BY DEF Work, SameBut, ChannelFields, can_progress_ctx

(* maybe_send_commitment signs, or not. *)
LEMMA MaybeSendCommitment ==
    ASSUME BasicInv, NEW n \in Node, NEW o, Unsigning(n, o), Work(n, o),
           NEW p \in maybe_send_commitment(n, o)
    PROVE  Outcome(n, p) /\ Work(n, p) /\ p.exc = o.exc
<1>1. CASE p = o
  BY <1>1 DEF Outcome
<1>2. CASE p # o
  <2>1. can_send_commitment(o.c) /\ p = send_commitment(n, o)
    BY <1>2 DEF maybe_send_commitment
  <2>2. can_progress_ctx(o.c) /\ ~o.c.hm.revack[Remote]
    BY <2>1 DEF can_send_commitment, can_sign
  <2>3. /\ Signing(n, p) /\ SameBut({"hm"}, o.c, p.c) /\ p.exc = o.exc
        /\ \E x : x.type = "commitment_signed" /\ p.out = Append(o.out, x)
    BY <2>1, <2>2, SendCommitment
  <2>4. Work(n, p)
    BY <2>2, <2>3, WorkSends, WorkIsLike DEF Unsigning, Fine
  <2> QED BY <2>3, <2>4 DEF Outcome
<1> QED BY <1>1, <1>2

-----------------------------------------------------------------------------
(* The steps that are work *)

\* What remains on the way to n, after the next message if n processed that
IsInbox(n, inbox) ==
    \/ inbox = net[n]
    \/ net[n] # << >> /\ inbox = Tail(net[n]) /\ ~Blocked(ch[n])

\* What a step of n leaves alone besides
Bounds ==
    /\ backup' = backup /\ DOMAIN left' = DOMAIN left
    /\ left'.restores = left.restores /\ left'.crashes = left.crashes
    /\ left'.disconnects = left.disconnects

Works(n) ==
    /\ \E o, inbox : Step(n, o, inbox) /\ IsInbox(n, inbox) /\ Outcome(n, o) /\ Work(n, o)
    /\ Bounds

(* Changes of the log that leave the ctns alone are work. *)
LEMMA WorkUpdated ==
    ASSUME BasicInv, NEW n \in Node, NEW o, Unsigning(n, o), Work(n, o),
           NEW w, Alike(o.c.hm, w)
    PROVE  LET p == Updated(o, w)
           IN  Unsigning(n, p) /\ Work(n, p) /\ p.exc = o.exc /\ p.c.hm = w
<1> DEFINE p == Updated(o, w)
<1>1. Fine(n, o, SignedBy(n)) /\ IsLog(o.c.hm, SignedBy(n))
  BY DEF Unsigning, Fine, Sound, IsChannel
<1>2. IsLog(w, SignedBy(n)) /\ w.ctn = o.c.hm.ctn /\ w.revack = o.c.hm.revack
  BY <1>1, AlikeIsLog DEF Alike
<1>3. Fine(n, p, SignedBy(n))
  BY <1>1, <1>2, FineUpdated
<1>4. p.c.hm = w /\ SameBut({"hm"}, o.c, p.c) /\ p.out = o.out /\ p.exc = o.exc
  BY OutcomeParts DEF Unsigning, Fine, Sound, IsChannel
<1> HIDE DEF p
<1>5. ctn_latest(p.c.hm, Remote) = ctn_latest(ch[n].hm, Remote)
  BY <1>2, <1>4 DEF Unsigning, ctn_latest
<1>6. SameBut({"hm"}, ch[n], p.c)
  BY <1>4 DEF Work, SameBut
<1> QED BY <1>2, <1>3, <1>4, <1>5, <1>6 DEF Unsigning, Work, p

(* Saving is work. *)
LEMMA WorkSaved ==
    ASSUME NEW n \in Node, NEW o, Unsigning(n, o), Work(n, o)
    PROVE  LET p == save_channel(o)
           IN  Unsigning(n, p) /\ Work(n, p) /\ p.exc = o.exc
<1> DEFINE p == save_channel(o)
<1>1. p.c = o.c /\ p.out = o.out /\ p.exc = o.exc
  BY OutcomeParts DEF Unsigning, Fine, Sound, IsChannel
<1>2. Fine(n, p, SignedBy(n))
  BY FineSaved DEF Unsigning, Fine
<1> HIDE DEF p
<1> QED BY <1>1, <1>2 DEF Unsigning, Work, p

(* Raising what ends the connection is work. *)
LEMMA WorkRaised ==
    ASSUME NEW n \in Node, NEW o, Unsigning(n, o), Work(n, o),
           NEW e \in {GracefulDisconnect} \cup Messages
    PROVE  LET p == Raise(o, e)
           IN  Unsigning(n, p) /\ Work(n, p)
<1> DEFINE p == Raise(o, e)
<1>1. p.c = o.c /\ p.out = o.out /\ Fine(n, p, SignedBy(n))
  BY OutcomeParts, FineRaised DEF Unsigning, Fine, Sound, IsChannel
<1> HIDE DEF p
<1>2. Unsigning(n, p)
  BY <1>1 DEF Unsigning
<1>3. Work(n, p)
  BY <1>1 DEF Work
<1> QED BY <1>2, <1>3 DEF p

(* Sending an update is work. *)
LEMMA WorkSent ==
    ASSUME NEW n \in Node, NEW o, Unsigning(n, o), Work(n, o), can_progress_ctx(ch[n]),
           NEW msg, msg.type \in Updates
    PROVE  LET p == send_message(o, msg)
           IN  Unsigning(n, p) /\ Work(n, p) /\ p.exc = o.exc
<1> DEFINE p == send_message(o, msg)
<1>1. IsSent(o.c, msg, SignedBy(n)) /\ msg.type # "commitment_signed"
  BY DEF IsSent, Messages, Updates
<1>2. /\ Fine(n, p, SignedBy(n)) /\ p.out = Append(o.out, msg)
      /\ p.c.hm.ctn = o.c.hm.ctn /\ p.c.hm.revack = o.c.hm.revack
      /\ SameBut({"hm"}, o.c, p.c) /\ p.exc = o.exc
  BY <1>1, SendIs DEF Unsigning
<1> HIDE DEF p
<1>3. Work(n, p)
  BY <1>2, WorkSends DEF Unsigning, Fine
<1> QED BY <1>2, <1>3 DEF Unsigning, ctn_latest, p

(* A log that is changed, the update that is sent, and perhaps a signature *)
LEMMA WorkAnnounced ==
    ASSUME BasicInv, NEW n \in Node, NEW w, Alike(ch[n].hm, w), can_progress_ctx(ch[n]),
           NEW msg, msg.type \in Updates,
           NEW o \in maybe_send_commitment(n, send_message(Updated(Begin(n), w), msg))
    PROVE  Outcome(n, o) /\ Work(n, o)
<1>1. Unsigning(n, Begin(n)) /\ Work(n, Begin(n)) /\ Begin(n).c = ch[n]
  BY BeginIs
<1> DEFINE p == Updated(Begin(n), w)
           q == send_message(p, msg)
<1>2. Unsigning(n, p) /\ Work(n, p)
  BY <1>1, WorkUpdated
<1> HIDE DEF p
<1>3. Unsigning(n, q) /\ Work(n, q)
  BY <1>2, WorkSent
<1> QED BY <1>3, MaybeSendCommitment DEF p, q

(* Whoever can send updates can make progress. *)
LEMMA SendersProgress == \A c : can_send_ctx_updates(c) => can_progress_ctx(c)
  BY DEF can_send_ctx_updates

(* What a node does by itself with an htlc or the feerate is work. *)
LEMMA SendHtlcWorks ==
    ASSUME BasicInv, NEW n \in Node, SendHtlc(n) PROVE Works(n)
<1>1. PICK amount \in Amounts :
          /\ can_add_htlc(n, Local, amount)
          /\ LET m == ch[n].hm
                 added == send_message(Updated(Begin(n), add_htlc(m, Local, amount)),
                     [type |-> "update_add_htlc", id |-> m.next[Local], amount |-> amount])
             IN  \E o \in maybe_send_commitment(n, added) : Step(n, o, net[n])
  BY DEF SendHtlc
<1> DEFINE w == add_htlc(ch[n].hm, Local, amount)
           msg == [type |-> "update_add_htlc", id |-> ch[n].hm.next[Local], amount |-> amount]
<1>2. PICK o \in maybe_send_commitment(n, send_message(Updated(Begin(n), w), msg)) :
          Step(n, o, net[n])
  BY <1>1
<1>3. can_progress_ctx(ch[n])
  BY <1>1 DEF can_add_htlc
<1>4. Alike(ch[n].hm, w)
  BY UpdatesAreAlike DEF BasicInv, Types, IsChannel, IsLog
<1>5. msg.type \in Updates
  BY DEF Updates
<1> HIDE DEF w, msg
<1>6. Outcome(n, o) /\ Work(n, o)
  BY <1>2, <1>3, <1>4, <1>5, WorkAnnounced
<1>7. Bounds
  BY DEF SendHtlc, Bounds, BasicInv, Types
<1> QED BY <1>2, <1>6, <1>7 DEF Works, IsInbox

(* So does Peer._fulfill_htlc. *)
LEMMA FulfillHtlcWorks ==
    ASSUME BasicInv, NEW n \in Node, NEW i \in HtlcIds, FulfillHtlc(n, i) PROVE Works(n)
<1> DEFINE w == settle_htlc(ch[n].hm, Remote, i)
           settled == Updated(Begin(n), w)
           msg == [type |-> "update_fulfill_htlc", id |-> i]
<1>1. PICK o \in {settled, save_channel(settled)} : Step(n, send_message(o, msg), net[n])
  BY DEF FulfillHtlc
<1>2. can_progress_ctx(ch[n])
  BY SendersProgress DEF FulfillHtlc, CanRemove
<1>3. Alike(ch[n].hm, w)
  BY UpdatesAreAlike DEF BasicInv, Types, IsChannel, IsLog
<1>4. msg.type \in Updates
  BY DEF Updates
<1> HIDE DEF w, msg
<1>5. Unsigning(n, settled) /\ Work(n, settled)
  BY <1>3, BeginIs, WorkUpdated
<1> HIDE DEF settled
<1>6. Unsigning(n, o) /\ Work(n, o)
  BY <1>1, <1>5, WorkSaved
<1>7. Unsigning(n, send_message(o, msg)) /\ Work(n, send_message(o, msg))
  BY <1>2, <1>4, <1>6, WorkSent
<1>8. Bounds
  BY DEF FulfillHtlc, Bounds, BasicInv, Types
<1> QED BY <1>1, <1>7, <1>8 DEF Works, IsInbox, Outcome

(* So does Peer.fail_htlc. *)
LEMMA FailHtlcWorks ==
    ASSUME BasicInv, NEW n \in Node, NEW i \in HtlcIds, FailHtlc(n, i) PROVE Works(n)
<1> DEFINE w == fail_htlc(ch[n].hm, Remote, i)
           msg == [type |-> "update_fail_htlc", id |-> i]
<1>1. PICK o \in maybe_send_commitment(n, send_message(Updated(Begin(n), w), msg)) :
          Step(n, o, net[n])
  BY DEF FailHtlc
<1>2. can_progress_ctx(ch[n])
  BY SendersProgress DEF FailHtlc, CanRemove
<1>3. Alike(ch[n].hm, w)
  BY UpdatesAreAlike DEF BasicInv, Types, IsChannel, IsLog
<1>4. msg.type \in Updates
  BY DEF Updates
<1> HIDE DEF w, msg
<1>5. Outcome(n, o) /\ Work(n, o)
  BY <1>1, <1>2, <1>3, <1>4, WorkAnnounced
<1>6. Bounds
  BY DEF FailHtlc, Bounds, BasicInv, Types
<1> QED BY <1>1, <1>5, <1>6 DEF Works, IsInbox

(* So does Peer.maybe_update_fee. *)
LEMMA UpdateFeeWorks ==
    ASSUME BasicInv, NEW n \in Node, UpdateFee(n) PROVE Works(n)
<1>1. PICK rate \in Rates :
          LET updated == send_message(Updated(Begin(n), update_fee(ch[n].hm, Remote, rate)),
                             [type |-> "update_fee", rate |-> rate])
          IN  \E o \in maybe_send_commitment(n, updated) : Step(n, o, net[n])
  BY DEF UpdateFee
<1> DEFINE w == update_fee(ch[n].hm, Remote, rate)
           msg == [type |-> "update_fee", rate |-> rate]
<1>2. PICK o \in maybe_send_commitment(n, send_message(Updated(Begin(n), w), msg)) :
          Step(n, o, net[n])
  BY <1>1
<1>3. can_progress_ctx(ch[n])
  BY SendersProgress DEF UpdateFee
<1>4. Alike(ch[n].hm, w)
  BY UpdatesAreAlike DEF BasicInv, Types, IsChannel, IsLog
<1>5. msg.type \in Updates
  BY DEF Updates
<1> HIDE DEF w, msg
<1>6. Outcome(n, o) /\ Work(n, o)
  BY <1>2, <1>3, <1>4, <1>5, WorkAnnounced
<1>7. Bounds
  BY DEF UpdateFee, Bounds, BasicInv, Types
<1> QED BY <1>2, <1>6, <1>7 DEF Works, IsInbox

(* So does the htlc switch, which signs what there is to sign. *)
LEMMA PollCommitmentWorks ==
    ASSUME BasicInv, NEW n \in Node, PollCommitment(n) PROVE Works(n)
<1> DEFINE p == send_commitment(n, Begin(n))
<1>1. can_progress_ctx(ch[n]) /\ ~ch[n].hm.revack[Remote]
  BY DEF PollCommitment, CanPoll, can_send_commitment, can_sign
<1>2. /\ Signing(n, p) /\ SameBut({"hm"}, Begin(n).c, p.c)
      /\ \E x : x.type = "commitment_signed" /\ p.out = Append(Begin(n).out, x)
  BY <1>1, BeginIs, SendCommitment
<1>3. Work(n, p)
  BY <1>1, <1>2, BeginIs, WorkSends DEF Unsigning, Fine
<1>4. Step(n, p, net[n])
  BY DEF PollCommitment
<1>5. Bounds
  BY DEF PollCommitment, Bounds, BasicInv, Types
<1> HIDE DEF p
<1> QED BY <1>2, <1>3, <1>4, <1>5 DEF Works, IsInbox, Outcome

(* A node that raises what the message was does no more. *)
LEMMA Blaming ==
    ASSUME BasicInv, NEW n \in Node, NEW type \in Messages
    PROVE  Unsigning(n, Raise(Begin(n), type)) /\ Work(n, Raise(Begin(n), type))
  BY BeginIs, WorkRaised

(* The first message on the way to a node *)
LEMMA HeadIs ==
    ASSUME BasicInv, NEW n \in Node, net[n] # << >>
    PROVE  /\ Len(net[n]) \in Nat \ {0} /\ Head(net[n]) = net[n][1]
           /\ IsMessage(n, Head(net[n]))
<1>1. Len(net[n]) \in Nat \ {0} /\ Head(net[n]) = net[n][1]
  BY TailIs DEF BasicInv, Types
<1>2. 1 \in 1 .. Len(net[n])
  BY <1>1
<1> QED BY <1>1, <1>2 DEF BasicInv, Types

(* What a node does with an update, a signature or a secret it receives is work. *)
LEMMA OnUpdateAddHtlcWorks ==
    ASSUME BasicInv, NEW n \in Node, Receive(n, "update_add_htlc", OnUpdateAddHtlc)
    PROVE  Works(n)
<1> DEFINE msg == Head(net[n])
           w == add_htlc(ch[n].hm, Remote, msg.amount)
<1>1. PICK o \in OnUpdateAddHtlc(n, msg) : Step(n, o, Tail(net[n]))
  BY DEF Receive
<1>2. net[n] # << >> /\ ~Blocked(ch[n]) /\ msg.type \in Messages
  BY DEF Receive, Messages, Updates
<1>3. o = Updated(Begin(n), w) \/ o = Raise(Begin(n), msg.type)
  BY <1>1, BeginIs DEF OnUpdateAddHtlc
<1>4. Alike(ch[n].hm, w)
  BY UpdatesAreAlike DEF BasicInv, Types, IsChannel, IsLog
<1> HIDE DEF w, msg
<1>5. Unsigning(n, o) /\ Work(n, o)
  BY <1>2, <1>3, <1>4, BeginIs, WorkUpdated, Blaming
<1>6. Bounds
  BY DEF Receive, Bounds
<1> QED BY <1>1, <1>2, <1>5, <1>6 DEF Works, IsInbox, Outcome

(* on_update_fulfill_htlc does so. *)
LEMMA OnUpdateFulfillHtlcWorks ==
    ASSUME BasicInv, NEW n \in Node, Receive(n, "update_fulfill_htlc", OnUpdateFulfillHtlc)
    PROVE  Works(n)
<1> DEFINE msg == Head(net[n])
           w == settle_htlc(ch[n].hm, Local, msg.id)
           settled == Updated(Begin(n), w)
<1>1. PICK o \in OnUpdateFulfillHtlc(n, msg) : Step(n, o, Tail(net[n]))
  BY DEF Receive
<1>2. net[n] # << >> /\ ~Blocked(ch[n]) /\ msg.type \in Messages
  BY DEF Receive, Messages, Updates
<1>3. o = settled \/ o = save_channel(settled) \/ o = Raise(Begin(n), msg.type)
  BY <1>1, BeginIs DEF OnUpdateFulfillHtlc
<1>4. Alike(ch[n].hm, w)
  BY UpdatesAreAlike DEF BasicInv, Types, IsChannel, IsLog
<1> HIDE DEF w, msg
<1>5. Unsigning(n, settled) /\ Work(n, settled)
  BY <1>4, BeginIs, WorkUpdated
<1> HIDE DEF settled
<1>6. Unsigning(n, o) /\ Work(n, o)
  BY <1>2, <1>3, <1>5, WorkSaved, Blaming
<1>7. Bounds
  BY DEF Receive, Bounds
<1> QED BY <1>1, <1>2, <1>6, <1>7 DEF Works, IsInbox, Outcome

(* on_update_fail_htlc does so. *)
LEMMA OnUpdateFailHtlcWorks ==
    ASSUME BasicInv, NEW n \in Node, Receive(n, "update_fail_htlc", OnUpdateFailHtlc)
    PROVE  Works(n)
<1> DEFINE msg == Head(net[n])
           w == fail_htlc(ch[n].hm, Local, msg.id)
<1>1. PICK o \in OnUpdateFailHtlc(n, msg) : Step(n, o, Tail(net[n]))
  BY DEF Receive
<1>2. net[n] # << >> /\ ~Blocked(ch[n]) /\ msg.type \in Messages
  BY DEF Receive, Messages, Updates
<1>3. o = Updated(Begin(n), w) \/ o = Raise(Begin(n), msg.type)
  BY <1>1, BeginIs DEF OnUpdateFailHtlc
<1>4. Alike(ch[n].hm, w)
  BY UpdatesAreAlike DEF BasicInv, Types, IsChannel, IsLog
<1> HIDE DEF w, msg
<1>5. Unsigning(n, o) /\ Work(n, o)
  BY <1>2, <1>3, <1>4, BeginIs, WorkUpdated, Blaming
<1>6. Bounds
  BY DEF Receive, Bounds
<1> QED BY <1>1, <1>2, <1>5, <1>6 DEF Works, IsInbox, Outcome

(* on_update_fee does so. *)
LEMMA OnUpdateFeeWorks ==
    ASSUME BasicInv, NEW n \in Node, Receive(n, "update_fee", OnUpdateFee)
    PROVE  Works(n)
<1> DEFINE msg == Head(net[n])
           w == update_fee(ch[n].hm, Local, msg.rate)
<1>1. PICK o \in OnUpdateFee(n, msg) : Step(n, o, Tail(net[n]))
  BY DEF Receive
<1>2. net[n] # << >> /\ ~Blocked(ch[n]) /\ msg.type \in Messages
  BY DEF Receive, Messages, Updates
<1>3. o = Updated(Begin(n), w) \/ o = Raise(Begin(n), msg.type)
  BY <1>1, BeginIs DEF OnUpdateFee
<1>4. Alike(ch[n].hm, w)
  BY UpdatesAreAlike DEF BasicInv, Types, IsChannel, IsLog
<1> HIDE DEF w, msg
<1>5. Unsigning(n, o) /\ Work(n, o)
  BY <1>2, <1>3, <1>4, BeginIs, WorkUpdated, Blaming
<1>6. Bounds
  BY DEF Receive, Bounds
<1> QED BY <1>1, <1>2, <1>5, <1>6 DEF Works, IsInbox, Outcome

(* A new ctn that was saved, and for which the message arrived, is work. *)
LEMMA WorkRevoked ==
    ASSUME BasicInv, NEW n \in Node, can_progress_ctx(ch[n]),
           NEW w, IsLog(w, SignedBy(n)), Moves(n, w),
           ctn_latest(w, Remote) = ctn_latest(ch[n].hm, Remote)
    PROVE  LET p == save_channel(Updated(Begin(n), w))
           IN  /\ Unsigning(n, p) /\ Work(n, p) /\ p.exc = Ok
               /\ p.c.hm = w /\ SameBut({"hm"}, ch[n], p.c) /\ p.out = << >>
<1> DEFINE o == Begin(n)
           q == Updated(o, w)
           p == save_channel(q)
<1>1. /\ o.c = ch[n] /\ o.out = << >> /\ o.exc = Ok
      /\ Sound(n, o, SignedBy(n)) /\ DOMAIN o = OutcomeFields /\ DOMAIN o.c = ChannelFields
  BY BeginIs DEF Unsigning, Fine, Sound, IsChannel
<1> HIDE DEF o
<1>2. /\ DOMAIN q = OutcomeFields /\ DOMAIN q.c = ChannelFields /\ q.c.hm = w
      /\ SameBut({"hm"}, ch[n], q.c) /\ q.out = << >> /\ q.exc = Ok
  BY <1>1, OutcomeParts
<1> HIDE DEF q
<1>3. Sound(n, q, SignedBy(n))
  <2>1. IsChannel(q.c, SignedBy(n))
    BY <1>1, <1>2, ChannelWith DEF Sound
  <2>2. SameBut(ChannelFields \ OfConnection, ch[n], q.c)
    BY <1>2 DEF SameBut, OfConnection, ChannelFields
  <2> QED BY <1>2, <2>1, <2>2, ShortSeqs DEF Sound
<1>4. Fine(n, p, SignedBy(n)) /\ p.c = q.c /\ p.out = << >> /\ p.exc = Ok
  BY <1>2, <1>3, FineSaved, OutcomeParts
<1> HIDE DEF p
<1> QED BY <1>2, <1>4, ShortSeqs DEF Unsigning, Work, p, q, o

(* on_commitment_signed takes a signature, which moves the local ctn, and answers it. *)
LEMMA OnCommitmentSignedWorks ==
    ASSUME BasicInv, NEW n \in Node, Receive(n, "commitment_signed", OnCommitmentSigned)
    PROVE  Works(n)
<1> DEFINE msg == Head(net[n])
           m == ch[n].hm
           r == recv_ctx(m)
           w == send_rev(r)
           a == save_channel(Updated(Begin(n), w))
           x == revoke_and_ack(m.ctn[Local])
           b == send_message(a, x)
<1>1. PICK o \in OnCommitmentSigned(n, msg) : Step(n, o, Tail(net[n]))
  BY DEF Receive
<1>2. net[n] # << >> /\ ~Blocked(ch[n]) /\ msg.type = "commitment_signed"
  BY DEF Receive
<1>3. \/ o = Raise(Begin(n), msg.type)
      \/ /\ o \in maybe_send_commitment(n, b) /\ can_progress_ctx(ch[n])
         /\ msg.sig = make_commitment(n, m, Local, next_ctn(m, Local))
  BY <1>1, BeginIs DEF OnCommitmentSigned
<1>4. IsLog(m, SignedBy(n))
  BY DEF BasicInv, Types, IsChannel
<1>5. Outcome(n, o) /\ Work(n, o)
  <2>1. CASE o = Raise(Begin(n), msg.type)
    BY <1>2, <2>1, Blaming DEF Outcome, Messages
  <2>2. CASE /\ o \in maybe_send_commitment(n, b) /\ can_progress_ctx(ch[n])
             /\ msg.sig = make_commitment(n, m, Local, next_ctn(m, Local))
    <3>1. /\ DOMAIN r = LogFields /\ r.ctn = m.ctn /\ r.unacked = m.unacked
          /\ r.revack = [m.revack EXCEPT ![Local] = TRUE]
      BY <1>4 DEF recv_ctx, IsLog, LogFields
    <3> HIDE DEF r
    <3>2. r.ctn \in [Owner -> Nat] /\ r.revack \in [Owner -> BOOLEAN]
      BY <1>4, <3>1 DEF IsLog
    <3>3. /\ DOMAIN Revoked(r, Local) = LogFields
          /\ Revoked(r, Local).ctn = [r.ctn EXCEPT ![Local] = r.ctn[Local] + 1]
          /\ Revoked(r, Local).revack = [r.revack EXCEPT ![Local] = FALSE]
          /\ Revoked(r, Local).unacked = r.unacked
      BY <3>1, <3>2, OwnerFacts, RevokedIs
    <3>4. /\ DOMAIN w = LogFields /\ w.unacked = m.unacked
          /\ w.ctn = [m.ctn EXCEPT ![Local] = m.ctn[Local] + 1]
          /\ w.revack = [r.revack EXCEPT ![Local] = FALSE]
      BY <3>1, <3>3 DEF send_rev, LogFields
    <3> HIDE DEF w
    <3>5. /\ w.ctn[Local] = m.ctn[Local] + 1 /\ w.ctn[Remote] = m.ctn[Remote]
          /\ w.revack[Remote] = m.revack[Remote] /\ m.ctn[Local] \in Nat
      BY <1>4, <3>1, <3>4, OwnerFacts DEF IsLog
    <3>6. IsLog(w, SignedBy(n))
      BY <1>4, <3>1, <3>2, <3>4, OwnerFacts DEF IsLog
    <3>7. msg.sig.owner = n /\ msg.sig.ctn = m.ctn[Local] + 1
      <4>1. msg.sig.owner = NodeOf(n, Local) /\ msg.sig.ctn = next_ctn(m, Local)
        BY <2>2 DEF make_commitment
      <4> QED BY <1>4, <4>1, OwnerFacts DEF next_ctn, ctn_latest, IsLog
    <3>8. Moves(n, w)
      BY <1>2, <3>5, <3>7 DEF Moves, SignatureArrived
    <3>9. ctn_latest(w, Remote) = ctn_latest(m, Remote)
      BY <3>5 DEF ctn_latest
    <3> HIDE DEF m, msg
    <3>10. /\ Unsigning(n, a) /\ Work(n, a) /\ a.c.hm = w
           /\ SameBut({"hm"}, ch[n], a.c)
      BY <2>2, <3>6, <3>8, <3>9, WorkRevoked DEF m
    <3> HIDE DEF a
    <3>11. x.type = "revoke_and_ack" /\ IsSent(a.c, x, SignedBy(n))
      <4>1. x.type = "revoke_and_ack" /\ x.secret = m.ctn[Local]
        BY DEF revoke_and_ack
      <4> QED BY <3>5, <3>10, <4>1 DEF IsSent, Messages
    <3> HIDE DEF x
    <3>12. /\ Fine(n, b, SignedBy(n)) /\ b.out = Append(a.out, x)
           /\ b.c.hm.ctn = a.c.hm.ctn /\ b.c.hm.revack = a.c.hm.revack
           /\ SameBut({"hm"}, a.c, b.c)
      BY <3>10, <3>11, SendIs DEF Unsigning
    <3> HIDE DEF b
    <3>13. Unsigning(n, b)
      BY <3>10, <3>12 DEF Unsigning, ctn_latest
    <3>14. Work(n, b)
      BY <2>2, <3>10, <3>11, <3>12, WorkSends DEF Unsigning, Fine
    <3> QED BY <2>2, <3>13, <3>14, MaybeSendCommitment
  <2> QED BY <1>3, <2>1, <2>2
<1>6. Bounds
  BY DEF Receive, Bounds
<1> QED BY <1>1, <1>2, <1>5, <1>6 DEF Works, IsInbox

(* Forgetting what was kept for some ctns *)
LEMMA FewerUnacked ==
    ASSUME NEW u, NEW txs, IsUnacked(u, txs), NEW D
    PROVE  IsUnacked([c \in DOMAIN u \ D |-> u[c]], txs)
<1> DEFINE v == [c \in DOMAIN u \ D |-> u[c]]
<1>1. DOMAIN v = DOMAIN u \ D /\ \A c \in DOMAIN v : c \in DOMAIN u /\ v[c] = u[c]
  OBVIOUS
<1> HIDE DEF v
<1>2. ASSUME NEW c \in DOMAIN v
      PROVE  /\ IsSeq(v[c])
             /\ \A k \in 1 .. Len(v[c]) :
                   /\ v[c][k].type \in Updates \cup {"commitment_signed"}
                   /\ v[c][k].type = "commitment_signed" => v[c][k].sig \in txs
  BY <1>1, <1>2 DEF IsUnacked
<1>3. IsUnacked(v, txs)
  BY <1>2 DEF IsUnacked
<1> QED BY <1>3 DEF v

(* on_revoke_and_ack takes a secret, which moves the remote ctn. *)
LEMMA OnRevokeAndAckWorks ==
    ASSUME BasicInv, NEW n \in Node, Receive(n, "revoke_and_ack", OnRevokeAndAck)
    PROVE  Works(n)
<1> DEFINE msg == Head(net[n])
           m == ch[n].hm
           r == Revoked(m, Remote)
           w == recv_rev(m)
           a == save_channel(Updated(Begin(n), w))
<1>1. PICK o \in OnRevokeAndAck(n, msg) : Step(n, o, Tail(net[n]))
  BY DEF Receive
<1>2. net[n] # << >> /\ ~Blocked(ch[n]) /\ msg.type = "revoke_and_ack"
  BY DEF Receive
<1>3. \/ o = Raise(Begin(n), msg.type)
      \/ /\ o = a /\ can_progress_ctx(ch[n])
         /\ msg.secret = m.ctn[Remote] /\ m.revack[Remote]
  BY <1>1, BeginIs DEF OnRevokeAndAck, can_revoke
<1>4. IsLog(m, SignedBy(n))
  BY DEF BasicInv, Types, IsChannel
<1>5. Unsigning(n, o) /\ Work(n, o)
  <2>1. CASE o = Raise(Begin(n), msg.type)
    BY <1>2, <2>1, Blaming DEF Messages
  <2>2. CASE /\ o = a /\ can_progress_ctx(ch[n])
             /\ msg.secret = m.ctn[Remote] /\ m.revack[Remote]
    <3>1. /\ DOMAIN r = LogFields
          /\ r.ctn = [m.ctn EXCEPT ![Remote] = m.ctn[Remote] + 1]
          /\ r.revack = [m.revack EXCEPT ![Remote] = FALSE]
          /\ r.unacked = m.unacked
      BY <1>4, OwnerFacts, RevokedIs DEF IsLog
    <3> DEFINE u == [c \in DOMAIN r.unacked \ {r.ctn[Remote]} |-> r.unacked[c]]
    <3>2. w = [r EXCEPT !.unacked = u]
      BY DEF recv_rev
    <3> HIDE DEF r, w
    <3>3. IsUnacked(u, SignedBy(n))
      BY <1>4, <3>1, FewerUnacked DEF IsLog
    <3> HIDE DEF u
    <3>4. DOMAIN w = LogFields /\ w.ctn = r.ctn /\ w.revack = r.revack /\ w.unacked = u
      BY <3>1, <3>2 DEF LogFields
    <3>5. /\ w.ctn[Local] = m.ctn[Local] /\ w.ctn[Remote] = m.ctn[Remote] + 1
          /\ w.revack[Remote] = FALSE /\ w.revack[Local] = FALSE /\ m.ctn[Remote] \in Nat
      BY <1>4, <3>1, <3>4, OwnerFacts DEF IsLog
    <3>6. IsLog(w, SignedBy(n))
      <4>1. w.ctn \in [Owner -> Nat] /\ w.revack \in [Owner -> BOOLEAN]
        BY <1>4, <3>1, <3>4, OwnerFacts DEF IsLog
      <4> QED BY <3>3, <3>4, <3>5, <4>1 DEF IsLog
    <3>7. Moves(n, w)
      BY <1>2, <2>2, <3>5 DEF Moves, SecretArrived
    <3>8. ctn_latest(w, Remote) = ctn_latest(m, Remote)
      BY <2>2, <3>5 DEF ctn_latest
    <3> HIDE DEF m
    <3> QED BY <2>2, <3>6, <3>7, <3>8, WorkRevoked DEF m
  <2> QED BY <1>3, <2>1, <2>2
<1>6. Bounds
  BY DEF Receive, Bounds
<1> QED BY <1>1, <1>2, <1>5, <1>6 DEF Works, IsInbox, Outcome

-----------------------------------------------------------------------------
(* Reestablishing *)

\* Two nodes that are not in step, for what msg says to one with log m
Differ(m, msg) ==
    LET theirs == msg.next_commitment_number
        expected == \/ theirs = next_ctn(m, Remote)
                    \/ theirs = ctn_latest(m, Remote) /\ m.revack[Remote]
    IN  \/ theirs > next_ctn(m, Remote)
        \/ ~expected /\ theirs < next_ctn(m, Remote)
        \/ msg.next_revocation_number < m.ctn[Local] - 1

\* What n makes of a channel_reestablish, which is the next message
Reestablishes(n, o, inbox) ==
    LET msg == Head(net[n])
    IN  /\ net[n] # << >> /\ inbox = Tail(net[n]) /\ ~Blocked(ch[n])
        /\ msg.type = "channel_reestablish"
        /\ ch[n].state = "OPEN"
        /\ o.c.hm = ch[n].hm /\ o.out = << >> /\ o.exc = Ok
        /\ SameBut({"state", "peer_state", "task", "reest"}, ch[n], o.c)
        /\ \/ /\ msg.next_revocation_number > ch[n].hm.ctn[Local]
              /\ o.c.state = "WE_ARE_TOXIC" /\ o.c.peer_state = "BAD"
              /\ o.c.reest = <<Exception>>
           \/ /\ msg.next_revocation_number <= ch[n].hm.ctn[Local] /\ Differ(ch[n].hm, msg)
              /\ o.c.state = "FORCE_CLOSING" /\ o.c.peer_state = ch[n].peer_state
              /\ o.c.reest = <<Exception>>
           \/ /\ msg.next_revocation_number <= ch[n].hm.ctn[Local] /\ ~Differ(ch[n].hm, msg)
              /\ SameBut({"reest"}, ch[n], o.c) /\ o.c.reest = <<msg>>

\* What n does with an error
Errs(n, o) ==
    /\ net[n] # << >> /\ Head(net[n]).type = "error"
    /\ o.c.hm = ch[n].hm /\ o.out = << >> /\ o.exc = GracefulDisconnect
    /\ SameBut({"state"}, ch[n], o.c)
    /\ \/ o.c.state = ch[n].state
       \/ ch[n].state \notin Final /\ o.c.state = "FORCE_CLOSING"

\* An outcome that changes no more than the rest of the channel is fine.
LEMMA FineKept ==
    ASSUME NEW n \in Node, NEW o, NEW txs, Fine(n, o, txs),
           NEW p, DOMAIN p = OutcomeFields, IsChannel(p.c, txs),
           p.c.hm = o.c.hm, p.c.state = o.c.state, p.out = o.out, p.file = o.file,
           p.exc = o.exc,
           connected \/ SameBut(ChannelFields \ OfConnection, o.c, p.c)
    PROVE  Fine(n, p, txs)
<1>1. Sound(n, p, txs)
  BY SoundKept DEF Fine, Sound
<1> QED BY <1>1 DEF Fine, Agrees

\* The future channel_reestablish_msg holds an exception, and a task t may run.
GetsException(o, t) == [o EXCEPT !.c.reest = <<Exception>>, !.c.task = t]

(* A node whose channel_reestablish_msg gets an exception *)
LEMMA FailedIs ==
    ASSUME NEW n \in Node, NEW o, NEW txs, Fine(n, o, txs), connected,
           NEW t \in {"none", "spawned", "waiting"}
    PROVE  LET p == GetsException(o, t)
           IN  /\ Fine(n, p, txs)
               /\ p.out = o.out /\ p.exc = o.exc /\ p.c.hm = o.c.hm
               /\ SameBut({"reest", "task"}, o.c, p.c)
               /\ p.c.reest = <<Exception>> /\ p.c.task = t
<1> DEFINE p == GetsException(o, t)
<1>1. /\ DOMAIN p = OutcomeFields /\ DOMAIN p.c = ChannelFields
      /\ p.out = o.out /\ p.exc = o.exc /\ p.file = o.file
      /\ SameBut({"reest", "task"}, o.c, p.c)
      /\ p.c.reest = <<Exception>> /\ p.c.task = t
  BY DEF GetsException, Fine, Sound, IsChannel, OutcomeFields, ChannelFields, SameBut
<1> HIDE DEF p
<1>2. /\ p.c.hm = o.c.hm /\ p.c.state = o.c.state /\ p.c.peer_state = o.c.peer_state
      /\ p.c.close = o.c.close /\ p.c.shutdown = o.c.shutdown
  BY <1>1 DEF SameBut, ChannelFields
<1>3. IsChannel(p.c, txs)
  BY <1>1, <1>2 DEF Fine, Sound, IsChannel
<1>4. Fine(n, p, txs)
  BY <1>1, <1>2, <1>3, FineKept
<1> QED BY <1>1, <1>2, <1>4 DEF p

(* schedule_force_closing *)
LEMMA ForceClosing ==
    ASSUME NEW n \in Node, NEW o, NEW txs, Fine(n, o, txs)
    PROVE  LET p == schedule_force_closing(o)
           IN  /\ Fine(n, p, txs) /\ p.c.hm = o.c.hm /\ p.out = o.out /\ p.exc = o.exc
               /\ SameBut({"state"}, o.c, p.c)
               /\ o.c.state \in {"OPEN", "SHUTDOWN"} => p.c.state = "FORCE_CLOSING"
               /\ o.c.state \notin {"OPEN", "SHUTDOWN"} => p = o
<1> DEFINE p == schedule_force_closing(o)
<1>1. CASE o.c.state \in {"OPEN", "SHUTDOWN"}
  <2>1. p = set_state(o, "FORCE_CLOSING")
    BY <1>1 DEF schedule_force_closing
  <2>2. Fine(n, p, txs)
    BY <2>1, FineState DEF Fine, States
  <2>3. /\ SameBut({"state"}, o.c, p.c) /\ p.c.state = "FORCE_CLOSING"
        /\ p.out = o.out /\ p.exc = o.exc
    BY <2>1, OutcomeParts DEF Fine, Sound, IsChannel
  <2>4. p.c.hm = o.c.hm
    BY <2>3 DEF SameBut, ChannelFields
  <2> HIDE DEF p
  <2> QED BY <1>1, <2>2, <2>3, <2>4 DEF p
<1>2. CASE o.c.state \notin {"OPEN", "SHUTDOWN"}
  <2>1. p = o
    BY <1>2 DEF schedule_force_closing
  <2>2. SameBut({"state"}, o.c, o.c)
    BY DEF SameBut
  <2> HIDE DEF p
  <2> QED BY <1>2, <2>1, <2>2 DEF p
<1> QED BY <1>1, <1>2

(* Whoever has a message on its way is connected. *)
LEMMA ReceiversConnected ==
    ASSUME BasicInv, NEW n \in Node, net[n] # << >> PROVE connected
  BY DEF BasicInv, Types

(* What a node makes of a channel_reestablish *)
LEMMA OnChannelReestablishActs ==
    ASSUME BasicInv, NEW n \in Node, NEW o \in OnChannelReestablish(n, Head(net[n])),
           net[n] # << >>, Head(net[n]).type = "channel_reestablish", ~Blocked(ch[n])
    PROVE  Unsigning(n, o) /\ (Work(n, o) \/ Reestablishes(n, o, Tail(net[n])))
<1> DEFINE msg == Head(net[n])
           b == Begin(n)
           m == ch[n].hm
           toxic == set_state(b, "WE_ARE_TOXIC")
           bad == [toxic EXCEPT !.c.peer_state = "BAD"]
           forced == schedule_force_closing(b)
           Failed(r) == {[r EXCEPT !.c.reest = <<Exception>>, !.c.task = t] :
                            t \in IF ch[n].task = "none" THEN {"none", "spawned"} ELSE {ch[n].task}}
<1>1. /\ b.c = ch[n] /\ b.out = << >> /\ b.exc = Ok
      /\ Unsigning(n, b) /\ Work(n, b) /\ Fine(n, b, SignedBy(n))
  BY BeginIs DEF Unsigning
<1>2. connected
  BY ReceiversConnected
<1>3. IsMessage(n, msg)
  BY HeadIs
<1>4. /\ msg.next_commitment_number \in Nat /\ msg.next_revocation_number \in Nat
      /\ m.ctn[Local] \in Nat
  BY <1>3, OwnerFacts DEF IsMessage, IsSent, BasicInv, Types, IsChannel, IsLog
<1>5. ch[n].task \in {"none", "spawned", "waiting"}
  BY DEF BasicInv, Types, IsChannel
<1>6. ASSUME NEW r, Fine(n, r, SignedBy(n)), r.c.hm = m, o \in Failed(r),
             r.out = << >>, r.exc = Ok
      PROVE  /\ Fine(n, o, SignedBy(n)) /\ o.c.hm = m /\ o.out = << >> /\ o.exc = Ok
             /\ SameBut({"reest", "task"}, r.c, o.c) /\ o.c.reest = <<Exception>>
  <2>1. PICK t \in {"none", "spawned", "waiting"} :
            o = GetsException(r, t)
    BY <1>5, <1>6 DEF GetsException
  <2> DEFINE p == GetsException(r, t)
  <2> HIDE DEF b, m, msg, toxic, bad, forced, Failed
  <2>2. Fine(n, r, SignedBy(n)) /\ connected
    BY <1>2, <1>6
  <2>3. /\ Fine(n, p, SignedBy(n)) /\ p.out = r.out /\ p.exc = r.exc /\ p.c.hm = r.c.hm
        /\ SameBut({"reest", "task"}, r.c, p.c) /\ p.c.reest = <<Exception>>
    BY <2>2, FailedIs
  <2>4. p = o
    BY <2>1
  <2> HIDE DEF p
  <2> QED BY <1>6, <2>3, <2>4
<1>7. CASE ch[n].state # "OPEN"
  <2>1. o = b
    BY <1>1, <1>7 DEF OnChannelReestablish
  <2> QED BY <1>1, <2>1
<1>8. CASE ch[n].state = "OPEN" /\ they_are_ahead_with_proof(m, msg)
  <2>1. o \in Failed(bad)
    BY <1>1, <1>8 DEF OnChannelReestablish
  <2>2. /\ Fine(n, toxic, SignedBy(n)) /\ SameBut({"state"}, ch[n], toxic.c)
        /\ toxic.c.state = "WE_ARE_TOXIC" /\ toxic.out = << >> /\ toxic.exc = Ok
    <3>1. Fine(n, toxic, SignedBy(n))
      BY <1>1, FineState DEF Fine, States
    <3> QED BY <1>1, <3>1, OutcomeParts DEF Fine, Sound, IsChannel
  <2> HIDE DEF toxic
  <2>3. /\ DOMAIN bad = OutcomeFields /\ DOMAIN bad.c = ChannelFields
        /\ bad.out = << >> /\ bad.exc = Ok /\ bad.file = toxic.file
        /\ SameBut({"peer_state"}, toxic.c, bad.c) /\ bad.c.peer_state = "BAD"
    BY <2>2 DEF Fine, Sound, IsChannel, OutcomeFields, ChannelFields, SameBut
  <2> HIDE DEF bad
  <2>4. /\ bad.c.hm = toxic.c.hm /\ toxic.c.hm = m /\ bad.c.state = "WE_ARE_TOXIC"
        /\ bad.c.task = toxic.c.task /\ bad.c.reest = toxic.c.reest
        /\ bad.c.close = toxic.c.close /\ bad.c.shutdown = toxic.c.shutdown
    BY <2>2, <2>3 DEF SameBut, ChannelFields
  <2>5. IsChannel(bad.c, SignedBy(n))
    <3>1. IsChannel(toxic.c, SignedBy(n))
      BY <2>2 DEF Fine, Sound
    <3> QED BY <2>2, <2>3, <2>4, <3>1 DEF IsChannel, PeerStates
  <2>6. Fine(n, bad, SignedBy(n))
    BY <1>2, <2>2, <2>3, <2>4, <2>5, FineKept
  <2>7. /\ Fine(n, o, SignedBy(n)) /\ o.c.hm = m /\ o.out = << >> /\ o.exc = Ok
        /\ SameBut({"reest", "task"}, bad.c, o.c) /\ o.c.reest = <<Exception>>
    BY <1>6, <2>1, <2>3, <2>4, <2>6
  <2>8. /\ SameBut({"state", "peer_state", "task", "reest"}, ch[n], o.c)
        /\ o.c.state = "WE_ARE_TOXIC" /\ o.c.peer_state = "BAD"
    BY <2>2, <2>3, <2>4, <2>7 DEF SameBut, ChannelFields
  <2>9. msg.next_revocation_number > m.ctn[Local]
    BY <1>8 DEF they_are_ahead_with_proof
  <2>10. Unsigning(n, o)
    <3>1. Fine(n, o, SignedBy(n)) /\ o.c.hm = ch[n].hm
      BY <2>7
    <3> QED BY <3>1 DEF Unsigning
  <2>11. Reestablishes(n, o, Tail(net[n]))
    <3>1. o.c.hm = ch[n].hm /\ o.out = << >> /\ o.exc = Ok /\ o.c.reest = <<Exception>>
      BY <2>7, Zenon
    <3>2. ch[n].state = "OPEN" /\ msg.next_revocation_number > ch[n].hm.ctn[Local]
      BY <1>8, <2>9
    <3> QED BY <2>8, <3>1, <3>2 DEF Reestablishes
  <2> QED BY <2>10, <2>11, Zenon
<1>9. CASE ch[n].state = "OPEN" /\ ~they_are_ahead_with_proof(m, msg) /\ Differ(m, msg)
  <2>1. o \in Failed(forced)
    BY <1>1, <1>9 DEF OnChannelReestablish, Differ
  <2>2. /\ Fine(n, forced, SignedBy(n)) /\ forced.c.hm = m /\ forced.out = << >>
        /\ forced.exc = Ok /\ SameBut({"state"}, ch[n], forced.c)
        /\ forced.c.state = "FORCE_CLOSING"
    BY <1>1, <1>9, ForceClosing
  <2> HIDE DEF forced
  <2>3. /\ Fine(n, o, SignedBy(n)) /\ o.c.hm = m /\ o.out = << >> /\ o.exc = Ok
        /\ SameBut({"reest", "task"}, forced.c, o.c) /\ o.c.reest = <<Exception>>
    BY <1>6, <2>1, <2>2
  <2>4. /\ SameBut({"state", "peer_state", "task", "reest"}, ch[n], o.c)
        /\ o.c.state = "FORCE_CLOSING" /\ o.c.peer_state = ch[n].peer_state
    BY <2>2, <2>3 DEF SameBut, ChannelFields
  <2>5. msg.next_revocation_number <= m.ctn[Local]
    BY <1>4, <1>9 DEF they_are_ahead_with_proof
  <2>6. Unsigning(n, o)
    <3>1. Fine(n, o, SignedBy(n)) /\ o.c.hm = ch[n].hm
      BY <2>3
    <3> QED BY <3>1 DEF Unsigning
  <2>7. Reestablishes(n, o, Tail(net[n]))
    BY <1>9, <2>3, <2>4, <2>5 DEF Reestablishes
  <2> QED BY <2>6, <2>7, Zenon
<1>10. CASE ch[n].state = "OPEN" /\ ~they_are_ahead_with_proof(m, msg) /\ ~Differ(m, msg)
  <2>1. o = [b EXCEPT !.c.reest = <<msg>>]
    BY <1>1, <1>10 DEF OnChannelReestablish, Differ
  <2>2. /\ DOMAIN o = OutcomeFields /\ DOMAIN o.c = ChannelFields
        /\ o.out = << >> /\ o.exc = Ok /\ o.file = b.file
        /\ SameBut({"reest"}, ch[n], o.c) /\ o.c.reest = <<msg>>
    BY <1>1, <2>1 DEF Fine, Sound, IsChannel, OutcomeFields, ChannelFields, SameBut
  <2>3. /\ o.c.hm = m /\ o.c.state = ch[n].state /\ o.c.peer_state = ch[n].peer_state
        /\ o.c.task = ch[n].task /\ o.c.close = ch[n].close /\ o.c.shutdown = ch[n].shutdown
    BY <2>2 DEF SameBut, ChannelFields
  <2>4. o.c.reest[1] = msg
    BY <2>2
  <2> HIDE DEF msg, m, b
  <2>5. IsChannel(o.c, SignedBy(n))
    BY <1>1, <1>4, <2>2, <2>3, <2>4 DEF Fine, Sound, IsChannel, msg, m
  <2>6. Fine(n, o, SignedBy(n))
    BY <1>1, <1>2, <2>2, <2>3, <2>5, FineKept DEF m
  <2>7. msg.next_revocation_number <= m.ctn[Local]
    BY <1>4, <1>10 DEF they_are_ahead_with_proof
  <2>8. SameBut({"state", "peer_state", "task", "reest"}, ch[n], o.c)
    BY <2>2 DEF SameBut
  <2> QED BY <1>10, <2>2, <2>3, <2>6, <2>7, <2>8 DEF Unsigning, Reestablishes, msg, m
<1> QED BY <1>7, <1>8, <1>9, <1>10

(* What a node does with an error *)
LEMMA OnErrorActs ==
    ASSUME BasicInv, NEW n \in Node, NEW o \in OnError(n, Head(net[n])),
           net[n] # << >>, Head(net[n]).type = "error"
    PROVE  Unsigning(n, o) /\ Errs(n, o)
<1> DEFINE b == Begin(n)
           p == schedule_force_closing(b)
<1>1. /\ b.c = ch[n] /\ b.out = << >> /\ b.exc = Ok /\ Fine(n, b, SignedBy(n))
  BY BeginIs DEF Unsigning
<1>2. o = Raise(p, GracefulDisconnect)
  BY DEF OnError
<1> HIDE DEF b
<1>3. /\ Fine(n, p, SignedBy(n)) /\ p.c.hm = ch[n].hm /\ p.out = << >>
      /\ SameBut({"state"}, ch[n], p.c)
      /\ ch[n].state \in {"OPEN", "SHUTDOWN"} => p.c.state = "FORCE_CLOSING"
      /\ ch[n].state \notin {"OPEN", "SHUTDOWN"} => p = b
  <2>1. /\ Fine(n, p, SignedBy(n)) /\ p.c.hm = b.c.hm /\ p.out = b.out
        /\ SameBut({"state"}, b.c, p.c)
        /\ b.c.state \in {"OPEN", "SHUTDOWN"} => p.c.state = "FORCE_CLOSING"
        /\ b.c.state \notin {"OPEN", "SHUTDOWN"} => p = b
    BY <1>1, ForceClosing
  <2> HIDE DEF p
  <2> QED BY <1>1, <2>1
<1> HIDE DEF p
<1>4. /\ Fine(n, o, SignedBy(n)) /\ o.c = p.c /\ o.out = << >> /\ o.exc = GracefulDisconnect
  BY <1>2, <1>3, FineRaised, OutcomeParts DEF Fine, Sound, IsChannel
<1>5. \/ o.c.state = ch[n].state
      \/ ch[n].state \notin Final /\ o.c.state = "FORCE_CLOSING"
  BY <1>1, <1>3, <1>4 DEF Final
<1> QED BY <1>3, <1>4, <1>5 DEF Unsigning, Errs

\* What a node with log m says of itself
OwnAnnouncement(m) == channel_reestablish(m.ctn[Local] + 1, m.ctn[Remote])

\* How n starts to reestablish the channel
Starts(n, o) ==
    /\ CanStart(n) /\ o.exc = Ok
    /\ \/ /\ ch[n].state = "WE_ARE_TOXIC"
          /\ SameBut({"task"}, ch[n], o.c) /\ o.c.task = "none"
          /\ o.out = Append(<<channel_reestablish(0, 0)>>, [type |-> "error"])
       \/ /\ ch[n].state = "FORCE_CLOSING"
          /\ SameBut({"task"}, ch[n], o.c) /\ o.c.task = "none"
          /\ o.out = <<OwnAnnouncement(ch[n].hm)>>
       \/ /\ ch[n].state = "OPEN"
          /\ SameBut({"hm", "peer_state", "task"}, ch[n], o.c) /\ Alike(ch[n].hm, o.c.hm)
          /\ o.c.peer_state = "REESTABLISHING" /\ o.c.task = "waiting"
          /\ o.out = <<OwnAnnouncement(ch[n].hm)>>

\* How n finishes that
Finishes(n, o) ==
    /\ CanFinish(n) /\ Blocked(ch[n]) /\ o.exc = Ok
    /\ SameBut({"peer_state", "task", "reest"}, ch[n], o.c)
    /\ o.c.peer_state = "GOOD" /\ o.c.task = "none" /\ o.c.reest = << >>
    /\ \A k \in 1 .. Len(o.out) :
          o.out[k].type \in Updates \cup {"commitment_signed", "revoke_and_ack"}

(* A log stays one if the updates that are not signed are discarded. *)
LEMMA DiscardedIs ==
    ASSUME NEW m, NEW txs, IsLog(m, txs)
    PROVE  LET w == discard_unsigned_remote_updates(m)
           IN  Alike(m, w) /\ IsLog(w, txs)
<1>1. Alike(m, discard_unsigned_remote_updates(m))
  BY UpdatesAreAlike DEF IsLog
<1> QED BY <1>1, AlikeIsLog

(* Sending what is no update and no signature only sends it. *)
LEMMA JustSends ==
    ASSUME NEW n \in Node, NEW o, NEW txs, Fine(n, o, txs), NEW msg, IsSent(o.c, msg, txs),
           msg.type # "commitment_signed", msg.type \notin Updates
    PROVE  LET p == send_message(o, msg)
           IN  /\ Fine(n, p, txs) /\ p.c = o.c /\ p.file = o.file /\ p.exc = o.exc
               /\ p.out = Append(o.out, msg)
<1> QED BY SendIs

(* What a node that starts to reestablish the channel does first *)
LEMMA StartReestablishActs ==
    ASSUME BasicInv, Dance, NEW n \in Node, StartReestablish(n)
    PROVE  \E o : Step(n, o, net[n]) /\ Unsigning(n, o) /\ Starts(n, o)
<1> DEFINE b == Begin(n)
           m == ch[n].hm
           o == [b EXCEPT !.c.task = "none"]
           w == discard_unsigned_remote_updates(o.c.hm)
           u == Updated(o, w)
           waiting == [u EXCEPT !.c.peer_state = "REESTABLISHING", !.c.task = "waiting"]
<1>1. /\ b.c = ch[n] /\ b.out = << >> /\ b.exc = Ok /\ Fine(n, b, SignedBy(n))
  BY BeginIs DEF Unsigning
<1>2. CanStart(n) /\ connected
  BY DEF StartReestablish, CanStart
<1>3. ch[n].state \in {"WE_ARE_TOXIC", "FORCE_CLOSING", "OPEN"}
  BY <1>2 DEF CanStart, Dance, Final
<1>4. /\ IsLog(m, SignedBy(n)) /\ m.ctn[Local] \in Nat /\ m.ctn[Remote] \in Nat
      /\ next_ctn(m, Local) = m.ctn[Local] + 1
  BY OwnerFacts DEF BasicInv, Types, IsChannel, IsLog, next_ctn, ctn_latest
<1>5. \/ ch[n].state = "WE_ARE_TOXIC" /\ Step(n, request_force_close(o), net[n])
      \/ ch[n].state = "FORCE_CLOSING" /\ Step(n, send_channel_reestablish(o), net[n])
      \/ ch[n].state = "OPEN" /\ Step(n, send_channel_reestablish(waiting), net[n])
  <2>1. o.c.state = ch[n].state
    BY <1>1 DEF Fine, Sound, IsChannel, OutcomeFields, ChannelFields
  <2> HIDE DEF waiting, o
  <2>2. Step(n, CASE o.c.state = "WE_ARE_TOXIC"  -> request_force_close(o)
                  [] o.c.state = "FORCE_CLOSING" -> send_channel_reestablish(o)
                  [] o.c.state = "OPEN"          -> send_channel_reestablish(waiting),
             net[n])
    BY DEF StartReestablish, waiting, o
  <2> QED BY <1>3, <2>1, <2>2
<1> HIDE DEF b
<1>6. /\ Fine(n, o, SignedBy(n)) /\ SameBut({"task"}, ch[n], o.c) /\ o.c.task = "none"
      /\ o.c.hm = m /\ o.out = << >> /\ o.exc = Ok
  <2>1. /\ DOMAIN o = OutcomeFields /\ DOMAIN o.c = ChannelFields
        /\ o.out = << >> /\ o.exc = Ok /\ o.file = b.file
        /\ SameBut({"task"}, ch[n], o.c) /\ o.c.task = "none"
    BY <1>1 DEF Fine, Sound, IsChannel, OutcomeFields, ChannelFields, SameBut
  <2> HIDE DEF o
  <2>2. /\ o.c.hm = m /\ o.c.state = ch[n].state /\ o.c.peer_state = ch[n].peer_state
        /\ o.c.reest = ch[n].reest /\ o.c.close = ch[n].close /\ o.c.shutdown = ch[n].shutdown
    BY <2>1 DEF SameBut, ChannelFields
  <2>3. IsChannel(o.c, SignedBy(n))
    BY <1>1, <2>1, <2>2 DEF Fine, Sound, IsChannel
  <2>4. Fine(n, o, SignedBy(n))
    BY <1>1, <1>2, <2>1, <2>2, <2>3, FineKept
  <2> QED BY <2>1, <2>2, <2>4
<1> HIDE DEF o
<1>7. /\ Fine(n, waiting, SignedBy(n)) /\ SameBut({"hm", "peer_state", "task"}, ch[n], waiting.c)
      /\ Alike(m, waiting.c.hm) /\ waiting.c.peer_state = "REESTABLISHING"
      /\ waiting.c.task = "waiting" /\ waiting.out = << >> /\ waiting.exc = Ok
  <2>1. Alike(m, w) /\ IsLog(w, SignedBy(n))
    BY <1>4, <1>6, DiscardedIs
  <2> HIDE DEF w
  <2>2. Fine(n, u, SignedBy(n))
    BY <1>6, <2>1, FineUpdated DEF Alike
  <2>3. /\ DOMAIN u = OutcomeFields /\ DOMAIN u.c = ChannelFields /\ u.c.hm = w
        /\ SameBut({"hm"}, o.c, u.c) /\ u.out = << >> /\ u.exc = Ok
    BY <1>6, OutcomeParts DEF Fine, Sound, IsChannel
  <2> HIDE DEF u
  <2>4. /\ DOMAIN waiting = OutcomeFields /\ DOMAIN waiting.c = ChannelFields
        /\ waiting.out = << >> /\ waiting.exc = Ok /\ waiting.file = u.file
        /\ SameBut({"peer_state", "task"}, u.c, waiting.c)
        /\ waiting.c.peer_state = "REESTABLISHING" /\ waiting.c.task = "waiting"
    BY <2>3 DEF OutcomeFields, ChannelFields, SameBut
  <2> HIDE DEF waiting
  <2>5. /\ waiting.c.hm = w /\ waiting.c.state = u.c.state /\ waiting.c.reest = u.c.reest
        /\ waiting.c.close = u.c.close /\ waiting.c.shutdown = u.c.shutdown
    BY <2>3, <2>4 DEF SameBut, ChannelFields
  <2>6. IsChannel(waiting.c, SignedBy(n))
    BY <2>2, <2>3, <2>4, <2>5 DEF Fine, Sound, IsChannel, PeerStates
  <2>7. Fine(n, waiting, SignedBy(n))
    BY <1>2, <2>2, <2>3, <2>4, <2>5, <2>6, FineKept
  <2>8. SameBut({"hm", "peer_state", "task"}, ch[n], waiting.c)
    BY <1>6, <2>3, <2>4 DEF SameBut
  <2> QED BY <2>1, <2>4, <2>5, <2>7, <2>8
<1> HIDE DEF waiting
<1>8. ASSUME NEW r, Fine(n, r, SignedBy(n)), r.out = << >>, Alike(m, r.c.hm), r.exc = Ok
      PROVE  LET p == send_channel_reestablish(r)
             IN  /\ Fine(n, p, SignedBy(n)) /\ p.c = r.c /\ p.exc = Ok
                 /\ p.out = <<OwnAnnouncement(m)>>
  <2> DEFINE x == channel_reestablish(next_ctn(r.c.hm, Local), r.c.hm.ctn[Remote])
             p == send_channel_reestablish(r)
  <2>1. x = OwnAnnouncement(m)
    BY <1>4, <1>8 DEF OwnAnnouncement, Alike, next_ctn, ctn_latest
  <2>2. p = send_message(r, x)
    BY DEF send_channel_reestablish
  <2>3. /\ x.type = "channel_reestablish" /\ x.next_commitment_number \in Nat
        /\ x.next_revocation_number \in Nat
    BY <1>4, <2>1 DEF OwnAnnouncement, channel_reestablish
  <2> HIDE DEF x, p
  <2>4. IsSent(r.c, x, SignedBy(n)) /\ x.type \notin Updates
    BY <2>3 DEF IsSent, Messages, Updates
  <2>5. Fine(n, p, SignedBy(n)) /\ p.c = r.c /\ p.exc = r.exc /\ p.out = Append(r.out, x)
    BY <1>8, <2>2, <2>3, <2>4, JustSends
  <2>6. Append(<< >>, x) = <<x>>
    OBVIOUS
  <2> QED BY <1>8, <2>1, <2>5, <2>6 DEF p
<1>9. CASE ch[n].state = "OPEN"
  <2> DEFINE p == send_channel_reestablish(waiting)
  <2>1. Step(n, p, net[n])
    BY <1>5, <1>9
  <2>2. /\ Fine(n, p, SignedBy(n)) /\ p.c = waiting.c /\ p.exc = Ok
        /\ p.out = <<OwnAnnouncement(m)>>
    BY <1>7, <1>8
  <2> HIDE DEF p
  <2>3. Unsigning(n, p)
    BY <1>7, <2>2 DEF Unsigning, Alike, ctn_latest
  <2>4. Starts(n, p)
    BY <1>2, <1>7, <1>9, <2>2 DEF Starts
  <2> QED BY <2>1, <2>3, <2>4
<1>10. Alike(m, o.c.hm)
  BY <1>4, <1>6 DEF Alike, IsLog
<1>11. CASE ch[n].state = "FORCE_CLOSING"
  <2> DEFINE p == send_channel_reestablish(o)
  <2>1. Step(n, p, net[n])
    BY <1>5, <1>11
  <2>2. /\ Fine(n, p, SignedBy(n)) /\ p.c = o.c /\ p.exc = Ok
        /\ p.out = <<OwnAnnouncement(m)>>
    BY <1>6, <1>8, <1>10
  <2> HIDE DEF p
  <2>3. Unsigning(n, p)
    BY <1>6, <2>2 DEF Unsigning
  <2>4. Starts(n, p)
    BY <1>2, <1>6, <1>11, <2>2 DEF Starts
  <2> QED BY <2>1, <2>3, <2>4
<1>12. CASE ch[n].state = "WE_ARE_TOXIC"
  <2> DEFINE x == channel_reestablish(0, 0)
             e == [type |-> "error"]
             q == send_message(o, x)
             p == request_force_close(o)
  <2>1. Step(n, p, net[n]) /\ p = send_message(q, e)
    BY <1>5, <1>12 DEF request_force_close
  <2>2. IsSent(o.c, x, SignedBy(n)) /\ x.type \notin Updates /\ x.type # "commitment_signed"
    BY DEF IsSent, Messages, Updates, channel_reestablish
  <2> HIDE DEF x
  <2>3. Fine(n, q, SignedBy(n)) /\ q.c = o.c /\ q.exc = Ok /\ q.out = Append(<< >>, x)
    BY <1>6, <2>2, JustSends
  <2>4. IsSent(q.c, e, SignedBy(n)) /\ e.type \notin Updates /\ e.type # "commitment_signed"
    BY DEF IsSent, Messages, Updates
  <2> HIDE DEF e, q, p
  <2>5. Fine(n, p, SignedBy(n)) /\ p.c = o.c /\ p.exc = Ok /\ p.out = Append(q.out, e)
    <3>1. /\ Fine(n, send_message(q, e), SignedBy(n)) /\ send_message(q, e).c = q.c
          /\ send_message(q, e).exc = q.exc /\ send_message(q, e).out = Append(q.out, e)
      <4>1. /\ Fine(n, q, SignedBy(n)) /\ IsSent(q.c, e, SignedBy(n))
            /\ e.type \notin Updates /\ e.type # "commitment_signed"
        BY <2>3, <2>4
      <4> QED BY <4>1, JustSends
    <3> QED BY <2>1, <2>3, <3>1
  <2>6. q.out = <<x>>
    BY <2>3
  <2>7. Unsigning(n, p)
    BY <1>6, <2>5 DEF Unsigning
  <2>8. Starts(n, p)
    BY <1>2, <1>6, <1>12, <2>5, <2>6 DEF Starts, x, e
  <2> QED BY <2>1, <2>7, <2>8
<1> QED BY <1>3, <1>9, <1>11, <1>12

\* What n may send again
Sendable(n, s) ==
    /\ IsSeq(s)
    /\ \A k \in 1 .. Len(s) :
          /\ s[k].type \in Updates \cup {"commitment_signed", "revoke_and_ack"}
          /\ IsSent(ch[n], s[k], SignedBy(n))

(* One after the other can be sent again if both can. *)
LEMMA SendableConcat ==
    ASSUME NEW n \in Node, NEW s, Sendable(n, s), NEW t, Sendable(n, t)
    PROVE  Sendable(n, s \o t)
<1>1. IsSeq(s) /\ IsSeq(t) /\ IsSeq(s \o t)
  BY ConcatIs DEF Sendable
<1>2. ASSUME NEW k \in 1 .. Len(s \o t)
      PROVE  /\ (s \o t)[k].type \in Updates \cup {"commitment_signed", "revoke_and_ack"}
             /\ IsSent(ch[n], (s \o t)[k], SignedBy(n))
  <2>1. \/ k \in 1 .. Len(s) /\ (s \o t)[k] = s[k]
        \/ \E j \in 1 .. Len(t) : k = Len(s) + j /\ (s \o t)[k] = t[j]
    BY <1>1, ConcatElements
  <2> QED BY <2>1 DEF Sendable
<1> QED BY <1>1, <1>2 DEF Sendable

(* What is kept for a replay can be sent again. *)
LEMMA ReplayIs ==
    ASSUME NEW n \in Node, IsLog(ch[n].hm, SignedBy(n)), NEW c
    PROVE  Sendable(n, unacked_from(ch[n].hm, c))
<1> DEFINE m == ch[n].hm
           At(k) == IF k >= c /\ k \in DOMAIN m.unacked THEN m.unacked[k] ELSE << >>
           last == next_ctn(m, Remote)
<1>1. ASSUME NEW k PROVE Sendable(n, At(k))
  <2>1. CASE At(k) = << >>
    BY <2>1, ShortSeqs DEF Sendable
  <2>2. CASE k \in DOMAIN m.unacked /\ At(k) = m.unacked[k]
    <3>1. /\ IsSeq(m.unacked[k])
          /\ \A j \in 1 .. Len(m.unacked[k]) :
                /\ m.unacked[k][j].type \in Updates \cup {"commitment_signed"}
                /\ m.unacked[k][j].type = "commitment_signed" => m.unacked[k][j].sig \in SignedBy(n)
      BY <2>2 DEF IsLog, IsUnacked
    <3> DEFINE s == m.unacked[k]
    <3> HIDE DEF s, m
    <3>2. Sendable(n, s)
      BY <3>1 DEF Sendable, IsSent, Messages, Updates, s
    <3> QED BY <2>2, <3>2 DEF s
  <2>3. At(k) = << >> \/ (k \in DOMAIN m.unacked /\ At(k) = m.unacked[k])
    OBVIOUS
  <2> QED BY <2>1, <2>2, <2>3
<1>2. unacked_from(m, c) = At(last - 1) \o At(last)
  BY DEF unacked_from
<1> HIDE DEF At, last
<1>3. Sendable(n, At(last - 1)) /\ Sendable(n, At(last))
  BY <1>1
<1> QED BY <1>2, <1>3, SendableConcat

(* How a node finishes to reestablish the channel *)
LEMMA FinishReestablishActs ==
    ASSUME BasicInv, NEW n \in Node, FinishReestablish(n)
    PROVE  \E o : Step(n, o, net[n]) /\ Unsigning(n, o) /\ (Work(n, o) \/ Finishes(n, o))
<1> DEFINE b == Begin(n)
           m == ch[n].hm
           msg == ch[n].reest[1]
           revack == resent_revoke_and_ack(m, msg)
           replay == unacked_from(m, msg.next_commitment_number)
           sent == IF m.revokeLast THEN replay \o revack ELSE revack \o replay
           p == [b EXCEPT !.out = sent, !.c.peer_state = "GOOD", !.c.task = "none",
                          !.c.reest = << >>]
<1>1. /\ b.c = ch[n] /\ b.out = << >> /\ b.exc = Ok
      /\ Unsigning(n, b) /\ Work(n, b) /\ Fine(n, b, SignedBy(n))
  BY BeginIs DEF Unsigning
<1>2. /\ CanFinish(n)
      /\ Step(n, IF Blocked(ch[n]) THEN p ELSE Raise(b, GracefulDisconnect), net[n])
  BY <1>1 DEF FinishReestablish
<1>3. CASE ~Blocked(ch[n])
  <2>1. Step(n, Raise(b, GracefulDisconnect), net[n])
    BY <1>2, <1>3
  <2>2. Unsigning(n, Raise(b, GracefulDisconnect)) /\ Work(n, Raise(b, GracefulDisconnect))
    BY <1>1, WorkRaised
  <2> QED BY <2>1, <2>2
<1>4. CASE Blocked(ch[n])
  <2>1. IsChannel(ch[n], SignedBy(n)) /\ IsLog(m, SignedBy(n)) /\ m.ctn[Local] \in Nat
    BY OwnerFacts DEF BasicInv, Types, IsChannel, IsLog
  <2>2. msg.type = "channel_reestablish" /\ msg.next_revocation_number \in Nat
    BY <1>4, <2>1 DEF IsChannel, Blocked
  <2>3. connected
    BY <1>2 DEF CanFinish, BasicInv, Types
  <2>4. Sendable(n, revack)
    <3>1. CASE msg.next_revocation_number = m.ctn[Local] - 1
      <4> DEFINE x == revoke_and_ack(m.ctn[Local] - 1)
      <4>1. revack = <<x>>
        BY <3>1 DEF resent_revoke_and_ack
      <4>2. x.type = "revoke_and_ack" /\ x.secret = m.ctn[Local] - 1
        BY DEF revoke_and_ack
      <4> HIDE DEF x, revack
      <4>3. IsSent(ch[n], x, SignedBy(n))
        BY <2>1, <2>2, <3>1, <4>2 DEF IsSent, Messages
      <4>4. \A k \in 1 .. 1 : k = 1
        OBVIOUS
      <4> QED BY <4>1, <4>2, <4>3, <4>4, ShortSeqs DEF Sendable
    <3>2. CASE msg.next_revocation_number # m.ctn[Local] - 1
      <4>1. revack = << >>
        BY <3>2 DEF resent_revoke_and_ack
      <4> HIDE DEF revack
      <4> QED BY <4>1, ShortSeqs DEF Sendable
    <3> QED BY <3>1, <3>2
  <2>5. Sendable(n, replay)
    BY <2>1, ReplayIs
  <2> HIDE DEF revack, replay
  <2>6. Sendable(n, sent)
    BY <2>4, <2>5, SendableConcat
  <2> HIDE DEF sent, b
  <2>7. /\ DOMAIN p = OutcomeFields /\ DOMAIN p.c = ChannelFields
        /\ p.out = sent /\ p.exc = Ok /\ p.file = b.file
        /\ SameBut({"peer_state", "task", "reest"}, ch[n], p.c)
        /\ p.c.peer_state = "GOOD" /\ p.c.task = "none" /\ p.c.reest = << >>
    BY <1>1 DEF Fine, Sound, IsChannel, OutcomeFields, ChannelFields, SameBut
  <2> HIDE DEF p
  <2>8. /\ p.c.hm = m /\ p.c.state = ch[n].state /\ p.c.close = ch[n].close
        /\ p.c.shutdown = ch[n].shutdown
    BY <2>7 DEF SameBut, ChannelFields
  <2>9. IsChannel(p.c, SignedBy(n))
    BY <2>1, <2>7, <2>8 DEF IsChannel, PeerStates
  <2>10. \A k \in 1 .. Len(p.out) : IsSent(p.c, p.out[k], SignedBy(n))
    BY <2>6, <2>7, <2>8 DEF Sendable, IsSent
  <2>11. Sound(n, p, SignedBy(n))
    BY <2>3, <2>6, <2>7, <2>8, <2>9, <2>10 DEF Sound, Sendable, Moves
  <2>12. Unsigning(n, p)
    <3>1. n \in Persistent => Agrees(p.file, p.c, SignedBy(n))
      BY <1>1, <2>7, <2>8 DEF Fine, Agrees
    <3> QED BY <2>8, <2>11, <3>1 DEF Unsigning, Fine
  <2>13. Finishes(n, p)
    BY <1>2, <1>4, <2>6, <2>7 DEF Finishes, Sendable
  <2> QED BY <1>2, <1>4, <2>12, <2>13
<1> QED BY <1>3, <1>4

-----------------------------------------------------------------------------
(* Closing the channel together *)

\* What that changes of a channel, and what of it not even the state or the task on_shutdown
CloseFields == {"may_update", "close", "inbox", "fee_range", "closing_tx"}

IsClose(x) == {"at", "is_local", "received"} \subseteq DOMAIN x /\ x.is_local \in BOOLEAN

\* close_channel is only modelled once nothing is lost any more.
NothingLost == left.restores = 0 /\ left.crashes = 0

\* An outcome that sends what closes the channel, and changes what that has to do with
Negotiates(n, o) ==
    /\ SameBut(CloseFields \cup {"state", "shutdown"}, ch[n], o.c)
    /\ \A k \in 1 .. Len(o.out) : o.out[k].type \in {"shutdown", "closing_signed"}
    /\ \/ o.c.state = ch[n].state
       \/ ch[n].state \notin Final /\ o.c.state \in {"SHUTDOWN", "CLOSING"}
       \/ ch[n].state \notin Final /\ o.c.state = "FORCE_CLOSING" /\ ch[n].close.at # "none"
    /\ o.c.close.is_local => ch[n].close.is_local \/ NothingLost

\* Reasons to do so
CloseArrived(n) ==
    net[n] # << >> /\ ~Blocked(ch[n]) /\ Head(net[n]).type \in {"shutdown", "closing_signed"}
MayNegotiate(n) == ch[n].close.at # "none" \/ (Good(n) /\ (n \in MayClose \/ ch[n].shutdown))

Closing(n, o) == Unsigning(n, o) /\ Negotiates(n, o)

(* A channel of which only the fields of the close changed is one. *)
LEMMA CloseIsChannel ==
    ASSUME NEW c, NEW txs, IsChannel(c, txs), NEW d, DOMAIN d = ChannelFields,
           SameBut(CloseFields \cup {"shutdown"}, c, d), IsClose(d.close), d.shutdown \in BOOLEAN
    PROVE  IsChannel(d, txs)
<1>1. /\ d.hm = c.hm /\ d.state = c.state /\ d.peer_state = c.peer_state
      /\ d.task = c.task /\ d.reest = c.reest
  BY DEF SameBut, ChannelFields, CloseFields
<1> QED BY <1>1 DEF IsChannel, IsClose

(* A change of the fields of the close *)
LEMMA ClosingChanged ==
    ASSUME NEW n \in Node, NEW o, Closing(n, o),
           NEW p, DOMAIN p = OutcomeFields, DOMAIN p.c = ChannelFields,
           p.out = o.out, p.file = o.file, p.exc = o.exc,
           SameBut(CloseFields \cup {"shutdown"}, o.c, p.c), p.c.shutdown \in BOOLEAN,
           p.c.shutdown = o.c.shutdown \/ connected,
           IsClose(p.c.close), p.c.close.is_local => o.c.close.is_local \/ NothingLost
    PROVE  Closing(n, p)
<1>1. p.c.hm = o.c.hm /\ p.c.state = o.c.state
  BY DEF SameBut, ChannelFields, CloseFields
<1>2. IsChannel(p.c, SignedBy(n))
  BY CloseIsChannel DEF Closing, Unsigning, Fine, Sound
<1>3. connected \/ SameBut(ChannelFields \ OfConnection, o.c, p.c)
  BY DEF SameBut, ChannelFields, CloseFields, OfConnection
<1>4. Fine(n, p, SignedBy(n))
  BY <1>1, <1>2, <1>3, FineKept DEF Closing, Unsigning
<1>5. SameBut(CloseFields \cup {"state", "shutdown"}, ch[n], p.c)
  BY DEF Closing, Negotiates, SameBut
<1> QED BY <1>1, <1>4, <1>5 DEF Closing, Negotiates, Unsigning

(* A message of the close *)
LEMMA ClosingSent ==
    ASSUME NEW n \in Node, NEW o, Closing(n, o),
           NEW msg, msg.type \in {"shutdown", "closing_signed"}
    PROVE  LET p == send_message(o, msg)
           IN  Closing(n, p) /\ p.c = o.c /\ p.exc = o.exc
<1> DEFINE p == send_message(o, msg)
<1>1. IsSent(o.c, msg, SignedBy(n)) /\ msg.type # "commitment_signed" /\ msg.type \notin Updates
  BY DEF IsSent, Messages, Updates
<1>2. /\ Fine(n, p, SignedBy(n)) /\ p.c = o.c /\ p.exc = o.exc /\ p.out = Append(o.out, msg)
  BY <1>1, JustSends DEF Closing, Unsigning
<1> HIDE DEF p
<1>3. \A k \in 1 .. Len(p.out) : p.out[k].type \in {"shutdown", "closing_signed"}
  <2>1. /\ Len(p.out) = Len(o.out) + 1 /\ Len(o.out) \in Nat
        /\ \A k \in 1 .. Len(o.out) : p.out[k] = o.out[k]
        /\ p.out[Len(o.out) + 1] = msg
    BY <1>2, AppendIs DEF Closing, Unsigning, Fine, Sound, IsSeq
  <2>2. \A k \in 1 .. Len(p.out) : k \in 1 .. Len(o.out) \/ k = Len(o.out) + 1
    BY <2>1
  <2> QED BY <2>1, <2>2 DEF Closing, Negotiates
<1> QED BY <1>2, <1>3 DEF Closing, Negotiates, Unsigning, p

(* A state of the close *)
LEMMA ClosingState ==
    ASSUME NEW n \in Node, NEW o, Closing(n, o), o.c.state \notin Final,
           NEW s \in {"SHUTDOWN", "CLOSING"}
    PROVE  Closing(n, set_state(o, s))
<1> DEFINE p == set_state(o, s)
<1>1. Fine(n, p, SignedBy(n))
  BY FineState DEF Closing, Unsigning, Fine, States
<1>2. /\ SameBut({"state"}, o.c, p.c) /\ p.c.state = s /\ p.out = o.out
  BY OutcomeParts DEF Closing, Unsigning, Fine, Sound, IsChannel
<1> HIDE DEF p
<1>3. p.c.hm = o.c.hm /\ p.c.close = o.c.close
  BY <1>2 DEF SameBut, ChannelFields
<1>4. SameBut(CloseFields \cup {"state", "shutdown"}, ch[n], p.c)
  BY <1>2 DEF Closing, Negotiates, SameBut
<1> QED BY <1>1, <1>2, <1>3, <1>4 DEF Closing, Negotiates, Unsigning, p

(* Raising what ends the connection *)
LEMMA ClosingRaised ==
    ASSUME NEW n \in Node, NEW o, Closing(n, o), NEW e \in {GracefulDisconnect} \cup Messages
    PROVE  Closing(n, Raise(o, e))
<1> DEFINE p == Raise(o, e)
<1>1. p.c = o.c /\ p.out = o.out /\ Fine(n, p, SignedBy(n))
  BY OutcomeParts, FineRaised DEF Closing, Unsigning, Fine, Sound, IsChannel
<1> HIDE DEF p
<1>2. Unsigning(n, p)
  BY <1>1 DEF Closing, Unsigning
<1>3. Negotiates(n, p)
  BY <1>1 DEF Closing, Negotiates
<1> QED BY <1>2, <1>3 DEF Closing, p

(* A force-close of a channel that was being closed *)
LEMMA ClosingForced ==
    ASSUME NEW n \in Node, NEW o, Closing(n, o), ch[n].close.at # "none"
    PROVE  Closing(n, schedule_force_closing(o))
<1> DEFINE p == schedule_force_closing(o)
<1>1. /\ Fine(n, p, SignedBy(n)) /\ p.c.hm = o.c.hm /\ p.out = o.out
      /\ SameBut({"state"}, o.c, p.c)
      /\ o.c.state \in {"OPEN", "SHUTDOWN"} => p.c.state = "FORCE_CLOSING"
      /\ o.c.state \notin {"OPEN", "SHUTDOWN"} => p = o
  BY ForceClosing DEF Closing, Unsigning
<1> HIDE DEF p
<1>2. p.c.close = o.c.close
  BY <1>1 DEF SameBut, ChannelFields
<1>3. SameBut(CloseFields \cup {"state", "shutdown"}, ch[n], p.c)
  BY <1>1 DEF Closing, Negotiates, SameBut
<1>4. CASE o.c.state \in {"OPEN", "SHUTDOWN"}
  <2>1. ch[n].state \notin Final
    BY <1>4 DEF Closing, Negotiates, Final
  <2> QED BY <1>1, <1>2, <1>3, <1>4, <2>1 DEF Closing, Negotiates, Unsigning, p
<1>5. CASE o.c.state \notin {"OPEN", "SHUTDOWN"}
  BY <1>1, <1>5 DEF p
<1> QED BY <1>4, <1>5

(* The close fails. *)
LEMMA ClosingFails ==
    ASSUME NEW n \in Node, NEW o, Closing(n, o)
    PROVE  Closing(n, FailsToClose(o))
<1> DEFINE p == [o EXCEPT !.c.close = NotClosing]
<1>1. /\ DOMAIN p = OutcomeFields /\ DOMAIN p.c = ChannelFields
      /\ p.out = o.out /\ p.file = o.file /\ p.exc = o.exc
      /\ SameBut({"close"}, o.c, p.c) /\ p.c.close = NotClosing
  BY DEF Closing, Unsigning, Fine, Sound, IsChannel, OutcomeFields, ChannelFields, SameBut
<1>2. FailsToClose(o) = p \/ FailsToClose(o) = Raise(p, GracefulDisconnect)
  BY DEF FailsToClose
<1> HIDE DEF p
<1>3. IsClose(NotClosing) /\ ~NotClosing.is_local
  BY DEF IsClose, NotClosing
<1>4. p.c.shutdown = o.c.shutdown /\ p.c.shutdown \in BOOLEAN
  BY <1>1 DEF SameBut, ChannelFields, Closing, Unsigning, Fine, Sound, IsChannel
<1>5. SameBut(CloseFields \cup {"shutdown"}, o.c, p.c)
  BY <1>1 DEF SameBut, CloseFields
<1>6. Closing(n, p)
  BY <1>1, <1>3, <1>4, <1>5, ClosingChanged
<1> QED BY <1>2, <1>6, ClosingRaised

(* The parts of an outcome of the close *)
LEMMA ClosingParts ==
    ASSUME NEW n \in Node, NEW o, Closing(n, o)
    PROVE  /\ DOMAIN o = OutcomeFields /\ DOMAIN o.c = ChannelFields
           /\ IsClose(o.c.close) /\ o.c.shutdown \in BOOLEAN
  BY DEF Closing, Unsigning, Fine, Sound, IsChannel, IsClose

(* What n begins with *)
LEMMA ClosingBegins ==
    ASSUME BasicInv, NEW n \in Node
    PROVE  Closing(n, Begin(n)) /\ Begin(n).c = ch[n]
<1>1. SameBut(CloseFields \cup {"state", "shutdown"}, ch[n], ch[n])
  BY DEF SameBut
<1> QED BY <1>1, BeginIs, ShortSeqs DEF Closing, Negotiates

(* send_shutdown, from its await *)
LEMMA SendsShutdownIs ==
    ASSUME NEW n \in Node, NEW o, Closing(n, o)
    PROVE  Closing(n, SendsShutdown(o))
<1> DEFINE sent == send_message(o, [type |-> "shutdown"])
           p == [sent EXCEPT !.c.may_update = TRUE, !.c.close.at = "sent"]
<1>1. Closing(n, sent) /\ sent.c = o.c
  BY ClosingSent
<1> HIDE DEF sent
<1>2. /\ DOMAIN p = OutcomeFields /\ DOMAIN p.c = ChannelFields
      /\ p.out = sent.out /\ p.file = sent.file /\ p.exc = sent.exc
      /\ SameBut({"may_update", "close"}, sent.c, p.c)
      /\ p.c.close = [sent.c.close EXCEPT !.at = "sent"]
  BY <1>1, ClosingParts DEF OutcomeFields, ChannelFields, SameBut
<1>3. \/ SendsShutdown(o) = set_state(p, "SHUTDOWN") /\ o.c.state \in {"OPEN", "SHUTDOWN"}
      \/ SendsShutdown(o) = FailsToClose(sent)
  BY DEF SendsShutdown, sent
<1> HIDE DEF p
<1>4. IsClose(p.c.close) /\ p.c.close.is_local = sent.c.close.is_local
  BY <1>1, <1>2, ClosingParts DEF IsClose
<1>5. p.c.shutdown = sent.c.shutdown /\ p.c.shutdown \in BOOLEAN /\ p.c.state = sent.c.state
  BY <1>1, <1>2, ClosingParts DEF SameBut, ChannelFields
<1>6. SameBut(CloseFields \cup {"shutdown"}, sent.c, p.c)
  BY <1>2 DEF SameBut, CloseFields
<1>7. Closing(n, p)
  BY <1>1, <1>2, <1>4, <1>5, <1>6, ClosingChanged
<1>8. o.c.state \in {"OPEN", "SHUTDOWN"} => Closing(n, set_state(p, "SHUTDOWN"))
  BY <1>1, <1>5, <1>7, ClosingState DEF Final
<1> QED BY <1>1, <1>3, <1>8, ClosingFails

(* send_shutdown *)
LEMMA SendShutdownIs ==
    ASSUME NEW n \in Node, NEW o, Closing(n, o)
    PROVE  Closing(n, send_shutdown(o))
<1> DEFINE p == [o EXCEPT !.c.may_update = FALSE, !.c.close.at = "pending"]
<1>1. /\ DOMAIN p = OutcomeFields /\ DOMAIN p.c = ChannelFields
      /\ p.out = o.out /\ p.file = o.file /\ p.exc = o.exc
      /\ SameBut({"may_update", "close"}, o.c, p.c)
      /\ p.c.close = [o.c.close EXCEPT !.at = "pending"]
  BY ClosingParts DEF OutcomeFields, ChannelFields, SameBut
<1>2. send_shutdown(o) = p \/ send_shutdown(o) = SendsShutdown(p)
  BY DEF send_shutdown
<1> HIDE DEF p
<1>3. IsClose(p.c.close) /\ p.c.close.is_local = o.c.close.is_local
  BY <1>1, ClosingParts DEF IsClose
<1>4. p.c.shutdown = o.c.shutdown /\ p.c.shutdown \in BOOLEAN
  BY <1>1, ClosingParts DEF SameBut, ChannelFields
<1>5. SameBut(CloseFields \cup {"shutdown"}, o.c, p.c)
  BY <1>1 DEF SameBut, CloseFields
<1>6. Closing(n, p)
  BY <1>1, <1>3, <1>4, <1>5, ClosingChanged
<1> QED BY <1>2, <1>6, SendsShutdownIs

(* Two channel closes: of our own accord, and because the other side asked for it *)
LEMMA CloseChannelActs ==
    ASSUME BasicInv, NEW n \in Node, CloseChannel(n)
    PROVE  LET o == send_shutdown([Begin(n) EXCEPT !.c.close.is_local = TRUE])
           IN  Step(n, o, net[n]) /\ Closing(n, o) /\ MayNegotiate(n)
<1> DEFINE b == Begin(n)
           p == [b EXCEPT !.c.close.is_local = TRUE]
<1>1. Closing(n, b) /\ b.c = ch[n]
  BY ClosingBegins
<1>2. Step(n, send_shutdown(p), net[n]) /\ NothingLost /\ MayNegotiate(n)
  BY DEF CloseChannel, NothingLost, MayNegotiate, Good
<1> HIDE DEF b
<1>3. /\ DOMAIN p = OutcomeFields /\ DOMAIN p.c = ChannelFields
      /\ p.out = b.out /\ p.file = b.file /\ p.exc = b.exc
      /\ SameBut({"close"}, b.c, p.c)
      /\ p.c.close = [b.c.close EXCEPT !.is_local = TRUE]
  BY <1>1, ClosingParts DEF OutcomeFields, ChannelFields, SameBut
<1> HIDE DEF p
<1>4. IsClose(p.c.close)
  BY <1>1, <1>3, ClosingParts DEF IsClose
<1>5. p.c.shutdown = b.c.shutdown /\ p.c.shutdown \in BOOLEAN
  BY <1>1, <1>3, ClosingParts DEF SameBut, ChannelFields
<1>6. SameBut(CloseFields \cup {"shutdown"}, b.c, p.c)
  BY <1>3 DEF SameBut, CloseFields
<1>7. Closing(n, p)
  BY <1>1, <1>2, <1>3, <1>4, <1>5, <1>6, ClosingChanged
<1> QED BY <1>2, <1>7, SendShutdownIs DEF p, b

(* on_shutdown goes on only where the channel is good, or it raises. *)
LEMMA HandleShutdownIs ==
    ASSUME BasicInv, NEW n \in Node, ch[n].shutdown
    PROVE  /\ Closing(n, HandleShutdown(n))
           /\ \/ MayNegotiate(n)
              \/ /\ HandleShutdown(n).exc # Ok
                 /\ HandleShutdown(n).c.close.at = ch[n].close.at
<1> DEFINE b == Begin(n)
           p == [b EXCEPT !.c.shutdown = FALSE, !.c.close.received = TRUE]
<1>1. Closing(n, b) /\ b.c = ch[n]
  BY ClosingBegins
<1>2. connected
  BY DEF BasicInv, Types
<1>3. /\ DOMAIN p = OutcomeFields /\ DOMAIN p.c = ChannelFields
      /\ p.out = b.out /\ p.file = b.file /\ p.exc = b.exc
      /\ SameBut({"close", "shutdown"}, b.c, p.c) /\ p.c.shutdown = FALSE
      /\ p.c.close = [b.c.close EXCEPT !.received = TRUE]
  <2> HIDE DEF b
  <2> QED BY <1>1, ClosingParts DEF OutcomeFields, ChannelFields, SameBut
<1>4. \/ HandleShutdown(n) = Raise(p, "shutdown")
      \/ p.c.peer_state = "GOOD" /\ HandleShutdown(n) \in {p, send_shutdown(p)}
  BY DEF HandleShutdown
<1> HIDE DEF b, p
<1>5. /\ IsClose(p.c.close) /\ p.c.close.is_local = b.c.close.is_local
      /\ p.c.close.at = b.c.close.at
  BY <1>1, <1>3, ClosingParts DEF IsClose
<1>6. p.c.peer_state = ch[n].peer_state
  BY <1>1, <1>3 DEF SameBut, ChannelFields
<1>7. SameBut(CloseFields \cup {"shutdown"}, b.c, p.c)
  BY <1>3 DEF SameBut, CloseFields
<1>8. Closing(n, p)
  BY <1>1, <1>2, <1>3, <1>5, <1>7, ClosingChanged
<1>9. Closing(n, send_shutdown(p)) /\ Closing(n, Raise(p, "shutdown"))
  BY <1>8, SendShutdownIs, ClosingRaised DEF Messages
<1>10. Raise(p, "shutdown").exc = "shutdown" /\ Raise(p, "shutdown").c = p.c
  BY <1>3, OutcomeParts
<1> QED BY <1>1, <1>4, <1>5, <1>6, <1>8, <1>9, <1>10 DEF MayNegotiate, Good, Ok

(* closing_signed, and what it leads to *)
LEMMA SendClosingSignedIs ==
    ASSUME NEW n \in Node, NEW o, Closing(n, o)
    PROVE  LET p == send_closing_signed(n, o)
           IN  Closing(n, p) /\ p.c = o.c /\ p.exc = o.exc
<1> DEFINE msg == [type |-> "closing_signed", range |-> o.c.fee_range,
                   sig |-> make_closing_tx(n, o.c.hm, o.c.fee_range.fee)]
<1>1. send_closing_signed(n, o) = send_message(o, msg)
  BY DEF send_closing_signed
<1>2. msg.type = "closing_signed"
  OBVIOUS
<1> HIDE DEF msg
<1> QED BY <1>1, <1>2, ClosingSent

(* What the last closing_signed leads to *)
LEMMA ClosesIs ==
    ASSUME NEW n \in Node, NEW o, Closing(n, o)
    PROVE  Closing(n, Closes(n, o))
<1> DEFINE told == IF n = Funder THEN o ELSE send_closing_signed(n, o)
           tx == <<make_closing_tx(n, o.c.hm, o.c.fee_range.fee)>>
           p == [told EXCEPT !.c.close = NotClosing, !.c.closing_tx = tx]
<1>1. Closing(n, told) /\ told.c = o.c
  BY SendClosingSignedIs
<1>2. \/ Closes(n, o) = set_state(p, "CLOSING") /\ o.c.state \in {"SHUTDOWN", "CLOSING"}
      \/ Closes(n, o) = FailsToClose(told)
  BY DEF Closes
<1> HIDE DEF told, tx
<1>3. /\ DOMAIN p = OutcomeFields /\ DOMAIN p.c = ChannelFields
      /\ p.out = told.out /\ p.file = told.file /\ p.exc = told.exc
      /\ SameBut({"closing_tx", "close"}, told.c, p.c) /\ p.c.close = NotClosing
  BY <1>1, ClosingParts DEF OutcomeFields, ChannelFields, SameBut
<1> HIDE DEF p
<1>4. IsClose(p.c.close) /\ ~p.c.close.is_local
  BY <1>3 DEF IsClose, NotClosing
<1>5. p.c.shutdown = told.c.shutdown /\ p.c.shutdown \in BOOLEAN /\ p.c.state = o.c.state
  BY <1>1, <1>3, ClosingParts DEF SameBut, ChannelFields
<1>6. SameBut(CloseFields \cup {"shutdown"}, told.c, p.c)
  BY <1>3 DEF SameBut, CloseFields
<1>7. Closing(n, p)
  BY <1>1, <1>3, <1>4, <1>5, <1>6, ClosingChanged
<1>8. o.c.state \in {"SHUTDOWN", "CLOSING"} => Closing(n, set_state(p, "CLOSING"))
  BY <1>5, <1>7, ClosingState DEF Final
<1> QED BY <1>1, <1>2, <1>8, ClosingFails

(* The fee that we come up with *)
LEMMA StartsNegotiationIs ==
    ASSUME BasicInv, NEW n \in Node, NEW range
    PROVE  Closing(n, StartsNegotiation(n, range))
<1> DEFINE b == Begin(n)
           close == [at |-> "receiving", is_local |-> ch[n].close.is_local,
                     received |-> TRUE, replied |-> FALSE]
           p == [b EXCEPT !.c.may_update = FALSE, !.c.fee_range = range, !.c.close = close]
<1>1. Closing(n, b) /\ b.c = ch[n]
  BY ClosingBegins
<1>2. StartsNegotiation(n, range) = p \/ StartsNegotiation(n, range) = send_closing_signed(n, p)
  <2>1. b.c.close = ch[n].close
    BY <1>1
  <2> DEFINE q == [b EXCEPT !.c.may_update = FALSE, !.c.fee_range = range,
                            !.c.close = [at |-> "receiving", is_local |-> b.c.close.is_local,
                                         received |-> TRUE, replied |-> FALSE]]
  <2>2. StartsNegotiation(n, range) = IF n = Funder THEN send_closing_signed(n, q) ELSE q
    BY DEF StartsNegotiation
  <2>3. q = p
    BY <2>1
  <2> QED BY <2>2, <2>3
<1> HIDE DEF b, close
<1>3. /\ DOMAIN p = OutcomeFields /\ DOMAIN p.c = ChannelFields
      /\ p.out = b.out /\ p.file = b.file /\ p.exc = b.exc
      /\ SameBut({"may_update", "fee_range", "close"}, b.c, p.c) /\ p.c.close = close
  BY <1>1, ClosingParts DEF OutcomeFields, ChannelFields, SameBut
<1> HIDE DEF p
<1>4. IsClose(p.c.close) /\ p.c.close.is_local = b.c.close.is_local
  BY <1>1, <1>3, ClosingParts DEF IsClose, close
<1>5. p.c.shutdown = b.c.shutdown /\ p.c.shutdown \in BOOLEAN
  BY <1>1, <1>3, ClosingParts DEF SameBut, ChannelFields
<1>6. SameBut(CloseFields \cup {"shutdown"}, b.c, p.c)
  BY <1>3 DEF SameBut, CloseFields
<1>7. Closing(n, p)
  BY <1>1, <1>3, <1>4, <1>5, <1>6, ClosingChanged
<1> QED BY <1>2, <1>7, SendClosingSignedIs

(* receive_closing_signed, whatever becomes of it *)
LEMMA ReceivesClosingSignedIs ==
    ASSUME BasicInv, NEW n \in Node, ch[n].close.at # "none"
    PROVE  Closing(n, ReceivesClosingSigned(n))
<1> DEFINE b == Begin(n)
           o == [b EXCEPT !.c.inbox = Tail(@)]
           ours == ch[n].fee_range
           msg == Head(ch[n].inbox)
           fee == choose_new_fee(n, ours, msg.range, ch[n].close.replied)
           chosen == [o EXCEPT !.c.close.replied = TRUE, !.c.fee_range.fee = fee,
                               !.c.fee_range.max = IF n = Funder THEN @ ELSE Max({@, msg.range.max})]
           r == ReceivesClosingSigned(n)
<1>1. Closing(n, b) /\ b.c = ch[n]
  BY ClosingBegins
<1>2. r \in {FailsToClose(o), Closes(n, o), FailsToClose(schedule_force_closing(o)),
             Closes(n, send_closing_signed(n, chosen)), Closes(n, chosen),
             send_closing_signed(n, chosen)}
  <2> HIDE DEF b, o, ours, fee, chosen, msg
  <2>1. r = IF msg.sig # make_closing_tx(n, o.c.hm, msg.range.fee) THEN FailsToClose(o)
            ELSE IF msg.range.fee = ours.fee THEN Closes(n, o)
            ELSE IF fee = NoFee THEN FailsToClose(schedule_force_closing(o))
            ELSE IF fee = msg.range.fee
            THEN Closes(n, IF n = Funder THEN send_closing_signed(n, chosen) ELSE chosen)
            ELSE send_closing_signed(n, chosen)
    BY DEF ReceivesClosingSigned, b, o, ours, fee, chosen, msg
  <2> QED BY <2>1
<1> HIDE DEF b, ours, msg, fee
<1>3. Closing(n, o)
  <2>1. /\ DOMAIN o = OutcomeFields /\ DOMAIN o.c = ChannelFields
        /\ o.out = b.out /\ o.file = b.file /\ o.exc = b.exc /\ SameBut({"inbox"}, b.c, o.c)
    BY <1>1, ClosingParts DEF OutcomeFields, ChannelFields, SameBut
  <2> HIDE DEF o
  <2>2. o.c.close = b.c.close /\ o.c.shutdown = b.c.shutdown
    BY <2>1 DEF SameBut, ChannelFields
  <2>3. SameBut(CloseFields \cup {"shutdown"}, b.c, o.c)
    BY <2>1 DEF SameBut, CloseFields
  <2> QED BY <1>1, <2>1, <2>2, <2>3, ClosingParts, ClosingChanged
<1> HIDE DEF o
<1>4. Closing(n, chosen)
  <2>1. /\ DOMAIN chosen = OutcomeFields /\ DOMAIN chosen.c = ChannelFields
        /\ chosen.out = o.out /\ chosen.file = o.file /\ chosen.exc = o.exc
        /\ SameBut({"close", "fee_range"}, o.c, chosen.c)
        /\ chosen.c.close = [o.c.close EXCEPT !.replied = TRUE]
    <3>1. DOMAIN o = OutcomeFields /\ DOMAIN o.c = ChannelFields
      BY <1>3, ClosingParts
    <3> QED BY <3>1 DEF OutcomeFields, ChannelFields, SameBut
  <2> HIDE DEF chosen
  <2>2. IsClose(chosen.c.close) /\ chosen.c.close.is_local = o.c.close.is_local
    BY <1>3, <2>1, ClosingParts DEF IsClose
  <2>3. chosen.c.shutdown = o.c.shutdown /\ chosen.c.shutdown \in BOOLEAN
    BY <1>3, <2>1, ClosingParts DEF SameBut, ChannelFields
  <2>4. SameBut(CloseFields \cup {"shutdown"}, o.c, chosen.c)
    BY <2>1 DEF SameBut, CloseFields
  <2> QED BY <1>3, <2>1, <2>2, <2>3, <2>4, ClosingChanged
<1> HIDE DEF chosen, r
<1>5. Closing(n, FailsToClose(o)) /\ Closing(n, Closes(n, o))
  BY <1>3, ClosingFails, ClosesIs
<1>6. Closing(n, FailsToClose(schedule_force_closing(o)))
  BY <1>3, ClosingFails, ClosingForced
<1>7. Closing(n, send_closing_signed(n, chosen))
  BY <1>4, SendClosingSignedIs
<1>8. Closing(n, Closes(n, send_closing_signed(n, chosen))) /\ Closing(n, Closes(n, chosen))
  BY <1>4, <1>7, ClosesIs
<1> QED BY <1>2, <1>5, <1>6, <1>7, <1>8 DEF r

(* The tasks that close the channel *)
LEMMA CloseStepActs ==
    ASSUME BasicInv, NEW n \in Node, CloseStep(n)
    PROVE  \E o : /\ Step(n, o, net[n]) /\ Closing(n, o)
                  /\ \/ MayNegotiate(n)
                     \/ o.exc # Ok /\ ch[n].shutdown /\ o.c.close.at = ch[n].close.at
<1> DEFINE c == ch[n]
<1>1. PICK o \in CloseOutcomes(n) : Step(n, o, net[n])
  BY DEF CloseStep
<1>2. \/ c.shutdown /\ o = HandleShutdown(n)
      \/ c.close.at = "pending" /\ o = SendsShutdown(Begin(n))
      \/ c.close.at = "sent" /\ \E r : o = StartsNegotiation(n, r)
      \/ c.close.at = "receiving" /\ o = ReceivesClosingSigned(n)
      \/ c.close.at = "receiving" /\ o = FailsToClose(schedule_force_closing(Begin(n)))
  <2>1. \/ o \in IF c.shutdown THEN {HandleShutdown(n)} ELSE {}
        \/ o \in CASE c.close.at = "pending" /\ ~has_pending_changes(c.hm, Remote) /\ connected ->
                      {SendsShutdown(Begin(n))}
                   [] c.close.at = "sent" /\ c.close.received /\ ~has_unsettled_htlcs(c.hm) ->
                      {StartsNegotiation(n, r) : r \in CloseFees[n]}
                   [] c.close.at = "receiving" /\ c.inbox # << >> -> {ReceivesClosingSigned(n)}
                   [] c.close.at = "receiving" /\ c.inbox = << >> ->
                      {FailsToClose(schedule_force_closing(Begin(n)))}
                   [] OTHER -> {}
    BY DEF CloseOutcomes
  <2> HIDE DEF c
  <2> QED BY <2>1
<1>3. CASE c.shutdown /\ o = HandleShutdown(n)
  BY <1>1, <1>3, HandleShutdownIs
<1>4. Closing(n, Begin(n))
  BY ClosingBegins
<1>5. CASE c.close.at = "pending" /\ o = SendsShutdown(Begin(n))
  BY <1>1, <1>4, <1>5, SendsShutdownIs DEF MayNegotiate
<1>6. CASE c.close.at = "sent" /\ \E r : o = StartsNegotiation(n, r)
  BY <1>1, <1>6, StartsNegotiationIs DEF MayNegotiate
<1>7. CASE c.close.at = "receiving" /\ o = ReceivesClosingSigned(n)
  BY <1>1, <1>7, ReceivesClosingSignedIs DEF MayNegotiate
<1>8. CASE c.close.at = "receiving" /\ o = FailsToClose(schedule_force_closing(Begin(n)))
  BY <1>1, <1>4, <1>8, ClosingForced, ClosingFails DEF MayNegotiate
<1> QED BY <1>2, <1>3, <1>5, <1>6, <1>7, <1>8

(* shutdown and closing_signed are left to those tasks. *)
LEMMA OnShutdownActs ==
    ASSUME BasicInv, NEW n \in Node, net[n] # << >>, NEW msg, NEW o \in OnShutdown(n, msg)
    PROVE  Closing(n, o) /\ o.c.close = ch[n].close
<1> DEFINE b == Begin(n)
<1>1. Closing(n, b) /\ b.c = ch[n] /\ connected
  BY ClosingBegins, ReceiversConnected
<1>2. o = [b EXCEPT !.c.shutdown = TRUE]
  BY DEF OnShutdown
<1> HIDE DEF b
<1>3. /\ DOMAIN o = OutcomeFields /\ DOMAIN o.c = ChannelFields
      /\ o.out = b.out /\ o.file = b.file /\ o.exc = b.exc
      /\ SameBut({"shutdown"}, b.c, o.c) /\ o.c.shutdown = TRUE
  BY <1>1, <1>2, ClosingParts DEF OutcomeFields, ChannelFields, SameBut
<1>4. o.c.close = b.c.close
  BY <1>3 DEF SameBut, ChannelFields
<1>5. SameBut(CloseFields \cup {"shutdown"}, b.c, o.c)
  BY <1>3 DEF SameBut, CloseFields
<1> QED BY <1>1, <1>3, <1>4, <1>5, ClosingParts, ClosingChanged

(* on_closing_signed puts the message into a queue. *)
LEMMA OnClosingSignedActs ==
    ASSUME BasicInv, NEW n \in Node, NEW msg, NEW o \in OnClosingSigned(n, msg)
    PROVE  Closing(n, o) /\ o.c.close = ch[n].close
<1> DEFINE b == Begin(n)
<1>1. Closing(n, b) /\ b.c = ch[n]
  BY ClosingBegins
<1>2. o = [b EXCEPT !.c.inbox = Append(@, msg)]
  BY DEF OnClosingSigned
<1> HIDE DEF b
<1>3. /\ DOMAIN o = OutcomeFields /\ DOMAIN o.c = ChannelFields
      /\ o.out = b.out /\ o.file = b.file /\ o.exc = b.exc /\ SameBut({"inbox"}, b.c, o.c)
  BY <1>1, <1>2, ClosingParts DEF OutcomeFields, ChannelFields, SameBut
<1>4. o.c.close = b.c.close /\ o.c.shutdown = b.c.shutdown
  BY <1>3 DEF SameBut, ChannelFields
<1>5. SameBut(CloseFields \cup {"shutdown"}, b.c, o.c)
  BY <1>3 DEF SameBut, CloseFields
<1> QED BY <1>1, <1>3, <1>4, <1>5, ClosingParts, ClosingChanged

-----------------------------------------------------------------------------
(* All that a node does *)

\* A step of n with outcome o
Kind(n, o, inbox) ==
    \/ Work(n, o)
    \/ Reestablishes(n, o, inbox)
    \/ Errs(n, o)
    \/ Starts(n, o) /\ inbox = net[n]
    \/ Finishes(n, o) /\ inbox = net[n]
    \/ Negotiates(n, o) /\ \/ MayNegotiate(n)
                           \/ o.exc # Ok /\ ch[n].shutdown /\ o.c.close.at = ch[n].close.at
                           \/ CloseArrived(n) /\ o.c.close = ch[n].close

Acts(n) ==
    /\ \E o, inbox : Step(n, o, inbox) /\ IsInbox(n, inbox) /\ Outcome(n, o) /\ Kind(n, o, inbox)
    /\ Bounds

(* Everything a node does has one of these outcomes. *)
LEMMA WorksActs == ASSUME NEW n, Works(n) PROVE Acts(n)
  BY DEF Works, Acts, Kind

(* A message handler has one of them... *)
LEMMA DeliverActs ==
    ASSUME BasicInv, NEW n \in Node, Deliver(n)
    PROVE  Acts(n)
<1>1. CASE \/ Receive(n, "update_add_htlc", OnUpdateAddHtlc)
           \/ Receive(n, "update_fulfill_htlc", OnUpdateFulfillHtlc)
           \/ Receive(n, "update_fail_htlc", OnUpdateFailHtlc)
           \/ Receive(n, "update_fee", OnUpdateFee)
           \/ Receive(n, "commitment_signed", OnCommitmentSigned)
           \/ Receive(n, "revoke_and_ack", OnRevokeAndAck)
  BY <1>1, WorksActs, OnUpdateAddHtlcWorks, OnUpdateFulfillHtlcWorks, OnUpdateFailHtlcWorks,
     OnUpdateFeeWorks, OnCommitmentSignedWorks, OnRevokeAndAckWorks
<1>2. CASE Receive(n, "channel_reestablish", OnChannelReestablish)
  <2>1. PICK o \in OnChannelReestablish(n, Head(net[n])) : Step(n, o, Tail(net[n]))
    BY <1>2 DEF Receive
  <2>2. net[n] # << >> /\ ~Blocked(ch[n]) /\ Head(net[n]).type = "channel_reestablish" /\ Bounds
    BY <1>2 DEF Receive, Bounds
  <2>3. Unsigning(n, o) /\ (Work(n, o) \/ Reestablishes(n, o, Tail(net[n])))
    BY <2>2, OnChannelReestablishActs
  <2> QED BY <2>1, <2>2, <2>3 DEF Acts, Kind, IsInbox, Outcome
<1>3. CASE Receive(n, "error", OnError)
  <2>1. PICK o \in OnError(n, Head(net[n])) : Step(n, o, Tail(net[n]))
    BY <1>3 DEF Receive
  <2>2. net[n] # << >> /\ ~Blocked(ch[n]) /\ Head(net[n]).type = "error" /\ Bounds
    BY <1>3 DEF Receive, Bounds
  <2>3. Unsigning(n, o) /\ Errs(n, o)
    BY <2>2, OnErrorActs
  <2> QED BY <2>1, <2>2, <2>3 DEF Acts, Kind, IsInbox, Outcome
<1>4. CASE Receive(n, "shutdown", OnShutdown)
  <2>1. PICK o \in OnShutdown(n, Head(net[n])) : Step(n, o, Tail(net[n]))
    BY <1>4 DEF Receive
  <2>2. net[n] # << >> /\ ~Blocked(ch[n]) /\ Head(net[n]).type = "shutdown" /\ Bounds
    BY <1>4 DEF Receive, Bounds
  <2>3. Closing(n, o) /\ o.c.close = ch[n].close
    BY <2>2, OnShutdownActs
  <2> QED BY <2>1, <2>2, <2>3 DEF Acts, Kind, IsInbox, Outcome, Closing, CloseArrived
<1>5. CASE Receive(n, "closing_signed", OnClosingSigned)
  <2>1. PICK o \in OnClosingSigned(n, Head(net[n])) : Step(n, o, Tail(net[n]))
    BY <1>5 DEF Receive
  <2>2. net[n] # << >> /\ ~Blocked(ch[n]) /\ Head(net[n]).type = "closing_signed" /\ Bounds
    BY <1>5 DEF Receive, Bounds
  <2>3. Closing(n, o) /\ o.c.close = ch[n].close
    BY OnClosingSignedActs
  <2> QED BY <2>1, <2>2, <2>3 DEF Acts, Kind, IsInbox, Outcome, Closing, CloseArrived
<1> QED BY <1>1, <1>2, <1>3, <1>4, <1>5 DEF Deliver

(* ... and so has what a node does of its own accord. *)
LEMMA OwnStepActs ==
    ASSUME BasicInv, Dance, NEW n \in Node,
           \/ SendHtlc(n) \/ UpdateFee(n) \/ PollCommitment(n)
           \/ \E i \in HtlcIds : FulfillHtlc(n, i) \/ FailHtlc(n, i)
           \/ StartReestablish(n) \/ FinishReestablish(n)
           \/ CloseChannel(n) \/ CloseStep(n)
    PROVE  Acts(n)
<1>1. CASE \/ SendHtlc(n) \/ UpdateFee(n) \/ PollCommitment(n)
           \/ \E i \in HtlcIds : FulfillHtlc(n, i) \/ FailHtlc(n, i)
  BY <1>1, WorksActs, SendHtlcWorks, UpdateFeeWorks, PollCommitmentWorks, FulfillHtlcWorks,
     FailHtlcWorks
<1>2. CASE StartReestablish(n)
  <2>1. Bounds
    BY <1>2 DEF StartReestablish, Bounds
  <2> QED BY <1>2, <2>1, StartReestablishActs DEF Acts, Kind, IsInbox, Outcome
<1>3. CASE FinishReestablish(n)
  <2>1. Bounds
    BY <1>3 DEF FinishReestablish, Bounds
  <2> QED BY <1>3, <2>1, FinishReestablishActs DEF Acts, Kind, IsInbox, Outcome
<1>4. CASE CloseChannel(n)
  <2>1. Bounds
    BY <1>4 DEF CloseChannel, Bounds
  <2> QED BY <1>4, <2>1, CloseChannelActs DEF Acts, Kind, IsInbox, Outcome, Closing
<1>5. CASE CloseStep(n)
  <2>1. Bounds
    BY <1>5 DEF CloseStep, Bounds
  <2> QED BY <1>5, <2>1, CloseStepActs DEF Acts, Kind, IsInbox, Outcome, Closing
<1> QED BY <1>1, <1>2, <1>3, <1>4, <1>5

-----------------------------------------------------------------------------
(* What a step leaves *)

(* A channel after the connection ended *)
LEMMA DisconnectedIs ==
    ASSUME NEW c, NEW txs, IsChannel(c, txs)
    PROVE  LET d == Disconnected(c)
           IN  /\ IsChannel(d, txs)
               /\ d.hm = c.hm /\ d.state = c.state /\ d.peer_state = "DISCONNECTED"
               /\ d.task = "none" /\ d.reest = << >> /\ d.shutdown = FALSE
               /\ d.close = IF c.close.is_local THEN c.close ELSE NotClosing
<1> DEFINE d == Disconnected(c)
           close == IF c.close.is_local THEN c.close ELSE NotClosing
<1>1. /\ DOMAIN d = ChannelFields /\ d.hm = c.hm /\ d.state = c.state
      /\ d.peer_state = "DISCONNECTED" /\ d.task = "none" /\ d.reest = << >>
      /\ d.shutdown = FALSE /\ d.close = close
  BY DEF Disconnected, IsChannel, ChannelFields
<1>2. {"at", "is_local", "received"} \subseteq DOMAIN close /\ close.is_local \in BOOLEAN
  BY DEF NotClosing, IsChannel
<1> HIDE DEF d, close
<1>3. IsChannel(d, txs)
  BY <1>1, <1>2 DEF IsChannel, PeerStates
<1> QED BY <1>1, <1>3 DEF d, close

(* What was sent stays sent. *)
LEMMA StillSent ==
    ASSUME NEW c, NEW S, NEW x, IsSent(c, x, S), NEW d, NEW T, S \subseteq T,
           c.hm.ctn[Local] \in Nat, d.hm.ctn[Local] \in Nat, c.hm.ctn[Local] <= d.hm.ctn[Local]
    PROVE  IsSent(d, x, T)
  BY DEF IsSent

(* What was sent, in a row *)
LEMMA SentConcat ==
    ASSUME NEW c, NEW txs, NEW s, IsSeq(s), NEW t, IsSeq(t),
           \A k \in 1 .. Len(s) : IsSent(c, s[k], txs),
           \A k \in 1 .. Len(t) : IsSent(c, t[k], txs)
    PROVE  \A k \in 1 .. Len(s \o t) : IsSent(c, (s \o t)[k], txs)
<1>1. ASSUME NEW k \in 1 .. Len(s \o t) PROVE IsSent(c, (s \o t)[k], txs)
  <2>1. \/ k \in 1 .. Len(s) /\ (s \o t)[k] = s[k]
        \/ \E j \in 1 .. Len(t) : k = Len(s) + j /\ (s \o t)[k] = t[j]
    BY <1>1, ConcatElements
  <2> QED BY <2>1
<1> QED BY <1>1

(* What is on the way to a node after it took a message is among what was. *)
LEMMA InboxIs ==
    ASSUME BasicInv, NEW n \in Node, NEW inbox, IsInbox(n, inbox)
    PROVE  /\ IsSeq(inbox)
           /\ \A k \in 1 .. Len(inbox) : \E j \in 1 .. Len(net[n]) : inbox[k] = net[n][j]
           /\ net[n] = << >> => inbox = << >>
<1>1. IsSeq(net[n])
  BY DEF BasicInv, Types
<1>2. CASE inbox = net[n]
  BY <1>1, <1>2
<1>3. CASE net[n] # << >> /\ inbox = Tail(net[n])
  <2>1. /\ IsSeq(inbox) /\ Len(net[n]) \in Nat \ {0} /\ Len(inbox) = Len(net[n]) - 1
        /\ \A k \in 1 .. Len(net[n]) - 1 : inbox[k] = net[n][k + 1]
    BY <1>1, <1>3, TailIs
  <2>2. \A k \in 1 .. Len(net[n]) - 1 : k + 1 \in 1 .. Len(net[n])
    BY <2>1
  <2> QED BY <1>3, <2>1, <2>2
<1> QED BY <1>2, <1>3 DEF IsInbox

(* What a step of n signs, and the outcome as of then *)
LEMMA StepSigns ==
    ASSUME NEW n \in Node, NEW o, NEW inbox, Step(n, o, inbox), Outcome(n, o)
    PROVE  \E txs : /\ Fine(n, o, txs) /\ SignedBy(n) \subseteq txs
                    /\ SignedBy(n)' = txs /\ SignedBy(Peer(n))' = SignedBy(Peer(n))
                    /\ \/ txs = SignedBy(n)
                          /\ ctn_latest(o.c.hm, Remote) = ctn_latest(ch[n].hm, Remote)
                       \/ \E tx : txs = SignedBy(n) \cup {tx} /\ IsNew(n, o.c, tx)
<1>1. signed' = signed \cup Sigs(o)
  BY DEF Step, Sigs
<1>2. Peer(n) # n /\ Peer(Peer(n)) = n
  BY PeerFacts
<1>3. CASE Unsigning(n, o)
  <2>1. Sigs(o) \subseteq SignedBy(n)
    BY <1>3, NothingNew DEF Unsigning, Fine
  <2>2. signed' = signed
    BY <1>1, <2>1 DEF SignedBy
  <2>3. SignedBy(n)' = SignedBy(n) /\ SignedBy(Peer(n))' = SignedBy(Peer(n))
    BY <2>2 DEF SignedBy
  <2> QED BY <1>3, <2>3 DEF Unsigning
<1>4. CASE Signing(n, o)
  <2>1. PICK tx \in Sigs(o) : Fine(n, o, SignedBy(n) \cup {tx}) /\ IsNew(n, o.c, tx)
    BY <1>4 DEF Signing
  <2>2. Sigs(o) \subseteq SignedBy(n) \cup {tx}
    BY <2>1, NothingNew DEF Fine
  <2>3. signed' = signed \cup {tx} /\ tx.owner = Peer(n)
    BY <1>1, <2>1, <2>2 DEF SignedBy, IsNew
  <2>4. SignedBy(n)' = SignedBy(n) \cup {tx}
    BY <2>3 DEF SignedBy
  <2>5. SignedBy(Peer(n))' = SignedBy(Peer(n))
    BY <1>2, <2>3 DEF SignedBy
  <2> QED BY <2>1, <2>4, <2>5
<1> QED BY <1>3, <1>4 DEF Outcome

\* The part of Types that is about n
TypesAt(n) ==
    /\ IsChannel(ch[n], SignedBy(n))
    /\ IsSeq(net[n])
    /\ \A k \in 1 .. Len(net[n]) : IsMessage(n, net[n][k])
    /\ n \in Persistent => IsFile(disk[n], SignedBy(n))
    /\ backup[n] # NoFile => n \in Persistent /\ IsFile(backup[n], SignedBy(n))
    /\ ~connected => /\ net[n] = << >>
                     /\ ch[n].peer_state = "DISCONNECTED"
                     /\ ch[n].task = "none" /\ ch[n].reest = << >> /\ ~ch[n].shutdown

(* The types, node by node *)
LEMMA TypesAre ==
    Types <=> /\ DOMAIN ch = Node /\ DOMAIN net = Node /\ DOMAIN disk = Node /\ DOMAIN backup = Node
              /\ DOMAIN left = {"disconnects", "crashes", "feeUpdates", "restores"}
              /\ connected \in BOOLEAN
              /\ alarms \subseteq Messages
              /\ \A n \in Node : TypesAt(n)
  BY DEF Types, TypesAt

(* A step keeps the types, and the file up to date. *)
LEMMA StepIsBasic ==
    ASSUME BasicInv, NEW n \in Node, NEW o, NEW inbox,
           Step(n, o, inbox), IsInbox(n, inbox), Outcome(n, o), Bounds
    PROVE  BasicInv'
<1> DEFINE p == Peer(n)
<1>1. p \in Node /\ p # n /\ Peer(p) = n /\ \A q \in Node : q = n \/ q = p
  BY PeerFacts
<1>2. PICK txs : /\ Fine(n, o, txs) /\ SignedBy(n) \subseteq txs
                 /\ SignedBy(n)' = txs /\ SignedBy(p)' = SignedBy(p)
  BY StepSigns
<1>3. /\ IsChannel(o.c, txs) /\ IsSeq(o.out)
      /\ \A k \in 1 .. Len(o.out) : IsSent(o.c, o.out[k], txs)
      /\ o.exc \in {Ok, GracefulDisconnect} \cup Messages
      /\ connected \/ SameBut(ChannelFields \ OfConnection, ch[n], o.c)
      /\ n \in Persistent => Agrees(o.file, o.c, txs)
  BY <1>2 DEF Fine, Sound
<1> HIDE DEF p
<1>4. /\ ch[n].hm.ctn[Local] \in Nat /\ o.c.hm.ctn[Local] \in Nat
      /\ ch[n].hm.ctn[Local] <= o.c.hm.ctn[Local]
  <2>1. ch[n].hm.ctn[Local] \in Nat /\ o.c.hm.ctn[Local] \in Nat
    BY <1>3, OwnerFacts DEF BasicInv, Types, IsChannel, IsLog
  <2>2. \/ o.c.hm.ctn[Local] = ch[n].hm.ctn[Local]
        \/ o.c.hm.ctn[Local] = ch[n].hm.ctn[Local] + 1
    BY <1>2 DEF Fine, Sound, Moves
  <2> QED BY <2>1, <2>2
<1>5. /\ DOMAIN disk' = Node /\ DOMAIN backup' = Node
      /\ DOMAIN left' = {"disconnects", "crashes", "feeUpdates", "restores"}
      /\ backup' = backup
      /\ disk'[n] = IF n \in Persistent THEN o.file ELSE disk[n]
      /\ disk'[p] = disk[p]
  BY <1>1 DEF Step, Bounds, BasicInv, Types
<1>6. /\ backup[n] # NoFile => n \in Persistent /\ IsFile(backup[n], txs)
      /\ backup[p] # NoFile => p \in Persistent /\ IsFile(backup[p], SignedBy(p))
      /\ p \in Persistent => IsFile(disk[p], SignedBy(p))
      /\ n \in Persistent => IsFile(o.file, txs)
  BY <1>1, <1>2, <1>3, MoreSigned DEF BasicInv, Types, Agrees
<1>7. /\ n \in Persistent => /\ disk'[n].hm.ctn = o.c.hm.ctn /\ disk'[n].hm.revack = o.c.hm.revack
                             /\ disk'[n].state = o.c.state
      /\ p \in Persistent => /\ disk'[p].hm.ctn = ch[p].hm.ctn
                             /\ disk'[p].hm.revack = ch[p].hm.revack
                             /\ disk'[p].state = ch[p].state
  BY <1>3, <1>5 DEF Agrees, BasicInv, Saved
<1>8. CASE o.exc = Ok
  <2>1. /\ ch' = [ch EXCEPT ![n] = o.c] /\ connected' = connected /\ alarms' = alarms
        /\ net' = [net EXCEPT ![n] = inbox, ![p] = IF connected THEN @ \o o.out ELSE @]
    BY <1>8 DEF Step, p
  <2>2. /\ DOMAIN ch' = Node /\ DOMAIN net' = Node
        /\ ch'[n] = o.c /\ ch'[p] = ch[p] /\ net'[n] = inbox
        /\ net'[p] = IF connected THEN net[p] \o o.out ELSE net[p]
    BY <1>1, <2>1 DEF BasicInv, Types
  <2>3. /\ IsSeq(net[n]) /\ IsSeq(net[p]) /\ IsChannel(ch[p], SignedBy(p))
        /\ \A k \in 1 .. Len(net[n]) : IsSent(ch[p], net[n][k], SignedBy(p))
        /\ \A k \in 1 .. Len(net[p]) : IsSent(ch[n], net[p][k], SignedBy(n))
    BY <1>1 DEF BasicInv, Types, IsMessage, p
  <2>4. /\ IsSeq(inbox) /\ (net[n] = << >> => inbox = << >>)
        /\ \A k \in 1 .. Len(inbox) : IsSent(ch[p], inbox[k], SignedBy(p))
    BY <2>3, InboxIs
  <2>5. \A k \in 1 .. Len(net[p]) : IsSent(o.c, net[p][k], txs)
    BY <1>2, <1>4, <2>3, StillSent
  <2>6. /\ IsSeq(net'[p])
        /\ \A k \in 1 .. Len(net'[p]) : IsSent(o.c, net'[p][k], txs)
    <3>1. CASE ~connected
      BY <2>2, <2>3, <2>5, <3>1
    <3>2. CASE connected
      <4>1. net'[p] = net[p] \o o.out /\ IsSeq(net[p] \o o.out)
        BY <1>3, <2>2, <2>3, <3>2, ConcatIs
      <4>2. \A k \in 1 .. Len(net[p] \o o.out) : IsSent(o.c, (net[p] \o o.out)[k], txs)
        BY <1>3, <2>3, <2>5, SentConcat
      <4> QED BY <4>1, <4>2
    <3> QED BY <3>1, <3>2
  <2>7. ASSUME ~connected
        PROVE  /\ net'[n] = << >> /\ net'[p] = << >>
               /\ o.c.peer_state = "DISCONNECTED" /\ o.c.task = "none" /\ o.c.reest = << >>
               /\ ~o.c.shutdown
               /\ ch[p].peer_state = "DISCONNECTED" /\ ch[p].task = "none" /\ ch[p].reest = << >>
               /\ ~ch[p].shutdown
    <3>1. /\ net[n] = << >> /\ net[p] = << >>
          /\ ch[n].peer_state = "DISCONNECTED" /\ ch[n].task = "none" /\ ch[n].reest = << >>
          /\ ~ch[n].shutdown
          /\ ch[p].peer_state = "DISCONNECTED" /\ ch[p].task = "none" /\ ch[p].reest = << >>
          /\ ~ch[p].shutdown
      BY <1>1, <2>7 DEF BasicInv, Types
    <3>2. SameBut(ChannelFields \ OfConnection, ch[n], o.c)
      BY <1>3, <2>7
    <3>3. /\ o.c.peer_state = ch[n].peer_state /\ o.c.task = ch[n].task
          /\ o.c.reest = ch[n].reest /\ o.c.shutdown = ch[n].shutdown
      BY <3>2 DEF SameBut, OfConnection, ChannelFields
    <3> QED BY <2>2, <2>4, <2>7, <3>1, <3>3
  <2>8. TypesAt(n)'
    <3>1. IsChannel(ch'[n], SignedBy(n)') /\ IsSeq(net'[n])
      BY <1>2, <1>3, <2>2, <2>4
    <3>2. \A k \in 1 .. Len(net'[n]) : IsMessage(n, net[n][k])'
      BY <1>2, <2>2, <2>4 DEF IsMessage, p
    <3>3. n \in Persistent => IsFile(disk'[n], SignedBy(n)')
      BY <1>2, <1>5, <1>6
    <3>4. backup'[n] # NoFile => n \in Persistent /\ IsFile(backup'[n], SignedBy(n)')
      BY <1>2, <1>5, <1>6
    <3>5. ~connected' => /\ net'[n] = << >>
                         /\ ch'[n].peer_state = "DISCONNECTED"
                         /\ ch'[n].task = "none" /\ ch'[n].reest = << >> /\ ~ch'[n].shutdown
      BY <2>1, <2>2, <2>7
    <3> QED BY <3>1, <3>2, <3>3, <3>4, <3>5 DEF TypesAt
  <2>9. TypesAt(p)'
    <3>1. IsChannel(ch'[p], SignedBy(p)') /\ IsSeq(net'[p])
      BY <1>2, <2>2, <2>3, <2>6
    <3>2. \A k \in 1 .. Len(net'[p]) : IsMessage(p, net[p][k])'
      BY <1>1, <1>2, <2>2, <2>6 DEF IsMessage
    <3>3. p \in Persistent => IsFile(disk'[p], SignedBy(p)')
      BY <1>2, <1>5, <1>6
    <3>4. backup'[p] # NoFile => p \in Persistent /\ IsFile(backup'[p], SignedBy(p)')
      BY <1>2, <1>5, <1>6
    <3>5. ~connected' => /\ net'[p] = << >>
                         /\ ch'[p].peer_state = "DISCONNECTED"
                         /\ ch'[p].task = "none" /\ ch'[p].reest = << >> /\ ~ch'[p].shutdown
      BY <2>1, <2>2, <2>7
    <3> QED BY <3>1, <3>2, <3>3, <3>4, <3>5 DEF TypesAt
  <2>10. /\ connected' \in BOOLEAN /\ alarms' \subseteq Messages
    BY <2>1 DEF BasicInv, Types
  <2>11. Types'
    BY <1>1, <1>5, <2>2, <2>8, <2>9, <2>10 DEF Types, TypesAt
  <2>12. Saved'
    BY <1>1, <1>7, <2>2, PersistentAssumption DEF Saved
  <2> QED BY <2>11, <2>12 DEF BasicInv
<1>9. CASE o.exc # Ok
  <2>1. /\ ch' = [q \in Node |-> Disconnected(IF q = n THEN o.c ELSE ch[q])]
        /\ net' = [q \in Node |-> << >>]
        /\ connected' = FALSE
        /\ alarms' = alarms \cup ({o.exc} \ {GracefulDisconnect})
    BY <1>9 DEF Step
  <2>2. /\ DOMAIN ch' = Node /\ DOMAIN net' = Node
        /\ ch'[n] = Disconnected(o.c) /\ ch'[p] = Disconnected(ch[p])
        /\ net'[n] = << >> /\ net'[p] = << >>
    BY <1>1, <2>1
  <2>3. /\ IsChannel(ch'[n], txs) /\ ch'[n].hm = o.c.hm /\ ch'[n].state = o.c.state
        /\ ch'[n].peer_state = "DISCONNECTED"
        /\ ch'[n].task = "none" /\ ch'[n].reest = << >> /\ ~ch'[n].shutdown
    <3> DEFINE d == Disconnected(o.c)
    <3>1. /\ IsChannel(d, txs) /\ d.hm = o.c.hm /\ d.state = o.c.state
          /\ d.peer_state = "DISCONNECTED"
          /\ d.task = "none" /\ d.reest = << >> /\ ~d.shutdown
      BY <1>3, DisconnectedIs
    <3> HIDE DEF d
    <3> QED BY <2>2, <3>1 DEF d
  <2>4. /\ IsChannel(ch'[p], SignedBy(p)) /\ ch'[p].hm = ch[p].hm /\ ch'[p].state = ch[p].state
        /\ ch'[p].peer_state = "DISCONNECTED"
        /\ ch'[p].task = "none" /\ ch'[p].reest = << >> /\ ~ch'[p].shutdown
    <3>1. IsChannel(ch[p], SignedBy(p))
      BY <1>1 DEF BasicInv, Types
    <3> DEFINE d == Disconnected(ch[p])
    <3>2. /\ IsChannel(d, SignedBy(p)) /\ d.hm = ch[p].hm /\ d.state = ch[p].state
          /\ d.peer_state = "DISCONNECTED"
          /\ d.task = "none" /\ d.reest = << >> /\ ~d.shutdown
      BY <3>1, DisconnectedIs
    <3> HIDE DEF d
    <3> QED BY <2>2, <3>2 DEF d
  <2>5. TypesAt(n)'
    BY <1>2, <1>5, <1>6, <2>2, <2>3, ShortSeqs DEF TypesAt
  <2>6. TypesAt(p)'
    BY <1>2, <1>5, <1>6, <2>2, <2>4, ShortSeqs DEF TypesAt
  <2>7. /\ connected' \in BOOLEAN /\ alarms' \subseteq Messages
    BY <1>3, <1>9, <2>1 DEF BasicInv, Types
  <2>8. Types'
    BY <1>1, <1>5, <2>2, <2>5, <2>6, <2>7 DEF Types, TypesAt
  <2>9. Saved'
    BY <1>1, <1>7, <2>3, <2>4, PersistentAssumption DEF Saved
  <2> QED BY <2>8, <2>9 DEF BasicInv
<1> QED BY <1>8, <1>9

-----------------------------------------------------------------------------
(* The connection, the process and the wallet file *)

\* The channel that n goes on with from a file
Reads(n, file) ==
    [ch[n] EXCEPT !.hm = init_maybe_active_htlc_ids(file.hm), !.state = file.state,
                  !.may_update = TRUE]

(* A node that reads a file goes on with its log and state. *)
LEMMA ReadsIs ==
    ASSUME BasicInv, NEW n \in Node, NEW file, IsFile(file, SignedBy(n))
    PROVE  LET c == Reads(n, file)
           IN  /\ IsChannel(c, SignedBy(n)) /\ Alike(file.hm, c.hm) /\ c.state = file.state
               /\ SameBut({"hm", "state", "may_update"}, ch[n], c)
<1> DEFINE w == init_maybe_active_htlc_ids(file.hm)
           c == Reads(n, file)
<1>1. IsLog(file.hm, SignedBy(n)) /\ file.state \in States /\ IsChannel(ch[n], SignedBy(n))
  BY DEF IsFile, BasicInv, Types
<1>2. Alike(file.hm, w)
  BY <1>1, UpdatesAreAlike DEF IsLog
<1>3. IsLog(w, SignedBy(n))
  BY <1>1, <1>2, AlikeIsLog
<1> HIDE DEF w
<1>4. c = [ch[n] EXCEPT !.hm = w, !.state = file.state, !.may_update = TRUE]
  BY DEF Reads, w
<1>5. /\ DOMAIN c = ChannelFields /\ c.hm = w /\ c.state = file.state
      /\ SameBut({"hm", "state", "may_update"}, ch[n], c)
  BY <1>1, <1>4 DEF IsChannel, ChannelFields, SameBut
<1> HIDE DEF c
<1>6. /\ c.peer_state = ch[n].peer_state /\ c.task = ch[n].task /\ c.reest = ch[n].reest
      /\ c.close = ch[n].close /\ c.shutdown = ch[n].shutdown
  BY <1>5 DEF SameBut, ChannelFields
<1>7. IsChannel(c, SignedBy(n))
  BY <1>1, <1>3, <1>5, <1>6 DEF IsChannel
<1> QED BY <1>2, <1>5, <1>7 DEF c

(* What Loaded makes of the two channels *)
LEMMA LoadedIs ==
    ASSUME BasicInv, NEW n \in Node, NEW file
    PROVE  /\ Loaded(n, file)[n] = Reads(n, file)
           /\ \A q \in Node : q # n => Loaded(n, file)[q] = ch[q]
<1> DEFINE w == init_maybe_active_htlc_ids(file.hm)
<1>1. DOMAIN ch = Node /\ DOMAIN ch[n] = ChannelFields
  BY DEF BasicInv, Types, IsChannel
<1> HIDE DEF w
<1>2. Loaded(n, file) = [ch EXCEPT ![n].hm = w, ![n].state = file.state, ![n].may_update = TRUE]
  BY DEF Loaded, w
<1>3. Reads(n, file) = [ch[n] EXCEPT !.hm = w, !.state = file.state, !.may_update = TRUE]
  BY DEF Reads, w
<1> QED BY <1>1, <1>2, <1>3 DEF ChannelFields

(* The end of the connection leaves the types. *)
LEMMA DropKeepsTypes ==
    ASSUME BasicInv, NEW channels, DropConnection(channels),
           \A q \in Node : IsChannel(channels[q], SignedBy(q)),
           DOMAIN disk' = Node, backup' = backup, DOMAIN left' = DOMAIN left,
           \A q \in Node : q \in Persistent => IsFile(disk'[q], SignedBy(q))
    PROVE  /\ Types'
           /\ \A q \in Node :
                 /\ ch'[q] = Disconnected(channels[q])
                 /\ ch'[q].hm = channels[q].hm /\ ch'[q].state = channels[q].state
<1>1. /\ connected' = FALSE /\ net' = [q \in Node |-> << >>] /\ signed' = signed /\ alarms' = alarms
      /\ ch' = [q \in Node |-> Disconnected(channels[q])]
  BY DEF DropConnection
<1>2. ASSUME NEW q \in Node
      PROVE  /\ TypesAt(q)' /\ ch'[q] = Disconnected(channels[q])
             /\ ch'[q].hm = channels[q].hm /\ ch'[q].state = channels[q].state
  <2>1. /\ net'[q] = << >> /\ ch'[q] = Disconnected(channels[q])
        /\ IsChannel(channels[q], SignedBy(q))
    BY <1>1
  <2>2. /\ IsChannel(ch'[q], SignedBy(q)) /\ ch'[q].hm = channels[q].hm
        /\ ch'[q].state = channels[q].state /\ ch'[q].peer_state = "DISCONNECTED"
        /\ ch'[q].task = "none" /\ ch'[q].reest = << >> /\ ~ch'[q].shutdown
    <3> DEFINE c == channels[q]
               txs == SignedBy(q)
    <3>1. IsChannel(c, txs) /\ ch'[q] = Disconnected(c)
      BY <2>1
    <3> HIDE DEF c, txs
    <3>2. LET d == Disconnected(c)
          IN  /\ IsChannel(d, txs) /\ d.hm = c.hm /\ d.state = c.state
              /\ d.peer_state = "DISCONNECTED" /\ d.task = "none" /\ d.reest = << >>
              /\ d.shutdown = FALSE
      BY <3>1, DisconnectedIs
    <3> QED BY <3>1, <3>2 DEF c, txs
  <2>3. SignedBy(q)' = SignedBy(q)
    BY <1>1 DEF SignedBy
  <2>4. backup[q] # NoFile => q \in Persistent /\ IsFile(backup[q], SignedBy(q))
    BY DEF BasicInv, Types
  <2> QED BY <2>1, <2>2, <2>3, <2>4, ShortSeqs DEF TypesAt
<1> QED BY <1>1, <1>2 DEF BasicInv, Types, TypesAt

(* The file that n goes on from agrees with what n goes on with. *)
LEMMA LoadKeepsBasic ==
    ASSUME BasicInv, NEW n \in Node, NEW file, IsFile(file, SignedBy(n)), n \in Persistent,
           DropConnection(Loaded(n, file)),
           DOMAIN disk' = Node, disk'[n] = file, \A q \in Node : q # n => disk'[q] = disk[q],
           backup' = backup, DOMAIN left' = DOMAIN left
    PROVE  /\ BasicInv'
           /\ ch'[n] = Disconnected(Reads(n, file))
           /\ \A q \in Node : q # n => ch'[q] = Disconnected(ch[q])
<1> DEFINE channels == Loaded(n, file)
<1>1. /\ IsChannel(Reads(n, file), SignedBy(n)) /\ Alike(file.hm, Reads(n, file).hm)
      /\ Reads(n, file).state = file.state
  BY ReadsIs
<1>2. channels[n] = Reads(n, file) /\ \A q \in Node : q # n => channels[q] = ch[q]
  BY LoadedIs
<1> HIDE DEF channels
<1>3. \A q \in Node : IsChannel(channels[q], SignedBy(q))
  BY <1>1, <1>2 DEF BasicInv, Types
<1>4. /\ DOMAIN disk' = Node /\ disk'[n] = file
      /\ \A q \in Node : q # n => disk'[q] = disk[q]
      /\ \A q \in Node : q \in Persistent => IsFile(disk'[q], SignedBy(q))
  BY DEF BasicInv, Types
<1>5. /\ Types'
      /\ \A q \in Node : /\ ch'[q] = Disconnected(channels[q])
                         /\ ch'[q].hm = channels[q].hm /\ ch'[q].state = channels[q].state
  <2>1. DropConnection(channels)
    BY DEF channels
  <2> QED BY <1>3, <1>4, <2>1, DropKeepsTypes
<1>6. Saved'
  BY <1>1, <1>2, <1>4, <1>5, PersistentAssumption DEF Saved, BasicInv, Alike
<1> QED BY <1>2, <1>5, <1>6 DEF BasicInv

(* A message is still what the other node sent, if that has its ctn still. *)
LEMMA UnchangedKeepsTypes ==
    ASSUME BasicInv, ch' = ch, net' = net, signed' = signed, alarms' = alarms,
           DOMAIN left' = DOMAIN left, connected' \in BOOLEAN, connected => connected',
           DOMAIN disk' = Node, DOMAIN backup' = Node,
           \A q \in Node : q \in Persistent => IsFile(disk'[q], SignedBy(q)),
           \A q \in Node : backup'[q] # NoFile => q \in Persistent /\ IsFile(backup'[q], SignedBy(q))
    PROVE  Types'
<1>1. ASSUME NEW q \in Node PROVE TypesAt(q)'
  <2>1. TypesAt(q)
    BY DEF BasicInv, Types, TypesAt
  <2>2. SignedBy(q)' = SignedBy(q) /\ SignedBy(Peer(q))' = SignedBy(Peer(q))
    BY DEF SignedBy
  <2> QED BY <2>1, <2>2 DEF TypesAt, IsMessage
<1> QED BY <1>1 DEF BasicInv, Types, TypesAt

(* What happens to the connection, the processes and the files keeps the types, and the *)
(* file up to date.                                                                     *)
LEMMA EnvironmentIsBasic ==
    ASSUME BasicInv,
           \/ Connect \/ Disconnect
           \/ \E n \in Node : Crash(n) \/ SaveDb(n) \/ Backup(n) \/ Restore(n)
    PROVE  BasicInv'
<1>1. /\ \A q \in Node : IsChannel(ch[q], SignedBy(q))
      /\ \A q \in Node : q \in Persistent => IsFile(disk[q], SignedBy(q))
      /\ \A q \in Node : backup[q] # NoFile => q \in Persistent /\ IsFile(backup[q], SignedBy(q))
      /\ DOMAIN disk = Node /\ DOMAIN backup = Node
  BY DEF BasicInv, Types
<1>2. CASE Connect
  <2>1. Types'
    BY <1>1, <1>2, UnchangedKeepsTypes DEF Connect
  <2>2. Saved'
    BY <1>2 DEF Connect, BasicInv, Saved
  <2> QED BY <2>1, <2>2 DEF BasicInv
<1>3. CASE Disconnect
  <2>1. DropConnection(ch) /\ disk' = disk /\ backup' = backup /\ DOMAIN left' = DOMAIN left
    BY <1>3 DEF Disconnect
  <2>2. /\ Types'
        /\ \A q \in Node : ch'[q].hm = ch[q].hm /\ ch'[q].state = ch[q].state
    BY <1>1, <2>1, DropKeepsTypes
  <2>3. Saved'
    BY <2>1, <2>2, PersistentAssumption DEF BasicInv, Saved
  <2> QED BY <2>2, <2>3 DEF BasicInv
<1>4. ASSUME NEW n \in Node, Crash(n) PROVE BasicInv'
  <2>1. /\ n \in Persistent /\ DropConnection(Loaded(n, disk[n]))
        /\ disk' = disk /\ backup' = backup /\ DOMAIN left' = DOMAIN left
    BY <1>4 DEF Crash
  <2> QED BY <1>1, <2>1, LoadKeepsBasic
<1>5. ASSUME NEW n \in Node, Restore(n) PROVE BasicInv'
  <2>1. /\ DropConnection(Loaded(n, backup[n])) /\ backup[n] # NoFile
        /\ disk' = [disk EXCEPT ![n] = backup[n]] /\ backup' = backup /\ DOMAIN left' = DOMAIN left
    BY <1>5 DEF Restore
  <2>2. DOMAIN disk' = Node /\ disk'[n] = backup[n] /\ \A q \in Node : q # n => disk'[q] = disk[q]
    BY <1>1, <2>1
  <2> QED BY <1>1, <2>1, <2>2, LoadKeepsBasic
<1>6. ASSUME NEW n \in Node, SaveDb(n) PROVE BasicInv'
  <2>1. /\ UNCHANGED <<ch, net, connected, backup, left, signed, alarms>>
        /\ disk' = [disk EXCEPT ![n] = FileOf(ch[n])] /\ n \in Persistent
    BY <1>6 DEF SaveDb
  <2>2. /\ IsFile(FileOf(ch[n]), SignedBy(n)) /\ FileOf(ch[n]).hm = ch[n].hm
        /\ FileOf(ch[n]).state = ch[n].state
    BY <1>1, FileAgrees DEF Agrees, FileOf
  <2>3. /\ DOMAIN disk' = Node /\ disk'[n] = FileOf(ch[n])
        /\ \A q \in Node : q # n => disk'[q] = disk[q]
    BY <1>1, <2>1
  <2>4. \A q \in Node : q \in Persistent => IsFile(disk'[q], SignedBy(q))
    BY <1>1, <2>2, <2>3
  <2>5. Types'
    BY <1>1, <2>1, <2>3, <2>4, UnchangedKeepsTypes DEF BasicInv, Types
  <2>6. Saved'
    BY <2>1, <2>2, <2>3, PersistentAssumption DEF BasicInv, Saved
  <2> QED BY <2>5, <2>6 DEF BasicInv
<1>7. ASSUME NEW n \in Node, Backup(n) PROVE BasicInv'
  <2>1. /\ UNCHANGED <<ch, net, connected, disk, left, signed, alarms>>
        /\ backup' = [backup EXCEPT ![n] = disk[n]] /\ n \in Persistent
    BY <1>7 DEF Backup
  <2>2. /\ DOMAIN backup' = Node
        /\ \A q \in Node : backup'[q] # NoFile => q \in Persistent /\ IsFile(backup'[q], SignedBy(q))
    BY <1>1, <2>1
  <2>3. Types'
    BY <1>1, <2>1, <2>2, UnchangedKeepsTypes DEF BasicInv, Types
  <2>4. Saved'
    BY <2>1 DEF BasicInv, Saved
  <2> QED BY <2>3, <2>4 DEF BasicInv
<1> QED BY <1>2, <1>3, <1>4, <1>5, <1>6, <1>7

-----------------------------------------------------------------------------
(* What a step does to the exchange of messages after a connection is made *)

\* A channel_reestablish is the next message.
ReestablishArrived(n) ==
    net[n] # << >> /\ Head(net[n]).type = "channel_reestablish" /\ ~Blocked(ch[n])
ErrorArrived(n) == net[n] # << >> /\ Head(net[n]).type = "error"

\* The channel becomes good once the message is there that the other node
\* reestablishes it with, and no changes go out before that.
GoodInTime(n, o) ==
    /\ o.c.peer_state = "GOOD" => Good(n) \/ Blocked(ch[n])
    /\ Good(n) => o.c.peer_state = "GOOD"
    /\ \A k \in 1 .. Len(o.out) :
          o.out[k].type \in {"revoke_and_ack", "commitment_signed"} => o.c.peer_state = "GOOD"

\* What n says of itself is true, unless it is toxic.
SaysItself(n, o) ==
    \A k \in 1 .. Len(o.out) :
        /\ o.out[k].type = "channel_reestablish" =>
              \/ o.out[k] = OwnAnnouncement(ch[n].hm) /\ o.c.hm.ctn = ch[n].hm.ctn
              \/ ch[n].state = "WE_ARE_TOXIC" /\ o.out[k] = channel_reestablish(0, 0)
        /\ o.out[k].type = "error" => ch[n].state = "WE_ARE_TOXIC"

\* What n waits with is what it waited with, or a message that suits its log.
Awaits(n, o) ==
    \/ o.c.reest \in {ch[n].reest, << >>, <<Exception>>}
    \/ /\ ReestablishArrived(n)
       /\ o.c.reest = <<Head(net[n])>>
       /\ Head(net[n]).next_revocation_number <= ch[n].hm.ctn[Local]
       /\ ~Differ(ch[n].hm, Head(net[n]))

\* A channel that is force-closed or toxic stays that, and became so for a reason.
EndsUp(n, o) ==
    /\ ch[n].state \in Final => o.c.state = ch[n].state
    /\ o.c.state \in Final => o.c.hm.ctn = ch[n].hm.ctn
    /\ o.c.state = "FORCE_CLOSING" =>
          \/ ch[n].state = "FORCE_CLOSING"
          \/ ch[n].close.at # "none"
          \/ ErrorArrived(n)
          \/ ReestablishArrived(n) /\ Head(net[n]).next_revocation_number <= ch[n].hm.ctn[Local]
    /\ o.c.state = "WE_ARE_TOXIC" =>
          \/ ch[n].state = "WE_ARE_TOXIC"
          \/ ReestablishArrived(n) /\ Head(net[n]).next_revocation_number > ch[n].hm.ctn[Local]
    /\ o.c.task = "spawned" => o.c.state \in Final \/ ch[n].task = "spawned"

\* A close begins while the channel is good.
BeginsClose(n, o) ==
    /\ o.c.close.at # "none" => ch[n].close.at # "none" \/ Good(n)
    /\ o.c.close.is_local => ch[n].close.is_local \/ NothingLost

Proper(n, o) ==
    GoodInTime(n, o) /\ SaysItself(n, o) /\ Awaits(n, o) /\ EndsUp(n, o) /\ BeginsClose(n, o)

\* The types of messages that the two kinds of work send
Exchanged == Updates \cup {"commitment_signed", "revoke_and_ack"}
Closings  == {"shutdown", "closing_signed"}

(* The exchange of updates, signatures and revocations is proper. *)
LEMMA WorkIsProper ==
    ASSUME BasicInv, NEW n \in Node, NEW o, Work(n, o)
    PROVE  Proper(n, o)
<1>1. /\ o.c.peer_state = ch[n].peer_state /\ o.c.reest = ch[n].reest /\ o.c.state = ch[n].state
      /\ o.c.task = ch[n].task /\ o.c.close = ch[n].close
  BY DEF Work, SameBut, ChannelFields
<1>2. \A k \in 1 .. Len(o.out) : o.out[k].type \in Exchanged
  BY DEF Work, Exchanged
<1>3. \/ ch[n].peer_state = "GOOD" /\ ch[n].state \notin Final
      \/ o.out = << >> /\ o.c.hm.ctn = ch[n].hm.ctn
  BY DEF Work, can_progress_ctx, Final
<1>4. GoodInTime(n, o)
  BY <1>1, <1>3, ShortSeqs DEF GoodInTime, Good
<1>5. SaysItself(n, o)
  BY <1>2 DEF SaysItself, Exchanged, Updates
<1>6. Awaits(n, o) /\ EndsUp(n, o) /\ BeginsClose(n, o)
  BY <1>1, <1>3 DEF Awaits, EndsUp, BeginsClose
<1> QED BY <1>4, <1>5, <1>6 DEF Proper

(* A node that is good was not behind, as the other one said when it reestablished. *)
LEMMA GoodIsNotBehind ==
    ASSUME BasicInv, Dance, NEW n \in Node, Good(n), ReestablishArrived(n)
    PROVE  Head(net[n]).next_revocation_number <= ch[n].hm.ctn[Local]
<1> DEFINE x == Head(net[n])
<1>1. Len(net[n]) \in Nat \ {0} /\ x = net[n][1] /\ IsMessage(n, x) /\ 1 \in 1 .. Len(net[n])
  <2>1. Len(net[n]) \in Nat \ {0} /\ x = net[n][1] /\ IsMessage(n, x)
    BY HeadIs DEF ReestablishArrived
  <2> QED BY <2>1
<1>2. IsAnnouncement(n, x) /\ ch[Peer(n)].hm.ctn[Remote] <= ch[n].hm.ctn[Local]
  BY <1>1 DEF Dance
<1>3. /\ x.next_revocation_number \in Nat
      /\ ch[Peer(n)].hm.ctn[Remote] \in Nat /\ ch[n].hm.ctn[Local] \in Nat
  BY <1>1, PeerFacts, OwnerFacts
  DEF IsMessage, IsSent, BasicInv, Types, IsChannel, IsLog, ReestablishArrived
<1>4. x.next_revocation_number <= ch[Peer(n)].hm.ctn[Remote]
  BY <1>2 DEF IsAnnouncement, ReestablishArrived
<1> HIDE DEF x
<1> QED BY <1>2, <1>3, <1>4 DEF x

(* What a node does with a channel_reestablish, or an error, is proper. *)
LEMMA ReestablishesIsProper ==
    ASSUME BasicInv, Dance, NEW n \in Node, NEW o, NEW inbox, Reestablishes(n, o, inbox)
    PROVE  Proper(n, o)
<1>1. /\ ReestablishArrived(n) /\ ch[n].state = "OPEN"
      /\ o.c.hm = ch[n].hm /\ o.out = << >> /\ o.c.close = ch[n].close
  BY DEF Reestablishes, ReestablishArrived, SameBut, ChannelFields
<1> DEFINE rev == Head(net[n]).next_revocation_number
<1>2. \/ /\ rev > ch[n].hm.ctn[Local] /\ o.c.state = "WE_ARE_TOXIC"
         /\ o.c.peer_state = "BAD" /\ o.c.reest = <<Exception>>
      \/ /\ rev <= ch[n].hm.ctn[Local] /\ o.c.state = "FORCE_CLOSING"
         /\ o.c.peer_state = ch[n].peer_state /\ o.c.reest = <<Exception>>
      \/ /\ rev <= ch[n].hm.ctn[Local] /\ o.c.state = ch[n].state /\ o.c.task = ch[n].task
         /\ o.c.peer_state = ch[n].peer_state /\ o.c.reest = <<Head(net[n])>>
         /\ ~Differ(ch[n].hm, Head(net[n]))
  BY DEF Reestablishes, SameBut, ChannelFields
<1>3. Good(n) => ~(rev > ch[n].hm.ctn[Local])
  <2>1. rev \in Nat /\ ch[n].hm.ctn[Local] \in Nat
    BY <1>1, HeadIs, OwnerFacts
    DEF IsMessage, IsSent, BasicInv, Types, IsChannel, IsLog, ReestablishArrived
  <2>2. Good(n) => rev <= ch[n].hm.ctn[Local]
    BY <1>1, GoodIsNotBehind
  <2> HIDE DEF rev
  <2> QED BY <2>1, <2>2
<1>4. GoodInTime(n, o)
  BY <1>1, <1>2, <1>3, ShortSeqs DEF GoodInTime, Good
<1>5. SaysItself(n, o)
  BY <1>1, ShortSeqs DEF SaysItself
<1>6. Awaits(n, o) /\ EndsUp(n, o) /\ BeginsClose(n, o)
  BY <1>1, <1>2 DEF Awaits, EndsUp, BeginsClose, Final
<1> QED BY <1>4, <1>5, <1>6 DEF Proper

(* So is what it does with an error. *)
LEMMA ErrsIsProper ==
    ASSUME BasicInv, NEW n \in Node, NEW o, Errs(n, o)
    PROVE  Proper(n, o)
<1>1. /\ o.c.peer_state = ch[n].peer_state /\ o.c.reest = ch[n].reest
      /\ o.c.task = ch[n].task /\ o.c.close = ch[n].close /\ o.c.hm = ch[n].hm
      /\ o.out = << >> /\ ErrorArrived(n)
      /\ \/ o.c.state = ch[n].state
         \/ ch[n].state \notin Final /\ o.c.state = "FORCE_CLOSING"
  BY DEF Errs, SameBut, ChannelFields, ErrorArrived
<1>2. GoodInTime(n, o) /\ SaysItself(n, o)
  BY <1>1, ShortSeqs DEF GoodInTime, Good, SaysItself
<1>3. Awaits(n, o) /\ EndsUp(n, o) /\ BeginsClose(n, o)
  BY <1>1 DEF Awaits, EndsUp, BeginsClose, Final
<1> QED BY <1>2, <1>3 DEF Proper

(* Two messages *)
LEMMA AppendToOne ==
    ASSUME NEW x, NEW y, NEW k \in 1 .. Len(Append(<<x>>, y))
    PROVE  Append(<<x>>, y)[k] \in {x, y}
  OBVIOUS

(* How a node starts and finishes reestablishing a channel is proper. *)
LEMMA StartsIsProper ==
    ASSUME BasicInv, NEW n \in Node, NEW o, Starts(n, o)
    PROVE  Proper(n, o)
<1>1. ~Good(n)
  BY DEF Starts, CanStart, Good
<1>2. CASE ch[n].state = "WE_ARE_TOXIC"
  <2>1. /\ o.c.peer_state = ch[n].peer_state /\ o.c.reest = ch[n].reest /\ o.c.state = ch[n].state
        /\ o.c.task = "none" /\ o.c.close = ch[n].close /\ o.c.hm = ch[n].hm
        /\ o.out = Append(<<channel_reestablish(0, 0)>>, [type |-> "error"])
    BY <1>2 DEF Starts, SameBut, ChannelFields
  <2>2. \A k \in 1 .. Len(o.out) : o.out[k] \in {channel_reestablish(0, 0), [type |-> "error"]}
    BY <2>1, AppendToOne
  <2>3. channel_reestablish(0, 0).type = "channel_reestablish"
    BY DEF channel_reestablish
  <2>4. SaysItself(n, o)
    BY <1>2, <2>2, <2>3 DEF SaysItself
  <2>5. GoodInTime(n, o)
    BY <1>1, <2>1, <2>2, <2>3 DEF GoodInTime, Good
  <2>6. Awaits(n, o) /\ EndsUp(n, o) /\ BeginsClose(n, o)
    BY <1>2, <2>1 DEF Awaits, EndsUp, BeginsClose, Final
  <2> QED BY <2>4, <2>5, <2>6 DEF Proper
<1>3. CASE ch[n].state # "WE_ARE_TOXIC"
  <2>1. /\ o.c.reest = ch[n].reest /\ o.c.state = ch[n].state
        /\ o.c.close = ch[n].close /\ o.c.hm.ctn = ch[n].hm.ctn
        /\ o.c.task \in {"none", "waiting"}
        /\ o.c.peer_state \in {ch[n].peer_state, "REESTABLISHING"}
        /\ o.out = <<OwnAnnouncement(ch[n].hm)>>
    BY <1>3 DEF Starts, SameBut, ChannelFields, Alike
  <2>2. \A k \in 1 .. Len(o.out) : o.out[k] = OwnAnnouncement(ch[n].hm)
    BY <2>1, ShortSeqs
  <2>3. OwnAnnouncement(ch[n].hm).type = "channel_reestablish"
    BY DEF channel_reestablish, OwnAnnouncement
  <2>4. SaysItself(n, o)
    BY <2>1, <2>2, <2>3 DEF SaysItself
  <2>5. GoodInTime(n, o)
    BY <1>1, <2>1, <2>2, <2>3 DEF GoodInTime, Good
  <2>6. Awaits(n, o) /\ EndsUp(n, o) /\ BeginsClose(n, o)
    BY <2>1 DEF Awaits, EndsUp, BeginsClose, Final
  <2> QED BY <2>4, <2>5, <2>6 DEF Proper
<1> QED BY <1>2, <1>3

(* So is how it goes on once the other channel_reestablish is there. *)
LEMMA FinishesIsProper ==
    ASSUME BasicInv, NEW n \in Node, NEW o, Finishes(n, o)
    PROVE  Proper(n, o)
<1>1. /\ o.c.hm = ch[n].hm /\ o.c.state = ch[n].state /\ o.c.close = ch[n].close
      /\ o.c.peer_state = "GOOD" /\ o.c.task = "none" /\ o.c.reest = << >> /\ Blocked(ch[n])
      /\ \A k \in 1 .. Len(o.out) : o.out[k].type \in Exchanged
  BY DEF Finishes, SameBut, ChannelFields, Exchanged
<1>2. GoodInTime(n, o)
  BY <1>1 DEF GoodInTime, Good
<1>3. SaysItself(n, o)
  BY <1>1 DEF SaysItself, Exchanged, Updates
<1>4. Awaits(n, o) /\ EndsUp(n, o) /\ BeginsClose(n, o)
  BY <1>1 DEF Awaits, EndsUp, BeginsClose, Final
<1> QED BY <1>2, <1>3, <1>4 DEF Proper

(* What closes the channel is proper. *)
LEMMA NegotiatesIsProper ==
    ASSUME BasicInv, NEW n \in Node, NEW o, Negotiates(n, o),
           \/ MayNegotiate(n) \/ o.c.close.at = ch[n].close.at
    PROVE  Proper(n, o)
<1>1. /\ o.c.hm = ch[n].hm /\ o.c.peer_state = ch[n].peer_state
      /\ o.c.task = ch[n].task /\ o.c.reest = ch[n].reest
      /\ \A k \in 1 .. Len(o.out) : o.out[k].type \in Closings
  BY DEF Negotiates, SameBut, ChannelFields, CloseFields, Closings
<1>2. /\ \/ o.c.state = ch[n].state
         \/ ch[n].state \notin Final /\ o.c.state \in {"SHUTDOWN", "CLOSING"}
         \/ ch[n].state \notin Final /\ o.c.state = "FORCE_CLOSING" /\ ch[n].close.at # "none"
      /\ o.c.close.is_local => ch[n].close.is_local \/ NothingLost
  BY DEF Negotiates
<1>3. GoodInTime(n, o)
  BY <1>1 DEF GoodInTime, Good, Closings
<1>4. SaysItself(n, o)
  BY <1>1 DEF SaysItself, Closings
<1>5. Awaits(n, o) /\ EndsUp(n, o) /\ BeginsClose(n, o)
  BY <1>1, <1>2 DEF Awaits, EndsUp, BeginsClose, Final, MayNegotiate
<1> QED BY <1>3, <1>4, <1>5 DEF Proper

(* Everything that a node does is proper. *)
LEMMA KindIsProper ==
    ASSUME BasicInv, Dance, NEW n \in Node, NEW o, NEW inbox, Kind(n, o, inbox)
    PROVE  Proper(n, o)
  BY WorkIsProper, ReestablishesIsProper, ErrsIsProper, StartsIsProper, FinishesIsProper,
     NegotiatesIsProper DEF Kind

-----------------------------------------------------------------------------
(* The messages after a connection is made *)

(* What a step leaves on the way, if it does not end the connection *)
LEMMA StepSends ==
    ASSUME BasicInv, NEW n \in Node, NEW o, NEW inbox,
           Step(n, o, inbox), IsInbox(n, inbox), IsSeq(o.out), o.exc = Ok
    PROVE  /\ ch'[n] = o.c /\ ch'[Peer(n)] = ch[Peer(n)] /\ connected' = connected
           /\ \A k \in 1 .. Len(net'[n]) : \E j \in 1 .. Len(net[n]) : net'[n][k] = net[n][j]
           /\ \A k \in 1 .. Len(net'[Peer(n)]) :
                 \/ \E j \in 1 .. Len(net[Peer(n)]) : net'[Peer(n)][k] = net[Peer(n)][j]
                 \/ \E j \in 1 .. Len(o.out) : net'[Peer(n)][k] = o.out[j]
<1> DEFINE p == Peer(n)
           s == net[p]
           t == o.out
<1>1. p \in Node /\ p # n
  BY PeerFacts
<1>2. /\ ch' = [ch EXCEPT ![n] = o.c] /\ connected' = connected
      /\ net' = [net EXCEPT ![n] = inbox, ![p] = IF connected THEN @ \o t ELSE @]
  BY DEF Step
<1>3. /\ ch'[n] = o.c /\ ch'[p] = ch[p] /\ net'[n] = inbox
      /\ net'[p] = IF connected THEN s \o t ELSE s
  BY <1>1, <1>2 DEF BasicInv, Types
<1>4. \A k \in 1 .. Len(inbox) : \E j \in 1 .. Len(net[n]) : inbox[k] = net[n][j]
  BY InboxIs
<1>5. IsSeq(s) /\ IsSeq(t)
  BY <1>1 DEF BasicInv, Types
<1> HIDE DEF s, t, p
<1>6. ASSUME NEW k \in 1 .. Len(s \o t)
      PROVE  \/ \E j \in 1 .. Len(s) : (s \o t)[k] = s[j]
             \/ \E j \in 1 .. Len(t) : (s \o t)[k] = t[j]
  <2>1. \/ k \in 1 .. Len(s) /\ (s \o t)[k] = s[k]
        \/ \E j \in 1 .. Len(t) : k = Len(s) + j /\ (s \o t)[k] = t[j]
    BY <1>5, <1>6, ConcatElements
  <2> QED BY <2>1
<1>7. \A k \in 1 .. Len(net'[p]) :
          \/ \E j \in 1 .. Len(s) : net'[p][k] = s[j]
          \/ \E j \in 1 .. Len(t) : net'[p][k] = t[j]
  <2>1. CASE connected
    BY <1>3, <1>6, <2>1
  <2>2. CASE ~connected
    BY <1>3, <2>2
  <2> QED BY <2>1, <2>2
<1>8. \A k \in 1 .. Len(net'[n]) : \E j \in 1 .. Len(net[n]) : net'[n][k] = net[n][j]
  BY <1>3, <1>4
<1> QED BY <1>2, <1>3, <1>7, <1>8 DEF p, s, t

(* The ctns only go up, and only with what arrived. *)
LEMMA MovesUp ==
    ASSUME BasicInv, NEW n \in Node, NEW o, NEW txs, Fine(n, o, txs)
    PROVE  /\ \A s \in Owner : /\ ch[n].hm.ctn[s] \in Nat /\ o.c.hm.ctn[s] \in Nat
                               /\ ch[n].hm.ctn[s] <= o.c.hm.ctn[s]
           /\ \/ o.c.hm.ctn[Remote] = ch[n].hm.ctn[Remote]
              \/ o.c.hm.ctn[Remote] <= ch[Peer(n)].hm.ctn[Local]
<1>1. /\ IsLog(ch[n].hm, SignedBy(n)) /\ IsLog(o.c.hm, txs) /\ Moves(n, o.c.hm)
      /\ IsLog(ch[Peer(n)].hm, SignedBy(Peer(n)))
  BY PeerFacts DEF Fine, Sound, BasicInv, Types, IsChannel
<1>2. \A s \in Owner : ch[n].hm.ctn[s] \in Nat /\ o.c.hm.ctn[s] \in Nat
  BY <1>1 DEF IsLog
<1>3. \A s \in Owner : ch[n].hm.ctn[s] <= o.c.hm.ctn[s]
  BY <1>1, <1>2, OwnerFacts DEF Moves
<1>4. SecretArrived(n) => ch[n].hm.ctn[Remote] + 1 <= ch[Peer(n)].hm.ctn[Local]
  <2> SUFFICES ASSUME SecretArrived(n)
               PROVE  ch[n].hm.ctn[Remote] + 1 <= ch[Peer(n)].hm.ctn[Local]
    OBVIOUS
  <2>1. ch[n].hm.ctn[Remote] \in Nat /\ ch[Peer(n)].hm.ctn[Local] \in Nat
    BY <1>1, OwnerFacts DEF IsLog
  <2>2. IsMessage(n, Head(net[n]))
    BY HeadIs DEF SecretArrived
  <2>3. ch[n].hm.ctn[Remote] < ch[Peer(n)].hm.ctn[Local]
    BY <2>2 DEF IsMessage, IsSent, SecretArrived
  <2> QED BY <2>1, <2>3
<1> QED BY <1>1, <1>2, <1>3, <1>4 DEF Moves

(* As long as the other node is not good, nothing arrives that moves a ctn. *)
LEMMA CtnsHeld ==
    ASSUME BasicInv, Dance, NEW n \in Node, NEW o, NEW txs, Fine(n, o, txs), ~Good(Peer(n))
    PROVE  o.c.hm.ctn[Local] = ch[n].hm.ctn[Local] /\ o.c.hm.ctn[Remote] = ch[n].hm.ctn[Remote]
<1>1. Peer(n) \in Node /\ Peer(Peer(n)) = n
  BY PeerFacts
<1>2. \A k \in 1 .. Len(net[n]) : net[n][k].type \notin {"revoke_and_ack", "commitment_signed"}
  BY <1>1 DEF Dance
<1>3. ~SignatureArrived(n) /\ ~SecretArrived(n)
  <2>1. net[n] # << >> => Head(net[n]) = net[n][1] /\ 1 \in 1 .. Len(net[n])
    BY HeadIs
  <2> QED BY <1>2, <2>1 DEF SignatureArrived, SecretArrived
<1> QED BY <1>3 DEF Fine, Sound, Moves

\* What Dance says of n
DanceAt(n) ==
    /\ Good(n) => ch[Peer(n)].hm.ctn[Remote] <= ch[n].hm.ctn[Local]
    /\ ~Good(n) => \A k \in 1 .. Len(net[Peer(n)]) :
          net[Peer(n)][k].type \notin {"revoke_and_ack", "commitment_signed"}
    /\ \A k \in 1 .. Len(net[n]) : IsAnnouncement(n, net[n][k])
    /\ Blocked(ch[n]) =>
          LET x == ch[n].reest[1]
          IN  /\ x.type = "channel_reestablish"
              /\ x.next_revocation_number <= ch[n].hm.ctn[Local]
              /\ ~Good(n) => Tells(n, x)
    /\ \A k \in 1 .. Len(net[n]) :
          net[n][k].type = "error" => ch[Peer(n)].state = "WE_ARE_TOXIC"
    /\ ch[n].close.is_local => left.restores = 0 /\ left.crashes = 0
    /\ ch[n].task = "spawned" => ch[n].state \in Final

(* Where nobody is connected, nothing is on the way. *)
LEMMA DanceBroken ==
    ASSUME \A q \in Node :
               /\ ch'[q].peer_state = "DISCONNECTED" /\ ch'[q].task = "none"
               /\ ch'[q].reest = << >> /\ net'[q] = << >>
               /\ ch'[q].close.is_local => left'.restores = 0 /\ left'.crashes = 0
    PROVE  Dance'
<1>1. ASSUME NEW q \in Node PROVE DanceAt(q)'
  <2>1. Peer(q) \in Node
    BY PeerFacts
  <2>2. /\ ~Good(q)' /\ ~Blocked(ch'[q]) /\ Len(net'[q]) = 0 /\ Len(net'[Peer(q)]) = 0
        /\ ch'[q].task = "none"
    BY <2>1, ShortSeqs DEF Good, Blocked
  <2> QED BY <2>2 DEF DanceAt
<1> QED BY <1>1 DEF Dance, DanceAt


\* n took a step, which did not end the connection, with outcome o.
Leads(n, o) ==
    /\ o.exc = Ok /\ Proper(n, o) /\ Bounds
    /\ \E txs : Fine(n, o, txs)
    /\ ch'[n] = o.c /\ ch'[Peer(n)] = ch[Peer(n)]
    /\ \A k \in 1 .. Len(net'[n]) : \E j \in 1 .. Len(net[n]) : net'[n][k] = net[n][j]
    /\ \A k \in 1 .. Len(net'[Peer(n)]) :
          \/ \E j \in 1 .. Len(net[Peer(n)]) : net'[Peer(n)][k] = net[Peer(n)][j]
          \/ \E j \in 1 .. Len(o.out) : net'[Peer(n)][k] = o.out[j]

\* Tells and IsAnnouncement of the next state
TellsThen(n, x) ==
    /\ x.next_commitment_number = ch'[Peer(n)].hm.ctn[Local] + 1
    /\ x.next_revocation_number = ch'[Peer(n)].hm.ctn[Remote]

IsAnnouncementThen(n, x) ==
    x.type = "channel_reestablish" =>
        /\ x.next_revocation_number <= ch'[Peer(n)].hm.ctn[Remote]
        /\ ch'[n].peer_state # "GOOD" =>
              \/ TellsThen(n, x)
              \/ ch'[Peer(n)].state = "WE_ARE_TOXIC"
                 /\ x.next_commitment_number = 0 /\ x.next_revocation_number = 0

\* DanceAt of the next state
DanceThen(n) ==
    /\ ch'[n].peer_state = "GOOD" => ch'[Peer(n)].hm.ctn[Remote] <= ch'[n].hm.ctn[Local]
    /\ ch'[n].peer_state # "GOOD" => \A k \in 1 .. Len(net'[Peer(n)]) :
          net'[Peer(n)][k].type \notin {"revoke_and_ack", "commitment_signed"}
    /\ \A k \in 1 .. Len(net'[n]) : IsAnnouncementThen(n, net'[n][k])
    /\ Blocked(ch'[n]) =>
          LET x == ch'[n].reest[1]
          IN  /\ x.type = "channel_reestablish"
              /\ x.next_revocation_number <= ch'[n].hm.ctn[Local]
              /\ ch'[n].peer_state # "GOOD" => TellsThen(n, x)
    /\ \A k \in 1 .. Len(net'[n]) :
          net'[n][k].type = "error" => ch'[Peer(n)].state = "WE_ARE_TOXIC"
    /\ ch'[n].close.is_local => left'.restores = 0 /\ left'.crashes = 0
    /\ ch'[n].task = "spawned" => ch'[n].state \in Final

(* DanceThen says so. *)
LEMMA DanceThenIs == ASSUME NEW n, DanceThen(n) PROVE DanceAt(n)'
  BY DEF DanceThen, DanceAt, IsAnnouncementThen, IsAnnouncement, TellsThen, Tells, Good

(* Such a step keeps what holds of the messages on the way to n... *)
LEMMA StepDancesHere ==
    ASSUME BasicInv, Dance, NEW n \in Node, NEW o, Leads(n, o)
    PROVE  DanceThen(n)
<1> DEFINE p == Peer(n)
<1>1. p \in Node /\ Peer(p) = n
  BY PeerFacts
<1>2. /\ Proper(n, o) /\ Bounds /\ ch'[n] = o.c /\ ch'[p] = ch[p]
      /\ \A k \in 1 .. Len(net'[n]) : \E j \in 1 .. Len(net[n]) : net'[n][k] = net[n][j]
      /\ \A k \in 1 .. Len(net'[p]) :
            \/ \E j \in 1 .. Len(net[p]) : net'[p][k] = net[p][j]
            \/ \E j \in 1 .. Len(o.out) : net'[p][k] = o.out[j]
  BY DEF Leads
<1>3. PICK txs : Fine(n, o, txs)
  BY DEF Leads
<1>4. /\ \A s \in Owner : /\ ch[n].hm.ctn[s] \in Nat /\ o.c.hm.ctn[s] \in Nat
                          /\ ch[n].hm.ctn[s] <= o.c.hm.ctn[s]
  BY <1>3, MovesUp
<1>5. ch[p].hm.ctn[Local] \in Nat /\ ch[p].hm.ctn[Remote] \in Nat
  BY <1>1, OwnerFacts DEF BasicInv, Types, IsChannel, IsLog
<1>6. DanceAt(n) /\ DanceAt(p)
  BY <1>1 DEF Dance, DanceAt
<1> HIDE DEF p
<1>7. /\ ch'[n].peer_state = "GOOD" => Good(n) \/ Blocked(ch[n])
      /\ Good(n) => ch'[n].peer_state = "GOOD"
      /\ \A k \in 1 .. Len(o.out) :
            o.out[k].type \in {"revoke_and_ack", "commitment_signed"} => ch'[n].peer_state = "GOOD"
  BY <1>2 DEF Proper, GoodInTime, Good
<1>8. \/ o.c.reest \in {ch[n].reest, << >>, <<Exception>>}
      \/ /\ ReestablishArrived(n) /\ o.c.reest = <<Head(net[n])>>
         /\ Head(net[n]).next_revocation_number <= ch[n].hm.ctn[Local]
         /\ ~Differ(ch[n].hm, Head(net[n]))
  BY <1>2 DEF Proper, Awaits
<1>9. ch'[n].peer_state = "GOOD" => ch[p].hm.ctn[Remote] <= o.c.hm.ctn[Local]
  <2> SUFFICES ASSUME ch'[n].peer_state = "GOOD" PROVE ch[p].hm.ctn[Remote] <= ch[n].hm.ctn[Local]
    BY <1>4, <1>5, OwnerFacts
  <2>1. CASE Good(n)
    BY <1>6, <2>1 DEF DanceAt, p
  <2>2. CASE Blocked(ch[n]) /\ ~Good(n)
    BY <1>6, <2>2 DEF DanceAt, Tells, p
  <2> QED BY <1>7, <2>1, <2>2
<1>10. ch'[n].peer_state # "GOOD" => \A k \in 1 .. Len(net'[p]) :
          net'[p][k].type \notin {"revoke_and_ack", "commitment_signed"}
  BY <1>2, <1>6, <1>7 DEF DanceAt, p
<1>11. ASSUME NEW k \in 1 .. Len(net'[n])
       PROVE  IsAnnouncementThen(n, net'[n][k])
  <2> DEFINE x == net'[n][k]
  <2>1. IsAnnouncement(n, x)
    BY <1>2, <1>6 DEF DanceAt
  <2>2. ch'[n].peer_state # "GOOD" => ~Good(n)
    BY <1>7
  <2> HIDE DEF x
  <2>3. x.type = "channel_reestablish" =>
            /\ x.next_revocation_number <= ch'[p].hm.ctn[Remote]
            /\ ch'[n].peer_state # "GOOD" =>
                  \/ /\ x.next_commitment_number = ch'[p].hm.ctn[Local] + 1
                     /\ x.next_revocation_number = ch'[p].hm.ctn[Remote]
                  \/ /\ ch'[p].state = "WE_ARE_TOXIC"
                     /\ x.next_commitment_number = 0 /\ x.next_revocation_number = 0
    BY <1>2, <2>1, <2>2 DEF IsAnnouncement, Tells, p
  <2> QED BY <2>3 DEF IsAnnouncementThen, TellsThen, p, x
<1>12. Blocked(o.c) =>
          LET x == o.c.reest[1]
          IN  /\ x.type = "channel_reestablish"
              /\ x.next_revocation_number \in Nat
              /\ x.next_revocation_number <= ch[n].hm.ctn[Local]
              /\ ~Good(n) => Tells(n, x)
  <2>1. CASE o.c.reest \in {<< >>, <<Exception>>}
    BY <2>1 DEF Blocked
  <2>2. CASE o.c.reest = ch[n].reest
    <3>1. Blocked(ch[n]) => /\ ch[n].reest[1].type = "channel_reestablish"
                            /\ ch[n].reest[1].next_revocation_number \in Nat
      BY DEF BasicInv, Types, IsChannel, Blocked
    <3> QED BY <1>6, <2>2, <3>1 DEF DanceAt, Blocked
  <2>3. CASE /\ ReestablishArrived(n) /\ o.c.reest = <<Head(net[n])>>
             /\ Head(net[n]).next_revocation_number <= ch[n].hm.ctn[Local]
             /\ ~Differ(ch[n].hm, Head(net[n]))
    <3> DEFINE x == Head(net[n])
    <3>1. /\ Len(net[n]) \in Nat \ {0} /\ x = net[n][1] /\ IsMessage(n, x)
          /\ x.type = "channel_reestablish"
      BY <2>3, HeadIs DEF ReestablishArrived
    <3>2. 1 \in 1 .. Len(net[n])
      BY <3>1
    <3>3. x.next_revocation_number \in Nat
      BY <3>1 DEF IsMessage, IsSent
    <3>4. o.c.reest[1] = x
      BY <2>3
    <3>5. IsAnnouncement(n, x)
      BY <1>6, <3>1, <3>2 DEF DanceAt
    <3>6. x.next_commitment_number # 0
      <4> SUFFICES ASSUME x.next_commitment_number = 0 PROVE Differ(ch[n].hm, x)
        BY <2>3
      <4>1. ch[n].hm.ctn[Remote] \in Nat
        BY <1>4, OwnerFacts
      <4>2. /\ ctn_latest(ch[n].hm, Remote) >= 0 /\ next_ctn(ch[n].hm, Remote) > 0
            /\ ch[n].hm.revack[Remote] => ctn_latest(ch[n].hm, Remote) > 0
        BY <4>1 DEF ctn_latest, next_ctn
      <4> HIDE DEF x
      <4> QED BY <4>2 DEF Differ
    <3> HIDE DEF x
    <3> QED BY <2>3, <3>1, <3>3, <3>4, <3>5, <3>6 DEF IsAnnouncement, x
  <2> QED BY <1>8, <2>1, <2>2, <2>3
<1>13. Blocked(ch'[n]) =>
          LET x == ch'[n].reest[1]
          IN  /\ x.type = "channel_reestablish"
              /\ x.next_revocation_number <= ch'[n].hm.ctn[Local]
              /\ ch'[n].peer_state # "GOOD" => TellsThen(n, x)
  <2> SUFFICES ASSUME Blocked(o.c)
               PROVE  LET x == o.c.reest[1]
                      IN  /\ x.type = "channel_reestablish"
                          /\ x.next_revocation_number <= o.c.hm.ctn[Local]
                          /\ ch'[n].peer_state # "GOOD" => TellsThen(n, x)
    BY <1>2
  <2> DEFINE x == o.c.reest[1]
  <2>1. /\ x.type = "channel_reestablish" /\ x.next_revocation_number \in Nat
        /\ x.next_revocation_number <= ch[n].hm.ctn[Local]
        /\ ~Good(n) => Tells(n, x)
    BY <1>12
  <2> HIDE DEF x
  <2>2. x.next_revocation_number <= o.c.hm.ctn[Local]
    BY <1>4, <2>1, OwnerFacts
  <2>3. Tells(n, x) => TellsThen(n, x)
    BY <1>2 DEF Tells, TellsThen, p
  <2> QED BY <1>7, <2>1, <2>2, <2>3 DEF x
<1>14. \A k \in 1 .. Len(net'[n]) : net'[n][k].type = "error" => ch'[p].state = "WE_ARE_TOXIC"
  BY <1>2, <1>6 DEF DanceAt, p
<1>15. ch'[n].close.is_local => left'.restores = 0 /\ left'.crashes = 0
  BY <1>2, <1>6 DEF DanceAt, Proper, BeginsClose, NothingLost, Bounds
<1>16. ch'[n].task = "spawned" => ch'[n].state \in Final
  BY <1>2, <1>6 DEF DanceAt, Proper, EndsUp
<1> QED BY <1>2, <1>9, <1>10, <1>11, <1>13, <1>14, <1>15, <1>16 DEF DanceThen, p

(* ... and of those on the way to the other node. *)
LEMMA StepDancesThere ==
    ASSUME BasicInv, Dance, NEW n \in Node, NEW o, Leads(n, o)
    PROVE  DanceThen(Peer(n))
<1> DEFINE p == Peer(n)
<1>1. p \in Node /\ Peer(p) = n
  BY PeerFacts
<1>2. /\ Proper(n, o) /\ Bounds /\ ch'[n] = o.c /\ ch'[p] = ch[p]
      /\ \A k \in 1 .. Len(net'[n]) : \E j \in 1 .. Len(net[n]) : net'[n][k] = net[n][j]
      /\ \A k \in 1 .. Len(net'[p]) :
            \/ \E j \in 1 .. Len(net[p]) : net'[p][k] = net[p][j]
            \/ \E j \in 1 .. Len(o.out) : net'[p][k] = o.out[j]
  BY DEF Leads
<1>3. PICK txs : Fine(n, o, txs)
  BY DEF Leads
<1>4. /\ \A s \in Owner : /\ ch[n].hm.ctn[s] \in Nat /\ o.c.hm.ctn[s] \in Nat
                          /\ ch[n].hm.ctn[s] <= o.c.hm.ctn[s]
      /\ \/ o.c.hm.ctn[Remote] = ch[n].hm.ctn[Remote]
         \/ o.c.hm.ctn[Remote] <= ch[p].hm.ctn[Local]
  BY <1>3, MovesUp
<1>5. DanceAt(n) /\ DanceAt(p)
  BY <1>1 DEF Dance, DanceAt
<1>6. ~Good(p) => o.c.hm.ctn[Local] = ch[n].hm.ctn[Local] /\ o.c.hm.ctn[Remote] = ch[n].hm.ctn[Remote]
  BY <1>3, CtnsHeld
<1>7. \A k \in 1 .. Len(net[p]) : IsMessage(p, net[p][k])
  BY <1>1 DEF BasicInv, Types
<1> HIDE DEF p
<1>8. ch'[p].peer_state = "GOOD" <=> Good(p)
  BY <1>2 DEF Good
<1>9. ch[n].state = "WE_ARE_TOXIC" => ch'[n].state = "WE_ARE_TOXIC"
  BY <1>2 DEF Proper, EndsUp, Final
<1>10. ch'[p].peer_state = "GOOD" => ch'[n].hm.ctn[Remote] <= ch'[p].hm.ctn[Local]
  BY <1>1, <1>2, <1>4, <1>5, <1>8 DEF DanceAt
<1>11. ch'[p].peer_state # "GOOD" => \A k \in 1 .. Len(net'[n]) :
          net'[n][k].type \notin {"revoke_and_ack", "commitment_signed"}
  BY <1>1, <1>2, <1>5, <1>8 DEF DanceAt
<1>12. ASSUME NEW k \in 1 .. Len(net'[p])
       PROVE  IsAnnouncementThen(p, net'[p][k])
  <2> DEFINE x == net'[p][k]
  <2>1. \/ \E j \in 1 .. Len(net[p]) : x = net[p][j]
        \/ \E j \in 1 .. Len(o.out) : x = o.out[j]
    BY <1>2
  <2> HIDE DEF x
  <2> SUFFICES ASSUME x.type = "channel_reestablish"
               PROVE  /\ x.next_revocation_number <= o.c.hm.ctn[Remote]
                      /\ ~Good(p) => \/ /\ x.next_commitment_number = o.c.hm.ctn[Local] + 1
                                        /\ x.next_revocation_number = o.c.hm.ctn[Remote]
                                     \/ /\ o.c.state = "WE_ARE_TOXIC"
                                        /\ x.next_commitment_number = 0
                                        /\ x.next_revocation_number = 0
    BY <1>1, <1>2, <1>8 DEF IsAnnouncementThen, TellsThen, x
  <2>2. ASSUME NEW j \in 1 .. Len(net[p]), x = net[p][j]
        PROVE  /\ x.next_revocation_number <= o.c.hm.ctn[Remote]
               /\ ~Good(p) => \/ /\ x.next_commitment_number = o.c.hm.ctn[Local] + 1
                                 /\ x.next_revocation_number = o.c.hm.ctn[Remote]
                              \/ /\ o.c.state = "WE_ARE_TOXIC"
                                 /\ x.next_commitment_number = 0
                                 /\ x.next_revocation_number = 0
    <3>1. IsAnnouncement(p, x) /\ IsMessage(p, x)
      BY <1>5, <1>7, <2>2 DEF DanceAt
    <3>2. x.next_revocation_number \in Nat
      BY <3>1 DEF IsMessage, IsSent
    <3>3. /\ x.next_revocation_number <= ch[n].hm.ctn[Remote]
          /\ ~Good(p) => \/ /\ x.next_commitment_number = ch[n].hm.ctn[Local] + 1
                            /\ x.next_revocation_number = ch[n].hm.ctn[Remote]
                         \/ /\ ch[n].state = "WE_ARE_TOXIC"
                            /\ x.next_commitment_number = 0
                            /\ x.next_revocation_number = 0
      BY <1>1, <3>1 DEF IsAnnouncement, Tells
    <3> QED BY <1>2, <1>4, <1>6, <1>9, <3>2, <3>3, OwnerFacts
  <2>3. ASSUME NEW j \in 1 .. Len(o.out), x = o.out[j]
        PROVE  /\ x.next_revocation_number <= o.c.hm.ctn[Remote]
               /\ \/ /\ x.next_commitment_number = o.c.hm.ctn[Local] + 1
                     /\ x.next_revocation_number = o.c.hm.ctn[Remote]
                  \/ /\ o.c.state = "WE_ARE_TOXIC"
                     /\ x.next_commitment_number = 0
                     /\ x.next_revocation_number = 0
    <3>1. \/ x = OwnAnnouncement(ch[n].hm) /\ o.c.hm.ctn = ch[n].hm.ctn
          \/ ch[n].state = "WE_ARE_TOXIC" /\ x = channel_reestablish(0, 0)
      BY <1>2, <2>3 DEF Proper, SaysItself
    <3>2. CASE x = OwnAnnouncement(ch[n].hm) /\ o.c.hm.ctn = ch[n].hm.ctn
      BY <1>4, <3>2, OwnerFacts DEF OwnAnnouncement, channel_reestablish
    <3>3. CASE ch[n].state = "WE_ARE_TOXIC" /\ x = channel_reestablish(0, 0)
      BY <1>2, <1>4, <1>9, <3>3, OwnerFacts DEF channel_reestablish
    <3> QED BY <3>1, <3>2, <3>3
  <2> QED BY <2>1, <2>2, <2>3
<1>13. Blocked(ch'[p]) =>
          LET x == ch'[p].reest[1]
          IN  /\ x.type = "channel_reestablish"
              /\ x.next_revocation_number <= ch'[p].hm.ctn[Local]
              /\ ch'[p].peer_state # "GOOD" => TellsThen(p, x)
  <2> SUFFICES ASSUME Blocked(ch[p])
               PROVE  LET x == ch[p].reest[1]
                      IN  /\ x.type = "channel_reestablish"
                          /\ x.next_revocation_number <= ch[p].hm.ctn[Local]
                          /\ ch'[p].peer_state # "GOOD" => TellsThen(p, x)
    BY <1>2
  <2> DEFINE x == ch[p].reest[1]
  <2>1. /\ x.type = "channel_reestablish" /\ x.next_revocation_number <= ch[p].hm.ctn[Local]
        /\ ~Good(p) => Tells(p, x)
    BY <1>5 DEF DanceAt
  <2> HIDE DEF x
  <2>2. ~Good(p) /\ Tells(p, x) => TellsThen(p, x)
    BY <1>1, <1>2, <1>6 DEF Tells, TellsThen
  <2> QED BY <1>8, <2>1, <2>2 DEF x
<1>14. \A k \in 1 .. Len(net'[p]) : net'[p][k].type = "error" => ch'[n].state = "WE_ARE_TOXIC"
  BY <1>1, <1>2, <1>5, <1>9 DEF DanceAt, Proper, SaysItself
<1>15. ch'[p].close.is_local => left'.restores = 0 /\ left'.crashes = 0
  BY <1>2, <1>5 DEF DanceAt, Bounds
<1>16. ch'[p].task = "spawned" => ch'[p].state \in Final
  BY <1>2, <1>5 DEF DanceAt
<1>17. DanceThen(p)
  BY <1>1, <1>10, <1>11, <1>12, <1>13, <1>14, <1>15, <1>16 DEF DanceThen
<1> QED BY <1>17 DEF p

-----------------------------------------------------------------------------
(* The types, and the messages after a connection is made, as an invariant *)

DanceInv == BasicInv /\ Dance

(* A step of a node keeps that invariant. *)
LEMMA ActsDances ==
    ASSUME DanceInv, NEW n \in Node, Acts(n)
    PROVE  DanceInv'
<1>1. PICK o, inbox : /\ Step(n, o, inbox) /\ IsInbox(n, inbox) /\ Outcome(n, o)
                      /\ Kind(n, o, inbox)
  BY DEF Acts
<1>2. Bounds /\ BasicInv /\ Dance
  BY DEF Acts, DanceInv
<1>3. BasicInv'
  BY <1>1, <1>2, StepIsBasic
<1>4. Proper(n, o)
  BY <1>1, <1>2, KindIsProper
<1>5. PICK txs : Fine(n, o, txs)
  BY <1>1, StepSigns
<1>6. IsSeq(o.out) /\ IsChannel(o.c, txs)
  BY <1>5 DEF Fine, Sound
<1>7. CASE o.exc = Ok
  <2>1. Leads(n, o)
    BY <1>1, <1>2, <1>4, <1>5, <1>6, <1>7, StepSends DEF Leads
  <2>2. DanceThen(n) /\ DanceThen(Peer(n))
    BY <1>2, <2>1, StepDancesHere, StepDancesThere
  <2>3. \A q \in Node : DanceThen(q)
    BY <2>2, PeerFacts
  <2>4. \A q \in Node : DanceAt(q)'
    BY <2>3, DanceThenIs
  <2> QED BY <1>3, <2>4 DEF Dance, DanceAt, DanceInv
<1>8. CASE o.exc # Ok
  <2>1. /\ ch' = [q \in Node |-> Disconnected(IF q = n THEN o.c ELSE ch[q])]
        /\ net' = [q \in Node |-> << >>]
    BY <1>1, <1>8 DEF Step
  <2>2. ASSUME NEW q \in Node
        PROVE  /\ ch'[q].peer_state = "DISCONNECTED" /\ ch'[q].task = "none"
               /\ ch'[q].reest = << >> /\ net'[q] = << >>
               /\ ch'[q].close.is_local => left'.restores = 0 /\ left'.crashes = 0
    <3> DEFINE c == IF q = n THEN o.c ELSE ch[q]
               S == IF q = n THEN txs ELSE SignedBy(q)
    <3>1. IsChannel(c, S) /\ ch'[q] = Disconnected(c) /\ net'[q] = << >>
      BY <1>2, <1>6, <2>1 DEF BasicInv, Types
    <3>2. c.close.is_local => left.restores = 0 /\ left.crashes = 0
      BY <1>2, <1>4 DEF Dance, Proper, BeginsClose, NothingLost
    <3> HIDE DEF c, S
    <3>3. LET d == Disconnected(c)
          IN  /\ d.peer_state = "DISCONNECTED" /\ d.task = "none" /\ d.reest = << >>
              /\ d.close = IF c.close.is_local THEN c.close ELSE NotClosing
      BY <3>1, DisconnectedIs
    <3> QED BY <1>2, <3>1, <3>2, <3>3 DEF NotClosing, Bounds
  <2> QED BY <1>3, <2>2, DanceBroken DEF DanceInv
<1> QED BY <1>7, <1>8

(* So does the end of a connection. *)
LEMMA DropDances ==
    ASSUME BasicInv, Dance, NEW channels, DropConnection(channels),
           \A q \in Node : IsChannel(channels[q], SignedBy(q)) /\ channels[q].close = ch[q].close,
           \/ left'.restores = left.restores /\ left'.crashes = left.crashes
           \/ left.restores > 0 \/ left.crashes > 0
    PROVE  Dance'
<1>1. /\ ch' = [q \in Node |-> Disconnected(channels[q])] /\ net' = [q \in Node |-> << >>]
  BY DEF DropConnection
<1>2. ASSUME NEW q \in Node
      PROVE  /\ ch'[q].peer_state = "DISCONNECTED" /\ ch'[q].task = "none"
             /\ ch'[q].reest = << >> /\ net'[q] = << >>
             /\ ch'[q].close.is_local => left'.restores = 0 /\ left'.crashes = 0
  <2> DEFINE c == channels[q]
             txs == SignedBy(q)
  <2>1. IsChannel(c, txs) /\ ch'[q] = Disconnected(c) /\ net'[q] = << >>
    BY <1>1
  <2>2. c.close.is_local => left.restores = 0 /\ left.crashes = 0
    BY DEF Dance
  <2> HIDE DEF c, txs
  <2>3. LET d == Disconnected(c)
        IN  /\ d.peer_state = "DISCONNECTED" /\ d.task = "none" /\ d.reest = << >>
            /\ d.close = IF c.close.is_local THEN c.close ELSE NotClosing
    BY <2>1, DisconnectedIs
  <2> QED BY <2>1, <2>2, <2>3 DEF NotClosing
<1> QED BY <1>2, DanceBroken

(* So does what happens to the connection, the processes and the files. *)
LEMMA EnvironmentDances ==
    ASSUME DanceInv,
           \/ Connect \/ Disconnect
           \/ \E n \in Node : Crash(n) \/ SaveDb(n) \/ Backup(n) \/ Restore(n)
    PROVE  DanceInv'
<1>1. BasicInv /\ Dance
  BY DEF DanceInv
<1>2. BasicInv'
  BY <1>1, EnvironmentIsBasic
<1>3. CASE ch' = ch /\ net' = net /\ left' = left
  BY <1>1, <1>2, <1>3 DEF DanceInv, Dance, IsAnnouncement, Tells, Good
<1>4. CASE Connect \/ \E n \in Node : SaveDb(n) \/ Backup(n)
  BY <1>3, <1>4 DEF Connect, SaveDb, Backup
<1>5. /\ DOMAIN left = {"disconnects", "crashes", "feeUpdates", "restores"}
      /\ \A q \in Node : /\ IsChannel(ch[q], SignedBy(q))
                         /\ q \in Persistent => IsFile(disk[q], SignedBy(q))
                         /\ backup[q] # NoFile => IsFile(backup[q], SignedBy(q))
  BY <1>1 DEF BasicInv, Types
<1>6. CASE Disconnect
  <2>1. DropConnection(ch) /\ left'.restores = left.restores /\ left'.crashes = left.crashes
    BY <1>5, <1>6 DEF Disconnect
  <2> QED BY <1>1, <1>2, <1>5, <2>1, DropDances DEF DanceInv
<1>7. ASSUME NEW n \in Node, NEW file, IsFile(file, SignedBy(n)), DropConnection(Loaded(n, file)),
             left.restores > 0 \/ left.crashes > 0
      PROVE  DanceInv'
  <2> DEFINE channels == Loaded(n, file)
  <2>1. /\ IsChannel(Reads(n, file), SignedBy(n))
        /\ SameBut({"hm", "state", "may_update"}, ch[n], Reads(n, file))
    BY <1>1, <1>7, ReadsIs
  <2>2. Reads(n, file).close = ch[n].close
    BY <2>1 DEF SameBut, ChannelFields
  <2>3. channels[n] = Reads(n, file) /\ \A q \in Node : q # n => channels[q] = ch[q]
    BY <1>1, LoadedIs
  <2>4. DropConnection(channels)
    BY <1>7
  <2> HIDE DEF channels
  <2>5. \A q \in Node : IsChannel(channels[q], SignedBy(q)) /\ channels[q].close = ch[q].close
    BY <1>5, <2>1, <2>2, <2>3
  <2> QED BY <1>1, <1>2, <1>7, <2>4, <2>5, DropDances DEF DanceInv
<1>8. ASSUME NEW n \in Node, Crash(n) PROVE DanceInv'
  BY <1>5, <1>7, <1>8 DEF Crash
<1>9. ASSUME NEW n \in Node, Restore(n) PROVE DanceInv'
  BY <1>5, <1>7, <1>9 DEF Restore
<1> QED BY <1>4, <1>6, <1>8, <1>9

(* At the start all is as it should be. *)
LEMMA InitDances == Init => DanceInv
<1> SUFFICES ASSUME Init PROVE DanceInv
  OBVIOUS
<1> DEFINE rate == CHOOSE r \in Rates : TRUE
<1> HIDE DEF rate
<1>1. ASSUME NEW f, NEW txs PROVE IsLog(NewLog(f, rate), txs)
  BY OwnerFacts, ShortSeqs DEF NewLog, IsLog, LogFields, IsUnacked
<1>2. /\ DOMAIN ch = Node /\ DOMAIN net = Node /\ DOMAIN disk = Node /\ DOMAIN backup = Node
      /\ DOMAIN left = {"disconnects", "crashes", "feeUpdates", "restores"}
      /\ connected = TRUE /\ alarms = {}
  BY DEF Init
<1>3. ASSUME NEW n \in Node
      PROVE  /\ DOMAIN ch[n] = ChannelFields
             /\ ch[n].hm = NewLog(SideOf(n, Funder), rate) /\ ch[n].state = "OPEN"
             /\ ch[n].peer_state = "GOOD" /\ ch[n].task = "none" /\ ch[n].reest = << >>
             /\ ch[n].close = NotClosing /\ ch[n].shutdown = FALSE
             /\ net[n] = << >> /\ backup[n] = NoFile
             /\ n \in Persistent => disk[n] = FileOf(ch[n])
  BY <1>3 DEF Init, ChannelFields, rate
<1>4. ASSUME NEW n \in Node PROVE IsChannel(ch[n], SignedBy(n)) /\ IsSeq(net[n]) /\ Len(net[n]) = 0
  <2>1. IsLog(NewLog(SideOf(n, Funder), rate), SignedBy(n))
    BY <1>1
  <2>2. {"at", "is_local", "received"} \subseteq DOMAIN NotClosing /\ NotClosing.is_local = FALSE
    BY DEF NotClosing
  <2>3. IsLog(ch[n].hm, SignedBy(n)) /\ ch[n].close.is_local \in BOOLEAN
    BY <1>3, <2>1, <2>2
  <2>4. IsChannel(ch[n], SignedBy(n))
    BY <1>3, <2>2, <2>3 DEF IsChannel, States, PeerStates
  <2> QED BY <1>3, <2>4, ShortSeqs
<1>5. Types
  <2>1. ASSUME NEW n \in Node PROVE TypesAt(n)
    <3>1. n \in Persistent => IsFile(disk[n], SignedBy(n))
      BY <1>3, <1>4, FileAgrees DEF Agrees
    <3>2. IsChannel(ch[n], SignedBy(n)) /\ IsSeq(net[n]) /\ Len(net[n]) = 0 /\ backup[n] = NoFile
      BY <1>3, <1>4
    <3> QED BY <1>2, <3>1, <3>2 DEF TypesAt
  <2> QED BY <1>2, <2>1, TypesAre
<1>6. Saved
  <2>1. ASSUME NEW n \in Persistent
        PROVE  /\ disk[n].hm.ctn = ch[n].hm.ctn /\ disk[n].hm.revack = ch[n].hm.revack
               /\ disk[n].state = ch[n].state
    <3>1. n \in Node
      BY PersistentAssumption
    <3>2. disk[n] = FileOf(ch[n])
      BY <1>3, <3>1
    <3> QED BY <3>2 DEF FileOf
  <2> QED BY <2>1 DEF Saved
<1>7. Dance
  <2>1. ASSUME NEW n \in Node PROVE DanceAt(n)
    <3>1. Peer(n) \in Node
      BY PeerFacts
    <3>2. ch[n].hm.ctn = [s \in Owner |-> 0] /\ ch[Peer(n)].hm.ctn = [s \in Owner |-> 0]
      <4>1. \A f : NewLog(f, rate).ctn = [s \in Owner |-> 0]
        BY DEF NewLog
      <4>2. \A q \in Node : ch[q].hm = NewLog(SideOf(q, Funder), rate)
        BY <1>3
      <4> QED BY <3>1, <4>1, <4>2
    <3>3. ch[Peer(n)].hm.ctn[Remote] <= ch[n].hm.ctn[Local]
      BY <3>2, OwnerFacts
    <3>4. /\ ch[n].peer_state = "GOOD" /\ ch[n].reest = << >> /\ Len(net[n]) = 0
          /\ ch[n].close = NotClosing /\ ch[n].task = "none"
      BY <1>3, <1>4
    <3>5. ~NotClosing.is_local
      BY DEF NotClosing
    <3> QED BY <3>3, <3>4, <3>5 DEF DanceAt, Good, Blocked
  <2> QED BY <2>1 DEF Dance, DanceAt
<1> QED BY <1>5, <1>6, <1>7 DEF DanceInv, BasicInv

(* What a step of the channel is *)
LEMMA NextIs ==
    ASSUME DanceInv, Next
    PROVE  \/ \E n \in Node : Acts(n)
           \/ Connect \/ Disconnect
           \/ \E n \in Node : Crash(n) \/ SaveDb(n) \/ Backup(n) \/ Restore(n)
<1> USE DEF DanceInv
<1>1. ASSUME NEW n \in Node, Deliver(n) PROVE Acts(n)
  BY <1>1, DeliverActs
<1>2. ASSUME NEW n \in Node,
             \/ SendHtlc(n) \/ UpdateFee(n) \/ PollCommitment(n)
             \/ \E i \in HtlcIds : FulfillHtlc(n, i) \/ FailHtlc(n, i)
             \/ StartReestablish(n) \/ FinishReestablish(n)
             \/ CloseChannel(n) \/ CloseStep(n)
      PROVE  Acts(n)
  BY <1>2, OwnStepActs
<1> QED BY <1>1, <1>2 DEF Next

(* A step keeps the types, and how the two nodes find each other. *)
LEMMA DanceStep == DanceInv /\ [Next]_vars => DanceInv'
<1> SUFFICES ASSUME DanceInv, [Next]_vars PROVE DanceInv'
  OBVIOUS
<1>1. CASE Next
  BY <1>1, NextIs, ActsDances, EnvironmentDances
<1>2. CASE UNCHANGED vars
  <2>1. UNCHANGED <<ch, net, connected, disk, backup, left, signed, alarms>>
    BY <1>2 DEF vars
  <2>2. Types'
    BY <2>1 DEF DanceInv, BasicInv, Types, IsMessage, SignedBy
  <2>3. Saved' /\ Dance'
    BY <2>1 DEF DanceInv, BasicInv, Saved, Dance, IsAnnouncement, Tells, Good
  <2> QED BY <2>2, <2>3 DEF DanceInv, BasicInv
<1> QED BY <1>1, <1>2

(* So they hold at any time. *)
LEMMA DanceAlways == Spec => []DanceInv
  BY InitDances, DanceStep, PTL DEF Spec

(* The variables have the types that TypeOK says: the channel has one of its states, at   *)
(* most one message waits for reestablish_channel, and nothing is on its way to a node    *)
(* that is not connected.  The wallet file has the ctns of the channel, too.              *)
THEOREM ChannelTypes == Spec => []TypeOK
<1>1. DanceInv => TypeOK
  <2> SUFFICES ASSUME DanceInv PROVE TypeOK
    OBVIOUS
  <2>1. Types
    BY DEF DanceInv, BasicInv
  <2>2. ASSUME NEW n \in Node
        PROVE  /\ ch[n].state \in States
               /\ ch[n].peer_state \in {"DISCONNECTED", "REESTABLISHING", "GOOD", "BAD"}
               /\ ch[n].task \in {"none", "spawned", "waiting"}
               /\ Len(ch[n].reest) <= 1
               /\ ch[n].hm.ctn \in [Owner -> Nat]
               /\ \A k \in DOMAIN net[n] : net[n][k].type \in Messages
               /\ ~connected => net[n] = << >> /\ ch[n].peer_state = "DISCONNECTED"
    <3>1. TypesAt(n)
      BY <2>1, TypesAre
    <3>2. \A k \in 1 .. Len(net[n]) : net[n][k].type \in Messages
      BY <3>1 DEF TypesAt, IsMessage, IsSent
    <3>3. DOMAIN net[n] = 1 .. Len(net[n])
      BY <3>1 DEF TypesAt, IsSeq
    <3>4. Len(ch[n].reest) <= 1
      <4>1. ch[n].reest \in {<< >>, <<Exception>>} \/ ch[n].reest = <<ch[n].reest[1]>>
        BY <3>1 DEF TypesAt, IsChannel
      <4> HIDE DEF Exception
      <4>2. \A x : Len(<<x>>) = 1
        BY ShortSeqs
      <4>3. Len(ch[n].reest) \in {0, 1}
        BY <4>1, <4>2, ShortSeqs
      <4>4. \A x \in {0, 1} : x <= 1
        OBVIOUS
      <4> QED BY <4>3, <4>4
    <3> QED BY <3>1, <3>2, <3>3, <3>4 DEF TypesAt, IsChannel, IsLog, PeerStates
  <2> QED BY <2>1, <2>2 DEF TypeOK, Types, States
<1> QED BY <1>1, DanceAlways, PTL

-----------------------------------------------------------------------------
(* No copy of a wallet file is restored. *)

(* The logs after a step *)
LEMMA StepLogs ==
    ASSUME BasicInv, NEW n \in Node, NEW o, NEW inbox, Step(n, o, inbox), Outcome(n, o)
    PROVE  /\ ch'[n].hm = o.c.hm /\ ch'[Peer(n)].hm = ch[Peer(n)].hm
           /\ ch'[n].state = o.c.state /\ ch'[Peer(n)].state = ch[Peer(n)].state
           /\ ch'[n].close \in {o.c.close, NotClosing}
           /\ ch'[Peer(n)].close \in {ch[Peer(n)].close, NotClosing}
<1> DEFINE p == Peer(n)
<1>1. p \in Node /\ p # n /\ DOMAIN ch = Node /\ IsChannel(ch[p], SignedBy(p))
  BY PeerFacts DEF BasicInv, Types
<1>2. PICK txs : Fine(n, o, txs)
  BY StepSigns
<1>3. IsChannel(o.c, txs)
  BY <1>2 DEF Fine, Sound
<1> HIDE DEF p
<1>4. CASE o.exc = Ok
  <2>1. ch' = [ch EXCEPT ![n] = o.c]
    BY <1>4 DEF Step
  <2> QED BY <1>1, <2>1 DEF p
<1>5. CASE o.exc # Ok
  <2>1. ch'[n] = Disconnected(o.c) /\ ch'[p] = Disconnected(ch[p])
    BY <1>1, <1>5 DEF Step
  <2>2. /\ Disconnected(o.c).hm = o.c.hm /\ Disconnected(o.c).state = o.c.state
        /\ Disconnected(o.c).close \in {o.c.close, NotClosing}
    BY <1>3, DisconnectedIs
  <2>3. /\ Disconnected(ch[p]).hm = ch[p].hm /\ Disconnected(ch[p]).state = ch[p].state
        /\ Disconnected(ch[p]).close \in {ch[p].close, NotClosing}
    BY <1>1, DisconnectedIs
  <2> QED BY <2>1, <2>2, <2>3 DEF p
<1> QED BY <1>4, <1>5

\* What Forward says of n
ForwardAt(n) ==
    /\ \A tx \in SignedBy(n) : tx.ctn \in Nat /\ tx.ctn <= ctn_latest(ch[n].hm, Remote)
    /\ ch[n].hm.ctn[Remote] <= ch[Peer(n)].hm.ctn[Local]
    /\ ch[Peer(n)].hm.ctn[Local] <= ctn_latest(ch[n].hm, Remote)

(* A step signs for a ctn that nothing was signed for, and no log gets behind. *)
LEMMA ActsForward ==
    ASSUME DanceInv, Forward, NEW n \in Node, Acts(n)
    PROVE  Forward'
<1> DEFINE p == Peer(n)
           m == ch[n].hm
<1>1. p \in Node /\ p # n /\ Peer(p) = n /\ \A q \in Node : q = n \/ q = p
  BY PeerFacts
<1>2. PICK o, inbox : Step(n, o, inbox) /\ Outcome(n, o)
  BY DEF Acts
<1> DEFINE w == o.c.hm
<1>3. BasicInv /\ left'.restores = 0
  BY DEF Acts, Bounds, DanceInv, Forward
<1>4. PICK txs : /\ Fine(n, o, txs)
                 /\ SignedBy(n)' = txs /\ SignedBy(p)' = SignedBy(p)
                 /\ \/ txs = SignedBy(n) /\ ctn_latest(w, Remote) = ctn_latest(m, Remote)
                    \/ \E tx : txs = SignedBy(n) \cup {tx} /\ IsNew(n, o.c, tx)
  BY <1>2, StepSigns
<1>5. ch'[n].hm = w /\ ch'[p].hm = ch[p].hm
  BY <1>2, <1>3, StepLogs
<1>6. /\ \A s \in Owner : m.ctn[s] \in Nat /\ w.ctn[s] \in Nat /\ m.ctn[s] <= w.ctn[s]
      /\ \/ w.ctn[Remote] = m.ctn[Remote]
         \/ w.ctn[Remote] <= ch[p].hm.ctn[Local]
  BY <1>3, <1>4, MovesUp
<1>7. /\ \A s \in Owner : ch[p].hm.ctn[s] \in Nat
      /\ w.revack[Remote] \in BOOLEAN /\ m.revack[Remote] \in BOOLEAN
      /\ ch[p].hm.revack[Remote] \in BOOLEAN
  <2>1. IsLog(m, SignedBy(n)) /\ IsLog(w, txs) /\ IsLog(ch[p].hm, SignedBy(p))
    BY <1>1, <1>3, <1>4 DEF BasicInv, Types, IsChannel, Fine, Sound
  <2> HIDE DEF p, m, w
  <2> QED BY <2>1, OwnerFacts DEF IsLog
<1>8. ForwardAt(n) /\ ForwardAt(p) /\ UniqueSignedCtx
  BY <1>1 DEF Forward, ForwardAt
<1> HIDE DEF p, m, w
<1>9. /\ ctn_latest(m, Remote) \in Nat /\ ctn_latest(w, Remote) \in Nat
      /\ ctn_latest(ch[p].hm, Remote) \in Nat
  BY <1>6, <1>7, OwnerFacts DEF ctn_latest
<1>10. ctn_latest(m, Remote) <= ctn_latest(w, Remote)
  <2>1. CASE ctn_latest(w, Remote) = ctn_latest(m, Remote)
    BY <1>9, <2>1
  <2>2. CASE ctn_latest(w, Remote) = ctn_latest(m, Remote) + 1
    BY <1>9, <2>2
  <2> QED BY <1>4, <2>1, <2>2 DEF IsNew, m, w
<1>11. w.ctn[Local] <= ctn_latest(ch[p].hm, Remote)
  <2>1. m.ctn[Local] <= ctn_latest(ch[p].hm, Remote)
    BY <1>1, <1>8 DEF ForwardAt, m
  <2>2. CASE w.ctn[Local] = m.ctn[Local]
    BY <2>1, <2>2
  <2>3. CASE w.ctn[Local] = m.ctn[Local] + 1 /\ SignatureArrived(n)
    <3>1. IsMessage(n, Head(net[n])) /\ Head(net[n]).type = "commitment_signed"
      BY <1>3, <2>3, HeadIs DEF SignatureArrived
    <3>2. Head(net[n]).sig \in SignedBy(p) /\ Head(net[n]).sig.ctn = m.ctn[Local] + 1
      BY <2>3, <3>1 DEF IsMessage, IsSent, SignatureArrived, p, m
    <3> QED BY <1>8, <2>3, <3>2 DEF ForwardAt
  <2> QED BY <1>4, <2>2, <2>3 DEF Fine, Sound, Moves, m, w
<1>12. \A tx \in SignedBy(n)' : tx.ctn \in Nat /\ tx.ctn <= ctn_latest(w, Remote)
  <2>1. \A tx \in SignedBy(n) : tx.ctn \in Nat /\ tx.ctn <= ctn_latest(w, Remote)
    BY <1>8, <1>9, <1>10 DEF ForwardAt, m
  <2>2. \A tx : IsNew(n, o.c, tx) => tx.ctn \in Nat /\ tx.ctn <= ctn_latest(w, Remote)
    BY <1>9 DEF IsNew, w
  <2> QED BY <1>4, <2>1, <2>2
<1>13. UniqueSignedCtx'
  <2> SUFFICES ASSUME NEW a \in signed', NEW b \in signed', a.owner = b.owner, a.ctn = b.ctn
               PROVE  a = b
    BY DEF UniqueSignedCtx
  <2>1. signed' = signed \cup Sigs(o)
    BY <1>2 DEF Step, Sigs
  <2>2. CASE a.owner = p
    <3>1. a \in txs /\ b \in txs
      BY <1>4, <2>2 DEF SignedBy, p
    <3>2. \A tx \in SignedBy(n) : tx.ctn \in Nat /\ tx.ctn <= ctn_latest(m, Remote)
      BY <1>8 DEF ForwardAt, m
    <3>3. \A tx : IsNew(n, o.c, tx) => tx.ctn = ctn_latest(m, Remote) + 1
      BY DEF IsNew, m
    <3>4. \A tx : IsNew(n, o.c, tx) => \A x \in SignedBy(n) : x.ctn # tx.ctn
      BY <1>9, <3>2, <3>3
    <3>5. a \in SignedBy(n) /\ b \in SignedBy(n) => a = b
      BY <1>8 DEF UniqueSignedCtx, SignedBy
    <3> QED BY <1>4, <3>1, <3>4, <3>5
  <2>3. CASE a.owner # p
    <3>1. \A x \in Sigs(o) : x.owner = p
      <4>1. Sigs(o) \subseteq txs
        BY <1>4, NothingNew DEF Fine
      <4>2. \A x \in txs : x.owner = p
        <5>1. \A x \in SignedBy(n) : x.owner = p
          BY DEF SignedBy, p
        <5> QED BY <1>4, <5>1 DEF IsNew, p
      <4> QED BY <4>1, <4>2
    <3>2. a \in signed /\ b \in signed
      BY <2>1, <2>3, <3>1
    <3> QED BY <1>8, <3>2 DEF UniqueSignedCtx
  <2> QED BY <2>2, <2>3
<1>14. ForwardAt(n)'
  <2>1. w.ctn[Remote] <= ch[p].hm.ctn[Local]
    BY <1>6, <1>8 DEF ForwardAt, p, m
  <2>2. ch[p].hm.ctn[Local] <= ctn_latest(w, Remote)
    BY <1>7, <1>8, <1>9, <1>10, OwnerFacts DEF ForwardAt, p, m
  <2> QED BY <1>5, <1>12, <2>1, <2>2 DEF ForwardAt, p
<1>15. ForwardAt(p)'
  <2>1. ch[p].hm.ctn[Remote] <= w.ctn[Local]
    BY <1>1, <1>6, <1>7, <1>8, OwnerFacts DEF ForwardAt, m
  <2> QED BY <1>1, <1>4, <1>5, <1>8, <1>11, <2>1 DEF ForwardAt
<1> QED BY <1>1, <1>3, <1>13, <1>14, <1>15 DEF Forward, ForwardAt

(* Nothing but a copy that is restored changes ctns or states without a step. *)
LEMMA EnvironmentLogs ==
    ASSUME DanceInv,
           \/ Connect \/ Disconnect
           \/ \E n \in Node : Crash(n) \/ SaveDb(n) \/ Backup(n)
    PROVE  /\ signed' = signed /\ left'.restores = left.restores
           /\ \A q \in Node :
                 /\ ch'[q].hm.ctn = ch[q].hm.ctn /\ ch'[q].hm.revack = ch[q].hm.revack
                 /\ ch'[q].state = ch[q].state
                 /\ ch'[q].close \in {ch[q].close, NotClosing}
<1>1. /\ BasicInv
      /\ DOMAIN left = {"disconnects", "crashes", "feeUpdates", "restores"}
      /\ \A q \in Node : /\ IsChannel(ch[q], SignedBy(q))
                         /\ q \in Persistent => IsFile(disk[q], SignedBy(q))
  BY DEF BasicInv, Types, DanceInv
<1>2. CASE Connect \/ \E n \in Node : SaveDb(n) \/ Backup(n)
  BY <1>2 DEF Connect, SaveDb, Backup
<1>3. ASSUME NEW q \in Node
      PROVE  LET d == Disconnected(ch[q])
             IN  /\ d.hm = ch[q].hm /\ d.state = ch[q].state
                 /\ d.close \in {ch[q].close, NotClosing}
  BY <1>1, DisconnectedIs
<1>4. CASE Disconnect
  <2>1. /\ signed' = signed /\ left'.restores = left.restores
        /\ \A q \in Node : ch'[q] = Disconnected(ch[q])
    BY <1>1, <1>4 DEF Disconnect, DropConnection
  <2> QED BY <1>3, <2>1
<1>5. ASSUME NEW n \in Node, Crash(n)
      PROVE  /\ signed' = signed /\ left'.restores = left.restores
             /\ \A q \in Node :
                   /\ ch'[q].hm.ctn = ch[q].hm.ctn /\ ch'[q].hm.revack = ch[q].hm.revack
                   /\ ch'[q].state = ch[q].state
                   /\ ch'[q].close \in {ch[q].close, NotClosing}
  <2> DEFINE c == Reads(n, disk[n])
  <2>1. /\ n \in Persistent /\ signed' = signed /\ left'.restores = left.restores
        /\ \A q \in Node : ch'[q] = Disconnected(Loaded(n, disk[n])[q])
    BY <1>1, <1>5 DEF Crash, DropConnection
  <2>2. ch'[n] = Disconnected(c) /\ \A q \in Node : q # n => ch'[q] = Disconnected(ch[q])
    BY <1>1, <2>1, LoadedIs
  <2>3. /\ IsChannel(c, SignedBy(n)) /\ Alike(disk[n].hm, c.hm) /\ c.state = disk[n].state
        /\ SameBut({"hm", "state", "may_update"}, ch[n], c)
    BY <1>1, <2>1, ReadsIs
  <2>4. c.close = ch[n].close
    BY <2>3 DEF SameBut, ChannelFields
  <2> HIDE DEF c
  <2>5. LET d == Disconnected(c)
        IN  d.hm = c.hm /\ d.state = c.state /\ d.close \in {c.close, NotClosing}
    BY <2>3, DisconnectedIs
  <2>6. /\ disk[n].hm.ctn = ch[n].hm.ctn /\ disk[n].hm.revack = ch[n].hm.revack
        /\ disk[n].state = ch[n].state
    BY <1>1, <2>1 DEF BasicInv, Saved
  <2>7. /\ ch'[n].hm.ctn = ch[n].hm.ctn /\ ch'[n].hm.revack = ch[n].hm.revack
        /\ ch'[n].state = ch[n].state /\ ch'[n].close \in {ch[n].close, NotClosing}
    BY <2>2, <2>3, <2>4, <2>5, <2>6 DEF Alike
  <2>8. \A q \in Node : q # n =>
            /\ ch'[q].hm = ch[q].hm /\ ch'[q].state = ch[q].state
            /\ ch'[q].close \in {ch[q].close, NotClosing}
    BY <1>3, <2>2
  <2> QED BY <2>1, <2>7, <2>8
<1> QED BY <1>2, <1>4, <1>5

(* So the logs do not get behind by any of that. *)
LEMMA EnvironmentForward ==
    ASSUME DanceInv, Forward,
           \/ Connect \/ Disconnect
           \/ \E n \in Node : Crash(n) \/ SaveDb(n) \/ Backup(n) \/ Restore(n)
    PROVE  Forward'
<1>1. left.restores = 0 /\ UniqueSignedCtx /\ \A q \in Node : ForwardAt(q)
  BY DEF Forward, ForwardAt
<1>2. \A n \in Node : ~Restore(n)
  BY <1>1 DEF Restore
<1>3. /\ signed' = signed /\ left'.restores = left.restores
      /\ \A q \in Node : ch'[q].hm.ctn = ch[q].hm.ctn /\ ch'[q].hm.revack = ch[q].hm.revack
  BY <1>2, EnvironmentLogs
<1>4. ASSUME NEW q \in Node PROVE ForwardAt(q)'
  <2>1. Peer(q) \in Node
    BY PeerFacts
  <2>2. /\ SignedBy(q)' = SignedBy(q)
        /\ ctn_latest(ch'[q].hm, Remote) = ctn_latest(ch[q].hm, Remote)
    BY <1>3 DEF SignedBy, ctn_latest
  <2> QED BY <1>1, <1>3, <2>1, <2>2 DEF ForwardAt
<1> QED BY <1>1, <1>3, <1>4 DEF Forward, ForwardAt, UniqueSignedCtx

ForwardInv == DanceInv /\ Forward

(* A step keeps that no log is behind. *)
LEMMA ForwardStep == ForwardInv /\ [Next]_vars => ForwardInv'
<1> SUFFICES ASSUME ForwardInv, [Next]_vars PROVE ForwardInv'
  OBVIOUS
<1>1. DanceInv'
  BY DanceStep DEF ForwardInv
<1>2. CASE Next
  BY <1>1, <1>2, NextIs, ActsForward, EnvironmentForward DEF ForwardInv
<1>3. CASE UNCHANGED vars
  BY <1>1, <1>3 DEF vars, ForwardInv, Forward, SignedBy, UniqueSignedCtx
<1> QED BY <1>2, <1>3

(* At the start no log is behind. *)
LEMMA ForwardStarts == ASSUME MaxRestores = 0, Init PROVE ForwardInv
<1>1. DanceInv /\ signed = {} /\ left.restores = 0
  BY InitDances DEF Init
<1>2. ASSUME NEW n \in Node PROVE ForwardAt(n)
  <2>1. Peer(n) \in Node
    BY PeerFacts
  <2>2. \A q \in Node : ch[q].hm.ctn[Local] = 0 /\ ch[q].hm.ctn[Remote] = 0
    BY OwnerFacts DEF Init, NewLog
  <2>3. ctn_latest(ch[n].hm, Remote) \in {0, 1}
    BY <2>2 DEF ctn_latest
  <2> QED BY <1>1, <2>1, <2>2, <2>3 DEF ForwardAt, SignedBy
<1> QED BY <1>1, <1>2 DEF ForwardInv, Forward, ForwardAt, UniqueSignedCtx

(* So none ever is. *)
LEMMA ForwardAlways == ASSUME MaxRestores = 0 PROVE Spec => []ForwardInv
<1>1. Init => ForwardInv
  BY ForwardStarts
<1> QED BY <1>1, ForwardStep, PTL DEF Spec

(* "Multiple valid ctxs at the same ctn is a major headache" (sign_next_commitment): no   *)
(* node signs two ctxs of one ctn, in whatever order messages, crashes and connections    *)
(* come, as long as no old copy of a wallet file is restored.                             *)
THEOREM NoCtnIsSignedTwice ==
    ASSUME MaxRestores = 0 PROVE Spec => []UniqueSignedCtx
<1>1. ForwardInv => UniqueSignedCtx
  BY DEF ForwardInv, Forward
<1> QED BY <1>1, ForwardAlways, PTL

(* The wallet file is never behind what the other node was told: it has the revocation    *)
(* of every ctx whose secret the other node has, or that is on its way, and every ctx     *)
(* that was signed for the other node.  The order of save_db and the sending of messages  *)
(* in lnpeer.py is what that hangs on.                                                    *)
THEOREM TheFileIsNeverBehind ==
    ASSUME MaxRestores = 0 PROVE Spec => []FileIsNotBehind
<1>1. ForwardInv => FileIsNotBehind
  <2> SUFFICES ASSUME ForwardInv, NEW n \in Persistent
               PROVE  /\ \A k \in Revealed(n) : k < disk[n].hm.ctn[Local]
                      /\ \A tx \in signed :
                            tx.owner = Peer(n) => tx.ctn <= ctn_latest(disk[n].hm, Remote)
    BY DEF FileIsNotBehind
  <2>1. n \in Node /\ Peer(n) \in Node /\ Peer(Peer(n)) = n
    BY PersistentAssumption, PeerFacts
  <2>2. BasicInv /\ ForwardAt(n) /\ ForwardAt(Peer(n))
    BY <2>1 DEF ForwardInv, DanceInv, Forward, ForwardAt
  <2>3. disk[n].hm.ctn = ch[n].hm.ctn /\ disk[n].hm.revack = ch[n].hm.revack
    BY <2>2 DEF BasicInv, Saved
  <2>4. ASSUME NEW k \in Revealed(n) PROVE k < ch[n].hm.ctn[Local]
    <3>1. ch[n].hm.ctn[Local] \in Nat /\ ch[Peer(n)].hm.ctn[Remote] \in Nat
      BY <2>1, <2>2, OwnerFacts DEF BasicInv, Types, IsChannel, IsLog
    <3>2. /\ k \in 0 .. ch[n].hm.ctn[Local]
          /\ \/ k < ch[Peer(n)].hm.ctn[Remote]
             \/ \E j \in DOMAIN net[Peer(n)] : net[Peer(n)][j] = revoke_and_ack(k)
      BY DEF Revealed
    <3>3. CASE k < ch[Peer(n)].hm.ctn[Remote]
      BY <2>1, <2>2, <3>1, <3>2, <3>3 DEF ForwardAt
    <3>4. CASE \E j \in DOMAIN net[Peer(n)] : net[Peer(n)][j] = revoke_and_ack(k)
      <4>1. PICK j \in 1 .. Len(net[Peer(n)]) : net[Peer(n)][j] = revoke_and_ack(k)
        BY <2>1, <2>2, <3>4 DEF BasicInv, Types, IsSeq
      <4>2. IsMessage(Peer(n), revoke_and_ack(k))
        BY <2>1, <2>2, <4>1 DEF BasicInv, Types
      <4>3. revoke_and_ack(k).secret < ch[n].hm.ctn[Local]
        BY <2>1, <4>2 DEF IsMessage, IsSent, revoke_and_ack
      <4> QED BY <4>3 DEF revoke_and_ack
    <3> QED BY <3>2, <3>3, <3>4
  <2>5. \A tx \in SignedBy(n) : tx.ctn <= ctn_latest(disk[n].hm, Remote)
    BY <2>2, <2>3 DEF ForwardAt, ctn_latest
  <2> QED BY <2>3, <2>4, <2>5 DEF SignedBy
<1> QED BY <1>1, ForwardAlways, PTL

-----------------------------------------------------------------------------
(* Only one node restores copies. *)

(* The first message, if it is a channel_reestablish or an error *)
LEMMA Arrives ==
    ASSUME BasicInv, Dance, NEW n \in Node
    PROVE  /\ ReestablishArrived(n) =>
                 LET x == Head(net[n])
                 IN  /\ IsAnnouncement(n, x) /\ x.type = "channel_reestablish"
                     /\ x.next_revocation_number \in Nat
           /\ ErrorArrived(n) => ch[Peer(n)].state = "WE_ARE_TOXIC"
<1> DEFINE x == Head(net[n])
<1>1. net[n] # << >> =>
          Len(net[n]) \in Nat \ {0} /\ x = net[n][1] /\ IsMessage(n, x) /\ 1 \in 1 .. Len(net[n])
  <2>1. net[n] # << >> => Len(net[n]) \in Nat \ {0} /\ x = net[n][1] /\ IsMessage(n, x)
    BY HeadIs
  <2> QED BY <2>1
<1>2. /\ \A k \in 1 .. Len(net[n]) : IsAnnouncement(n, net[n][k])
      /\ \A k \in 1 .. Len(net[n]) : net[n][k].type = "error" => ch[Peer(n)].state = "WE_ARE_TOXIC"
  BY DEF Dance
<1> HIDE DEF x
<1>3. ReestablishArrived(n) => /\ IsAnnouncement(n, x) /\ x.type = "channel_reestablish"
                               /\ x.next_revocation_number \in Nat
  BY <1>1, <1>2 DEF ReestablishArrived, IsMessage, IsSent, x
<1>4. ErrorArrived(n) => ch[Peer(n)].state = "WE_ARE_TOXIC"
  BY <1>1, <1>2 DEF ErrorArrived, x
<1> QED BY <1>3, <1>4 DEF x

(* A step of the node that restores copies *)
LEMMA LoserActs ==
    ASSUME DanceInv, NEW l \in Node, OneLoses(l), Acts(l)
    PROVE  OneLoses(l)'
<1> DEFINE s == Peer(l)
<1>1. s \in Node /\ s # l /\ Peer(s) = l /\ BasicInv /\ Dance
  BY PeerFacts DEF DanceInv
<1>2. PICK o, inbox : Step(l, o, inbox) /\ Outcome(l, o) /\ Kind(l, o, inbox)
  BY DEF Acts
<1>3. PICK txs : Fine(l, o, txs)
  BY <1>1, <1>2, StepSigns
<1>4. EndsUp(l, o) /\ BeginsClose(l, o)
  BY <1>1, <1>2, KindIsProper DEF Proper
<1>5. /\ \A w \in Owner : /\ ch[l].hm.ctn[w] \in Nat /\ o.c.hm.ctn[w] \in Nat
                          /\ ch[l].hm.ctn[w] <= o.c.hm.ctn[w]
      /\ \/ o.c.hm.ctn[Remote] = ch[l].hm.ctn[Remote]
         \/ o.c.hm.ctn[Remote] <= ch[s].hm.ctn[Local]
  BY <1>1, <1>3, MovesUp
<1>6. /\ ch'[l].hm = o.c.hm /\ ch'[s].hm = ch[s].hm /\ ch'[l].state = o.c.state
      /\ ch'[s].state = ch[s].state /\ ch'[l].close \in {o.c.close, NotClosing}
      /\ backup' = backup
  BY <1>1, <1>2, StepLogs DEF Acts, Bounds
<1>7. ch[s].hm.ctn[Local] \in Nat /\ ch[s].hm.ctn[Remote] \in Nat
  BY <1>1, OwnerFacts DEF BasicInv, Types, IsChannel, IsLog
<1>8. /\ ReestablishArrived(l) =>
            LET x == Head(net[l])
            IN  /\ IsAnnouncement(l, x) /\ x.type = "channel_reestablish"
                /\ x.next_revocation_number \in Nat
      /\ ErrorArrived(l) => ch[s].state = "WE_ARE_TOXIC"
  BY <1>1, Arrives
<1>9. Good(l) => ch[s].hm.ctn[Remote] <= ch[l].hm.ctn[Local]
  BY <1>1 DEF Dance
<1>10. /\ ch[l].hm.ctn[Remote] <= ch[s].hm.ctn[Local]
       /\ ch[l].state = "WE_ARE_TOXIC" => ch[l].hm.ctn[Local] < ch[s].hm.ctn[Remote]
       /\ ch[s].state # "WE_ARE_TOXIC"
       /\ ch[l].state = "FORCE_CLOSING" \/ ch[l].close.at # "none" =>
             ch[s].hm.ctn[Remote] <= ch[l].hm.ctn[Local]
  BY DEF OneLoses, CopyIs
<1> HIDE DEF s
<1>11. o.c.state = "WE_ARE_TOXIC" => o.c.hm.ctn[Local] < ch[s].hm.ctn[Remote]
  <2> SUFFICES ASSUME o.c.state = "WE_ARE_TOXIC" PROVE ch[l].hm.ctn[Local] < ch[s].hm.ctn[Remote]
    BY <1>4 DEF EndsUp, Final
  <2>1. CASE ch[l].state = "WE_ARE_TOXIC"
    BY <1>10, <2>1
  <2>2. CASE ReestablishArrived(l) /\ Head(net[l]).next_revocation_number > ch[l].hm.ctn[Local]
    <3> DEFINE r == Head(net[l]).next_revocation_number
    <3>1. r \in Nat /\ r <= ch[s].hm.ctn[Remote] /\ r > ch[l].hm.ctn[Local]
      BY <1>8, <2>2 DEF IsAnnouncement, s
    <3> HIDE DEF r
    <3> QED BY <1>5, <1>7, <3>1, OwnerFacts
  <2> QED BY <1>4, <2>1, <2>2 DEF EndsUp
<1>12. o.c.state = "FORCE_CLOSING" \/ o.c.close.at # "none" =>
          ch[s].hm.ctn[Remote] <= o.c.hm.ctn[Local]
  <2> SUFFICES ASSUME o.c.state = "FORCE_CLOSING" \/ o.c.close.at # "none"
               PROVE  ch[s].hm.ctn[Remote] <= ch[l].hm.ctn[Local]
    BY <1>5, <1>7, OwnerFacts
  <2>1. CASE ch[l].state = "FORCE_CLOSING" \/ ch[l].close.at # "none"
    BY <1>10, <2>1
  <2>2. CASE Good(l)
    BY <1>9, <2>2
  <2>3. CASE ErrorArrived(l)
    BY <1>8, <1>10, <2>3
  <2>4. CASE /\ ReestablishArrived(l) /\ ~Good(l)
             /\ Head(net[l]).next_revocation_number <= ch[l].hm.ctn[Local]
    BY <1>8, <1>10, <2>4 DEF IsAnnouncement, Tells, s
  <2> QED BY <1>4, <2>1, <2>2, <2>3, <2>4 DEF EndsUp, BeginsClose
<1>13. o.c.hm.ctn[Remote] <= ch[s].hm.ctn[Local]
  BY <1>5, <1>10
<1>14. ch[l].state = "FORCE_CLOSING" => o.c.state = "FORCE_CLOSING" /\ o.c.hm.ctn = ch[l].hm.ctn
  BY <1>4 DEF EndsUp, Final
<1>15. ch'[l].close.at # "none" => o.c.close.at # "none"
  BY <1>6 DEF NotClosing
<1> QED BY <1>6, <1>10, <1>11, <1>12, <1>13, <1>14, <1>15 DEF OneLoses, CopyIs, s

(* A step of the other one *)
LEMMA OtherActs ==
    ASSUME DanceInv, NEW l \in Node, OneLoses(l), Acts(Peer(l)),
           backup[l] # NoFile =>
              backup[l].hm.ctn[Local] \in Nat /\ backup[l].hm.ctn[Remote] \in Nat
    PROVE  OneLoses(l)'
<1> DEFINE s == Peer(l)
<1>1. s \in Node /\ s # l /\ Peer(s) = l /\ BasicInv /\ Dance
  BY PeerFacts DEF DanceInv
<1>2. PICK o, inbox : Step(s, o, inbox) /\ Outcome(s, o) /\ Kind(s, o, inbox)
  BY DEF Acts
<1>3. PICK txs : Fine(s, o, txs)
  BY <1>1, <1>2, StepSigns
<1>4. EndsUp(s, o)
  BY <1>1, <1>2, KindIsProper DEF Proper
<1>5. /\ \A w \in Owner : /\ ch[s].hm.ctn[w] \in Nat /\ o.c.hm.ctn[w] \in Nat
                          /\ ch[s].hm.ctn[w] <= o.c.hm.ctn[w]
      /\ \/ o.c.hm.ctn[Remote] = ch[s].hm.ctn[Remote]
         \/ o.c.hm.ctn[Remote] <= ch[l].hm.ctn[Local]
  BY <1>1, <1>3, MovesUp
<1>6. /\ ch'[s].hm = o.c.hm /\ ch'[l].hm = ch[l].hm /\ ch'[s].state = o.c.state
      /\ ch'[l].state = ch[l].state /\ ch'[l].close \in {ch[l].close, NotClosing}
      /\ backup' = backup
  BY <1>1, <1>2, StepLogs DEF Acts, Bounds
<1>7. ch[l].hm.ctn[Local] \in Nat /\ ch[l].hm.ctn[Remote] \in Nat
  BY <1>1, OwnerFacts DEF BasicInv, Types, IsChannel, IsLog
<1>8. ReestablishArrived(s) =>
          /\ Head(net[s]).next_revocation_number \in Nat
          /\ Head(net[s]).next_revocation_number <= ch[l].hm.ctn[Remote]
  BY <1>1, Arrives DEF IsAnnouncement
<1> HIDE DEF s
<1>9. \A ctn, state :
          ctn[Local] \in Nat /\ ctn[Remote] \in Nat /\ CopyIs(l, ctn, state)
              => CopyIs(l, ctn, state)'
  BY <1>5, <1>6, OwnerFacts DEF CopyIs, s
<1>10. o.c.state # "WE_ARE_TOXIC"
  <2>1. ch[s].state # "WE_ARE_TOXIC" /\ ch[l].hm.ctn[Remote] <= ch[s].hm.ctn[Local]
    BY DEF OneLoses, CopyIs, s
  <2>2. ~(/\ ReestablishArrived(s)
          /\ Head(net[s]).next_revocation_number > ch[s].hm.ctn[Local])
    <3> DEFINE r == Head(net[s]).next_revocation_number
    <3>1. ReestablishArrived(s) => r \in Nat /\ r <= ch[l].hm.ctn[Remote]
      BY <1>8
    <3> HIDE DEF r
    <3>2. ReestablishArrived(s) => ~(r > ch[s].hm.ctn[Local])
      BY <1>5, <1>7, <2>1, <3>1, OwnerFacts
    <3> QED BY <3>2 DEF r
  <2> QED BY <1>4, <2>1, <2>2 DEF EndsUp
<1>11. ch[l].state = "FORCE_CLOSING" \/ ch'[l].close.at # "none" =>
          o.c.hm.ctn[Remote] <= ch[l].hm.ctn[Local]
  BY <1>5, <1>6 DEF OneLoses, NotClosing, s
<1>12. /\ CopyIs(l, ch[l].hm.ctn, ch[l].state)
       /\ backup[l] # NoFile => CopyIs(l, backup[l].hm.ctn, backup[l].state)
       /\ backup[l] # NoFile /\ backup[l].state = "FORCE_CLOSING" =>
             ch[l].state = "FORCE_CLOSING" /\ ch[l].hm.ctn = backup[l].hm.ctn
  BY DEF OneLoses
<1> QED BY <1>6, <1>7, <1>9, <1>10, <1>11, <1>12 DEF OneLoses, s

(* So does what happens to the connection, the processes and the files. *)
LEMMA EnvironmentLoses ==
    ASSUME DanceInv, NEW l \in Node, OneLoses(l), backup[Peer(l)] = NoFile,
           \/ Connect \/ Disconnect
           \/ \E n \in Node : Crash(n) \/ SaveDb(n) \/ Backup(n) \/ Restore(n)
    PROVE  OneLoses(l)'
<1> DEFINE s == Peer(l)
<1>1. /\ s \in Node /\ s # l /\ BasicInv /\ Dance /\ DOMAIN backup = Node
      /\ \A q \in Node : q = l \/ q = s
  BY PeerFacts DEF DanceInv, BasicInv, Types
<1>2. /\ CopyIs(l, ch[l].hm.ctn, ch[l].state)
      /\ backup[l] # NoFile => CopyIs(l, backup[l].hm.ctn, backup[l].state)
      /\ ch[s].state # "WE_ARE_TOXIC"
      /\ ch[l].state = "FORCE_CLOSING" \/ ch[l].close.at # "none" =>
            ch[s].hm.ctn[Remote] <= ch[l].hm.ctn[Local]
      /\ backup[l] # NoFile /\ backup[l].state = "FORCE_CLOSING" =>
            ch[l].state = "FORCE_CLOSING" /\ ch[l].hm.ctn = backup[l].hm.ctn
  BY DEF OneLoses
<1> HIDE DEF s
<1>3. CASE \/ Connect \/ Disconnect
           \/ \E n \in Node : Crash(n) \/ SaveDb(n) \/ Backup(n)
  <2>1. /\ ch'[l].hm.ctn = ch[l].hm.ctn /\ ch'[s].hm.ctn = ch[s].hm.ctn
        /\ ch'[l].state = ch[l].state /\ ch'[s].state = ch[s].state
        /\ ch'[l].close \in {ch[l].close, NotClosing}
    BY <1>1, <1>3, EnvironmentLogs
  <2>2. \A ctn, state : CopyIs(l, ctn, state) => CopyIs(l, ctn, state)'
    BY <2>1 DEF CopyIs, s
  <2>3. ch'[l].close.at # "none" => ch[l].close.at # "none"
    BY <2>1 DEF NotClosing
  <2>4. \/ backup'[l] = backup[l]
        \/ /\ backup'[l].state = ch[l].state /\ backup'[l].hm.ctn = ch[l].hm.ctn
    <3>1. CASE Connect \/ Disconnect \/ \E n \in Node : Crash(n) \/ SaveDb(n)
      BY <3>1 DEF Connect, Disconnect, Crash, SaveDb
    <3>2. ASSUME NEW n \in Node, Backup(n) PROVE <2>4!1 \/ <2>4!2
      <4>1. n \in Persistent /\ backup' = [backup EXCEPT ![n] = disk[n]]
        BY <3>2 DEF Backup
      <4>2. disk[n].state = ch[n].state /\ disk[n].hm.ctn = ch[n].hm.ctn
        BY <1>1, <4>1 DEF BasicInv, Saved
      <4> QED BY <1>1, <4>1, <4>2
    <3> QED BY <1>3, <3>1, <3>2
  <2> QED BY <1>2, <2>1, <2>2, <2>3, <2>4 DEF OneLoses, s
<1>4. ASSUME NEW n \in Node, Restore(n) PROVE OneLoses(l)'
  <2> DEFINE f == backup[l]
             c == Reads(l, f)
  <2>1. n = l /\ f # NoFile /\ left.restores > 0 /\ backup' = backup
    BY <1>1, <1>4 DEF Restore, s
  <2>2. /\ IsFile(f, SignedBy(l)) /\ IsChannel(ch[s], SignedBy(s))
    BY <1>1, <2>1 DEF BasicInv, Types
  <2>3. \A q \in Node : ch'[q] = Disconnected(Loaded(l, f)[q])
    BY <1>4, <2>1 DEF Restore, DropConnection
  <2>4. ch'[l] = Disconnected(c) /\ ch'[s] = Disconnected(ch[s])
    BY <1>1, <2>3, LoadedIs
  <2>5. /\ IsChannel(c, SignedBy(l)) /\ Alike(f.hm, c.hm) /\ c.state = f.state
        /\ SameBut({"hm", "state", "may_update"}, ch[l], c)
    BY <1>1, <2>2, ReadsIs
  <2>6. c.close = ch[l].close
    BY <2>5 DEF SameBut, ChannelFields
  <2>7. ~ch[l].close.is_local
    BY <1>1, <2>1 DEF Dance
  <2> HIDE DEF f, c
  <2>8. LET d == Disconnected(c)
        IN  /\ d.hm = c.hm /\ d.state = c.state
            /\ d.close = IF c.close.is_local THEN c.close ELSE NotClosing
    BY <2>5, DisconnectedIs
  <2>9. LET d == Disconnected(ch[s]) IN d.hm = ch[s].hm /\ d.state = ch[s].state
    BY <2>2, DisconnectedIs
  <2>10. /\ ch'[l].hm.ctn = f.hm.ctn /\ ch'[l].state = f.state /\ ch'[l].close = NotClosing
         /\ ch'[s].hm = ch[s].hm /\ ch'[s].state = ch[s].state
    BY <2>4, <2>5, <2>6, <2>7, <2>8, <2>9 DEF Alike
  <2>11. NotClosing.at = "none"
    BY DEF NotClosing
  <2>12. /\ CopyIs(l, f.hm.ctn, f.state) /\ backup'[l] = f
         /\ f.state = "FORCE_CLOSING" =>
              ch[s].hm.ctn[Remote] <= f.hm.ctn[Local]
    BY <1>2, <2>1 DEF f
  <2>13. CopyIs(l, f.hm.ctn, f.state)'
    BY <2>1, <2>10, <2>12 DEF CopyIs, s, f
  <2> QED BY <1>2, <2>10, <2>11, <2>12, <2>13 DEF OneLoses, s, f, CopyIs
<1> QED BY <1>3, <1>4

\* The types, how the two nodes find each other, and that nobody but l restores copies
LosesInv(l) == DanceInv /\ OneLoses(l)

(* A step, of whoever it is, keeps that. *)
LEMMA LosesStep ==
    ASSUME NEW l \in Node
    PROVE  LosesInv(l) /\ backup[Peer(l)] = NoFile /\ [Next]_vars => LosesInv(l)'
<1> SUFFICES ASSUME LosesInv(l), backup[Peer(l)] = NoFile, [Next]_vars PROVE LosesInv(l)'
  OBVIOUS
<1>1. DanceInv /\ OneLoses(l) /\ DanceInv'
  BY DanceStep DEF LosesInv
<1>2. CASE Next
  <2>1. ASSUME NEW n \in Node, Acts(n) PROVE OneLoses(l)'
    <3>1. n = l \/ n = Peer(l)
      BY PeerFacts
    <3>2. backup[l] # NoFile => backup[l].hm.ctn[Local] \in Nat /\ backup[l].hm.ctn[Remote] \in Nat
      BY <1>1, OwnerFacts DEF DanceInv, BasicInv, Types, IsFile, IsLog
    <3> QED BY <1>1, <2>1, <3>1, <3>2, LoserActs, OtherActs
  <2> QED BY <1>1, <1>2, <2>1, NextIs, EnvironmentLoses DEF LosesInv
<1>3. CASE UNCHANGED vars
  BY <1>1, <1>3 DEF vars, LosesInv, OneLoses, CopyIs
<1> QED BY <1>2, <1>3

(* It holds at the start. *)
LEMMA LosesStarts == ASSUME NEW l \in Node, Init PROVE LosesInv(l)
<1>1. l \in Node /\ Peer(l) \in Node /\ DanceInv
  BY PeerFacts, InitDances
<1>2. ASSUME NEW q \in Node
      PROVE  /\ ch[q].state = "OPEN" /\ ch[q].close.at = "none" /\ backup[q] = NoFile
             /\ ch[q].hm.ctn[Local] = 0 /\ ch[q].hm.ctn[Remote] = 0
  BY OwnerFacts DEF Init, NewLog, NotClosing
<1> QED BY <1>1, <1>2 DEF LosesInv, OneLoses, CopyIs

(* So it holds for good, as long as the other node has no copy to restore. *)
LEMMA LosesAlways ==
    ASSUME NEW l \in Node
    PROVE  Spec /\ [](backup[Peer(l)] = NoFile) => []LosesInv(l)
<1>1. Init => LosesInv(l)
  BY LosesStarts
<1>2. LosesInv(l) /\ backup[Peer(l)] = NoFile /\ [Next]_vars => LosesInv(l)'
  BY LosesStep
<1> QED BY <1>1, <1>2, PTL DEF Spec

(* Who is ahead of the other *)
LEMMA LosesMeans ==
    ASSUME NEW l \in Node, LosesInv(l)
    PROVE  NeverPunished /\ ToxicIfBehind
<1> DEFINE s == Peer(l)
<1>1. /\ l \in Node /\ s \in Node /\ Peer(s) = l /\ \A q \in Node : q = l \/ q = s
      /\ BasicInv /\ Dance
  BY PeerFacts DEF LosesInv, DanceInv
<1>2. ASSUME NEW n \in Node
      PROVE  /\ ch[n].hm.ctn[Local] \in Nat /\ ch[n].hm.ctn[Remote] \in Nat
             /\ ctn_latest(ch[n].hm, Local) = ch[n].hm.ctn[Local]
  <2>1. IsLog(ch[n].hm, SignedBy(n))
    BY <1>1 DEF BasicInv, Types, IsChannel
  <2> QED BY <2>1, OwnerFacts DEF IsLog, ctn_latest
<1>3. /\ ch[l].hm.ctn[Remote] <= ch[s].hm.ctn[Local]
      /\ ch[l].state = "WE_ARE_TOXIC" => ch[l].hm.ctn[Local] < ch[s].hm.ctn[Remote]
      /\ ch[s].state # "WE_ARE_TOXIC"
      /\ ch[l].state = "FORCE_CLOSING" => ch[s].hm.ctn[Remote] <= ch[l].hm.ctn[Local]
  BY DEF LosesInv, OneLoses, CopyIs
<1> HIDE DEF s
<1>4. LatestIsRevoked(l) <=> ch[l].hm.ctn[Local] < ch[s].hm.ctn[Remote]
  BY <1>1, <1>2 DEF LatestIsRevoked, s
<1>5. LatestIsRevoked(s) <=> ch[s].hm.ctn[Local] < ch[l].hm.ctn[Remote]
  BY <1>1, <1>2 DEF LatestIsRevoked, s
<1>6. ~LatestIsRevoked(s)
  BY <1>1, <1>2, <1>3, <1>5
<1>7. ch[l].state = "FORCE_CLOSING" => ~LatestIsRevoked(l)
  BY <1>1, <1>2, <1>3, <1>4
<1>8. can_progress_ctx(ch[l]) => ~LatestIsRevoked(l)
  BY <1>1, <1>2, <1>4 DEF can_progress_ctx, Dance, Good, s
<1>9. ch[l].state = "WE_ARE_TOXIC" => LatestIsRevoked(l)
  BY <1>3, <1>4
<1> QED BY <1>1, <1>3, <1>6, <1>7, <1>8, <1>9 DEF NeverPunished, ToxicIfBehind

(* "If we have lost state but the other node is well-behaving, we SHOULD not lose money"  *)
(* (on_channel_reestablish): if only one of the two nodes ever has an old copy of its     *)
(* wallet file, to restore it at whatever moment, then the ctx with which either of them  *)
(* force-closes the channel is not one that it has revoked, although both may crash.      *)
THEOREM WhoLosesStateIsNotPunished ==
    ASSUME NEW l \in Node
    PROVE  Spec /\ [](backup[Peer(l)] = NoFile) => []NeverPunished
<1>1. LosesInv(l) => NeverPunished
  BY LosesMeans
<1> QED BY <1>1, LosesAlways, PTL

(* Nor does such a node go on with the channel before it has noticed: it believes to be   *)
(* toxic only if its latest ctx is revoked, and goes on only if it is not.                *)
THEOREM WhoLosesStateNotices ==
    ASSUME NEW l \in Node
    PROVE  Spec /\ [](backup[Peer(l)] = NoFile) => []ToxicIfBehind
<1>1. LosesInv(l) => ToxicIfBehind
  BY LosesMeans
<1> QED BY <1>1, LosesAlways, PTL

-----------------------------------------------------------------------------
(* No copy is restored, and no user closes the channel. *)

\* How often a channel_reestablish is among the messages
Never(s) == \A k \in 1 .. Len(s) : s[k].type # "channel_reestablish"
Once(s)  == \A j, k \in 1 .. Len(s) :
                s[j].type = "channel_reestablish" /\ s[k].type = "channel_reestablish" => j = k

\* The channel of n is open.  Since a connection was made, the other node reestablished it
\* at most once, which is on the way to n, or has arrived, or has made the channel good.
OpenAt(n) ==
    /\ ch[n].state = "OPEN" /\ ch[n].close.at = "none" /\ ~ch[n].shutdown
    /\ ch[n].task # "spawned" /\ ch[n].reest # <<Exception>>
    /\ \A k \in 1 .. Len(net[n]) : net[n][k].type \notin {"shutdown", "closing_signed"}
    /\ Once(net[n])
    /\ ch[n].reest # << >> \/ Good(n) => Never(net[n])
    /\ ch[n].reest # << >> => ~Good(n)
    /\ ~Good(Peer(n)) /\ ch[Peer(n)].task = "none" =>
          Never(net[n]) /\ ch[n].reest = << >> /\ ~Good(n)

OpenInv == ForwardInv /\ \A n \in Node : OpenAt(n)

(* What comes of the messages that are taken from, and added to, those on the way *)
LEMMA TailOnce ==
    ASSUME NEW s, IsSeq(s), s # << >>
    PROVE  /\ Never(s) => Never(Tail(s))
           /\ Once(s) => Once(Tail(s))
           /\ Once(s) /\ Head(s).type = "channel_reestablish" => Never(Tail(s))
           /\ Never(s) => Head(s).type # "channel_reestablish"
<1> DEFINE t == Tail(s)
           n == Len(s)
<1>1. n \in Nat \ {0} /\ Head(s) = s[1] /\ Len(t) = n - 1 /\ \A k \in 1 .. n - 1 : t[k] = s[k + 1]
  BY TailIs
<1> HIDE DEF t, n
<1>2. /\ 1 \in 1 .. n
      /\ \A k \in 1 .. n - 1 : k + 1 \in 1 .. n /\ k + 1 # 1
      /\ \A j, k \in 1 .. n - 1 : j + 1 = k + 1 => j = k
  BY <1>1
<1>3. \A k \in 1 .. Len(t) : k \in 1 .. n - 1
  BY <1>1
<1> QED BY <1>1, <1>2, <1>3 DEF Never, Once, t, n

\* None of the messages is of a type in T.
Lacks(s, T) == \A k \in 1 .. Len(s) : s[k].type \notin T

(* The same for those that are added *)
LEMMA ConcatLacks ==
    ASSUME NEW s, IsSeq(s), NEW t, IsSeq(t), NEW T, Lacks(s, T), Lacks(t, T)
    PROVE  Lacks(s \o t, T)
<1>1. ASSUME NEW k \in 1 .. Len(s \o t) PROVE (s \o t)[k].type \notin T
  <2>1. \/ k \in 1 .. Len(s) /\ (s \o t)[k] = s[k]
        \/ \E j \in 1 .. Len(t) : k = Len(s) + j /\ (s \o t)[k] = t[j]
    BY <1>1, ConcatElements
  <2> QED BY <2>1 DEF Lacks
<1> QED BY <1>1 DEF Lacks

(* There is still one announcement at most. *)
LEMMA ConcatOnce ==
    ASSUME NEW s, IsSeq(s), NEW t, IsSeq(t)
    PROVE  /\ Never(s) /\ Never(t) => Never(s \o t)
           /\ Once(s) /\ Never(t) => Once(s \o t)
           /\ Never(s) /\ Len(t) = 1 => Once(s \o t)
<1>1. \A k \in 1 .. Len(s \o t) :
          \/ k \in 1 .. Len(s) /\ (s \o t)[k] = s[k]
          \/ \E j \in 1 .. Len(t) : k = Len(s) + j /\ (s \o t)[k] = t[j]
  BY ConcatElements
<1>2. Never(s) /\ Never(t) => Never(s \o t)
  BY <1>1 DEF Never
<1>3. Once(s) /\ Never(t) => Once(s \o t)
  BY <1>1 DEF Never, Once
<1>4. ASSUME Never(s), Len(t) = 1, NEW j \in 1 .. Len(s \o t), NEW k \in 1 .. Len(s \o t),
             (s \o t)[j].type = "channel_reestablish", (s \o t)[k].type = "channel_reestablish"
      PROVE  j = k
  <2>1. \A i \in 1 .. 1 : i = 1
    OBVIOUS
  <2>2. j = Len(s) + 1 /\ k = Len(s) + 1
    BY <1>1, <1>4, <2>1 DEF Never
  <2> QED BY <2>2
<1> QED BY <1>2, <1>3, <1>4 DEF Once

(* A channel_reestablish arrives when the channel is not good yet, and suits the log. *)
LEMMA ReestablishSuits ==
    ASSUME OpenInv, NEW n \in Node, ReestablishArrived(n)
    PROVE  /\ ch[n].reest = << >> /\ ~Good(n)
           /\ ~(Head(net[n]).next_revocation_number > ch[n].hm.ctn[Local])
           /\ ~Differ(ch[n].hm, Head(net[n]))
<1> DEFINE p == Peer(n)
           x == Head(net[n])
<1>1. /\ p \in Node /\ Peer(p) = n /\ BasicInv /\ Dance /\ ForwardAt(n) /\ ForwardAt(p)
      /\ OpenAt(n) /\ OpenAt(p)
  BY PeerFacts DEF OpenInv, ForwardInv, DanceInv, Forward, ForwardAt
<1>2. net[n] # << >> /\ x.type = "channel_reestablish" /\ IsSeq(net[n])
  BY <1>1 DEF ReestablishArrived, BasicInv, Types
<1>3. ~Never(net[n])
  BY <1>2, TailOnce
<1>4. ch[n].reest = << >> /\ ~Good(n)
  BY <1>1, <1>3 DEF OpenAt
<1>5. IsAnnouncement(n, x)
  <2>1. Len(net[n]) \in Nat \ {0} /\ x = net[n][1]
    BY <1>1, <1>2, HeadIs
  <2>2. 1 \in 1 .. Len(net[n])
    BY <2>1
  <2> QED BY <1>1, <2>1, <2>2 DEF Dance
<1>6. ch[p].state = "OPEN"
  BY <1>1 DEF OpenAt
<1> DEFINE l == ch[n].hm.ctn[Local]
           r == ch[n].hm.ctn[Remote]
           pl == ch[p].hm.ctn[Local]
           pr == ch[p].hm.ctn[Remote]
<1>7. x.next_commitment_number = pl + 1 /\ x.next_revocation_number = pr
  BY <1>2, <1>4, <1>5, <1>6 DEF IsAnnouncement, Tells, p
<1>8. l \in Nat /\ r \in Nat /\ pl \in Nat /\ pr \in Nat
  BY <1>1, OwnerFacts DEF BasicInv, Types, IsChannel, IsLog
<1>9. /\ ctn_latest(ch[n].hm, Remote) = IF ch[n].hm.revack[Remote] THEN r + 1 ELSE r
      /\ ctn_latest(ch[p].hm, Remote) \in {pr, pr + 1}
      /\ next_ctn(ch[n].hm, Remote) = ctn_latest(ch[n].hm, Remote) + 1
  BY <1>8 DEF ctn_latest, next_ctn
<1>10. /\ r <= pl /\ pl <= ctn_latest(ch[n].hm, Remote)
       /\ pr <= l /\ l <= ctn_latest(ch[p].hm, Remote)
  BY <1>1 DEF ForwardAt
<1>11. Differ(ch[n].hm, x) <=>
           \/ pl + 1 > next_ctn(ch[n].hm, Remote)
           \/ /\ ~ \/ pl + 1 = next_ctn(ch[n].hm, Remote)
                   \/ pl + 1 = ctn_latest(ch[n].hm, Remote) /\ ch[n].hm.revack[Remote]
              /\ pl + 1 < next_ctn(ch[n].hm, Remote)
           \/ pr < l - 1
  BY <1>7 DEF Differ
<1> HIDE DEF l, r, pl, pr, x, p
<1>12. ~(pr > l) /\ ~(pr < l - 1)
  BY <1>8, <1>9, <1>10
<1>13. CASE ch[n].hm.revack[Remote]
  BY <1>4, <1>7, <1>8, <1>9, <1>10, <1>11, <1>12, <1>13 DEF x, l
<1>14. CASE ~ch[n].hm.revack[Remote]
  BY <1>4, <1>7, <1>8, <1>9, <1>10, <1>11, <1>12, <1>14 DEF x, l
<1> QED BY <1>13, <1>14

\* The channel_reestablish of the other node arrives.
Hears(n, o, inbox) ==
    /\ net[n] # << >> /\ inbox = Tail(net[n]) /\ Head(net[n]).type = "channel_reestablish"
    /\ ch[n].reest = << >> /\ ~Good(n)
    /\ SameBut({"reest"}, ch[n], o.c) /\ o.c.reest = <<Head(net[n])>> /\ o.out = << >>
    /\ Blocked(o.c)

\* What n does that leaves the channel open
Open(n, o, inbox) ==
    \/ /\ SameBut({"hm"}, ch[n], o.c) /\ Never(o.out)
    \/ Hears(n, o, inbox)
    \/ /\ SameBut({"hm", "peer_state", "task"}, ch[n], o.c) /\ inbox = net[n]
       /\ ~Good(n) /\ ch[n].task = "none"
       /\ o.c.peer_state = "REESTABLISHING" /\ o.c.task = "waiting" /\ Len(o.out) = 1
    \/ /\ SameBut({"peer_state", "task", "reest"}, ch[n], o.c) /\ inbox = net[n]
       /\ ch[n].reest # << >> /\ o.c.peer_state = "GOOD"
       /\ o.c.reest = << >> /\ o.c.task = "none" /\ Never(o.out)

(* It does nothing else. *)
LEMMA KindIsOpen ==
    ASSUME OpenInv, MayClose = {}, NEW n \in Node, NEW o, NEW inbox, Kind(n, o, inbox)
    PROVE  /\ Open(n, o, inbox)
           /\ \A k \in 1 .. Len(o.out) : o.out[k].type \notin {"shutdown", "closing_signed"}
<1>1. /\ BasicInv /\ Dance /\ OpenAt(n) /\ ch[Peer(n)].state = "OPEN"
      /\ ch[n].state = "OPEN" /\ ch[n].close.at = "none" /\ ~ch[n].shutdown
  BY PeerFacts DEF OpenInv, ForwardInv, DanceInv, OpenAt
<1>2. CASE Work(n, o)
  BY <1>2 DEF Work, Open, Never, Updates
<1>3. CASE Reestablishes(n, o, inbox)
  <2>1. ReestablishArrived(n)
    BY <1>3 DEF Reestablishes, ReestablishArrived
  <2>2. /\ ch[n].reest = << >> /\ ~Good(n) /\ o.out = << >>
        /\ SameBut({"reest"}, ch[n], o.c) /\ o.c.reest = <<Head(net[n])>>
        /\ net[n] # << >> /\ inbox = Tail(net[n]) /\ Head(net[n]).type = "channel_reestablish"
    BY <1>3, <2>1, ReestablishSuits DEF Reestablishes
  <2>3. Blocked(o.c)
    <3> DEFINE x == Head(net[n])
    <3>1. x.type = "channel_reestablish" /\ o.c.reest = <<x>>
      BY <2>2
    <3> HIDE DEF x
    <3>2. <<x>>[1] = x /\ <<Exception>>[1] = Exception /\ Exception.type = "exception"
          /\ Len(<<x>>) = 1 /\ Len(<< >>) = 0
      BY ShortSeqs DEF Exception
    <3> HIDE DEF Exception
    <3> QED BY <3>1, <3>2 DEF Blocked
  <2>4. \A k \in 1 .. Len(o.out) : FALSE
    BY <2>2, ShortSeqs
  <2> QED BY <2>2, <2>3, <2>4 DEF Open, Hears
<1>4. CASE Errs(n, o)
  <2>1. net[n] # << >> /\ Head(net[n]).type = "error"
    BY <1>4 DEF Errs
  <2>2. ErrorArrived(n) => ch[Peer(n)].state = "WE_ARE_TOXIC"
    BY <1>1, Arrives
  <2> QED BY <1>1, <2>1, <2>2 DEF ErrorArrived
<1>5. CASE Starts(n, o) /\ inbox = net[n]
  <2>1. ~Good(n) /\ ch[n].task = "none"
    BY <1>1, <1>5 DEF Starts, CanStart, Good, OpenAt
  <2>2. /\ SameBut({"hm", "peer_state", "task"}, ch[n], o.c)
        /\ o.c.peer_state = "REESTABLISHING" /\ o.c.task = "waiting"
        /\ o.out = <<OwnAnnouncement(ch[n].hm)>>
    BY <1>1, <1>5 DEF Starts
  <2>3. Len(o.out) = 1 /\ o.out[1].type = "channel_reestablish"
    BY <2>2, ShortSeqs DEF OwnAnnouncement, channel_reestablish
  <2>4. \A k \in 1 .. 1 : k = 1
    OBVIOUS
  <2> QED BY <1>5, <2>1, <2>2, <2>3, <2>4 DEF Open
<1>6. CASE Finishes(n, o) /\ inbox = net[n]
  BY <1>6 DEF Finishes, CanFinish, Open, Never, Updates
<1>7. CASE Negotiates(n, o) /\ \/ MayNegotiate(n)
                               \/ o.exc # Ok /\ ch[n].shutdown /\ o.c.close.at = ch[n].close.at
                               \/ CloseArrived(n) /\ o.c.close = ch[n].close
  <2>1. ~MayNegotiate(n)
    BY <1>1 DEF MayNegotiate
  <2>2. ~CloseArrived(n)
    <3>1. net[n] # << >> => Len(net[n]) \in Nat \ {0} /\ Head(net[n]) = net[n][1]
      BY <1>1, HeadIs
    <3>2. net[n] # << >> => 1 \in 1 .. Len(net[n])
      BY <3>1
    <3> QED BY <1>1, <3>1, <3>2 DEF CloseArrived, OpenAt
  <2> QED BY <1>1, <1>7, <2>1, <2>2
<1> QED BY <1>2, <1>3, <1>4, <1>5, <1>6, <1>7 DEF Kind

(* A step of a node leaves the channel open. *)
LEMMA ActsOpen ==
    ASSUME OpenInv, MayClose = {}, NEW n \in Node, Acts(n)
    PROVE  \A q \in Node : OpenAt(q)'
<1> DEFINE p == Peer(n)
<1>1. /\ p \in Node /\ p # n /\ Peer(p) = n /\ (\A q \in Node : q = n \/ q = p)
      /\ BasicInv /\ OpenAt(n) /\ OpenAt(p)
      /\ IsSeq(net[n]) /\ IsSeq(net[p]) /\ IsChannel(ch[p], SignedBy(p))
      /\ DOMAIN ch = Node /\ DOMAIN net = Node
  BY PeerFacts DEF OpenInv, ForwardInv, DanceInv, BasicInv, Types
<1>2. PICK o, inbox : /\ Step(n, o, inbox) /\ IsInbox(n, inbox) /\ Outcome(n, o)
                      /\ Kind(n, o, inbox)
  BY DEF Acts
<1>3. PICK txs : Fine(n, o, txs)
  BY <1>2, StepSigns
<1>4. IsSeq(o.out) /\ IsChannel(o.c, txs)
  BY <1>3 DEF Fine, Sound
<1>5. Open(n, o, inbox) /\ \A k \in 1 .. Len(o.out) : o.out[k].type \notin {"shutdown", "closing_signed"}
  BY <1>2, KindIsOpen
<1> HIDE DEF p
<1>6. /\ o.c.state = "OPEN" /\ o.c.close.at = "none" /\ ~o.c.shutdown
      /\ o.c.task # "spawned" /\ o.c.reest # <<Exception>>
  <2> HIDE DEF Exception
  <2>1. /\ o.c.state = ch[n].state /\ o.c.close = ch[n].close /\ o.c.shutdown = ch[n].shutdown
        /\ o.c.task \in {ch[n].task, "waiting", "none"}
        /\ \/ o.c.reest \in {ch[n].reest, << >>}
           \/ Blocked(o.c)
    BY <1>5 DEF Open, Hears, SameBut, ChannelFields
  <2>2. << >> # <<Exception>>
    BY ShortSeqs
  <2> QED BY <1>1, <2>1, <2>2 DEF OpenAt, Blocked
<1>7. CASE o.exc # Ok
  <2>1. /\ ch'[n] = Disconnected(o.c) /\ ch'[p] = Disconnected(ch[p])
        /\ net'[n] = << >> /\ net'[p] = << >>
    BY <1>1, <1>2, <1>7 DEF Step
  <2>2. NotClosing.at = "none" /\ Never(<< >>) /\ Once(<< >>) /\ \A k \in 1 .. Len(<< >>) : FALSE
    BY ShortSeqs DEF NotClosing, Never, Once
  <2>3. ASSUME NEW c, NEW S, IsChannel(c, S), c.state = "OPEN", c.close.at = "none"
        PROVE  /\ Disconnected(c).state = "OPEN" /\ Disconnected(c).close.at = "none"
               /\ ~Disconnected(c).shutdown /\ Disconnected(c).task = "none"
               /\ Disconnected(c).reest = << >> /\ Disconnected(c).peer_state = "DISCONNECTED"
    BY <2>2, <2>3, DisconnectedIs
  <2>4. \A q \in Node :
            /\ ch'[q].state = "OPEN" /\ ch'[q].close.at = "none" /\ ~ch'[q].shutdown
            /\ ch'[q].task = "none" /\ ch'[q].reest = << >>
            /\ ch'[q].peer_state = "DISCONNECTED" /\ net'[q] = << >>
    BY <1>1, <1>4, <1>6, <2>1, <2>3 DEF OpenAt
  <2>5. << >> # <<Exception>>
    <3> HIDE DEF Exception
    <3> QED BY ShortSeqs
  <2> QED BY <2>2, <2>4, <2>5 DEF OpenAt, Good
<1>8. CASE o.exc = Ok
  <2>1. /\ ch'[n] = o.c /\ ch'[p] = ch[p] /\ net'[n] = inbox
        /\ net'[p] = net[p] \o o.out \/ net'[p] = net[p]
    BY <1>1, <1>2, <1>8 DEF Step, p
  <2>2. /\ \A k \in 1 .. Len(inbox) : \E j \in 1 .. Len(net[n]) : inbox[k] = net[n][j]
        /\ Never(net[n]) => Never(inbox)
        /\ Once(inbox)
    <3>1. inbox = net[n] \/ (net[n] # << >> /\ inbox = Tail(net[n]))
      BY <1>2 DEF IsInbox
    <3>2. Once(net[n])
      BY <1>1 DEF OpenAt
    <3>3. /\ Never(net[n]) => Never(inbox)
          /\ Once(net[n]) => Once(inbox)
      <4> DEFINE s == net[n]
      <4>1. IsSeq(s) /\ (inbox = s \/ (s # << >> /\ inbox = Tail(s)))
        BY <1>1, <3>1
      <4> HIDE DEF s
      <4>2. (Never(s) => Never(inbox)) /\ (Once(s) => Once(inbox))
        BY <4>1, TailOnce
      <4> QED BY <4>2 DEF s
    <3> QED BY <1>1, <1>2, <3>2, <3>3, InboxIs
  <2>3. /\ \A k \in 1 .. Len(net'[p]) : net'[p][k].type \notin {"shutdown", "closing_signed"}
        /\ Never(net[p]) /\ Never(o.out) => Never(net'[p])
        /\ Once(net[p]) /\ Never(o.out) => Once(net'[p])
        /\ Never(net[p]) /\ Len(o.out) = 1 => Once(net'[p])
    <3> DEFINE s == net[p]
               t == o.out
    <3>1. IsSeq(s) /\ IsSeq(t)
      BY <1>1, <1>4
    <3>2. \A k \in 1 .. Len(s) : s[k].type \notin {"shutdown", "closing_signed"}
      BY <1>1 DEF OpenAt
    <3>3. \A k \in 1 .. Len(t) : t[k].type \notin {"shutdown", "closing_signed"}
      BY <1>5
    <3>4. net'[p] = s \o t \/ net'[p] = s
      BY <2>1
    <3> HIDE DEF s, t
    <3>5. Lacks(s \o t, {"shutdown", "closing_signed"})
      <4>1. Lacks(s, {"shutdown", "closing_signed"}) /\ Lacks(t, {"shutdown", "closing_signed"})
        BY <3>2, <3>3 DEF Lacks
      <4> QED BY <3>1, <4>1, ConcatLacks
    <3>6. /\ Never(s) /\ Never(t) => Never(s \o t)
          /\ Once(s) /\ Never(t) => Once(s \o t)
          /\ Never(s) /\ Len(t) = 1 => Once(s \o t)
      BY <3>1, ConcatOnce
    <3>7. Never(s) => Once(s)
      BY DEF Never, Once
    <3>8. /\ \A k \in 1 .. Len(net'[p]) : net'[p][k].type \notin {"shutdown", "closing_signed"}
          /\ Never(s) /\ Never(t) => Never(net'[p])
          /\ Once(s) /\ Never(t) => Once(net'[p])
          /\ Never(s) /\ Len(t) = 1 => Once(net'[p])
      <4>1. CASE net'[p] = s
        BY <3>2, <3>7, <4>1
      <4>2. CASE net'[p] = s \o t
        BY <3>5, <3>6, <4>2 DEF Lacks
      <4> QED BY <3>4, <4>1, <4>2
    <3> QED BY <3>8 DEF s, t
  <2>4. /\ ch[n].reest # << >> \/ Good(n) => Never(net[n])
        /\ ch[n].reest # << >> => ~Good(n)
        /\ ~Good(p) /\ ch[p].task = "none" => Never(net[n]) /\ ch[n].reest = << >> /\ ~Good(n)
    BY <1>1 DEF OpenAt, p
  <2>5. /\ ch[p].reest # << >> \/ Good(p) => Never(net[p])
        /\ ch[p].reest # << >> => ~Good(p)
        /\ ~Good(n) /\ ch[n].task = "none" => Never(net[p]) /\ ch[p].reest = << >> /\ ~Good(p)
    BY <1>1 DEF OpenAt
  <2>6. \/ /\ o.c.reest = ch[n].reest /\ o.c.peer_state = ch[n].peer_state
           /\ o.c.task = ch[n].task /\ Never(o.out)
        \/ /\ Never(inbox) /\ ~Never(net[n]) /\ o.c.peer_state = ch[n].peer_state
           /\ ~Good(n) /\ o.c.task = ch[n].task /\ Never(o.out)
        \/ /\ inbox = net[n] /\ ~Good(n) /\ ch[n].task = "none" /\ o.c.reest = ch[n].reest
           /\ o.c.peer_state # "GOOD" /\ o.c.task # "none" /\ Len(o.out) = 1
        \/ /\ inbox = net[n] /\ ch[n].reest # << >> /\ o.c.peer_state = "GOOD"
           /\ o.c.reest = << >> /\ Never(o.out)
    <3>1. Hears(n, o, inbox) => Never(inbox) /\ ~Never(net[n]) /\ Never(o.out)
      <4>1. Once(net[n])
        BY <1>1 DEF OpenAt
      <4>2. Never(<< >>)
        BY ShortSeqs DEF Never
      <4> QED BY <1>1, <4>1, <4>2, TailOnce DEF Hears
    <3>2. Hears(n, o, inbox) => /\ o.c.peer_state = ch[n].peer_state /\ ~Good(n)
                                /\ o.c.task = ch[n].task
      BY DEF Hears, SameBut, ChannelFields
    <3> HIDE DEF Hears, Never
    <3> QED BY <1>5, <3>1, <3>2 DEF Open, SameBut, ChannelFields
  <2> HIDE DEF Exception, Never, Once
  <2>7. OpenAt(n)'
    <3>1. \A k \in 1 .. Len(inbox) : inbox[k].type \notin {"shutdown", "closing_signed"}
      BY <1>1, <2>2 DEF OpenAt
    <3>2. /\ o.c.reest # << >> \/ o.c.peer_state = "GOOD" => Never(inbox)
          /\ o.c.reest # << >> => o.c.peer_state # "GOOD"
          /\ ~Good(p) /\ ch[p].task = "none" =>
                Never(inbox) /\ o.c.reest = << >> /\ o.c.peer_state # "GOOD"
      BY <2>2, <2>4, <2>6 DEF Good
    <3>3. Never(net[n])' <=> Never(inbox)
      BY <2>1 DEF Never
    <3>4. Once(net[n])'
      BY <2>1, <2>2 DEF Once
    <3> QED BY <1>6, <2>1, <3>1, <3>2, <3>3, <3>4 DEF OpenAt, Good, p
  <2>8. OpenAt(p)'
    <3>1. /\ Once(net'[p])
          /\ ch[p].reest # << >> \/ Good(p) => Never(net'[p])
          /\ o.c.peer_state # "GOOD" /\ o.c.task = "none" =>
                Never(net'[p]) /\ ch[p].reest = << >> /\ ~Good(p)
      <4>1. Once(net[p])
        BY <1>1 DEF OpenAt
      <4> QED BY <2>3, <2>5, <2>6, <4>1 DEF Good
    <3> QED BY <1>1, <2>1, <2>3, <2>5, <3>1 DEF OpenAt, Good
  <2> QED BY <1>1, <2>7, <2>8
<1> QED BY <1>7, <1>8

(* So does what happens to the connection, the processes and the files. *)
LEMMA EnvironmentOpen ==
    ASSUME OpenInv,
           \/ Connect \/ Disconnect
           \/ \E n \in Node : Crash(n) \/ SaveDb(n) \/ Backup(n) \/ Restore(n)
    PROVE  \A q \in Node : OpenAt(q)'
<1>1. DanceInv /\ BasicInv /\ left.restores = 0 /\ \A q \in Node : OpenAt(q)
  BY DEF OpenInv, ForwardInv, DanceInv, Forward
<1>2. \A n \in Node : ~Restore(n)
  BY <1>1 DEF Restore
<1>3. CASE Connect \/ \E n \in Node : SaveDb(n) \/ Backup(n)
  <2>1. ch' = ch /\ net' = net
    BY <1>3 DEF Connect, SaveDb, Backup
  <2> QED BY <1>1, <2>1 DEF OpenAt, Good
<1>4. ASSUME NEW channels, DropConnection(channels),
             \A q \in Node : \E S : IsChannel(channels[q], S),
             \A q \in Node : /\ ch'[q].state = ch[q].state
                             /\ ch'[q].close \in {ch[q].close, NotClosing}
      PROVE  \A q \in Node : OpenAt(q)'
  <2>1. NotClosing.at = "none" /\ Never(<< >>) /\ Once(<< >>) /\ \A k \in 1 .. Len(<< >>) : FALSE
    BY ShortSeqs DEF NotClosing, Never, Once
  <2>2. ASSUME NEW q \in Node
        PROVE  /\ net'[q] = << >>
               /\ ~ch'[q].shutdown /\ ch'[q].task = "none" /\ ch'[q].reest = << >>
               /\ ch'[q].peer_state = "DISCONNECTED"
    <3>1. PICK S : IsChannel(channels[q], S)
      BY <1>4
    <3>2. ch'[q] = Disconnected(channels[q]) /\ net'[q] = << >>
      BY <1>4 DEF DropConnection
    <3> DEFINE c == channels[q]
    <3> HIDE DEF c
    <3>3. IsChannel(c, S)
      BY <3>1 DEF c
    <3>4. LET d == Disconnected(c)
          IN  /\ ~d.shutdown /\ d.task = "none" /\ d.reest = << >>
              /\ d.peer_state = "DISCONNECTED"
      BY <3>3, DisconnectedIs
    <3> QED BY <3>2, <3>4 DEF c
  <2>3. \A q \in Node : ch'[q].state = "OPEN" /\ ch'[q].close.at = "none"
    BY <1>1, <1>4, <2>1 DEF OpenAt
  <2>4. << >> # <<Exception>>
    <3> HIDE DEF Exception
    <3> QED BY ShortSeqs
  <2> QED BY <2>1, <2>2, <2>3, <2>4 DEF OpenAt, Good
<1>5. CASE Disconnect \/ \E n \in Node : Crash(n)
  <2>1. \A q \in Node : /\ ch'[q].state = ch[q].state
                        /\ ch'[q].close \in {ch[q].close, NotClosing}
    BY <1>1, <1>5, EnvironmentLogs
  <2>2. CASE Disconnect
    BY <1>1, <1>4, <2>1, <2>2 DEF Disconnect, BasicInv, Types
  <2>3. ASSUME NEW n \in Node, Crash(n) PROVE \A q \in Node : OpenAt(q)'
    <3> DEFINE channels == Loaded(n, disk[n])
    <3>1. IsFile(disk[n], SignedBy(n)) /\ DropConnection(channels)
      BY <1>1, <2>3 DEF Crash, BasicInv, Types
    <3>2. /\ IsChannel(Reads(n, disk[n]), SignedBy(n)) /\ channels[n] = Reads(n, disk[n])
          /\ \A q \in Node : q # n => channels[q] = ch[q]
      BY <1>1, <3>1, ReadsIs, LoadedIs
    <3> HIDE DEF channels
    <3>3. \A q \in Node : \E S : IsChannel(channels[q], S)
      BY <1>1, <3>2 DEF BasicInv, Types
    <3> QED BY <1>4, <2>1, <3>1, <3>3
  <2> QED BY <1>5, <2>2, <2>3
<1> QED BY <1>2, <1>3, <1>5

(* So the channel stays open. *)
LEMMA OpenStep == MayClose = {} /\ OpenInv /\ [Next]_vars => OpenInv'
<1> SUFFICES ASSUME MayClose = {}, OpenInv, [Next]_vars PROVE OpenInv'
  OBVIOUS
<1>1. ForwardInv' /\ DanceInv
  BY ForwardStep DEF OpenInv, ForwardInv
<1>2. CASE Next
  BY <1>1, <1>2, NextIs, ActsOpen, EnvironmentOpen DEF OpenInv
<1>3. CASE UNCHANGED vars
  BY <1>1, <1>3 DEF vars, OpenInv, OpenAt, Good
<1> QED BY <1>2, <1>3

(* At the start it is open, and good. *)
LEMMA OpenStarts == ASSUME MaxRestores = 0, Init PROVE OpenInv
<1>1. ForwardInv
  BY ForwardStarts
<1>2. ASSUME NEW q \in Node
      PROVE  /\ ch[q].state = "OPEN" /\ ch[q].close.at = "none" /\ ~ch[q].shutdown
             /\ ch[q].task = "none" /\ ch[q].reest = << >> /\ ch[q].peer_state = "GOOD"
             /\ net[q] = << >>
  BY DEF Init, NotClosing
<1>3. Never(<< >>) /\ Once(<< >>) /\ \A k \in 1 .. Len(<< >>) : FALSE
  BY ShortSeqs DEF Never, Once
<1>4. << >> # <<Exception>>
  <2> HIDE DEF Exception
  <2> QED BY ShortSeqs
<1>5. ASSUME NEW q \in Node PROVE OpenAt(q)
  <2>1. Peer(q) \in Node
    BY PeerFacts
  <2> QED BY <1>2, <1>3, <1>4, <2>1 DEF OpenAt, Good
<1> QED BY <1>1, <1>5 DEF OpenInv

(* Unless an old copy of a wallet file is restored, or a user closes the channel, it is   *)
(* neither force-closed nor given up: whatever is on the way, or half done, when the      *)
(* connection is lost or a node crashes, on_channel_reestablish finds the logs of both    *)
(* nodes in step.                                                                         *)
THEOREM CrashesCloseNothing ==
    ASSUME MaxRestores = 0, MayClose = {}
    PROVE  Spec => []NeverForceClosed
<1>1. Init => OpenInv
  BY OpenStarts
<1>2. OpenInv /\ [Next]_vars => OpenInv'
  BY OpenStep
<1>3. OpenInv => NeverForceClosed
  BY DEF OpenInv, OpenAt, NeverForceClosed
<1> QED BY <1>1, <1>2, <1>3, PTL DEF Spec


-----------------------------------------------------------------------------
(* The two nodes close the channel together. *)

\* At most one of the messages is of a type.
Single(s, type) == \A j, k \in 1 .. Len(s) : s[j].type = type /\ s[k].type = type => j = k

\* The closing_signed that a node with channel c has not read yet
Offers(c, s) ==
    {c.inbox[k] : k \in DOMAIN c.inbox}
        \cup {s[k] : k \in {k \in 1 .. Len(s) : s[k].type = "closing_signed"}}

\* A shutdown is on its way to a node with channel c, or waits for its task.
Asked(c, s) == c.shutdown \/ ~Lacks(s, {"shutdown"})

\* No other shutdown can come to it.
Heard(c) == c.close.received \/ (c.state \in {"SHUTDOWN", "CLOSING"} /\ ~c.close.is_local)

\* A node with channel c will send no shutdown.
Spent(c) == c.state # "OPEN" /\ (c.close.at = "pending" => ~c.close.is_local)

IsRange(r) == r \in [fee : Nat, min : Nat, max : Nat] /\ r.min <= r.fee /\ r.fee <= r.max

\* In what follows c is the channel of node n and d that of its peer, the messages on
\* their ways are s to n and t to the peer.

\* Each node is sent one shutdown.
ShutsOnce(c, d, s) ==
    /\ Single(s, "shutdown") /\ (c.shutdown => Lacks(s, {"shutdown"}))
    /\ Asked(c, s) => Spent(d)
    /\ Heard(c) => ~Asked(c, s) /\ Spent(d)

\* How the states of a close and of the channel fit
Stage(c) ==
    /\ c.close.at = "receiving" => c.close.received
    /\ c.close.at # "none" /\ ~c.close.is_local => c.close.received
    /\ c.close.at = "pending" => c.state # "SHUTDOWN"
    /\ c.close.at \in {"sent", "receiving"} => c.state # "OPEN"
    /\ c.state = "CLOSING" => c.close = NotClosing

\* No fee is offered before both have shut down, nor by the other node before ours.
NotYet(n, c, d, s, t) ==
    c.close.at = "sent" \/ c.state = "OPEN" =>
        Offers(d, t) = {} /\ d.state # "CLOSING" /\ (n = Funder => Offers(c, s) = {})

\* One closing_signed at a time is on its way or waits to be read.
OneOffer(c, d, s, t) ==
    /\ c.inbox = << >> \/ (c.inbox = <<c.inbox[1]>> /\ Lacks(s, {"closing_signed"}))
    /\ Single(s, "closing_signed")
    /\ Offers(c, s) = {} \/ Offers(d, t) = {}

\* It says what the peer has, and that of a peer that closed is for its closing tx.
Offered(c, d, s) ==
    \A x \in Offers(c, s) :
        /\ x.range = d.fee_range /\ x.sig.fee = x.range.fee
        /\ d.state = "CLOSING" => d.closing_tx = <<x.sig>>

\* Who closed has a closing tx that suits both.
Settled(c, d) ==
    /\ IsRange(c.fee_range)
    /\ c.state = "CLOSING" =>
          /\ c.closing_tx[1].fee \in c.fee_range.min .. c.fee_range.max
          /\ c.closing_tx[1].fee \in d.fee_range.min .. d.fee_range.max
          /\ d.state = "CLOSING" => c.closing_tx = d.closing_tx

CloseAt(n, c, d, s, t) ==
    /\ ShutsOnce(c, d, s) /\ Stage(c) /\ NotYet(n, c, d, s, t)
    /\ OneOffer(c, d, s, t) /\ Offered(c, d, s) /\ Settled(c, d)

Agree(n, c, d, s, t) == CloseAt(n, c, d, s, t) /\ CloseAt(Peer(n), d, c, t, s)

\* Messages that say no more of a close
Less(s, r) ==
    /\ \A type \in Closings : /\ Lacks(s, {type}) => Lacks(r, {type})
                              /\ Single(s, type) => Single(r, type)
    /\ \A c : Offers(c, r) \subseteq Offers(c, s)

(* Some messages are left if the first is taken... *)
LEMMA TailLess ==
    ASSUME NEW s, IsSeq(s), s # << >>
    PROVE  /\ Less(s, Tail(s))
           /\ \A type \in Closings : Single(s, type) /\ Head(s).type = type => Lacks(Tail(s), {type})
           /\ \A type \in Closings : Head(s).type = type => ~Lacks(s, {type})
           /\ Head(s).type = "closing_signed" => \A c : Head(s) \in Offers(c, s)
<1> DEFINE t == Tail(s)
           n == Len(s)
<1>1. n \in Nat \ {0} /\ Head(s) = s[1] /\ Len(t) = n - 1 /\ \A k \in 1 .. n - 1 : t[k] = s[k + 1]
  BY TailIs
<1> HIDE DEF t, n
<1>2. /\ 1 \in 1 .. n
      /\ \A k \in 1 .. n - 1 : k + 1 \in 1 .. n /\ k + 1 # 1
      /\ \A j, k \in 1 .. n - 1 : j + 1 = k + 1 => j = k
  BY <1>1
<1>3. \A k \in 1 .. Len(t) : k \in 1 .. n - 1
  BY <1>1
<1>4. \A c : Offers(c, t) \subseteq Offers(c, s)
  BY <1>1, <1>2, <1>3 DEF Offers, n
<1>5. \A type : /\ Lacks(s, {type}) => Lacks(t, {type})
                /\ Single(s, type) => Single(t, type)
                /\ Single(s, type) /\ Head(s).type = type => Lacks(t, {type})
                /\ Head(s).type = type => ~Lacks(s, {type})
  BY <1>1, <1>2, <1>3 DEF Lacks, Single, n
<1>6. Head(s).type = "closing_signed" => \A c : Head(s) \in Offers(c, s)
  BY <1>1, <1>2 DEF Offers, n
<1> QED BY <1>4, <1>5, <1>6 DEF Less, t

(* ... others are added, none are, or all are lost. *)
LEMMA OthersLess ==
    ASSUME NEW s, IsSeq(s), NEW t, IsSeq(t), Lacks(t, Closings)
    PROVE  Less(s, s \o t) /\ Less(s, s) /\ Less(s, << >>)
<1>1. \A k \in 1 .. Len(s \o t) :
          \/ k \in 1 .. Len(s) /\ (s \o t)[k] = s[k]
          \/ \E j \in 1 .. Len(t) : k = Len(s) + j /\ (s \o t)[k] = t[j]
  BY ConcatElements
<1>2. \A type \in Closings : /\ Lacks(s, {type}) => Lacks(s \o t, {type})
                             /\ Single(s, type) => Single(s \o t, type)
  BY <1>1 DEF Lacks, Single, Closings
<1>3. \A c : Offers(c, s \o t) \subseteq Offers(c, s)
  <2> DEFINE r == s \o t
  <2>1. \A k \in 1 .. Len(r) : r[k].type = "closing_signed" => k \in 1 .. Len(s) /\ r[k] = s[k]
    BY <1>1 DEF Lacks, Closings
  <2> HIDE DEF r
  <2> QED BY <2>1 DEF Offers, r
<1>4. Less(s, << >>)
  BY ShortSeqs DEF Less, Lacks, Single, Offers
<1> QED BY <1>2, <1>3, <1>4 DEF Less

\* With x, or without it if there is no connection
Adds(s, x, r) ==
    /\ \A type \in Closings :
          /\ Lacks(s, {type}) /\ x.type # type => Lacks(r, {type})
          /\ Single(s, type) /\ x.type # type => Single(r, type)
          /\ Lacks(s, {type}) => Single(r, type)
    /\ \A c : Offers(c, r) \subseteq
                 Offers(c, s) \cup (IF x.type = "closing_signed" THEN {x} ELSE {})

(* One more message *)
LEMMA OneMore ==
    ASSUME NEW s, IsSeq(s), NEW x
    PROVE  Adds(s, x, s \o <<x>>) /\ Adds(s, x, s)
<1> DEFINE r == s \o <<x>>
<1>1. /\ Len(s) \in Nat /\ IsSeq(<<x>>) /\ Len(<<x>>) = 1 /\ <<x>>[1] = x
      /\ \A j \in 1 .. 1 : j = 1
  BY ShortSeqs DEF IsSeq
<1>2. Len(r) = Len(s) + 1 /\ \A k \in 1 .. Len(r) : r[k] = IF k <= Len(s) THEN s[k] ELSE <<x>>[k - Len(s)]
  BY <1>1, ConcatIs
<1> HIDE DEF r
<1>3. /\ Len(s) + 1 \in 1 .. Len(r) /\ r[Len(s) + 1] = x
      /\ \A k \in 1 .. Len(s) : k \in 1 .. Len(r) /\ r[k] = s[k]
      /\ \A k \in 1 .. Len(r) : k \in 1 .. Len(s) \/ k = Len(s) + 1
  BY <1>1, <1>2
<1>4. \A type : /\ Lacks(s, {type}) /\ x.type # type => Lacks(r, {type})
                /\ Single(s, type) /\ x.type # type => Single(r, type)
                /\ Lacks(s, {type}) => Single(r, type)
  BY <1>3 DEF Lacks, Single
<1>5. \A c : Offers(c, r) = Offers(c, s) \cup (IF x.type = "closing_signed" THEN {x} ELSE {})
  BY <1>3 DEF Offers
<1>6. Adds(s, x, s)
  BY DEF Adds, Lacks, Single
<1> QED BY <1>4, <1>5, <1>6 DEF Adds, r

\* Nothing is offered that was not.
NoOffer(s, r) ==
    /\ Lacks(s, {"closing_signed"}) => Lacks(r, {"closing_signed"})
    /\ Single(s, "closing_signed") => Single(r, "closing_signed")
    /\ \A c : Offers(c, r) \subseteq Offers(c, s)

(* A shutdown is none. *)
LEMMA NoOfferIs ==
    /\ \A s : NoOffer(s, s)
    /\ \A s, r : Less(s, r) => NoOffer(s, r)
    /\ \A s, x, r : Adds(s, x, r) /\ x.type = "shutdown" => NoOffer(s, r)
<1>1. "closing_signed" \in Closings
  BY DEF Closings
<1> QED BY <1>1 DEF NoOffer, Less, Adds

\* What a step that is not about offers leaves
OffersKept(c, b) ==
    /\ b.inbox = c.inbox /\ b.fee_range = c.fee_range /\ b.closing_tx = c.closing_tx
    /\ b.state = "CLOSING" => c.state = "CLOSING"
    /\ b.close.at = "sent" \/ b.state = "OPEN" => c.close.at = "sent" \/ c.state = "OPEN"

\* The part of CloseAt that is about offers
OffersAt(n, c, d, s, t) ==
    NotYet(n, c, d, s, t) /\ OneOffer(c, d, s, t) /\ Offered(c, d, s) /\ Settled(c, d)

(* Then what was said of the offers still holds. *)
LEMMA OffersStay ==
    ASSUME NEW n, NEW c, NEW d, NEW s, NEW t,
           OffersAt(n, c, d, s, t), OffersAt(Peer(n), d, c, t, s),
           NEW b, OffersKept(c, b), NEW r, NoOffer(s, r), NEW u, NoOffer(t, u)
    PROVE  OffersAt(n, b, d, r, u) /\ OffersAt(Peer(n), d, b, u, r)
<1>1. Offers(b, r) \subseteq Offers(c, s) /\ Offers(d, u) \subseteq Offers(d, t)
  <2>1. Offers(b, r) = Offers(c, r)
    BY DEF OffersKept, Offers
  <2> QED BY <2>1 DEF NoOffer
<1>2. NotYet(n, b, d, r, u) /\ NotYet(Peer(n), d, b, u, r)
  BY <1>1 DEF OffersAt, NotYet, OffersKept
<1>3. OneOffer(b, d, r, u) /\ OneOffer(d, b, u, r)
  BY <1>1 DEF OffersAt, OneOffer, OffersKept, NoOffer
<1>4. Offered(b, d, r) /\ Offered(d, b, u)
  BY <1>1 DEF OffersAt, Offered, OffersKept
<1>5. Settled(b, d) /\ Settled(d, b)
  BY DEF OffersAt, Settled, OffersKept
<1> QED BY <1>2, <1>3, <1>4, <1>5 DEF OffersAt

\* The part that is not
ShutsAt(c, d, s, t) == ShutsOnce(c, d, s) /\ ShutsOnce(d, c, t) /\ Stage(c) /\ Stage(d)

(* The two parts make the whole. *)
LEMMA AgreeIs ==
    ASSUME NEW n, NEW c, NEW d, NEW s, NEW t
    PROVE  Agree(n, c, d, s, t) <=> /\ ShutsAt(c, d, s, t)
                                    /\ OffersAt(n, c, d, s, t) /\ OffersAt(Peer(n), d, c, t, s)
  BY DEF Agree, CloseAt, ShutsAt, OffersAt

\* What the close does not look at
Apart == {"hm", "peer_state", "task", "reest", "may_update"}

(* The fields of a channel of which only some changed *)
LEMMA FieldsKept ==
    ASSUME NEW c, NEW b, SameBut(Apart \cup {"state", "shutdown", "close"}, c, b)
    PROVE  b.inbox = c.inbox /\ b.fee_range = c.fee_range /\ b.closing_tx = c.closing_tx
  BY DEF SameBut, ChannelFields, Apart

(* A shutdown is taken up... *)
LEMMA TakesShutdown ==
    ASSUME NEW n, NEW c, NEW d, NEW s, NEW t, Agree(n, c, d, s, t), c.shutdown,
           {"at", "is_local", "received"} \subseteq DOMAIN c.close,
           NEW b, SameBut(Apart \cup {"shutdown", "close"}, c, b), ~b.shutdown,
           b.close = [c.close EXCEPT !.received = TRUE]
    PROVE  Agree(n, b, d, s, t) /\ ~Heard(c)
<1>1. /\ b.state = c.state /\ b.close.at = c.close.at
      /\ b.close.is_local = c.close.is_local /\ b.close.received
  BY DEF SameBut, ChannelFields, Apart
<1>2. OffersKept(c, b)
  BY <1>1, FieldsKept DEF OffersKept, SameBut
<1>3. ShutsAt(c, d, s, t)
  BY AgreeIs
<1>4. ~Heard(c) /\ Asked(c, s)
  BY <1>3 DEF ShutsAt, ShutsOnce, Asked
<1>5. ShutsOnce(b, d, s) /\ ShutsOnce(d, b, t)
  BY <1>1, <1>3, <1>4 DEF ShutsAt, ShutsOnce, Asked, Heard, Spent
<1>6. Stage(b) /\ Stage(d)
  BY <1>1, <1>3, <1>4 DEF ShutsAt, Stage, Heard, NotClosing
<1> QED BY <1>2, <1>4, <1>5, <1>6, AgreeIs, OffersStay, NoOfferIs DEF ShutsAt

(* ... or a user wants the channel closed... *)
LEMMA WantsClose ==
    ASSUME NEW n, NEW c, NEW d, NEW s, NEW t, Agree(n, c, d, s, t),
           c.state = "OPEN", c.close = NotClosing,
           NEW b, SameBut(Apart \cup {"close"}, c, b),
           b.close = [c.close EXCEPT !.is_local = TRUE]
    PROVE  Agree(n, b, d, s, t)
<1>1. /\ b.state = c.state /\ b.shutdown = c.shutdown /\ b.close.at = "none"
      /\ b.close.is_local /\ ~b.close.received
      /\ c.close.at = "none" /\ ~c.close.is_local /\ ~c.close.received
  BY DEF SameBut, ChannelFields, Apart, NotClosing
<1>2. OffersKept(c, b)
  BY <1>1, FieldsKept DEF OffersKept, SameBut
<1>3. ShutsAt(c, d, s, t)
  BY AgreeIs
<1>4. ShutsOnce(b, d, s) /\ ShutsOnce(d, b, t) /\ Stage(b) /\ Stage(d)
  BY <1>1, <1>3 DEF ShutsAt, ShutsOnce, Asked, Heard, Spent, Stage
<1> QED BY <1>2, <1>4, AgreeIs, OffersStay, NoOfferIs DEF ShutsAt

(* ... and then the node waits until it can say so... *)
LEMMA WaitsToShut ==
    ASSUME NEW n, NEW c, NEW d, NEW s, NEW t, Agree(n, c, d, s, t),
           {"at", "is_local", "received"} \subseteq DOMAIN c.close,
           c.state \notin {"SHUTDOWN", "CLOSING"},
           IF c.close.is_local THEN c.state = "OPEN" ELSE c.close.received,
           NEW b, SameBut(Apart \cup {"close"}, c, b), b.close = [c.close EXCEPT !.at = "pending"]
    PROVE  Agree(n, b, d, s, t)
<1>1. /\ b.state = c.state /\ b.shutdown = c.shutdown /\ b.close.at = "pending"
      /\ b.close.is_local = c.close.is_local /\ b.close.received = c.close.received
  BY DEF SameBut, ChannelFields, Apart
<1>2. OffersKept(c, b)
  BY <1>1, FieldsKept DEF OffersKept, SameBut
<1>3. ShutsAt(c, d, s, t)
  BY AgreeIs
<1>4. ShutsOnce(b, d, s) /\ ShutsOnce(d, b, t) /\ Stage(b) /\ Stage(d)
  BY <1>1, <1>3 DEF ShutsAt, ShutsOnce, Asked, Heard, Spent, Stage
<1> QED BY <1>2, <1>4, AgreeIs, OffersStay, NoOfferIs DEF ShutsAt

(* ... and does... *)
LEMMA Shuts ==
    ASSUME NEW n, NEW c, NEW d, NEW s, NEW t, Agree(n, c, d, s, t),
           {"at", "is_local", "received"} \subseteq DOMAIN c.close,
           c.state = "OPEN", c.close.at = "pending",
           NEW b, SameBut(Apart \cup {"close", "state"}, c, b),
           b.close = [c.close EXCEPT !.at = "sent"], b.state = "SHUTDOWN",
           NEW x, x.type = "shutdown", NEW u, Adds(t, x, u)
    PROVE  Agree(n, b, d, s, u)
<1>1. /\ b.shutdown = c.shutdown /\ b.close.at = "sent"
      /\ b.close.is_local = c.close.is_local /\ b.close.received = c.close.received
  BY DEF SameBut, ChannelFields, Apart
<1>2. OffersKept(c, b)
  <2>1. SameBut(Apart \cup {"state", "shutdown", "close"}, c, b)
    BY DEF SameBut
  <2> QED BY <1>1, <2>1, FieldsKept DEF OffersKept
<1>3. ShutsAt(c, d, s, t)
  BY AgreeIs
<1>4. Lacks(t, {"shutdown"}) => Single(u, "shutdown")
  BY DEF Adds, Closings
<1>5. ShutsOnce(b, d, s) /\ ShutsOnce(d, b, u) /\ Stage(b) /\ Stage(d)
  BY <1>1, <1>3, <1>4 DEF ShutsAt, ShutsOnce, Asked, Heard, Spent, Stage
<1> QED BY <1>2, <1>5, AgreeIs, OffersStay, NoOfferIs DEF ShutsAt

(* ... or gives up, as the channel is closed already. *)
LEMMA GivesUp ==
    ASSUME NEW n, NEW c, NEW d, NEW s, NEW t, Agree(n, c, d, s, t),
           c.state \notin {"OPEN", "SHUTDOWN"}, c.close.at = "pending",
           NEW b, SameBut(Apart \cup {"close"}, c, b), b.close = NotClosing,
           NEW x, x.type = "shutdown", NEW u, u = t \/ (c.close.is_local /\ Adds(t, x, u))
    PROVE  Agree(n, b, d, s, u)
<1>1. /\ b.shutdown = c.shutdown /\ b.close.at = "none" /\ b.state = c.state
      /\ ~b.close.is_local /\ ~b.close.received
  BY DEF SameBut, ChannelFields, Apart, NotClosing
<1>2. OffersKept(c, b)
  BY <1>1, FieldsKept DEF OffersKept, SameBut
<1>3. ShutsAt(c, d, s, t)
  BY AgreeIs
<1>4. u = t \/ (c.close.is_local /\ (Lacks(t, {"shutdown"}) => Single(u, "shutdown")))
  BY DEF Adds, Closings
<1>5. c.state # "CLOSING"
  BY <1>3 DEF ShutsAt, Stage, NotClosing
<1>6. ShutsOnce(b, d, s) /\ ShutsOnce(d, b, u) /\ Stage(b) /\ Stage(d)
  BY <1>1, <1>3, <1>4, <1>5 DEF ShutsAt, ShutsOnce, Asked, Heard, Spent, Stage
<1> QED BY <1>2, <1>6, AgreeIs, OffersStay, NoOfferIs DEF ShutsAt

(* Where nothing is offered, nothing is there. *)
LEMMA NoneOffered ==
    ASSUME NEW c, NEW d, NEW s, NEW t, OneOffer(c, d, s, t), Offers(c, s) = {}
    PROVE  c.inbox = << >> /\ Lacks(s, {"closing_signed"})
<1>1. ASSUME NEW z, c.inbox = <<z>>
      PROVE  FALSE
  <2>1. 1 \in DOMAIN c.inbox
    BY <1>1
  <2> QED BY <2>1 DEF Offers
<1>2. c.inbox = << >>
  BY <1>1 DEF OneOffer
<1>3. Lacks(s, {"closing_signed"})
  BY DEF Offers, Lacks
<1> QED BY <1>2, <1>3

(* The negotiation of the fee waits for a closing_signed, and comes to an end or not. *)
LEMMA StaysShut ==
    ASSUME NEW c, NEW d, NEW s, NEW t, ShutsAt(c, d, s, t), c.close.at = "receiving",
           NEW b, b.shutdown = c.shutdown,
           \/ b.close = NotClosing
           \/ b.close.at = "receiving" /\ b.close.is_local = c.close.is_local
                                      /\ b.close.received = c.close.received,
           b.state \in {c.state, "FORCE_CLOSING"} \/ (b.state = "CLOSING" /\ b.close = NotClosing),
           NEW u, Lacks(t, {"shutdown"}) => Lacks(u, {"shutdown"}),
           Single(t, "shutdown") => Single(u, "shutdown")
    PROVE  ShutsAt(b, d, s, u)
<1>1. /\ c.close.received /\ Heard(c) /\ c.state # "OPEN" /\ c.state # "CLOSING"
      /\ ~Asked(c, s) /\ Spent(d)
  BY DEF ShutsAt, Stage, ShutsOnce, Heard, NotClosing
<1>2. ~Asked(b, s) /\ b.state # "OPEN"
  BY <1>1 DEF Asked
<1>3. CASE b.close = NotClosing
  <2>1. b.close.at = "none" /\ ~b.close.is_local /\ ~b.close.received
    BY <1>3 DEF NotClosing
  <2> QED BY <1>1, <1>2, <2>1, <1>3 DEF Stage, Spent, ShutsAt, ShutsOnce, Asked
<1>4. CASE b.close # NotClosing
  <2>1. Stage(c)
    BY DEF ShutsAt
  <2>2. Stage(b) /\ Spent(b)
    BY <1>1, <1>2, <1>4, <2>1 DEF Stage, Spent
  <2> QED BY <1>1, <1>2, <2>2 DEF ShutsAt, ShutsOnce, Asked
<1> QED BY <1>3, <1>4

(* Nothing comes for too long. *)
LEMMA TimesOut ==
    ASSUME NEW n, NEW c, NEW d, NEW s, NEW t, Agree(n, c, d, s, t), c.close.at = "receiving",
           NEW b, SameBut(Apart \cup {"close", "state"}, c, b), b.close = NotClosing,
           b.state \in {c.state, "FORCE_CLOSING"}
    PROVE  Agree(n, b, d, s, t)
<1>1. b.shutdown = c.shutdown /\ SameBut(Apart \cup {"state", "shutdown", "close"}, c, b)
  BY DEF SameBut, ChannelFields, Apart
<1>2. ShutsAt(c, d, s, t) /\ OffersAt(n, c, d, s, t) /\ OffersAt(Peer(n), d, c, t, s)
  BY AgreeIs
<1>3. ShutsAt(b, d, s, t)
  BY <1>1, <1>2, StaysShut
<1>4. OffersKept(c, b)
  BY <1>1, <1>2, FieldsKept DEF OffersKept, NotClosing
<1> QED BY <1>2, <1>3, <1>4, AgreeIs, OffersStay, NoOfferIs

(* What the other node offered is answered. *)
LEMMA Answers ==
    ASSUME NEW n, NEW c, NEW d, NEW s, NEW t, Agree(n, c, d, s, t), c.close.at = "receiving",
           NEW x, c.inbox = <<x>>,
           NEW b, b.shutdown = c.shutdown, b.inbox = << >>,
           \/ b.close = NotClosing
           \/ b.close.at = "receiving" /\ b.close.is_local = c.close.is_local
                                      /\ b.close.received = c.close.received,
           IsRange(b.fee_range), b.fee_range.min = c.fee_range.min,
           c.fee_range.max <= b.fee_range.max,
           \/ b.state \in {c.state, "FORCE_CLOSING"}
           \/ /\ b.state = "CLOSING" /\ b.close = NotClosing
              /\ b.fee_range.fee = x.range.fee /\ b.closing_tx = <<x.sig>>,
           NEW u,
           u = t \/ \E y : /\ Adds(t, y, u) /\ y.type = "closing_signed"
                           /\ y.range = b.fee_range /\ y.sig.fee = y.range.fee
                           /\ b.state = "CLOSING" => y.sig = x.sig
    PROVE  Agree(n, b, d, s, u)
<1>1. ShutsAt(c, d, s, t) /\ OffersAt(n, c, d, s, t) /\ OffersAt(Peer(n), d, c, t, s)
  BY AgreeIs
<1>2. /\ Lacks(t, {"shutdown"}) => Lacks(u, {"shutdown"})
      /\ Single(t, "shutdown") => Single(u, "shutdown")
  BY DEF Adds, Closings
<1>3. ShutsAt(b, d, s, u)
  BY <1>1, <1>2, StaysShut
<1>4. c.state # "OPEN" /\ c.state # "CLOSING"
  BY <1>1 DEF ShutsAt, Stage, NotClosing
<1>5. x \in Offers(c, s) /\ c.inbox # << >> /\ c.inbox[1] = x
  BY DEF Offers
<1>6. Offers(d, t) = {} /\ Lacks(s, {"closing_signed"}) /\ Single(s, "closing_signed")
  BY <1>1, <1>5 DEF OffersAt, OneOffer
<1>7. Offers(b, s) = {}
  BY <1>6 DEF Offers, Lacks
<1>8. d.inbox = << >> /\ Lacks(t, {"closing_signed"})
  BY <1>1, <1>6, NoneOffered DEF OffersAt
<1>9. Single(u, "closing_signed")
  BY <1>8, <1>1 DEF Adds, Closings, OffersAt, OneOffer
<1>10. OneOffer(b, d, s, u) /\ OneOffer(d, b, u, s)
  BY <1>6, <1>7, <1>8, <1>9 DEF OneOffer
<1>11. NotYet(n, b, d, s, u) /\ NotYet(Peer(n), d, b, u, s)
  BY <1>1, <1>4, <1>5, <1>7 DEF OffersAt, NotYet, NotClosing
<1>12. Offered(b, d, s)
  BY <1>7 DEF Offered
<1>13. x.range = d.fee_range /\ x.sig.fee = x.range.fee /\ (d.state = "CLOSING" => d.closing_tx = <<x.sig>>)
  BY <1>1, <1>5 DEF OffersAt, Offered
<1>14. Offered(d, b, u)
  <2> SUFFICES ASSUME NEW y \in Offers(d, u)
               PROVE  /\ y.range = b.fee_range /\ y.sig.fee = y.range.fee
                      /\ b.state = "CLOSING" => b.closing_tx = <<y.sig>>
    BY DEF Offered
  <2>1. PICK z : /\ Adds(t, z, u) /\ z.range = b.fee_range /\ z.sig.fee = z.range.fee
                 /\ b.state = "CLOSING" => z.sig = x.sig
    BY <1>6
  <2>2. y = z
    BY <1>6, <2>1 DEF Adds
  <2> QED BY <2>1, <2>2, <1>4
<1>15. Settled(b, d)
  <2>1. IsRange(d.fee_range)
    BY <1>1 DEF OffersAt, Settled
  <2>2. CASE b.state = "CLOSING"
    <3>1. /\ b.closing_tx = <<x.sig>> /\ b.fee_range.fee = x.range.fee /\ b.closing_tx[1] = x.sig
      BY <2>2, <1>4
    <3>2. b.closing_tx[1].fee = b.fee_range.fee /\ b.closing_tx[1].fee = d.fee_range.fee
      BY <3>1, <1>13
    <3>3. b.fee_range.fee \in b.fee_range.min .. b.fee_range.max
      BY DEF IsRange
    <3>4. d.fee_range.fee \in d.fee_range.min .. d.fee_range.max
      BY <2>1 DEF IsRange
    <3> QED BY <3>1, <3>2, <3>3, <3>4, <1>13 DEF Settled
  <2> QED BY <2>2 DEF Settled
<1>16. Settled(d, b)
  <2>1. CASE d.state = "CLOSING"
    <3>1. /\ d.closing_tx[1].fee \in d.fee_range.min .. d.fee_range.max
          /\ d.closing_tx[1].fee \in c.fee_range.min .. c.fee_range.max
      BY <2>1, <1>1 DEF OffersAt, Settled
    <3>2. IsRange(c.fee_range)
      BY <1>1 DEF OffersAt, Settled
    <3>3. d.closing_tx[1].fee \in b.fee_range.min .. b.fee_range.max
      BY <3>1, <3>2 DEF IsRange
    <3>4. b.state = "CLOSING" => b.closing_tx = d.closing_tx
      BY <2>1, <1>13, <1>4
    <3> QED BY <3>1, <3>3, <3>4, <1>1 DEF OffersAt, Settled
  <2> QED BY <2>1, <1>1 DEF OffersAt, Settled
<1> QED BY <1>3, <1>10, <1>11, <1>12, <1>14, <1>15, <1>16, AgreeIs DEF OffersAt

(* The negotiation starts, and who funded the channel offers a fee. *)
LEMMA StartsIt ==
    ASSUME NEW n \in Node, NEW c, NEW d, NEW s, NEW t, Agree(n, c, d, s, t),
           c.close.at = "sent", c.close.received,
           NEW b, SameBut(Apart \cup {"fee_range", "close"}, c, b),
           b.close.at = "receiving", b.close.is_local = c.close.is_local, b.close.received,
           IsRange(b.fee_range),
           NEW u,
           IF n = Funder
           THEN \E y : /\ Adds(t, y, u) /\ y.type = "closing_signed"
                       /\ y.range = b.fee_range /\ y.sig.fee = y.range.fee
           ELSE u = t
    PROVE  Agree(n, b, d, s, u)
<1>1. ShutsAt(c, d, s, t) /\ OffersAt(n, c, d, s, t) /\ OffersAt(Peer(n), d, c, t, s)
  BY AgreeIs
<1>2. b.shutdown = c.shutdown /\ b.state = c.state /\ b.inbox = c.inbox
  BY DEF SameBut, ChannelFields, Apart
<1>3. /\ Lacks(t, {"shutdown"}) => Lacks(u, {"shutdown"})
      /\ Single(t, "shutdown") => Single(u, "shutdown")
  BY DEF Adds, Closings
<1>4. c.state # "OPEN" /\ c.state # "CLOSING" /\ Heard(c)
  BY <1>1 DEF ShutsAt, Stage, NotClosing, Heard
<1>5. ShutsOnce(b, d, s) /\ ShutsOnce(d, b, u) /\ Stage(b)
  BY <1>1, <1>2, <1>3, <1>4 DEF ShutsAt, ShutsOnce, Asked, Heard, Spent, Stage
<1>6. Offers(d, t) = {} /\ d.state # "CLOSING" /\ (n = Funder => Offers(c, s) = {})
  BY <1>1 DEF OffersAt, NotYet
<1>7. Peer(n) # n /\ (n = Funder <=> Peer(n) # Funder)
  BY PeerFacts, FunderAssumption
<1>8. Offers(b, s) = Offers(c, s)
  BY <1>2 DEF Offers
<1>9. Lacks(t, {"closing_signed"}) /\ d.inbox = << >>
  BY <1>1, <1>6, NoneOffered DEF OffersAt
<1>10. Single(u, "closing_signed") /\ (n # Funder => u = t)
  BY <1>9, <1>1 DEF Adds, Closings, OffersAt, OneOffer
<1>11. OneOffer(b, d, s, u) /\ OneOffer(d, b, u, s)
  BY <1>1, <1>2, <1>6, <1>8, <1>9, <1>10 DEF OffersAt, OneOffer
<1>12. NotYet(n, b, d, s, u) /\ NotYet(Peer(n), d, b, u, s)
  BY <1>1, <1>2, <1>4, <1>6, <1>7, <1>8, <1>10 DEF OffersAt, NotYet
<1>13. Offered(b, d, s)
  BY <1>1, <1>8 DEF OffersAt, Offered
<1>14. Offered(d, b, u)
  <2> SUFFICES ASSUME NEW y \in Offers(d, u)
               PROVE  y.range = b.fee_range /\ y.sig.fee = y.range.fee
    BY <1>2, <1>4 DEF Offered
  <2>1. PICK z : /\ Adds(t, z, u) /\ z.range = b.fee_range /\ z.sig.fee = z.range.fee
    BY <1>6, <1>10
  <2>2. y = z
    BY <1>6, <2>1 DEF Adds
  <2> QED BY <2>1, <2>2
<1>15. Settled(b, d) /\ Settled(d, b)
  BY <1>1, <1>2, <1>4, <1>6 DEF OffersAt, Settled
<1> QED BY <1>1, <1>5, <1>11, <1>12, <1>13, <1>14, <1>15, AgreeIs DEF OffersAt, ShutsAt

(* What is not about the close leaves it alone, whatever becomes of the other messages. *)
LEMMA IsNothing ==
    ASSUME NEW n, NEW c, NEW d, NEW s, NEW t, Agree(n, c, d, s, t),
           NEW b, SameBut(Apart \cup {"state"}, c, b),
           b.state \in {c.state} \cup Final,
           NEW r, Less(s, r), NEW u, Less(t, u)
    PROVE  Agree(n, b, d, r, u)
<1>1. b.shutdown = c.shutdown /\ b.close = c.close /\ SameBut(Apart \cup {"state", "shutdown", "close"}, c, b)
  BY DEF SameBut, ChannelFields, Apart
<1>2. ShutsAt(c, d, s, t) /\ OffersAt(n, c, d, s, t) /\ OffersAt(Peer(n), d, c, t, s)
  BY AgreeIs
<1>3. /\ Lacks(s, {"shutdown"}) => Lacks(r, {"shutdown"})
      /\ Single(s, "shutdown") => Single(r, "shutdown")
      /\ Lacks(t, {"shutdown"}) => Lacks(u, {"shutdown"})
      /\ Single(t, "shutdown") => Single(u, "shutdown")
  BY DEF Less, Closings
<1>4. Heard(b) => Heard(c)
  BY <1>1 DEF Heard, Final
<1>5. (Spent(c) => Spent(b)) /\ (Asked(b, r) => Asked(c, s)) /\ (Asked(d, u) => Asked(d, t))
  BY <1>1, <1>3 DEF Spent, Asked, Final
<1>6. ShutsOnce(b, d, r) /\ ShutsOnce(d, b, u)
  BY <1>1, <1>2, <1>3, <1>4, <1>5 DEF ShutsAt, ShutsOnce
<1>7. Stage(b)
  BY <1>1, <1>2 DEF ShutsAt, Stage, Final
<1>8. OffersKept(c, b)
  BY <1>1, FieldsKept DEF OffersKept, Final
<1> QED BY <1>2, <1>6, <1>7, <1>8, AgreeIs, OffersStay, NoOfferIs DEF ShutsAt

(* When the connection is lost, a close that its user asked for goes on. *)
LEMMA LosesTheConnection ==
    ASSUME NEW n, NEW c, NEW d, NEW s, NEW t, Agree(n, c, d, s, t),
           {"peer_state", "task", "reest", "shutdown", "close"} \subseteq DOMAIN c
    PROVE  Agree(n, Disconnected(c), d, << >>, << >>)
<1> DEFINE b == Disconnected(c)
           e == << >>
<1>1. /\ ~b.shutdown /\ b.state = c.state /\ b.close = IF c.close.is_local THEN c.close ELSE NotClosing
      /\ b.inbox = c.inbox /\ b.fee_range = c.fee_range /\ b.closing_tx = c.closing_tx
  BY DEF Disconnected
<1> HIDE DEF b
<1>2. ShutsAt(c, d, s, t) /\ OffersAt(n, c, d, s, t) /\ OffersAt(Peer(n), d, c, t, s)
  BY AgreeIs
<1>3. \A type : Lacks(e, {type}) /\ Single(e, type)
  BY ShortSeqs DEF Lacks, Single
<1>4. \A r : NoOffer(r, e)
  <2>1. \A k \in 1 .. Len(e) : FALSE
    BY ShortSeqs
  <2> HIDE DEF e
  <2>2. \A a, r : Offers(a, e) \subseteq Offers(a, r)
    BY <2>1 DEF Offers
  <2> QED BY <1>3, <2>2 DEF NoOffer
<1> HIDE DEF e
<1>5. ~NotClosing.is_local /\ ~NotClosing.received /\ NotClosing.at = "none"
  BY DEF NotClosing
<1>6. (Heard(b) => Heard(c)) /\ (Spent(c) => Spent(b)) /\ ~Asked(b, e) /\ (Asked(d, e) => Asked(d, t))
  BY <1>1, <1>3, <1>5 DEF Heard, Spent, Asked
<1>7. ShutsOnce(b, d, e) /\ ShutsOnce(d, b, e)
  BY <1>1, <1>2, <1>3, <1>6 DEF ShutsAt, ShutsOnce
<1>8. Stage(b)
  <2>1. CASE c.close.is_local
    BY <2>1, <1>1, <1>2 DEF ShutsAt, Stage
  <2>2. CASE ~c.close.is_local
    BY <2>2, <1>1, <1>5 DEF Stage
  <2> QED BY <2>1, <2>2
<1>9. OffersKept(c, b)
  BY <1>1, <1>5 DEF OffersKept
<1> QED BY <1>2, <1>4, <1>7, <1>8, <1>9, AgreeIs, OffersStay DEF ShutsAt, b, e

(* A shutdown is read, and will be taken up. *)
LEMMA ReadsShutdown ==
    ASSUME NEW n, NEW c, NEW d, NEW s, NEW t, Agree(n, c, d, s, t),
           IsSeq(s), s # << >>, Head(s).type = "shutdown",
           NEW b, SameBut(Apart \cup {"shutdown"}, c, b), b.shutdown
    PROVE  Agree(n, b, d, Tail(s), t)
<1>1. b.close = c.close /\ b.state = c.state /\ SameBut(Apart \cup {"state", "shutdown", "close"}, c, b)
  BY DEF SameBut, ChannelFields, Apart
<1>2. ShutsAt(c, d, s, t) /\ OffersAt(n, c, d, s, t) /\ OffersAt(Peer(n), d, c, t, s)
  BY AgreeIs
<1>3. /\ Less(s, Tail(s)) /\ ~Lacks(s, {"shutdown"})
      /\ Single(s, "shutdown") => Lacks(Tail(s), {"shutdown"}) /\ Single(Tail(s), "shutdown")
  BY TailLess DEF Less, Closings
<1>4. Asked(c, s) /\ ~Heard(c) /\ Spent(d)
  BY <1>2, <1>3 DEF ShutsAt, ShutsOnce, Asked
<1>5. ShutsOnce(b, d, Tail(s)) /\ ShutsOnce(d, b, t) /\ Stage(b)
  BY <1>1, <1>2, <1>3, <1>4 DEF ShutsAt, ShutsOnce, Heard, Spent, Stage
<1>6. OffersKept(c, b)
  BY <1>1, FieldsKept DEF OffersKept
<1> QED BY <1>2, <1>3, <1>5, <1>6, AgreeIs, OffersStay, NoOfferIs DEF ShutsAt

(* A closing_signed is read, and waits for who negotiates. *)
LEMMA ReadsOffer ==
    ASSUME NEW n, NEW c, NEW d, NEW s, NEW t, Agree(n, c, d, s, t),
           IsSeq(s), s # << >>, Head(s).type = "closing_signed",
           NEW b, SameBut(Apart \cup {"inbox"}, c, b), b.inbox = Append(c.inbox, Head(s))
    PROVE  Agree(n, b, d, Tail(s), t)
<1> DEFINE r == Tail(s)
           x == Head(s)
<1>1. /\ b.close = c.close /\ b.state = c.state /\ b.shutdown = c.shutdown
      /\ b.fee_range = c.fee_range /\ b.closing_tx = c.closing_tx
  BY DEF SameBut, ChannelFields, Apart
<1>2. ShutsAt(c, d, s, t) /\ OffersAt(n, c, d, s, t) /\ OffersAt(Peer(n), d, c, t, s)
  BY AgreeIs
<1>3. /\ Less(s, r) /\ ~Lacks(s, {"closing_signed"}) /\ x \in Offers(c, s)
      /\ Single(s, "closing_signed") => Lacks(r, {"closing_signed"})
  BY TailLess DEF Closings
<1>4. /\ Lacks(s, {"shutdown"}) => Lacks(r, {"shutdown"})
      /\ Single(s, "shutdown") => Single(r, "shutdown")
      /\ Offers(c, r) \subseteq Offers(c, s)
  BY <1>3 DEF Less, Closings
<1>5. c.inbox = << >> /\ Single(s, "closing_signed") /\ Lacks(r, {"closing_signed"}) /\ Offers(d, t) = {}
  BY <1>2, <1>3 DEF OffersAt, OneOffer
<1> HIDE DEF r, x
<1>6. b.inbox = <<x>> /\ b.inbox = <<b.inbox[1]>>
  BY <1>5, AppendToOne DEF x
<1>7. Offers(b, r) \subseteq Offers(c, s)
  <2>1. \A y \in Offers(b, r) : y = x \/ y \in Offers(c, r)
    BY <1>6 DEF Offers
  <2> QED BY <2>1, <1>3, <1>4
<1>8. ShutsAt(b, d, r, t)
  BY <1>1, <1>2, <1>4 DEF ShutsAt, ShutsOnce, Asked, Heard, Spent, Stage
<1>9. Single(r, "closing_signed")
  BY <1>5 DEF Lacks, Single
<1>10. OneOffer(b, d, r, t) /\ OneOffer(d, b, t, r)
  BY <1>2, <1>5, <1>6, <1>7, <1>9 DEF OffersAt, OneOffer
<1>11. NotYet(n, b, d, r, t) /\ NotYet(Peer(n), d, b, t, r)
  BY <1>1, <1>2, <1>7 DEF OffersAt, NotYet
<1>12. Offered(b, d, r) /\ Offered(d, b, t)
  BY <1>1, <1>2, <1>7 DEF OffersAt, Offered
<1>13. Settled(b, d) /\ Settled(d, b)
  BY <1>1, <1>2 DEF OffersAt, Settled
<1> QED BY <1>8, <1>10, <1>11, <1>12, <1>13, AgreeIs DEF OffersAt, r

-----------------------------------------------------------------------------
(* The steps of a close *)

\* An outcome with all its fields, that is still of no exception, and has not sent anything
Blank(o) ==
    /\ DOMAIN o = OutcomeFields /\ DOMAIN o.c = ChannelFields
    /\ {"at", "is_local", "received"} \subseteq DOMAIN o.c.close
    /\ o.exc = Ok /\ o.out = << >>

\* What is on the way from n after outcome o
Sent(n, o) == IF connected /\ o.exc = Ok THEN net[Peer(n)] \o o.out ELSE net[Peer(n)]

\* The two nodes still agree after n had outcome o and took from what is on the way to it.
Fits(n, o, inbox) == Agree(n, o.c, ch[Peer(n)], inbox, Sent(n, o))

(* What an outcome puts on the way *)
LEMMA SentIs ==
    ASSUME BasicInv, NEW n \in Node, NEW o
    PROVE  /\ o.exc # Ok \/ o.out = << >> => Sent(n, o) = net[Peer(n)]
           /\ \A x : o.out = <<x>> => Adds(net[Peer(n)], x, Sent(n, o))
<1> DEFINE s == net[Peer(n)]
<1>1. IsSeq(s)
  BY PeerFacts DEF BasicInv, Types
<1>2. Sent(n, o) = s \o o.out \/ Sent(n, o) = s
  BY DEF Sent
<1>3. o.exc # Ok => Sent(n, o) = s
  BY DEF Sent
<1> HIDE DEF s
<1>4. o.out = << >> => s \o o.out = s
  <2> DEFINE r == s \o << >>
  <2>1. IsSeq(r) /\ Len(r) = Len(s) + 0 /\ \A k \in 1 .. Len(r) : r[k] = IF k <= Len(s) THEN s[k] ELSE << >>[k - Len(s)]
    BY <1>1, ShortSeqs, ConcatIs
  <2> HIDE DEF r
  <2>2. Len(s) \in Nat
    BY <1>1 DEF IsSeq
  <2>3. Len(r) = Len(s) /\ \A k \in 1 .. Len(s) : r[k] = s[k]
    BY <2>1, <2>2
  <2>4. r = s
    BY <1>1, <2>1, <2>3 DEF IsSeq
  <2> QED BY <2>4 DEF r
<1>5. \A x : Adds(s, x, s \o <<x>>) /\ Adds(s, x, s)
  BY <1>1, OneMore
<1> QED BY <1>2, <1>3, <1>4, <1>5 DEF s

(* A message of the close is just sent. *)
LEMMA Says ==
    ASSUME NEW o, Blank(o), NEW msg, msg.type \in Closings
    PROVE  LET p == send_message(o, msg)
           IN  /\ DOMAIN p = OutcomeFields /\ p.c = o.c /\ p.exc = Ok /\ p.out = <<msg>>
<1>1. send_message(o, msg) = [o EXCEPT !.out = Append(@, msg)]
  BY DEF send_message, Updates, Closings
<1>2. Append(<< >>, msg) = <<msg>>
  OBVIOUS
<1> QED BY <1>1, <1>2 DEF Blank, OutcomeFields

(* What CoopCloseFailure makes of an outcome *)
LEMMA FailsIs ==
    ASSUME NEW o, DOMAIN o = OutcomeFields, DOMAIN o.c = ChannelFields, o.exc = Ok
    PROVE  LET p == FailsToClose(o)
           IN  /\ SameBut({"close"}, o.c, p.c) /\ p.c.close = NotClosing /\ p.out = o.out
               /\ p.exc = Ok => o.c.close.is_local
<1> DEFINE q == [o EXCEPT !.c.close = NotClosing]
<1>1. /\ DOMAIN q = OutcomeFields /\ DOMAIN q.c = ChannelFields /\ q.out = o.out
      /\ SameBut({"close"}, o.c, q.c) /\ q.c.close = NotClosing
  BY DEF OutcomeFields, ChannelFields, SameBut
<1>2. FailsToClose(o) = IF o.c.close.is_local THEN q ELSE Raise(q, GracefulDisconnect)
  BY DEF FailsToClose
<1> HIDE DEF q
<1>3. /\ Raise(q, GracefulDisconnect).c = q.c /\ Raise(q, GracefulDisconnect).out = q.out
      /\ Raise(q, GracefulDisconnect).exc # Ok
  BY <1>1, OutcomeParts DEF GracefulDisconnect, Ok
<1> QED BY <1>1, <1>2, <1>3

(* send_shutdown, from its await *)
LEMMA SendsShutdownFits ==
    ASSUME BasicInv, NEW n \in Node, NEW o, Blank(o), o.c.close.at = "pending", Fits(n, o, net[n])
    PROVE  Fits(n, SendsShutdown(o), net[n])
<1> DEFINE d == ch[Peer(n)]
           s == net[n]
           t == net[Peer(n)]
           x == [type |-> "shutdown"]
           sent == send_message(o, x)
           p == [sent EXCEPT !.c.may_update = TRUE, !.c.close.at = "sent"]
           q == SendsShutdown(o)
<1>1. Agree(n, o.c, d, s, t)
  BY SentIs DEF Fits, Blank
<1>2. o.c.state # "SHUTDOWN"
  BY <1>1, AgreeIs DEF ShutsAt, Stage
<1>3. x.type = "shutdown" /\ x.type \in Closings
  BY DEF Closings
<1> HIDE DEF x
<1>4. DOMAIN sent = OutcomeFields /\ sent.c = o.c /\ sent.exc = Ok /\ sent.out = <<x>>
  BY <1>3, Says
<1>5. q = IF o.c.state \in {"OPEN", "SHUTDOWN"} THEN set_state(p, "SHUTDOWN") ELSE FailsToClose(sent)
  BY DEF SendsShutdown, x
<1> HIDE DEF sent
<1>6. /\ DOMAIN p = OutcomeFields /\ DOMAIN p.c = ChannelFields
      /\ p.out = <<x>> /\ p.exc = Ok
      /\ SameBut({"may_update", "close"}, o.c, p.c)
      /\ p.c.close = [o.c.close EXCEPT !.at = "sent"]
  BY <1>4 DEF OutcomeFields, ChannelFields, SameBut, Blank
<1> HIDE DEF p, q
<1>7. CASE o.c.state = "OPEN"
  <2>1. /\ SameBut({"state"}, p.c, q.c) /\ q.c.state = "SHUTDOWN" /\ q.out = <<x>>
    BY <1>5, <1>6, <1>7, OutcomeParts
  <2>2. SameBut(Apart \cup {"close", "state"}, o.c, q.c) /\ q.c.close = p.c.close
    BY <1>6, <2>1 DEF SameBut, Apart, ChannelFields
  <2>3. Adds(t, x, Sent(n, q))
    BY <2>1, SentIs
  <2> HIDE DEF d, s, t
  <2>4. Agree(n, q.c, d, s, Sent(n, q))
    BY <1>1, <1>3, <1>6, <1>7, <2>1, <2>2, <2>3, Shuts DEF Blank
  <2> QED BY <2>4 DEF Fits, q, d, s
<1>8. CASE o.c.state # "OPEN"
  <2>1. /\ SameBut({"close"}, o.c, q.c) /\ q.c.close = NotClosing /\ q.out = <<x>>
        /\ q.exc = Ok => o.c.close.is_local
    BY <1>2, <1>4, <1>5, <1>8, FailsIs DEF Blank
  <2>2. SameBut(Apart \cup {"close"}, o.c, q.c)
    BY <2>1 DEF SameBut
  <2>3. Sent(n, q) = t \/ (o.c.close.is_local /\ Adds(t, x, Sent(n, q)))
    BY <2>1, SentIs
  <2> HIDE DEF d, s, t
  <2>4. Agree(n, q.c, d, s, Sent(n, q))
    BY <1>1, <1>2, <1>3, <1>8, <2>1, <2>2, <2>3, GivesUp DEF Blank
  <2> QED BY <2>4 DEF Fits, q, d, s
<1> QED BY <1>7, <1>8

(* send_shutdown *)
LEMMA SendShutdownFits ==
    ASSUME BasicInv, NEW n \in Node, NEW o, Blank(o), Fits(n, o, net[n]),
           o.c.state \notin {"SHUTDOWN", "CLOSING"},
           IF o.c.close.is_local THEN o.c.state = "OPEN" ELSE o.c.close.received
    PROVE  Fits(n, send_shutdown(o), net[n])
<1> DEFINE d == ch[Peer(n)]
           s == net[n]
           t == net[Peer(n)]
           p == [o EXCEPT !.c.may_update = FALSE, !.c.close.at = "pending"]
<1>1. Agree(n, o.c, d, s, t)
  BY SentIs DEF Fits, Blank
<1>2. /\ DOMAIN p = OutcomeFields /\ DOMAIN p.c = ChannelFields
      /\ p.out = << >> /\ p.exc = Ok
      /\ SameBut({"may_update", "close"}, o.c, p.c)
      /\ p.c.close = [o.c.close EXCEPT !.at = "pending"]
  BY DEF OutcomeFields, ChannelFields, SameBut, Blank
<1>3. send_shutdown(o) = p \/ send_shutdown(o) = SendsShutdown(p)
  BY DEF send_shutdown
<1> HIDE DEF p
<1>4. Blank(p) /\ p.c.close.at = "pending"
  BY <1>2 DEF Blank
<1>5. SameBut(Apart \cup {"close"}, o.c, p.c)
  BY <1>2 DEF SameBut, Apart
<1> HIDE DEF d, s, t
<1>6. Agree(n, p.c, d, s, t)
  BY <1>1, <1>2, <1>5, WaitsToShut DEF Blank
<1>7. Fits(n, p, net[n])
  BY <1>2, <1>6, SentIs DEF Fits, d, s, t
<1> QED BY <1>3, <1>4, <1>7, SendsShutdownFits

\* The two nodes agree, from where n stands.
AgreeAt(n) == Agree(n, ch[n], ch[Peer(n)], net[n], net[Peer(n)])

(* What n begins with *)
LEMMA BeginFits ==
    ASSUME BasicInv, NEW n \in Node, AgreeAt(n)
    PROVE  Blank(Begin(n)) /\ Begin(n).c = ch[n] /\ Fits(n, Begin(n), net[n])
<1> DEFINE b == Begin(n)
<1>1. b.c = ch[n] /\ b.out = << >> /\ b.exc = Ok /\ DOMAIN b = OutcomeFields
  BY BeginIs DEF Begin, OutcomeFields
<1>2. IsChannel(ch[n], SignedBy(n))
  BY DEF BasicInv, Types
<1> HIDE DEF b
<1>3. Blank(b)
  BY <1>1, <1>2 DEF Blank, IsChannel
<1>4. Fits(n, b, net[n])
  BY <1>1, SentIs DEF Fits, AgreeAt
<1> QED BY <1>1, <1>3, <1>4 DEF b

(* close_channel *)
LEMMA CloseChannelFits ==
    ASSUME BasicInv, NEW n \in Node, AgreeAt(n), ch[n].state = "OPEN", ch[n].close = NotClosing
    PROVE  Fits(n, send_shutdown([Begin(n) EXCEPT !.c.close.is_local = TRUE]), net[n])
<1> DEFINE d == ch[Peer(n)]
           s == net[n]
           t == net[Peer(n)]
           b == Begin(n)
           p == [b EXCEPT !.c.close.is_local = TRUE]
<1>1. Blank(b) /\ b.c = ch[n]
  BY BeginFits
<1> HIDE DEF b
<1>2. /\ DOMAIN p = OutcomeFields /\ DOMAIN p.c = ChannelFields
      /\ p.out = << >> /\ p.exc = Ok
      /\ SameBut({"close"}, b.c, p.c) /\ p.c.close = [b.c.close EXCEPT !.is_local = TRUE]
  BY <1>1 DEF OutcomeFields, ChannelFields, SameBut, Blank
<1> HIDE DEF p
<1>3. Blank(p) /\ p.c.close.is_local /\ p.c.state = "OPEN"
  BY <1>1, <1>2 DEF Blank, SameBut, ChannelFields
<1>4. SameBut(Apart \cup {"close"}, ch[n], p.c)
  BY <1>1, <1>2 DEF SameBut
<1>5. Agree(n, ch[n], d, s, t)
  BY DEF AgreeAt
<1> HIDE DEF d, s, t
<1>6. Agree(n, p.c, d, s, t)
  BY <1>1, <1>2, <1>4, <1>5, WantsClose
<1>7. Fits(n, p, net[n])
  BY <1>2, <1>6, SentIs DEF Fits, d, s, t
<1> QED BY <1>3, <1>7, SendShutdownFits DEF p, b

(* The task of on_shutdown *)
LEMMA HandleShutdownFits ==
    ASSUME BasicInv, NEW n \in Node, AgreeAt(n), ch[n].shutdown
    PROVE  Fits(n, HandleShutdown(n), net[n])
<1> DEFINE d == ch[Peer(n)]
           s == net[n]
           t == net[Peer(n)]
           b == Begin(n)
           p == [b EXCEPT !.c.shutdown = FALSE, !.c.close.received = TRUE]
<1>1. Blank(b) /\ b.c = ch[n]
  BY BeginFits
<1>2. HandleShutdown(n) = IF p.c.peer_state # "GOOD" THEN Raise(p, "shutdown")
                          ELSE IF p.c.close.is_local THEN p
                          ELSE send_shutdown(p)
  BY DEF HandleShutdown
<1> HIDE DEF b
<1>3. /\ DOMAIN p = OutcomeFields /\ DOMAIN p.c = ChannelFields
      /\ p.out = << >> /\ p.exc = Ok
      /\ SameBut({"shutdown", "close"}, b.c, p.c) /\ ~p.c.shutdown
      /\ p.c.close = [b.c.close EXCEPT !.received = TRUE]
  BY <1>1 DEF OutcomeFields, ChannelFields, SameBut, Blank
<1> HIDE DEF p
<1>4. /\ Blank(p) /\ p.c.close.is_local = ch[n].close.is_local /\ p.c.close.received
      /\ p.c.state = ch[n].state
  BY <1>1, <1>3 DEF Blank, SameBut, ChannelFields
<1>5. SameBut(Apart \cup {"shutdown", "close"}, ch[n], p.c)
  BY <1>1, <1>3 DEF SameBut
<1>6. Agree(n, ch[n], d, s, t)
  BY DEF AgreeAt
<1> HIDE DEF d, s, t
<1>7. Agree(n, p.c, d, s, t) /\ ~Heard(ch[n])
  BY <1>1, <1>3, <1>5, <1>6, TakesShutdown DEF Blank
<1>8. Fits(n, p, net[n])
  BY <1>3, <1>7, SentIs DEF Fits, d, s, t
<1>9. Fits(n, Raise(p, "shutdown"), net[n])
  <2>1. Raise(p, "shutdown").c = p.c /\ Raise(p, "shutdown").exc # Ok
    BY <1>3, OutcomeParts DEF Ok
  <2> QED BY <1>7, <2>1, SentIs DEF Fits, d, s, t
<1>10. ~p.c.close.is_local => Fits(n, send_shutdown(p), net[n])
  BY <1>4, <1>7, <1>8, SendShutdownFits DEF Heard
<1> QED BY <1>2, <1>8, <1>9, <1>10

\* The closing_signed of n, when it has channel c
IsOffer(n, c, y) ==
    /\ y.type = "closing_signed" /\ y.range = c.fee_range /\ y.sig.fee = y.range.fee
    /\ y.sig = make_closing_tx(n, c.hm, c.fee_range.fee)

(* Our closing_signed *)
LEMMA SaysOffer ==
    ASSUME NEW n, NEW o, Blank(o)
    PROVE  LET p == send_closing_signed(n, o)
           IN  /\ DOMAIN p = OutcomeFields /\ p.c = o.c /\ p.exc = Ok
               /\ \E y : p.out = <<y>> /\ IsOffer(n, o.c, y)
<1> DEFINE tx == make_closing_tx(n, o.c.hm, o.c.fee_range.fee)
           y == [type |-> "closing_signed", range |-> o.c.fee_range, sig |-> tx]
<1>1. send_closing_signed(n, o) = send_message(o, y)
  BY DEF send_closing_signed
<1>2. tx.fee = o.c.fee_range.fee
  BY DEF make_closing_tx
<1> HIDE DEF tx
<1>3. y.type \in Closings /\ y.type = "closing_signed" /\ y.range = o.c.fee_range /\ y.sig = tx
  BY DEF Closings
<1> HIDE DEF y
<1>4. LET p == send_message(o, y)
      IN  DOMAIN p = OutcomeFields /\ p.c = o.c /\ p.exc = Ok /\ p.out = <<y>>
  BY <1>3, Says
<1>5. IsOffer(n, o.c, y)
  BY <1>2, <1>3 DEF IsOffer, tx
<1> QED BY <1>1, <1>4, <1>5

(* The negotiation starts. *)
LEMMA StartsNegotiationFits ==
    ASSUME BasicInv, NEW n \in Node, AgreeAt(n), ch[n].close.at = "sent", ch[n].close.received,
           NEW range, IsRange(range)
    PROVE  Fits(n, StartsNegotiation(n, range), net[n])
<1> DEFINE d == ch[Peer(n)]
           s == net[n]
           t == net[Peer(n)]
           b == Begin(n)
           close == [at |-> "receiving", is_local |-> b.c.close.is_local,
                     received |-> TRUE, replied |-> FALSE]
           p == [b EXCEPT !.c.may_update = FALSE, !.c.fee_range = range, !.c.close = close]
           q == StartsNegotiation(n, range)
<1>1. Blank(b) /\ b.c = ch[n]
  BY BeginFits
<1>2. q = IF n = Funder THEN send_closing_signed(n, p) ELSE p
  BY DEF StartsNegotiation
<1> HIDE DEF b
<1>3. close.at = "receiving" /\ close.is_local = b.c.close.is_local /\ close.received
      /\ {"at", "is_local", "received"} \subseteq DOMAIN close
  OBVIOUS
<1> HIDE DEF close
<1>4. /\ DOMAIN p = OutcomeFields /\ DOMAIN p.c = ChannelFields
      /\ p.out = << >> /\ p.exc = Ok
      /\ SameBut({"may_update", "fee_range", "close"}, b.c, p.c)
      /\ p.c.close = close /\ p.c.fee_range = range
  BY <1>1 DEF OutcomeFields, ChannelFields, SameBut, Blank
<1> HIDE DEF p, q
<1>5. Blank(p)
  BY <1>3, <1>4 DEF Blank
<1>6. SameBut(Apart \cup {"fee_range", "close"}, ch[n], p.c)
  BY <1>1, <1>4 DEF SameBut, Apart
<1>7. /\ q.c = p.c
      /\ IF n = Funder
         THEN \E y : /\ Adds(t, y, Sent(n, q)) /\ y.type = "closing_signed"
                     /\ y.range = p.c.fee_range /\ y.sig.fee = y.range.fee
         ELSE Sent(n, q) = t
  <2>1. CASE n = Funder
    <3>1. q = send_closing_signed(n, p)
      BY <1>2, <2>1
    <3>2. PICK y : /\ q.out = <<y>> /\ y.type = "closing_signed" /\ y.range = p.c.fee_range
                   /\ y.sig.fee = y.range.fee /\ q.c = p.c
      BY <1>5, <3>1, SaysOffer DEF IsOffer
    <3>3. Adds(t, y, Sent(n, q))
      BY <3>2, SentIs
    <3> QED BY <2>1, <3>2, <3>3
  <2>2. CASE n # Funder
    BY <1>2, <1>4, <2>2, SentIs
  <2> QED BY <2>1, <2>2
<1>8. Agree(n, ch[n], d, s, t)
  BY DEF AgreeAt
<1> HIDE DEF d, s, t
<1>9. Agree(n, p.c, d, s, Sent(n, q))
  BY <1>1, <1>3, <1>4, <1>6, <1>7, <1>8, StartsIt
<1> QED BY <1>7, <1>9 DEF Fits, q, d, s

(* LN_P2P_NETWORK_TIMEOUT *)
LEMMA TimesOutFits ==
    ASSUME BasicInv, NEW n \in Node, AgreeAt(n), ch[n].close.at = "receiving"
    PROVE  Fits(n, FailsToClose(schedule_force_closing(Begin(n))), net[n])
<1> DEFINE d == ch[Peer(n)]
           s == net[n]
           t == net[Peer(n)]
           b == Begin(n)
           p == schedule_force_closing(b)
           q == FailsToClose(p)
<1>1. Blank(b) /\ b.c = ch[n]
  BY BeginFits
<1>2. p = b \/ p = set_state(b, "FORCE_CLOSING")
  BY DEF schedule_force_closing
<1> HIDE DEF b, p
<1>3. /\ DOMAIN p = OutcomeFields /\ DOMAIN p.c = ChannelFields /\ p.exc = Ok /\ p.out = << >>
      /\ SameBut({"state"}, ch[n], p.c) /\ p.c.state \in {ch[n].state, "FORCE_CLOSING"}
  <2>1. CASE p = b
    BY <1>1, <2>1 DEF Blank, SameBut
  <2>2. CASE p = set_state(b, "FORCE_CLOSING")
    BY <1>1, <2>2, OutcomeParts DEF Blank
  <2> QED BY <1>2, <2>1, <2>2
<1>4. SameBut({"close"}, p.c, q.c) /\ q.c.close = NotClosing /\ q.out = << >>
  BY <1>3, FailsIs
<1> HIDE DEF q
<1>5. SameBut(Apart \cup {"close", "state"}, ch[n], q.c) /\ q.c.state = p.c.state
  BY <1>3, <1>4 DEF SameBut, ChannelFields
<1>6. Agree(n, ch[n], d, s, t) /\ Sent(n, q) = t
  BY <1>4, SentIs DEF AgreeAt
<1> HIDE DEF d, s, t
<1>7. Agree(n, q.c, d, s, t)
  BY <1>3, <1>4, <1>5, <1>6, TimesOut
<1> QED BY <1>6, <1>7 DEF Fits, q, d, s, p, b

(* The greater, and the smaller, of two numbers *)
LEMMA OfTwo ==
    ASSUME NEW a \in Int, NEW b \in Int
    PROVE  /\ Max({a, b}) = IF a >= b THEN a ELSE b
           /\ Min({a, b}) = IF a >= b THEN b ELSE a
<1>1. Max({a, b}) = IF a >= b THEN a ELSE b
  <2> DEFINE m == IF a >= b THEN a ELSE b
  <2>1. m \in {a, b} /\ \A y \in {a, b} : m >= y
    OBVIOUS
  <2>2. \A x \in {a, b} : (\A y \in {a, b} : x >= y) => x = m
    OBVIOUS
  <2> HIDE DEF m
  <2>3. Max({a, b}) = m
    BY <2>1, <2>2 DEF Max
  <2> QED BY <2>3 DEF m
<1>2. Min({a, b}) = IF a >= b THEN b ELSE a
  <2> DEFINE m == IF a >= b THEN b ELSE a
  <2>1. m \in {a, b} /\ \A y \in {a, b} : m <= y
    OBVIOUS
  <2>2. \A x \in {a, b} : (\A y \in {a, b} : x <= y) => x = m
    OBVIOUS
  <2> HIDE DEF m
  <2>3. Min({a, b}) = m
    BY <2>1, <2>2 DEF Min
  <2> QED BY <2>3 DEF m
<1> QED BY <1>1, <1>2

(* The fee that a node chooses is in its range, which who did not fund the channel may *)
(* have widened.                                                                       *)
LEMMA ChosenFits ==
    ASSUME NEW n, NEW ours, IsRange(ours), NEW theirs, IsRange(theirs), NEW replied,
           choose_new_fee(n, ours, theirs, replied) # NoFee
    PROVE  LET fee == choose_new_fee(n, ours, theirs, replied)
               most == IF n = Funder THEN ours.max ELSE Max({ours.max, theirs.max})
           IN  /\ IsRange([ours EXCEPT !.fee = fee, !.max = most])
               /\ ours.max <= most
<1> DEFINE max  == IF n = Funder THEN ours.max ELSE Max({ours.max, theirs.max})
           sent == n = Funder \/ replied
           low  == Max({ours.min, theirs.min})
           high == Min({max, theirs.max})
           fee  == choose_new_fee(n, ours, theirs, replied)
           mid  == (low + high) \div 2
<1>1. /\ ours.fee \in Nat /\ ours.min \in Nat /\ ours.max \in Nat
      /\ theirs.fee \in Nat /\ theirs.min \in Nat /\ theirs.max \in Nat
      /\ ours.min <= ours.fee /\ ours.fee <= ours.max
  BY DEF IsRange
<1>2. max \in Nat /\ ours.max <= max
  BY <1>1, OfTwo
<1>3. low \in Nat /\ ours.min <= low
  BY <1>1, OfTwo
<1>4. high \in Nat /\ high <= max
  <2> HIDE DEF max
  <2> DEFINE m == theirs.max
  <2>1. max \in Int /\ m \in Int
    BY <1>1, <1>2
  <2> HIDE DEF m
  <2>2. Min({max, m}) = IF max >= m THEN m ELSE max
    BY <2>1, OfTwo
  <2> QED BY <1>1, <1>2, <2>2 DEF m
<1>5. \/ fee = theirs.fee /\ fee \in ours.min .. max
      \/ fee = theirs.fee /\ fee \in low .. high
      \/ fee = mid /\ low <= high
      \/ fee = NoFee
  <2>1. fee = CASE sent /\ theirs.fee \in ours.min .. max -> theirs.fee
                [] n = Funder /\ theirs.fee \in low .. high -> theirs.fee
                [] ~sent /\ low <= high -> mid
                [] OTHER -> NoFee
    BY DEF choose_new_fee
  <2> HIDE DEF fee, sent, low, high, max, mid
  <2> QED BY <2>1
<1>6. fee # NoFee
  OBVIOUS
<1> HIDE DEF fee, low, high, max
<1>7. low <= high => mid \in Nat /\ low <= mid /\ mid <= high
  BY <1>3, <1>4
<1> HIDE DEF mid
<1>8. fee \in Nat /\ ours.min <= fee /\ fee <= max
  BY <1>1, <1>2, <1>3, <1>4, <1>5, <1>6, <1>7
<1> DEFINE r == [ours EXCEPT !.fee = fee, !.max = max]
<1>9. DOMAIN ours = {"fee", "min", "max"} /\ ours \in [fee : Nat, min : Nat, max : Nat]
  BY DEF IsRange
<1>10. /\ r \in [fee : Nat, min : Nat, max : Nat]
       /\ r.fee = fee /\ r.min = ours.min /\ r.max = max
  BY <1>2, <1>8, <1>9
<1>11. IsRange(r)
  BY <1>8, <1>10 DEF IsRange
<1> QED BY <1>2, <1>11 DEF fee, max

\* What n has after it read offer x, and chose a fee if it did
Read(n, x, o) ==
    /\ DOMAIN o = OutcomeFields /\ DOMAIN o.c = ChannelFields /\ o.exc = Ok
    /\ {"at", "is_local", "received"} \subseteq DOMAIN o.c.close
    /\ SameBut({"inbox", "close", "fee_range"}, ch[n], o.c)
    /\ o.c.inbox = << >>
    /\ o.c.close.at = "receiving" /\ o.c.close.is_local = ch[n].close.is_local
    /\ o.c.close.received = ch[n].close.received
    /\ IsRange(o.c.fee_range) /\ o.c.fee_range.min = ch[n].fee_range.min
    /\ ch[n].fee_range.max <= o.c.fee_range.max
    /\ o.out = << >> \/ \E y : o.out = <<y>> /\ IsOffer(n, o.c, y)

(* It may give up... *)
LEMMA FailsFits ==
    ASSUME BasicInv, NEW n \in Node, AgreeAt(n), ch[n].close.at = "receiving",
           NEW x, ch[n].inbox = <<x>>, NEW o, Read(n, x, o),
           NEW p, DOMAIN p = OutcomeFields, DOMAIN p.c = ChannelFields, p.exc = Ok, p.out = o.out,
           SameBut({"state"}, o.c, p.c), p.c.state \in {o.c.state, "FORCE_CLOSING"}
    PROVE  Fits(n, FailsToClose(p), net[n])
<1> DEFINE c == ch[n]
           d == ch[Peer(n)]
           s == net[n]
           t == net[Peer(n)]
           q == FailsToClose(p)
<1>1. SameBut({"close"}, p.c, q.c) /\ q.c.close = NotClosing /\ q.out = o.out
  BY FailsIs
<1>2. o.out = << >> \/ \E y : o.out = <<y>> /\ IsOffer(n, o.c, y)
  BY DEF Read
<1>3. Agree(n, c, d, s, t) /\ c.close.at = "receiving" /\ c.inbox = <<x>>
  BY DEF AgreeAt
<1>4. c.state # "CLOSING"
  BY <1>3, AgreeIs DEF ShutsAt, Stage, NotClosing
<1> HIDE DEF q
<1>5. /\ q.c.shutdown = c.shutdown /\ q.c.inbox = << >> /\ q.c.fee_range = o.c.fee_range
      /\ q.c.state \in {c.state, "FORCE_CLOSING"}
  BY <1>1 DEF SameBut, ChannelFields, Read
<1>6. /\ IsRange(q.c.fee_range) /\ q.c.fee_range.min = c.fee_range.min
      /\ c.fee_range.max <= q.c.fee_range.max
  BY <1>5 DEF Read
<1>7. \/ Sent(n, q) = t
      \/ \E y : /\ Adds(t, y, Sent(n, q)) /\ y.type = "closing_signed"
               /\ y.range = q.c.fee_range /\ y.sig.fee = y.range.fee
  BY <1>1, <1>2, <1>5, SentIs DEF IsOffer
<1>8. q.c.state # "CLOSING"
  BY <1>4, <1>5
<1> HIDE DEF c, d, s, t
<1>9. Agree(n, q.c, d, s, Sent(n, q))
  BY <1>1, <1>3, <1>5, <1>6, <1>7, <1>8, Answers
<1> QED BY <1>9 DEF Fits, q, d, s

(* ... or take the offer, and close the channel... *)
LEMMA ClosesFits ==
    ASSUME BasicInv, NEW n \in Node, AgreeAt(n), ch[n].close.at = "receiving",
           NEW x, ch[n].inbox = <<x>>, NEW o, Read(n, x, o), n = Funder \/ o.out = << >>,
           o.c.fee_range.fee = x.range.fee, x.sig = make_closing_tx(n, o.c.hm, x.range.fee)
    PROVE  Fits(n, Closes(n, o), net[n])
<1> DEFINE c == ch[n]
           d == ch[Peer(n)]
           s == net[n]
           t == net[Peer(n)]
           told == IF n = Funder THEN o ELSE send_closing_signed(n, o)
           tx == <<make_closing_tx(n, o.c.hm, o.c.fee_range.fee)>>
           p == [told EXCEPT !.c.close = NotClosing, !.c.closing_tx = tx]
           q == Closes(n, o)
<1>1. /\ DOMAIN told = OutcomeFields /\ told.c = o.c /\ told.exc = Ok
      /\ told.out = << >> \/ \E y : told.out = <<y>> /\ IsOffer(n, o.c, y)
  <2>1. CASE n = Funder
    BY <2>1 DEF Read
  <2>2. CASE n # Funder
    <3>1. Blank(o)
      BY <2>2 DEF Read, Blank
    <3> QED BY <2>2, <3>1, SaysOffer
  <2> QED BY <2>1, <2>2
<1>2. q = IF o.c.state \in {"SHUTDOWN", "CLOSING"} THEN set_state(p, "CLOSING") ELSE FailsToClose(told)
  BY DEF Closes
<1>3. tx = <<x.sig>>
  OBVIOUS
<1> HIDE DEF told, tx
<1>4. CASE o.c.state \notin {"SHUTDOWN", "CLOSING"}
  <2>1. q = FailsToClose(told)
    BY <1>2, <1>4
  <2>2. Read(n, x, told)
    BY <1>1 DEF Read
  <2>3. SameBut({"state"}, told.c, told.c) /\ DOMAIN told.c = ChannelFields
    BY <2>2 DEF SameBut, Read
  <2> HIDE DEF q
  <2>4. Fits(n, FailsToClose(told), net[n])
    BY <1>1, <2>2, <2>3, FailsFits
  <2> QED BY <2>1, <2>4 DEF q
<1>5. CASE o.c.state \in {"SHUTDOWN", "CLOSING"}
  <2>1. /\ DOMAIN p = OutcomeFields /\ DOMAIN p.c = ChannelFields
        /\ p.out = told.out /\ p.exc = told.exc
        /\ SameBut({"closing_tx", "close"}, o.c, p.c) /\ p.c.close = NotClosing /\ p.c.closing_tx = tx
    BY <1>1 DEF OutcomeFields, ChannelFields, SameBut, Read
  <2> HIDE DEF p, q
  <2>2. SameBut({"state"}, p.c, q.c) /\ q.c.state = "CLOSING" /\ q.out = told.out
    BY <1>2, <1>5, <2>1, OutcomeParts
  <2>3. /\ q.c.close = NotClosing /\ q.c.closing_tx = <<x.sig>> /\ q.c.fee_range = o.c.fee_range
        /\ q.c.inbox = << >> /\ q.c.shutdown = c.shutdown
    BY <1>3, <2>1, <2>2 DEF SameBut, ChannelFields, Read
  <2>4. /\ IsRange(q.c.fee_range) /\ q.c.fee_range.min = c.fee_range.min
        /\ c.fee_range.max <= q.c.fee_range.max /\ q.c.fee_range.fee = x.range.fee
    BY <2>3 DEF Read
  <2>5. \/ Sent(n, q) = t
        \/ \E y : /\ Adds(t, y, Sent(n, q)) /\ y.type = "closing_signed"
                 /\ y.range = q.c.fee_range /\ y.sig.fee = y.range.fee /\ y.sig = x.sig
    BY <1>1, <2>2, <2>3, SentIs DEF IsOffer
  <2>6. Agree(n, c, d, s, t) /\ c.close.at = "receiving" /\ c.inbox = <<x>>
    BY DEF AgreeAt
  <2> HIDE DEF c, d, s, t
  <2>7. Agree(n, q.c, d, s, Sent(n, q))
    BY <2>2, <2>3, <2>4, <2>5, <2>6, Answers
  <2> QED BY <2>7 DEF Fits, q, d, s
<1> QED BY <1>4, <1>5

(* ... or answer with an offer of its own. *)
LEMMA OffersFits ==
    ASSUME BasicInv, NEW n \in Node, AgreeAt(n), ch[n].close.at = "receiving",
           NEW x, ch[n].inbox = <<x>>, NEW o, Read(n, x, o), o.out = << >>
    PROVE  Fits(n, send_closing_signed(n, o), net[n])
<1> DEFINE c == ch[n]
           d == ch[Peer(n)]
           s == net[n]
           t == net[Peer(n)]
           q == send_closing_signed(n, o)
<1>1. Blank(o)
  BY DEF Read, Blank
<1>2. q.c = o.c /\ q.exc = Ok /\ \E y : q.out = <<y>> /\ IsOffer(n, o.c, y)
  BY <1>1, SaysOffer
<1> HIDE DEF q
<1>3. Agree(n, c, d, s, t) /\ c.close.at = "receiving" /\ c.inbox = <<x>>
  BY DEF AgreeAt
<1>4. c.state # "CLOSING"
  BY <1>3, AgreeIs DEF ShutsAt, Stage, NotClosing
<1>5. /\ q.c.shutdown = c.shutdown /\ q.c.state = c.state
      /\ q.c.inbox = << >> /\ IsRange(q.c.fee_range) /\ q.c.fee_range.min = c.fee_range.min
      /\ c.fee_range.max <= q.c.fee_range.max
      /\ q.c.close.at = "receiving" /\ q.c.close.is_local = c.close.is_local
      /\ q.c.close.received = c.close.received
  BY <1>2 DEF SameBut, ChannelFields, Read
<1>6. \E y : /\ Adds(t, y, Sent(n, q)) /\ y.type = "closing_signed"
            /\ y.range = q.c.fee_range /\ y.sig.fee = y.range.fee
  BY <1>2, SentIs DEF IsOffer
<1> HIDE DEF c, d, s, t
<1>7. Agree(n, q.c, d, s, Sent(n, q))
  BY <1>3, <1>4, <1>5, <1>6, Answers
<1> QED BY <1>7 DEF Fits, q, d, s

\* The maximum n has when it read a range with maximum m
Most(n, max, m) == IF n = Funder THEN max ELSE Max({max, m})

\* What n has when it chose a fee, where the other node has maximum m
Chosen(n, o, fee, m) ==
    [o EXCEPT !.c.close.replied = TRUE, !.c.fee_range.fee = fee,
              !.c.fee_range.max = IF n = Funder THEN @ ELSE Max({@, m})]

\* A close where an offer was replied to, and a range with another fee and maximum
Replied(close) == [close EXCEPT !.replied = TRUE]
Ranged(range, fee, max) == [range EXCEPT !.fee = fee, !.max = max]

(* The fee, and maybe the maximum, is what changes. *)
LEMMA ChosenIs ==
    ASSUME NEW n, NEW o, DOMAIN o = OutcomeFields, DOMAIN o.c = ChannelFields,
           {"fee", "min", "max"} \subseteq DOMAIN o.c.fee_range, NEW fee, NEW m,
           NEW p, p = Chosen(n, o, fee, m), NEW most, most = Most(n, o.c.fee_range.max, m)
    PROVE  /\ DOMAIN p = OutcomeFields /\ DOMAIN p.c = ChannelFields
           /\ p.out = o.out /\ p.exc = o.exc /\ SameBut({"close", "fee_range"}, o.c, p.c)
           /\ p.c.close = Replied(o.c.close)
           /\ p.c.fee_range = Ranged(o.c.fee_range, fee, most)
           /\ p.c.fee_range.min = o.c.fee_range.min
           /\ p.c.fee_range.fee = fee /\ p.c.fee_range.max = most
<1> DEFINE o1 == [o EXCEPT !.c.close.replied = TRUE]
           o2 == [o1 EXCEPT !.c.fee_range.fee = fee]
           p2 == [o2 EXCEPT !.c.fee_range.max = IF n = Funder THEN @ ELSE Max({@, m})]
           ours == o.c.fee_range
<1>1. /\ DOMAIN o1 = OutcomeFields /\ DOMAIN o1.c = ChannelFields
      /\ o1.out = o.out /\ o1.exc = o.exc /\ SameBut({"close"}, o.c, o1.c)
      /\ o1.c.close = [o.c.close EXCEPT !.replied = TRUE]
  BY DEF OutcomeFields, ChannelFields, SameBut
<1>2. o1.c.fee_range = ours
  BY <1>1 DEF SameBut, ChannelFields
<1> HIDE DEF o1
<1>3. /\ DOMAIN o2 = OutcomeFields /\ DOMAIN o2.c = ChannelFields
      /\ o2.out = o1.out /\ o2.exc = o1.exc /\ SameBut({"fee_range"}, o1.c, o2.c)
      /\ o2.c.fee_range = [o1.c.fee_range EXCEPT !.fee = fee]
  BY <1>1 DEF OutcomeFields, ChannelFields, SameBut
<1> HIDE DEF o2
<1>0. p = p2
  BY DEF Chosen, p2, o2, o1
<1>4. /\ DOMAIN p = OutcomeFields /\ DOMAIN p.c = ChannelFields
      /\ p.out = o2.out /\ p.exc = o2.exc /\ SameBut({"fee_range"}, o2.c, p.c)
      /\ p.c.fee_range = [o2.c.fee_range EXCEPT !.max = IF n = Funder THEN @ ELSE Max({@, m})]
  BY <1>0, <1>3 DEF OutcomeFields, ChannelFields, SameBut
<1> HIDE DEF ours
<1>5. o2.c.fee_range = [ours EXCEPT !.fee = fee] /\ o2.c.fee_range.max = ours.max
  BY <1>2, <1>3
<1>6. p.c.fee_range = [[ours EXCEPT !.fee = fee] EXCEPT !.max = most]
  BY <1>4, <1>5 DEF Most, ours
<1>7. /\ p.c.fee_range.min = ours.min /\ p.c.fee_range.fee = fee /\ p.c.fee_range.max = most
  <2>1. {"fee", "min", "max"} \subseteq DOMAIN ours
    BY DEF ours
  <2> QED BY <1>6, <2>1
<1>8. SameBut({"close", "fee_range"}, o.c, p.c) /\ p.c.close = o1.c.close
  BY <1>1, <1>3, <1>4 DEF SameBut, ChannelFields
<1>10. /\ DOMAIN p = OutcomeFields /\ DOMAIN p.c = ChannelFields
       /\ p.out = o.out /\ p.exc = o.exc /\ p.c.close = [o.c.close EXCEPT !.replied = TRUE]
       /\ p.c.fee_range = [ours EXCEPT !.fee = fee, !.max = most]
  BY <1>1, <1>3, <1>4, <1>6, <1>8
<1> QED BY <1>7, <1>8, <1>10 DEF ours, Replied, Ranged

(* What n does with an offer is one of these. *)
LEMMA ReceivesFits ==
    ASSUME BasicInv, NEW n \in Node, AgreeAt(n), ch[n].close.at = "receiving", ch[n].inbox # << >>
    PROVE  Fits(n, ReceivesClosingSigned(n), net[n])
<1> DEFINE c == ch[n]
           b == Begin(n)
           o == [b EXCEPT !.c.inbox = Tail(@)]
           ours == c.fee_range
           msg == Head(c.inbox)
           fee == choose_new_fee(n, ours, msg.range, c.close.replied)
           most == Most(n, ours.max, msg.range.max)
           chosen == Chosen(n, o, fee, msg.range.max)
           q == ReceivesClosingSigned(n)
           forced == schedule_force_closing(o)
           bad == msg.sig # make_closing_tx(n, o.c.hm, msg.range.fee)
<1>1. Blank(b) /\ b.c = c
  BY BeginFits
<1>2. OffersAt(n, c, ch[Peer(n)], net[n], net[Peer(n)]) /\ OffersAt(Peer(n), ch[Peer(n)], c, net[Peer(n)], net[n])
  BY AgreeIs DEF AgreeAt
<1>3. c.inbox = <<msg>> /\ Tail(c.inbox) = << >> /\ msg \in Offers(c, net[n])
  <2> DEFINE x == c.inbox[1]
  <2>1. c.inbox = <<x>>
    BY <1>2 DEF OffersAt, OneOffer
  <2> HIDE DEF x
  <2>2. Head(<<x>>) = x /\ Tail(<<x>>) = << >> /\ <<x>>[1] = x /\ 1 \in DOMAIN <<x>>
    OBVIOUS
  <2> QED BY <2>1, <2>2 DEF Offers
<1>4. IsRange(ours) /\ IsRange(msg.range)
  <2>1. msg.range = ch[Peer(n)].fee_range
    BY <1>2, <1>3 DEF OffersAt, Offered
  <2> QED BY <1>2, <2>1 DEF OffersAt, Settled
<1>5. q = IF bad THEN FailsToClose(o)
          ELSE IF msg.range.fee = ours.fee THEN Closes(n, o)
          ELSE IF fee = NoFee THEN FailsToClose(forced)
          ELSE IF fee = msg.range.fee
          THEN Closes(n, IF n = Funder THEN send_closing_signed(n, chosen) ELSE chosen)
          ELSE send_closing_signed(n, chosen)
  <2> HIDE DEF b, forced
  <2> QED BY DEF ReceivesClosingSigned, Chosen, b, forced
<1>6. /\ DOMAIN o = OutcomeFields /\ DOMAIN o.c = ChannelFields /\ o.exc = Ok /\ o.out = << >>
      /\ SameBut({"inbox"}, c, o.c) /\ o.c.inbox = << >>
  <2> HIDE DEF b, c
  <2> QED BY <1>1, <1>3 DEF OutcomeFields, ChannelFields, SameBut, Blank
<1> HIDE DEF b, msg, q, o
<1>7. /\ o.c.close = c.close /\ o.c.fee_range = ours /\ o.c.hm = c.hm /\ o.c.state = c.state
      /\ {"at", "is_local", "received"} \subseteq DOMAIN o.c.close
  <2>1. o.c.close = c.close /\ o.c.fee_range = ours /\ o.c.hm = c.hm /\ o.c.state = c.state
    BY <1>6 DEF SameBut, ChannelFields
  <2> QED BY <1>1, <2>1 DEF Blank
<1>8. Read(n, msg, o)
  <2>1. SameBut({"inbox", "close", "fee_range"}, c, o.c)
    BY <1>6 DEF SameBut
  <2>2. ours.max <= ours.max
    BY <1>4 DEF IsRange
  <2> QED BY <1>4, <1>6, <1>7, <2>1, <2>2 DEF Read
<1>9. fee # NoFee => /\ DOMAIN chosen = OutcomeFields /\ chosen.exc = Ok /\ chosen.out = << >>
                     /\ Read(n, msg, chosen)
                     /\ chosen.c.hm = o.c.hm /\ chosen.c.fee_range.fee = fee
  <2> SUFFICES ASSUME fee # NoFee
               PROVE  /\ DOMAIN chosen = OutcomeFields /\ chosen.exc = Ok /\ chosen.out = << >>
                      /\ Read(n, msg, chosen)
                      /\ chosen.c.hm = o.c.hm /\ chosen.c.fee_range.fee = fee
    OBVIOUS
  <2>1. IsRange([ours EXCEPT !.fee = fee, !.max = most]) /\ ours.max <= most
    BY <1>4, ChosenFits DEF Most
  <2>2. {"fee", "min", "max"} \subseteq DOMAIN o.c.fee_range
    BY <1>4, <1>7 DEF IsRange
  <2> DEFINE f == o.c.fee_range
  <2> HIDE DEF fee
  <2>3. /\ DOMAIN chosen = OutcomeFields /\ DOMAIN chosen.c = ChannelFields
        /\ chosen.out = o.out /\ chosen.exc = o.exc /\ SameBut({"close", "fee_range"}, o.c, chosen.c)
        /\ chosen.c.close = Replied(o.c.close)
        /\ chosen.c.fee_range = Ranged(f, fee, most)
        /\ chosen.c.fee_range.min = f.min /\ chosen.c.fee_range.fee = fee
        /\ chosen.c.fee_range.max = most
    <3>1. most = Most(n, o.c.fee_range.max, msg.range.max)
      BY <1>7
    <3> HIDE DEF chosen, most
    <3>2. chosen = Chosen(n, o, fee, msg.range.max)
      BY DEF chosen
    <3> QED BY <1>6, <2>2, <3>1, <3>2, ChosenIs
  <2> HIDE DEF chosen, f
  <2>7. f = ours
    BY <1>7 DEF f
  <2>8. /\ chosen.c.fee_range = [ours EXCEPT !.fee = fee, !.max = most]
        /\ chosen.c.fee_range.min = ours.min
        /\ chosen.c.fee_range.fee = fee /\ chosen.c.fee_range.max = most
    BY <2>3, <2>7 DEF Ranged
  <2> HIDE DEF most
  <2>4. SameBut({"inbox", "close", "fee_range"}, c, chosen.c) /\ chosen.c.inbox = << >> /\ chosen.c.hm = o.c.hm
    BY <1>6, <2>3 DEF SameBut, ChannelFields
  <2>5. /\ chosen.c.close.at = c.close.at /\ chosen.c.close.is_local = c.close.is_local
        /\ chosen.c.close.received = c.close.received
        /\ {"at", "is_local", "received"} \subseteq DOMAIN chosen.c.close
    BY <1>7, <2>3 DEF Replied
  <2>6. Read(n, msg, chosen)
    BY <1>6, <2>1, <2>3, <2>4, <2>5, <2>8 DEF Read
  <2> QED BY <1>6, <2>3, <2>4, <2>6
<1>10. ~bad => msg.sig = make_closing_tx(n, o.c.hm, msg.range.fee)
  OBVIOUS
<1>11. /\ DOMAIN forced = OutcomeFields /\ DOMAIN forced.c = ChannelFields
       /\ forced.exc = Ok /\ forced.out = o.out
       /\ SameBut({"state"}, o.c, forced.c) /\ forced.c.state \in {o.c.state, "FORCE_CLOSING"}
  <2>1. forced = o \/ forced = set_state(o, "FORCE_CLOSING")
    BY DEF schedule_force_closing
  <2>2. SameBut({"state"}, o.c, o.c)
    BY DEF SameBut
  <2> QED BY <1>6, <2>1, <2>2, OutcomeParts
<1>12. ours.fee = o.c.fee_range.fee
  BY <1>7
<1>13. c.close.at = "receiving" /\ ch[n].inbox = <<msg>>
  BY <1>3
<1> HIDE DEF fee, forced, chosen, bad, ours
<1>14. CASE bad
  <2>1. q = FailsToClose(o)
    BY <1>5, <1>14
  <2>2. SameBut({"state"}, o.c, o.c)
    BY DEF SameBut
  <2>3. Fits(n, FailsToClose(o), net[n])
    BY <1>6, <1>8, <1>13, <2>2, FailsFits
  <2> QED BY <2>1, <2>3 DEF q
<1>15. CASE ~bad /\ msg.range.fee = ours.fee
  <2>1. q = Closes(n, o)
    BY <1>5, <1>15
  <2>2. Fits(n, Closes(n, o), net[n])
    BY <1>6, <1>8, <1>10, <1>12, <1>13, <1>15, ClosesFits
  <2> QED BY <2>1, <2>2 DEF q
<1>16. CASE ~bad /\ msg.range.fee # ours.fee /\ fee = NoFee
  <2>1. q = FailsToClose(forced)
    BY <1>5, <1>16
  <2>2. Fits(n, FailsToClose(forced), net[n])
    BY <1>8, <1>11, <1>13, FailsFits
  <2> QED BY <2>1, <2>2 DEF q
<1>17. CASE ~bad /\ msg.range.fee # ours.fee /\ fee # NoFee
  <2>1. CASE fee = msg.range.fee /\ n # Funder
    <3>1. q = Closes(n, chosen)
      BY <1>5, <1>17, <2>1
    <3>2. /\ Read(n, msg, chosen) /\ chosen.out = << >> /\ chosen.c.fee_range.fee = msg.range.fee
          /\ msg.sig = make_closing_tx(n, chosen.c.hm, msg.range.fee)
      BY <1>9, <1>10, <1>17, <2>1
    <3>3. Fits(n, Closes(n, chosen), net[n])
      BY <1>13, <3>2, ClosesFits
    <3> QED BY <3>1, <3>3 DEF q
  <2>2. CASE fee = msg.range.fee /\ n = Funder
    <3> DEFINE told == send_closing_signed(n, chosen)
    <3>1. q = Closes(n, told)
      BY <1>5, <1>17, <2>2
    <3>2. Blank(chosen)
      BY <1>9, <1>17 DEF Read, Blank
    <3>3. /\ DOMAIN told = OutcomeFields /\ told.c = chosen.c /\ told.exc = Ok
          /\ \E y : told.out = <<y>> /\ IsOffer(n, chosen.c, y)
      BY <3>2, SaysOffer
    <3> HIDE DEF told
    <3>4. /\ Read(n, msg, told) /\ told.c.fee_range.fee = msg.range.fee
          /\ msg.sig = make_closing_tx(n, told.c.hm, msg.range.fee)
      BY <1>9, <1>10, <1>17, <2>2, <3>3 DEF Read
    <3>5. Fits(n, Closes(n, told), net[n])
      BY <1>13, <2>2, <3>4, ClosesFits
    <3> QED BY <3>1, <3>5 DEF q
  <2>3. CASE fee # msg.range.fee
    <3>1. q = send_closing_signed(n, chosen)
      BY <1>5, <1>17, <2>3
    <3>2. Fits(n, send_closing_signed(n, chosen), net[n])
      BY <1>9, <1>13, <1>17, OffersFits
    <3> QED BY <3>1, <3>2 DEF q
  <2> QED BY <2>1, <2>2, <2>3
<1> QED BY <1>14, <1>15, <1>16, <1>17 DEF q

(* A shutdown or a closing_signed has come. *)
LEMMA ArrivalFits ==
    ASSUME BasicInv, NEW n \in Node, AgreeAt(n), net[n] # << >>,
           NEW o, \/ Head(net[n]).type = "shutdown" /\ o \in OnShutdown(n, Head(net[n]))
                  \/ Head(net[n]).type = "closing_signed" /\ o \in OnClosingSigned(n, Head(net[n]))
    PROVE  Fits(n, o, Tail(net[n]))
<1> DEFINE c == ch[n]
           d == ch[Peer(n)]
           s == net[n]
           t == net[Peer(n)]
           b == Begin(n)
           x == Head(s)
<1>1. Blank(b) /\ b.c = c
  BY BeginFits
<1>2. \/ x.type = "shutdown" /\ o = [b EXCEPT !.c.shutdown = TRUE]
      \/ x.type = "closing_signed" /\ o = [b EXCEPT !.c.inbox = Append(@, x)]
  BY DEF OnShutdown, OnClosingSigned
<1>3. Agree(n, c, d, s, t) /\ IsSeq(s) /\ s # << >>
  BY DEF AgreeAt, BasicInv, Types
<1> HIDE DEF b, c, s, x
<1>4. o.out = << >> /\ DOMAIN o.c = ChannelFields
  BY <1>1, <1>2 DEF Blank, OutcomeFields, ChannelFields
<1>5. Sent(n, o) = t
  BY <1>4, SentIs
<1> HIDE DEF d, t
<1>6. CASE x.type = "shutdown" /\ o = [b EXCEPT !.c.shutdown = TRUE]
  <2>1. SameBut({"shutdown"}, b.c, o.c) /\ o.c.shutdown
    BY <1>1, <1>6 DEF Blank, OutcomeFields, ChannelFields, SameBut
  <2>2. SameBut(Apart \cup {"shutdown"}, c, o.c)
    BY <1>1, <2>1 DEF SameBut
  <2>3. Agree(n, o.c, d, Tail(s), t)
    BY <1>3, <1>6, <2>1, <2>2, ReadsShutdown DEF x
  <2> QED BY <1>5, <2>3 DEF Fits, d, s, t
<1>7. CASE x.type = "closing_signed" /\ o = [b EXCEPT !.c.inbox = Append(@, x)]
  <2>1. SameBut({"inbox"}, b.c, o.c) /\ o.c.inbox = Append(b.c.inbox, x)
    BY <1>1, <1>7 DEF Blank, OutcomeFields, ChannelFields, SameBut
  <2>2. SameBut(Apart \cup {"inbox"}, c, o.c) /\ o.c.inbox = Append(c.inbox, Head(s))
    BY <1>1, <2>1 DEF SameBut, x
  <2>3. Agree(n, o.c, d, Tail(s), t)
    BY <1>3, <1>7, <2>2, ReadsOffer DEF x
  <2> QED BY <1>5, <2>3 DEF Fits, d, s, t
<1> QED BY <1>2, <1>6, <1>7

(* What the tasks that close the channel do *)
LEMMA CloseOutcomesFit ==
    ASSUME BasicInv, NEW n \in Node, AgreeAt(n), NEW o \in CloseOutcomes(n)
    PROVE  Fits(n, o, net[n]) /\ Closing(n, o) /\ (ch[n].shutdown \/ ch[n].close.at # "none")
<1> DEFINE c == ch[n]
<1>1. \/ c.shutdown /\ o = HandleShutdown(n)
      \/ c.close.at = "pending" /\ o = SendsShutdown(Begin(n))
      \/ /\ c.close.at = "sent" /\ c.close.received
         /\ \E r \in CloseFees[n] : o = StartsNegotiation(n, r)
      \/ c.close.at = "receiving" /\ c.inbox # << >> /\ o = ReceivesClosingSigned(n)
      \/ c.close.at = "receiving" /\ o = FailsToClose(schedule_force_closing(Begin(n)))
  <2>1. \/ o \in IF c.shutdown THEN {HandleShutdown(n)} ELSE {}
        \/ o \in CASE c.close.at = "pending" /\ ~has_pending_changes(c.hm, Remote) /\ connected ->
                      {SendsShutdown(Begin(n))}
                   [] c.close.at = "sent" /\ c.close.received /\ ~has_unsettled_htlcs(c.hm) ->
                      {StartsNegotiation(n, r) : r \in CloseFees[n]}
                   [] c.close.at = "receiving" /\ c.inbox # << >> -> {ReceivesClosingSigned(n)}
                   [] c.close.at = "receiving" /\ c.inbox = << >> ->
                      {FailsToClose(schedule_force_closing(Begin(n)))}
                   [] OTHER -> {}
    BY DEF CloseOutcomes
  <2> HIDE DEF c
  <2> QED BY <2>1
<1>2. Closing(n, Begin(n)) /\ Begin(n).c = c /\ Blank(Begin(n)) /\ Fits(n, Begin(n), net[n])
  BY ClosingBegins, BeginFits
<1>3. CASE c.shutdown /\ o = HandleShutdown(n)
  BY <1>3, HandleShutdownIs, HandleShutdownFits
<1>4. CASE c.close.at = "pending" /\ o = SendsShutdown(Begin(n))
  BY <1>2, <1>4, SendsShutdownIs, SendsShutdownFits
<1>5. CASE /\ c.close.at = "sent" /\ c.close.received
           /\ \E r \in CloseFees[n] : o = StartsNegotiation(n, r)
  <2>1. PICK r \in CloseFees[n] : o = StartsNegotiation(n, r)
    BY <1>5
  <2>2. IsRange(r)
    BY CloseFeesAssumption DEF IsRange
  <2> QED BY <1>5, <2>1, <2>2, StartsNegotiationIs, StartsNegotiationFits
<1>6. CASE c.close.at = "receiving" /\ c.inbox # << >> /\ o = ReceivesClosingSigned(n)
  BY <1>6, ReceivesClosingSignedIs, ReceivesFits
<1>7. CASE c.close.at = "receiving" /\ o = FailsToClose(schedule_force_closing(Begin(n)))
  BY <1>2, <1>7, ClosingForced, ClosingFails, TimesOutFits
<1> QED BY <1>1, <1>3, <1>4, <1>5, <1>6, <1>7

\* A step of n that is not about the close
Quietly(n, o) ==
    /\ SameBut(Apart \cup {"state"}, ch[n], o.c) /\ o.c.state \in {ch[n].state} \cup Final
    /\ IsSeq(o.out) /\ Lacks(o.out, Closings)

(* What else a node does is not about the close... *)
LEMMA KindIsQuiet ==
    ASSUME NEW n \in Node, NEW o, NEW inbox, Outcome(n, o),
           Work(n, o) \/ Reestablishes(n, o, inbox) \/ Errs(n, o) \/ Starts(n, o) \/ Finishes(n, o)
    PROVE  Quietly(n, o)
<1>1. IsSeq(o.out)
  BY DEF Outcome, Unsigning, Signing, Fine, Sound
<1>2. SameBut(Apart \cup {"state"}, ch[n], o.c)
  BY DEF Work, Reestablishes, Errs, Starts, Finishes, SameBut, Apart
<1>3. o.c.state \in {ch[n].state} \cup Final
  BY DEF Work, Reestablishes, Errs, Starts, Finishes, SameBut, ChannelFields, Final
<1>4. ASSUME Work(n, o) \/ Finishes(n, o) PROVE Lacks(o.out, Closings)
  BY <1>4 DEF Work, Finishes, Lacks, Closings, Updates
<1>5. ASSUME Reestablishes(n, o, inbox) \/ Errs(n, o) PROVE Lacks(o.out, Closings)
  BY <1>5, ShortSeqs DEF Reestablishes, Errs, Lacks
<1>6. ASSUME Starts(n, o) PROVE Lacks(o.out, Closings)
  <2> DEFINE x == channel_reestablish(0, 0)
             y == OwnAnnouncement(ch[n].hm)
             e == [type |-> "error"]
  <2>1. x.type = "channel_reestablish" /\ y.type = "channel_reestablish" /\ e.type = "error"
    BY DEF OwnAnnouncement, channel_reestablish
  <2>2. o.out = Append(<<x>>, e) \/ o.out = <<x>> \/ o.out = <<y>>
    BY <1>6 DEF Starts
  <2> HIDE DEF x, y, e
  <2>3. /\ IsSeq(<<x>>) /\ Len(<<x>>) = 1 /\ <<x>>[1] = x
        /\ IsSeq(<<y>>) /\ Len(<<y>>) = 1 /\ <<y>>[1] = y
    BY ShortSeqs
  <2>4. \A k \in 1 .. Len(o.out) : o.out[k] \in {x, y, e}
    <3>1. CASE o.out = Append(<<x>>, e)
      BY <2>3, <3>1, AppendIs
    <3>2. CASE o.out = <<x>> \/ o.out = <<y>>
      BY <2>3, <3>2
    <3> QED BY <2>2, <3>1, <3>2
  <2> QED BY <2>1, <2>4 DEF Lacks, Closings
<1> QED BY <1>1, <1>2, <1>3, <1>4, <1>5, <1>6 DEF Quietly

\* What n does about the close
ClosesStep(n) ==
    \/ CloseChannel(n) \/ CloseStep(n)
    \/ Receive(n, "shutdown", OnShutdown) \/ Receive(n, "closing_signed", OnClosingSigned)

\* n takes a step with an outcome as we know them.
Takes(n, o, inbox) == Step(n, o, inbox) /\ IsInbox(n, inbox) /\ DOMAIN o.c = ChannelFields

(* ... so every step of a node is quiet, or about the close. *)
LEMMA NodeIsQuiet ==
    ASSUME DanceInv, NEW n \in Node,
           \/ SendHtlc(n) \/ UpdateFee(n) \/ PollCommitment(n) \/ Deliver(n)
           \/ \E i \in HtlcIds : FulfillHtlc(n, i) \/ FailHtlc(n, i)
           \/ StartReestablish(n) \/ FinishReestablish(n)
    PROVE  ClosesStep(n) \/ \E o, inbox : Takes(n, o, inbox) /\ Quietly(n, o)
<1> DEFINE Rest(o, inbox) == Reestablishes(n, o, inbox) \/ Errs(n, o) \/ Starts(n, o) \/ Finishes(n, o)
<1>1. BasicInv /\ Dance
  BY DEF DanceInv
<1>2. \/ ClosesStep(n)
      \/ \E o, inbox : /\ Step(n, o, inbox) /\ IsInbox(n, inbox) /\ Outcome(n, o)
                       /\ Work(n, o) \/ Rest(o, inbox)
  <2>1. CASE \/ SendHtlc(n) \/ UpdateFee(n) \/ PollCommitment(n)
             \/ \E i \in HtlcIds : FulfillHtlc(n, i) \/ FailHtlc(n, i)
             \/ Receive(n, "update_add_htlc", OnUpdateAddHtlc)
             \/ Receive(n, "update_fulfill_htlc", OnUpdateFulfillHtlc)
             \/ Receive(n, "update_fail_htlc", OnUpdateFailHtlc)
             \/ Receive(n, "update_fee", OnUpdateFee)
             \/ Receive(n, "commitment_signed", OnCommitmentSigned)
             \/ Receive(n, "revoke_and_ack", OnRevokeAndAck)
    <3>1. Works(n)
      BY <1>1, <2>1, SendHtlcWorks, UpdateFeeWorks, PollCommitmentWorks, FulfillHtlcWorks,
         FailHtlcWorks, OnUpdateAddHtlcWorks, OnUpdateFulfillHtlcWorks, OnUpdateFailHtlcWorks,
         OnUpdateFeeWorks, OnCommitmentSignedWorks, OnRevokeAndAckWorks
    <3> QED BY <3>1 DEF Works
  <2>2. CASE Receive(n, "channel_reestablish", OnChannelReestablish)
    <3>1. PICK o \in OnChannelReestablish(n, Head(net[n])) : Step(n, o, Tail(net[n]))
      BY <2>2 DEF Receive
    <3>2. net[n] # << >> /\ ~Blocked(ch[n]) /\ Head(net[n]).type = "channel_reestablish"
      BY <2>2 DEF Receive
    <3>3. Unsigning(n, o) /\ (Work(n, o) \/ Reestablishes(n, o, Tail(net[n])))
      BY <1>1, <3>2, OnChannelReestablishActs
    <3> QED BY <3>1, <3>2, <3>3 DEF IsInbox, Outcome
  <2>3. CASE Receive(n, "error", OnError)
    <3>1. PICK o \in OnError(n, Head(net[n])) : Step(n, o, Tail(net[n]))
      BY <2>3 DEF Receive
    <3>2. net[n] # << >> /\ ~Blocked(ch[n]) /\ Head(net[n]).type = "error"
      BY <2>3 DEF Receive
    <3>3. Unsigning(n, o) /\ Errs(n, o)
      BY <1>1, <3>2, OnErrorActs
    <3> QED BY <3>1, <3>2, <3>3 DEF IsInbox, Outcome
  <2>4. CASE StartReestablish(n)
    <3>1. PICK o : Step(n, o, net[n]) /\ Unsigning(n, o) /\ Starts(n, o)
      BY <1>1, <2>4, StartReestablishActs
    <3> QED BY <3>1 DEF IsInbox, Outcome
  <2>5. CASE FinishReestablish(n)
    <3>1. PICK o : Step(n, o, net[n]) /\ Unsigning(n, o) /\ (Work(n, o) \/ Finishes(n, o))
      BY <1>1, <2>5, FinishReestablishActs
    <3> QED BY <3>1 DEF IsInbox, Outcome
  <2>6. CASE Receive(n, "shutdown", OnShutdown) \/ Receive(n, "closing_signed", OnClosingSigned)
    BY <2>6 DEF ClosesStep
  <2> QED BY <2>1, <2>2, <2>3, <2>4, <2>5, <2>6 DEF Deliver
<1>3. CASE ~ClosesStep(n)
  <2>1. PICK o, inbox : /\ Step(n, o, inbox) /\ IsInbox(n, inbox) /\ Outcome(n, o)
                        /\ Work(n, o) \/ Rest(o, inbox)
    BY <1>2, <1>3
  <2>2. Quietly(n, o)
    BY <2>1, KindIsQuiet
  <2>3. DOMAIN o.c = ChannelFields
    BY <2>1 DEF Outcome, Unsigning, Signing, Fine, Sound, IsChannel
  <2> QED BY <2>1, <2>2, <2>3 DEF Takes
<1> QED BY <1>3

(* A quiet step leaves the two agreed. *)
LEMMA QuietFits ==
    ASSUME BasicInv, NEW n \in Node, AgreeAt(n), NEW o, NEW inbox, IsInbox(n, inbox), Quietly(n, o)
    PROVE  Fits(n, o, inbox)
<1> DEFINE c == ch[n]
           d == ch[Peer(n)]
           s == net[n]
           t == net[Peer(n)]
<1>1. IsSeq(s) /\ IsSeq(t)
  BY PeerFacts DEF BasicInv, Types
<1>2. Less(s, inbox)
  <2>1. Lacks(<< >>, Closings)
    BY ShortSeqs DEF Lacks
  <2>2. Less(s, s)
    BY <1>1, <2>1, ShortSeqs, OthersLess
  <2>3. s # << >> => Less(s, Tail(s))
    BY <1>1, TailLess
  <2> HIDE DEF s
  <2> QED BY <2>2, <2>3 DEF IsInbox, s
<1>3. Less(t, Sent(n, o))
  <2>1. Sent(n, o) \in {t, t \o o.out} /\ IsSeq(o.out) /\ Lacks(o.out, Closings)
    BY DEF Sent, Quietly
  <2> HIDE DEF t
  <2> QED BY <1>1, <2>1, OthersLess
<1>4. Agree(n, c, d, s, t) /\ SameBut(Apart \cup {"state"}, c, o.c) /\ o.c.state \in {c.state} \cup Final
  BY DEF AgreeAt, Quietly
<1> HIDE DEF c, d, s, t
<1>5. Agree(n, o.c, d, inbox, Sent(n, o))
  BY <1>2, <1>3, <1>4, IsNothing
<1> QED BY <1>5 DEF Fits, d

(* So does a step about the close. *)
LEMMA ClosesStepFits ==
    ASSUME BasicInv, NEW n \in Node, AgreeAt(n), ClosesStep(n)
    PROVE  \E o, inbox : Takes(n, o, inbox) /\ Fits(n, o, inbox)
<1>1. CASE CloseChannel(n)
  <2> DEFINE p == [Begin(n) EXCEPT !.c.close.is_local = TRUE]
             o == send_shutdown(p)
  <2>1. /\ Step(n, o, net[n]) /\ ch[n].state = "OPEN" /\ ch[n].close = NotClosing
    BY <1>1 DEF CloseChannel
  <2>2. Fits(n, o, net[n])
    BY <2>1, CloseChannelFits
  <2>3. DOMAIN o.c = ChannelFields
    BY <1>1, CloseChannelActs, ClosingParts
  <2> HIDE DEF o
  <2> QED BY <2>1, <2>2, <2>3 DEF Takes, IsInbox
<1>2. CASE CloseStep(n)
  <2>1. PICK o \in CloseOutcomes(n) : Step(n, o, net[n])
    BY <1>2 DEF CloseStep
  <2>2. Fits(n, o, net[n]) /\ DOMAIN o.c = ChannelFields
    BY CloseOutcomesFit, ClosingParts
  <2> QED BY <2>1, <2>2 DEF Takes, IsInbox
<1>3. CASE Receive(n, "shutdown", OnShutdown)
  <2>1. PICK o \in OnShutdown(n, Head(net[n])) : Step(n, o, Tail(net[n]))
    BY <1>3 DEF Receive
  <2>2. net[n] # << >> /\ Head(net[n]).type = "shutdown" /\ ~Blocked(ch[n])
    BY <1>3 DEF Receive
  <2>3. Fits(n, o, Tail(net[n])) /\ DOMAIN o.c = ChannelFields
    BY <2>2, ArrivalFits, OnShutdownActs, ClosingParts
  <2> QED BY <2>1, <2>2, <2>3 DEF Takes, IsInbox
<1>4. CASE Receive(n, "closing_signed", OnClosingSigned)
  <2>1. PICK o \in OnClosingSigned(n, Head(net[n])) : Step(n, o, Tail(net[n]))
    BY <1>4 DEF Receive
  <2>2. net[n] # << >> /\ Head(net[n]).type = "closing_signed" /\ ~Blocked(ch[n])
    BY <1>4 DEF Receive
  <2>3. Fits(n, o, Tail(net[n])) /\ DOMAIN o.c = ChannelFields
    BY <2>2, ArrivalFits, OnClosingSignedActs, ClosingParts
  <2> QED BY <2>1, <2>2, <2>3 DEF Takes, IsInbox
<1> QED BY <1>1, <1>2, <1>3, <1>4 DEF ClosesStep

-----------------------------------------------------------------------------
(* The two nodes agree at any time *)

(* What a step does to the two channels, and to what is on the way *)
LEMMA StepChanges ==
    ASSUME BasicInv, NEW n \in Node, NEW o, NEW inbox, Step(n, o, inbox)
    PROVE  LET p == Peer(n)
           IN  IF o.exc = Ok
               THEN /\ ch'[n] = o.c /\ ch'[p] = ch[p] /\ net'[n] = inbox /\ net'[p] = Sent(n, o)
               ELSE /\ ch'[n] = Disconnected(o.c) /\ ch'[p] = Disconnected(ch[p])
                    /\ net'[n] = << >> /\ net'[p] = << >>
<1> DEFINE p == Peer(n)
<1>1. p \in Node /\ p # n /\ DOMAIN ch = Node /\ DOMAIN net = Node
  BY PeerFacts DEF BasicInv, Types
<1>2. CASE o.exc = Ok
  <2>1. /\ ch' = [ch EXCEPT ![n] = o.c]
        /\ net' = [net EXCEPT ![n] = inbox, ![p] = IF connected THEN @ \o o.out ELSE @]
    BY <1>2 DEF Step
  <2> HIDE DEF p
  <2> QED BY <1>1, <1>2, <2>1 DEF Sent, p
<1>3. CASE o.exc # Ok
  <2>1. /\ ch' = [q \in Node |-> Disconnected(IF q = n THEN o.c ELSE ch[q])]
        /\ net' = [q \in Node |-> << >>]
    BY <1>3 DEF Step
  <2> HIDE DEF p
  <2> QED BY <1>1, <1>3, <2>1 DEF p
<1> QED BY <1>2, <1>3

(* Either node may be looked at first. *)
LEMMA AgreeBoth ==
    ASSUME NEW n \in Node, NEW c, NEW d, NEW s, NEW t
    PROVE  Agree(n, c, d, s, t) <=> Agree(Peer(n), d, c, t, s)
  BY PeerFacts DEF Agree

(* A step that fits leaves the two nodes agreed. *)
LEMMA FitsAgrees ==
    ASSUME BasicInv, NEW n \in Node, NEW o, NEW inbox, Takes(n, o, inbox), Fits(n, o, inbox)
    PROVE  \A q \in Node : AgreeAt(q)'
<1> DEFINE p == Peer(n)
<1>1. p \in Node /\ Peer(p) = n /\ \A q \in Node : q = n \/ q = p
  BY PeerFacts
<1>2. Agree(n, ch'[n], ch'[p], net'[n], net'[p])
  <2>1. CASE o.exc = Ok
    BY <2>1, StepChanges DEF Takes, Fits
  <2>2. CASE o.exc # Ok
    <3> DEFINE f == Disconnected(o.c)
               g == Disconnected(ch[p])
    <3>1. ch'[n] = f /\ ch'[p] = g /\ net'[n] = << >> /\ net'[p] = << >>
      BY <2>2, StepChanges DEF Takes
    <3>2. DOMAIN o.c = ChannelFields /\ DOMAIN ch[p] = ChannelFields
      BY <1>1 DEF Takes, BasicInv, Types, IsChannel
    <3>3. {"peer_state", "task", "reest", "shutdown", "close"} \subseteq ChannelFields
      BY DEF ChannelFields
    <3>4. Agree(n, f, ch[p], << >>, << >>)
      BY <3>2, <3>3, LosesTheConnection DEF Fits
    <3> HIDE DEF f
    <3>5. Agree(p, ch[p], f, << >>, << >>)
      BY <3>4, AgreeBoth
    <3>6. Agree(p, g, f, << >>, << >>)
      BY <3>2, <3>3, <3>5, LosesTheConnection
    <3> HIDE DEF g
    <3>7. Agree(n, f, g, << >>, << >>)
      BY <1>1, <3>6, AgreeBoth
    <3> QED BY <3>1, <3>7
  <2> QED BY <2>1, <2>2
<1>3. Agree(p, ch'[p], ch'[n], net'[p], net'[n])
  BY <1>2, AgreeBoth
<1>4. AgreeAt(n)'
  BY <1>2 DEF AgreeAt
<1>5. AgreeAt(p)'
  BY <1>1, <1>3 DEF AgreeAt
<1> QED BY <1>1, <1>4, <1>5

\* No connection will be lost but by an exception.
Over == left.disconnects = 0 /\ left.crashes = 0 /\ left.restores = 0

\* Before that no close has begun.
Fresh(c, s) ==
    /\ c.close = NotClosing /\ c.state \notin {"SHUTDOWN", "CLOSING"}
    /\ ~c.shutdown /\ c.inbox = << >> /\ IsRange(c.fee_range) /\ Lacks(s, Closings)

CloseInv ==
    /\ DanceInv
    /\ \A n \in Node : AgreeAt(n)
    /\ Over \/ \A n \in Node : Fresh(ch[n], net[n])
    /\ \A n \in Node : backup[n] # NoFile => backup[n].state \notin {"SHUTDOWN", "CLOSING"}

(* Then there is nothing that the nodes could disagree about. *)
LEMMA FreshAgrees ==
    ASSUME NEW n, NEW c, NEW d, NEW s, NEW t, Fresh(c, s), Fresh(d, t)
    PROVE  Agree(n, c, d, s, t)
<1>1. /\ NotClosing.at = "none" /\ ~NotClosing.is_local /\ ~NotClosing.received
  BY DEF NotClosing
<1>2. ASSUME NEW m, NEW a, NEW b, NEW u, NEW v, Fresh(a, u), Fresh(b, v)
      PROVE  CloseAt(m, a, b, u, v)
  <2>1. /\ Lacks(u, {"shutdown"}) /\ Single(u, "shutdown")
        /\ Lacks(u, {"closing_signed"}) /\ Single(u, "closing_signed")
    BY <1>2 DEF Fresh, Lacks, Single, Closings
  <2>2. Offers(a, u) = {} /\ Offers(b, v) = {}
    <3>1. DOMAIN << >> = {}
      OBVIOUS
    <3> QED BY <1>2, <3>1 DEF Fresh, Lacks, Offers, Closings
  <2>3. ShutsOnce(a, b, u) /\ Stage(a)
    BY <1>1, <1>2, <2>1 DEF ShutsOnce, Asked, Heard, Stage, Fresh
  <2>4. NotYet(m, a, b, u, v) /\ OneOffer(a, b, u, v) /\ Offered(a, b, u) /\ Settled(a, b)
    BY <1>1, <1>2, <2>1, <2>2 DEF NotYet, OneOffer, Offered, Settled, Fresh
  <2> QED BY <2>3, <2>4 DEF CloseAt
<1> QED BY <1>2 DEF Agree

(* The end of a connection, and the file, begin no close. *)
LEMMA FreshStays ==
    ASSUME NEW c, NEW s, Fresh(c, s), NEW b, SameBut(Apart \cup {"state"}, c, b),
           b.state \notin {"SHUTDOWN", "CLOSING"},
           {"peer_state", "task", "reest", "shutdown", "close"} \subseteq DOMAIN b
    PROVE  /\ \A r : Lacks(r, Closings) => Fresh(b, r)
           /\ Fresh(Disconnected(b), << >>)
<1>1. /\ b.close = c.close /\ b.shutdown = c.shutdown /\ b.inbox = c.inbox
      /\ b.fee_range = c.fee_range
  BY DEF SameBut, ChannelFields, Apart
<1>2. \A r : Lacks(r, Closings) => Fresh(b, r)
  BY <1>1 DEF Fresh
<1>3. Fresh(Disconnected(b), << >>)
  <2> DEFINE d == Disconnected(b)
  <2>1. /\ ~d.shutdown /\ d.state = b.state /\ d.inbox = b.inbox /\ d.fee_range = b.fee_range
        /\ d.close = IF b.close.is_local THEN b.close ELSE NotClosing
    BY DEF Disconnected
  <2> HIDE DEF d
  <2>2. Lacks(<< >>, Closings)
    BY ShortSeqs DEF Lacks
  <2>3. d.close = NotClosing
    BY <1>1, <2>1 DEF Fresh
  <2> QED BY <1>1, <2>1, <2>2, <2>3 DEF Fresh, d
<1> QED BY <1>2, <1>3

(* A quiet step begins none. *)
LEMMA QuietIsFresh ==
    ASSUME BasicInv, NEW n \in Node, NEW o, NEW inbox, Takes(n, o, inbox), Quietly(n, o),
           \A q \in Node : Fresh(ch[q], net[q])
    PROVE  \A q \in Node : Fresh(ch[q], net[q])'
<1> DEFINE p == Peer(n)
<1>1. p \in Node /\ \A q \in Node : q = n \/ q = p
  BY PeerFacts
<1>2. /\ DOMAIN o.c = ChannelFields /\ DOMAIN ch[p] = ChannelFields
      /\ {"peer_state", "task", "reest", "shutdown", "close"} \subseteq ChannelFields
  BY <1>1 DEF Takes, BasicInv, Types, IsChannel, ChannelFields
<1>3. Fresh(ch[n], net[n]) /\ Fresh(ch[p], net[p])
  BY <1>1
<1>4. o.c.state \notin {"SHUTDOWN", "CLOSING"}
  BY <1>3 DEF Quietly, Fresh, Final
<1>5. /\ \A r : Lacks(r, Closings) => Fresh(o.c, r)
      /\ Fresh(Disconnected(o.c), << >>)
  BY <1>2, <1>3, <1>4, FreshStays DEF Quietly
<1>6. Fresh(Disconnected(ch[p]), << >>)
  <2>1. SameBut(Apart \cup {"state"}, ch[p], ch[p])
    BY DEF SameBut
  <2>2. ch[p].state \notin {"SHUTDOWN", "CLOSING"}
    BY <1>3 DEF Fresh
  <2> QED BY <1>2, <1>3, <2>1, <2>2, FreshStays
<1>7. Lacks(inbox, Closings)
  <2>1. Lacks(net[n], Closings) /\ IsInbox(n, inbox)
    BY <1>3 DEF Fresh, Takes
  <2>2. \A k \in 1 .. Len(inbox) : \E j \in 1 .. Len(net[n]) : inbox[k] = net[n][j]
    BY <2>1, InboxIs
  <2> QED BY <2>1, <2>2 DEF Lacks
<1>8. Lacks(Sent(n, o), Closings)
  <2>1. Lacks(net[p], Closings) /\ IsSeq(net[p]) /\ Lacks(o.out, Closings) /\ IsSeq(o.out)
    BY <1>1, <1>3 DEF Fresh, Quietly, BasicInv, Types
  <2>2. Lacks(net[p] \o o.out, Closings)
    BY <2>1, ConcatLacks
  <2> QED BY <2>1, <2>2 DEF Sent
<1>9. Fresh(ch'[n], net'[n]) /\ Fresh(ch'[p], net'[p])
  <2>1. Step(n, o, inbox)
    BY DEF Takes
  <2>2. CASE o.exc = Ok
    <3>1. ch'[n] = o.c /\ ch'[p] = ch[p] /\ net'[n] = inbox /\ net'[p] = Sent(n, o)
      BY <2>1, <2>2, StepChanges
    <3>2. Fresh(ch[p], Sent(n, o))
      BY <1>3, <1>8 DEF Fresh
    <3> QED BY <1>5, <1>7, <3>1, <3>2
  <2>3. CASE o.exc # Ok
    <3>1. /\ ch'[n] = Disconnected(o.c) /\ ch'[p] = Disconnected(ch[p])
          /\ net'[n] = << >> /\ net'[p] = << >>
      BY <2>1, <2>3, StepChanges
    <3> QED BY <1>5, <1>6, <3>1
  <2> QED BY <2>2, <2>3
<1> QED BY <1>1, <1>9

(* No step is about the close before one is possible. *)
LEMMA FreshIsQuiet ==
    ASSUME NEW n \in Node, BasicInv, AgreeAt(n), Fresh(ch[n], net[n]), ClosesStep(n)
    PROVE  Over
<1>1. ASSUME NEW x, net[n] # << >>, Head(net[n]) = x PROVE x.type \notin Closings
  <2>1. IsSeq(net[n]) /\ Lacks(net[n], Closings)
    BY DEF BasicInv, Types, Fresh
  <2>2. x = net[n][1] /\ 1 \in 1 .. Len(net[n])
    BY <1>1, <2>1, TailIs
  <2> QED BY <2>1, <2>2 DEF Lacks
<1>2. ~Receive(n, "shutdown", OnShutdown) /\ ~Receive(n, "closing_signed", OnClosingSigned)
  BY <1>1 DEF Receive, Closings
<1>3. ~CloseStep(n)
  <2>1. ~ch[n].shutdown /\ ch[n].close.at = "none"
    BY DEF Fresh, NotClosing
  <2> QED BY <2>1, CloseOutcomesFit DEF CloseStep
<1> QED BY <1>2, <1>3 DEF ClosesStep, CloseChannel, Over

(* What a node does keeps the two agreed. *)
LEMMA NodeCloses ==
    ASSUME CloseInv, NEW n \in Node,
           \/ SendHtlc(n) \/ UpdateFee(n) \/ PollCommitment(n) \/ Deliver(n)
           \/ \E i \in HtlcIds : FulfillHtlc(n, i) \/ FailHtlc(n, i)
           \/ StartReestablish(n) \/ FinishReestablish(n)
           \/ CloseChannel(n) \/ CloseStep(n)
    PROVE  CloseInv'
<1>1. /\ DanceInv /\ BasicInv /\ Dance
      /\ \A q \in Node : AgreeAt(q)
      /\ Over \/ \A q \in Node : Fresh(ch[q], net[q])
  BY DEF CloseInv, DanceInv
<1>2. Acts(n)
  BY <1>1, DeliverActs, OwnStepActs
<1>3. DanceInv'
  BY <1>1, <1>2, ActsDances
<1>4. backup' = backup /\ (Over => Over')
  BY <1>2 DEF Acts, Bounds, Over
<1>5. CASE ClosesStep(n)
  <2>1. Over
    BY <1>1, <1>5, FreshIsQuiet
  <2>2. \A q \in Node : AgreeAt(q)'
    BY <1>1, <1>5, ClosesStepFits, FitsAgrees
  <2> QED BY <1>3, <1>4, <2>1, <2>2 DEF CloseInv
<1>6. CASE ~ClosesStep(n)
  <2>1. PICK o, inbox : Takes(n, o, inbox) /\ Quietly(n, o)
    BY <1>1, <1>6, NodeIsQuiet DEF ClosesStep
  <2>2. \A q \in Node : AgreeAt(q)'
    BY <1>1, <2>1, QuietFits, FitsAgrees DEF Takes
  <2>3. Over' \/ \A q \in Node : Fresh(ch[q], net[q])'
    BY <1>1, <1>4, <2>1, QuietIsFresh
  <2> QED BY <1>3, <1>4, <2>2, <2>3 DEF CloseInv
<1> QED BY <1>5, <1>6

(* So does what happens to the connection, the processes and the files. *)
LEMMA EnvironmentCloses ==
    ASSUME CloseInv,
           \/ Connect \/ Disconnect
           \/ \E n \in Node : Crash(n) \/ SaveDb(n) \/ Backup(n) \/ Restore(n)
    PROVE  CloseInv'
<1>1. /\ DanceInv /\ BasicInv
      /\ \A q \in Node : AgreeAt(q)
      /\ Over \/ \A q \in Node : Fresh(ch[q], net[q])
      /\ \A q \in Node : backup[q] # NoFile => backup[q].state \notin {"SHUTDOWN", "CLOSING"}
  BY DEF CloseInv, DanceInv
<1>2. DanceInv'
  BY <1>1, EnvironmentDances
<1>3. ASSUME NEW q \in Node
      PROVE  /\ DOMAIN ch[q] = ChannelFields /\ IsChannel(ch[q], SignedBy(q))
             /\ {"peer_state", "task", "reest", "shutdown", "close"} \subseteq ChannelFields
             /\ SameBut(Apart \cup {"state"}, ch[q], ch[q])
             /\ q \in Persistent => disk[q].state = ch[q].state /\ IsFile(disk[q], SignedBy(q))
             /\ backup[q] # NoFile => IsFile(backup[q], SignedBy(q))
  BY <1>1 DEF BasicInv, Types, Saved, IsChannel, ChannelFields, SameBut
<1>4. ASSUME \A q \in Node : Fresh(ch[q], net[q])'
      PROVE  \A q \in Node : AgreeAt(q)'
  BY <1>4, PeerFacts, FreshAgrees DEF AgreeAt
<1>5. CASE Connect \/ \E n \in Node : SaveDb(n)
  <2>1. ch' = ch /\ net' = net /\ backup' = backup /\ left' = left
    BY <1>5 DEF Connect, SaveDb
  <2>2. (\A q \in Node : AgreeAt(q)') /\ (Over => Over')
    BY <1>1, <2>1 DEF AgreeAt, Over
  <2> QED BY <1>1, <1>2, <2>1, <2>2 DEF CloseInv
<1>6. ASSUME NEW n \in Node, Backup(n) PROVE CloseInv'
  <2>1. /\ ch' = ch /\ net' = net /\ left' = left /\ ~Over /\ n \in Persistent
        /\ backup' = [backup EXCEPT ![n] = disk[n]] /\ DOMAIN backup = Node
    BY <1>1, <1>6 DEF Backup, Over, BasicInv, Types
  <2>2. \A q \in Node : AgreeAt(q)'
    BY <1>1, <2>1 DEF AgreeAt
  <2>3. disk[n].state \notin {"SHUTDOWN", "CLOSING"}
    BY <1>1, <1>3, <2>1 DEF Fresh
  <2>4. \A q \in Node : backup'[q] = IF q = n THEN disk[n] ELSE backup[q]
    BY <2>1
  <2> QED BY <1>1, <1>2, <2>1, <2>2, <2>3, <2>4 DEF CloseInv
<1>7. ASSUME \A q \in Node : Fresh(ch[q], net[q])', backup' = backup
      PROVE  CloseInv'
  BY <1>1, <1>2, <1>4, <1>7 DEF CloseInv
<1>8. CASE Disconnect
  <2>1. DropConnection(ch) /\ backup' = backup /\ ~Over
    BY <1>8 DEF Disconnect, Over
  <2>2. ASSUME NEW q \in Node PROVE Fresh(ch[q], net[q])'
    <3>1. ch'[q] = Disconnected(ch[q]) /\ net'[q] = << >>
      BY <2>1 DEF DropConnection
    <3>2. Fresh(ch[q], net[q]) /\ ch[q].state \notin {"SHUTDOWN", "CLOSING"}
      BY <1>1, <2>1 DEF Fresh
    <3>3. Fresh(Disconnected(ch[q]), << >>)
      BY <1>3, <3>2, FreshStays
    <3> QED BY <3>1, <3>3
  <2> QED BY <1>7, <2>1, <2>2
<1>9. ASSUME NEW n \in Node, NEW file, DropConnection(Loaded(n, file)), IsFile(file, SignedBy(n)),
             file.state \notin {"SHUTDOWN", "CLOSING"}, backup' = backup, ~Over
      PROVE  CloseInv'
  <2>1. ASSUME NEW q \in Node PROVE Fresh(ch[q], net[q])'
    <3> DEFINE c == Loaded(n, file)[q]
    <3>1. ch'[q] = Disconnected(c) /\ net'[q] = << >>
      BY <1>9 DEF DropConnection
    <3>2. Fresh(ch[q], net[q]) /\ ch[q].state \notin {"SHUTDOWN", "CLOSING"}
      BY <1>1, <1>9 DEF Fresh
    <3>3. /\ DOMAIN c = ChannelFields /\ SameBut(Apart \cup {"state"}, ch[q], c)
          /\ c.state \notin {"SHUTDOWN", "CLOSING"}
      <4>1. CASE q = n
        <5>1. /\ IsChannel(Reads(n, file), SignedBy(n)) /\ Reads(n, file).state = file.state
              /\ SameBut({"hm", "state", "may_update"}, ch[n], Reads(n, file))
          BY <1>1, <1>9, ReadsIs
        <5>2. c = Reads(n, file)
          BY <1>1, <4>1, LoadedIs
        <5> HIDE DEF c
        <5> QED BY <1>9, <4>1, <5>1, <5>2 DEF IsChannel, SameBut, Apart
      <4>2. CASE q # n
        <5>1. c = ch[q]
          BY <1>1, <4>2, LoadedIs
        <5> HIDE DEF c
        <5> QED BY <1>3, <3>2, <5>1
      <4> QED BY <4>1, <4>2
    <3> HIDE DEF c
    <3>4. Fresh(Disconnected(c), << >>)
      BY <1>3, <3>2, <3>3, FreshStays
    <3> QED BY <3>1, <3>4
  <2> QED BY <1>7, <1>9, <2>1
<1>10. ASSUME NEW n \in Node, Crash(n) PROVE CloseInv'
  <2>1. DropConnection(Loaded(n, disk[n])) /\ backup' = backup /\ ~Over /\ n \in Persistent
    BY <1>10 DEF Crash, Over
  <2>2. disk[n].state \notin {"SHUTDOWN", "CLOSING"} /\ IsFile(disk[n], SignedBy(n))
    BY <1>1, <1>3, <2>1 DEF Fresh
  <2> QED BY <1>9, <2>1, <2>2
<1>11. ASSUME NEW n \in Node, Restore(n) PROVE CloseInv'
  <2>1. DropConnection(Loaded(n, backup[n])) /\ backup' = backup /\ ~Over /\ backup[n] # NoFile
    BY <1>11 DEF Restore, Over
  <2>2. backup[n].state \notin {"SHUTDOWN", "CLOSING"} /\ IsFile(backup[n], SignedBy(n))
    BY <1>1, <1>3, <2>1
  <2> QED BY <1>9, <2>1, <2>2
<1> QED BY <1>5, <1>6, <1>8, <1>10, <1>11

(* A step keeps the two agreed. *)
LEMMA CloseInvStep == CloseInv /\ [Next]_vars => CloseInv'
<1> SUFFICES ASSUME CloseInv, [Next]_vars PROVE CloseInv'
  OBVIOUS
<1>1. CASE Next
  BY <1>1, NodeCloses, EnvironmentCloses DEF Next
<1>2. CASE UNCHANGED vars
  <2>1. UNCHANGED <<ch, net, connected, disk, backup, left, signed, alarms>>
    BY <1>2 DEF vars
  <2>2. DanceInv'
    BY <1>2, DanceStep DEF CloseInv
  <2> QED BY <2>1, <2>2 DEF CloseInv, AgreeAt, Over
<1> QED BY <1>1, <1>2

(* At the start no close has begun. *)
LEMMA CloseStarts == Init => CloseInv
<1> SUFFICES ASSUME Init PROVE CloseInv
  OBVIOUS
<1>1. ASSUME NEW n \in Node
      PROVE  /\ ch[n].close = NotClosing /\ ch[n].state = "OPEN" /\ ~ch[n].shutdown
             /\ ch[n].inbox = << >> /\ ch[n].fee_range = [fee |-> 0, min |-> 0, max |-> 0]
             /\ net[n] = << >> /\ backup[n] = NoFile
  BY DEF Init
<1>2. Lacks(<< >>, Closings)
  BY ShortSeqs DEF Lacks
<1>3. IsRange([fee |-> 0, min |-> 0, max |-> 0])
  BY DEF IsRange
<1>4. \A n \in Node : Fresh(ch[n], net[n])
  BY <1>1, <1>2, <1>3 DEF Fresh
<1>5. \A n \in Node : AgreeAt(n)
  BY <1>4, PeerFacts, FreshAgrees DEF AgreeAt
<1> QED BY <1>1, <1>4, <1>5, InitDances DEF CloseInv

(* Whatever fees the two nodes come up with, whoever asks for the close and however the     *)
(* messages of it and of the other updates cross: when both have closed the channel, they   *)
(* hold the same closing tx, and its fee is in the ranges of both.                          *)
THEOREM TheClosingTxIsAgreed == Spec => []ClosingTxIsAgreed
<1>1. CloseInv => ClosingTxIsAgreed
  <2> SUFFICES ASSUME CloseInv PROVE ClosingTxIsAgreed
    OBVIOUS
  <2>1. ASSUME NEW n \in Node, ch[n].state = "CLOSING", NEW q \in Node
        PROVE  /\ ch[q].state = "CLOSING" => ch[q].closing_tx = ch[n].closing_tx
               /\ ch[n].closing_tx[1].fee \in ch[q].fee_range.min .. ch[q].fee_range.max
    <3>1. Settled(ch[n], ch[Peer(n)])
      BY DEF CloseInv, AgreeAt, Agree, CloseAt
    <3>2. q = n \/ q = Peer(n)
      BY PeerFacts
    <3> QED BY <2>1, <3>1, <3>2 DEF Settled
  <2> QED BY <2>1 DEF ClosingTxIsAgreed
<1> QED BY <1>1, CloseStarts, CloseInvStep, PTL DEF Spec
=============================================================================
