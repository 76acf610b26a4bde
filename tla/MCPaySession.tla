---------------------------- MODULE MCPaySession ----------------------------
(* PaySession on small instances. *)
EXTENDS PaySession

JustGossip == {"gossip"}

=============================================================================
