---------------------------- MODULE MCHtlcSwitch ----------------------------
(* HtlcSwitch with htlcs of two peers, of which two pay the amount. *)
EXTENDS HtlcSwitch, TLC

TwoPeers == {"p1", "p2"}
TwoHtlcs == {"h1", "h2"}
ThreeHtlcs == {"h1", "h2", "h3"}
PeersOfTwo == "h1" :> "p1" @@ "h2" :> "p2"
PartsOfTwo == "h1" :> "part1" @@ "h2" :> "part2"
PeersOfThree == PeersOfTwo @@ "h3" :> "p1"
PartsOfThree == PartsOfTwo @@ "h3" :> "part1"
ThirdForInvoice == "h1" :> AllKinds @@ "h2" :> AllKinds @@ "h3" :> {"invoice"}
TwoDowns == {"d1", "d2"}
AllButHeld == AllKinds \ {"held"}
JustInvoice == {"invoice"}

=============================================================================
