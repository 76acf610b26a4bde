--------------------------- MODULE MCHTLCManager ---------------------------
(* HTLCManagerSM on small instances. *)
EXTENDS HTLCManagerSM

OneId    == {0}
TwoIds   == 0 .. 1
NoIds    == {}
OneAmount == {1}
OneRate  == {1}
TwoRates == {1, 2}
JustLocal == {Local}

=============================================================================
