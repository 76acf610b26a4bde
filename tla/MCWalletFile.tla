--------------------------- MODULE MCWalletFile ----------------------------
(* WalletFile on a small tree. *)
EXTENDS WalletFile

OneSlot == {"channels"}
OneKey  == {"k"}
TwoObjs == {"o1", "o2"}

TornOrReplace == {"torn", "replace"}
TornOrFsync == {"torn", "fsync"}

\* Nothing is chosen among the values.
Values == Permutations(Val)

=============================================================================
