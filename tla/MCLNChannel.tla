---------------------------- MODULE MCLNChannel ----------------------------
(* LNChannel on small instances. *)
EXTENDS LNChannel

A == "A"
B == "B"
Both  == {A, B}
JustA == {A}
JustB == {B}
NoOne == {}

NoIds  == {}
OneId  == {0}
TwoIds == 0 .. 1
ThreeIds == 0 .. 2

Ones     == {1}
OneRate  == {1}
TwoRates == {1, 2}

AHasOne  == [n \in Both |-> IF n = A THEN 1 ELSE 0]
AHasThree == [n \in Both |-> IF n = A THEN 3 ELSE 0]
EachHasTwo == [n \in Both |-> 2]
OneOrTwo == {1, 2}
EachHasOne == [n \in Both |-> 1]

SettleOrFail == [n \in Both |-> {"settle", "fail"}]
JustSettle   == [n \in Both |-> {"settle"}]
JustFail     == [n \in Both |-> {"fail"}]

Low  == [fee |-> 1, min |-> 1, max |-> 3]
Mid  == [fee |-> 4, min |-> 2, max |-> 5]
High == [fee |-> 6, min |-> 5, max |-> 7]
OneFee   == [n \in Both |-> {Low}]
SomeFees == [n \in Both |-> IF n = A THEN {Low} ELSE {Low, Mid, High}]

OnlyBSettles == [n \in Both |-> IF n = B THEN {"settle", "fail"} ELSE {"fail"}]

=============================================================================
