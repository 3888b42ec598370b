----------------------------- MODULE MCRegistry -----------------------------
(* Instances of Registry for TLC: two containers with one name. *)
EXTENDS Registry

CONSTANTS a, b, m1, p1, p2

TwoIds == {a, b}
OneName == [c \in TwoIds |-> "web"]
OnlyA == {a}
OnePid == {p1}
TwoPids == {p1, p2}
OneCmd == {m1}
NoCmd == {}
=============================================================================
