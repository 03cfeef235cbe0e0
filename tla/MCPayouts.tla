---- MODULE MCPayouts ----
(* Instances of Payouts for TLC: one owner with two contracts. *)
EXTENDS Payouts, TLC

CONSTANTS o1, h1, h2, c1, c2, b1

OneOwner == [c \in Contracts |-> o1]
TwoHomes == [c \in Contracts |-> IF c = c1 THEN h1 ELSE h2]
AtHome == [b \in Bills |-> h1]

MCRequests == {<<c1, "active">>, <<c1, "suspended">>, <<c1, "terminated">>}

TaskSymmetry == Permutations(Tasks) \cup Permutations(People)
====
