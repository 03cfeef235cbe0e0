----------------------------- MODULE MCNotifier -----------------------------
(* Instances of Notifier for TLC: contacts a caller passes, and notes of    *)
(* events that use the two channels in different ways.                      *)
EXTENDS Notifier, TLC

CONSTANTS h1, s1, s2, n1

BothChannels == {[reach |-> Channels, prefers |-> None]}
PhoneOnly == {[reach |-> {"whatsapp"}, prefers |-> None]}

TwoThreads == (s1 :> h1) @@ (s2 :> h1)
OneThread == s1 :> h1

Charge == n1 :> "charge.due"
Expiring == n1 :> "contract.expiring"
=============================================================================
