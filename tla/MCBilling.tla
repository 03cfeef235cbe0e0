----------------------------- MODULE MCBilling -----------------------------
(* Instances of Billing for TLC.  The configurations differ in the number   *)
(* of processes and in the operations the clients use.                      *)
EXTENDS BillingBook, TLC

\* Ids are interchangeable: no action orders them.
Symmetric ==
    Permutations(Charges) \cup Permutations(Boletos) \cup Permutations(Payments)
    \cup Permutations(Procs)
=============================================================================
