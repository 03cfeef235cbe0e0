---------------------------- MODULE BillingBook ----------------------------
(* Billing seen as a ChargeBook: forget the requests in flight, the bank    *)
(* and the line items.                                                      *)
EXTENDS Billing

entry == [c \in Charges |-> [slot |-> charge[c].slot, due |-> charge[c].net,
                             issue |-> charge[c].issue, pay |-> charge[c].pay]]

Book == INSTANCE ChargeBook WITH receipt <- payment

(* However requests overlap, every step of a handler is a step of the book *)
(* or invisible to it, unless it writes what another one has overtaken:    *)
(* each handler reads, awaits and writes in several steps, may die between *)
(* them, and is atomic as long as what it read is still so.                *)
ImplementsBook ==
    Book!Init /\ [][Timely => [Book!Next]_<<entry, payment>>]_vars
=============================================================================
