----------------------------- MODULE ChargeBook -----------------------------
(***************************************************************************)
(* What the billing and payment endpoints promise their callers: every     *)
(* request is one step on the current state of the book.  There are no     *)
(* requests in flight, no stale reads and no half-done work here.          *)
(***************************************************************************)
EXTENDS Integers

CONSTANTS Charges, Slots, Payments, Boletos, None

VARIABLES
    entry,    \* per charge: its slot, amount due, issue status, payment status
    receipt   \* per payment: charge, amount, bank reference, reconciliation

Init ==
    /\ entry = [c \in Charges |-> [slot |-> None, due |-> 0, issue |-> "absent", pay |-> "open"]]
    /\ receipt = [k \in Payments |->
                    [charge |-> None, amount |-> 0, ref |-> None, recon |-> "absent"]]

Free(c, st) ==
    \A d \in Charges \ {c} : ~(entry[d].slot = entry'[c].slot /\ entry[d].issue = st)

\* Only c changes; its amount may be anything.
Changes(c) == entry' = [entry EXCEPT ![c] = entry'[c]]

\* A draft appears in a slot without one.
Draft(c) ==
    /\ entry[c].issue = "absent"
    /\ \E s \in Slots : entry'[c] = [slot |-> s, due |-> entry'[c].due,
                                     issue |-> "draft", pay |-> "open"]
    /\ Free(c, "draft")
    /\ Changes(c)
    /\ UNCHANGED receipt

\* The amount of a draft is edited.
Reprice(c) ==
    /\ entry[c].issue = "draft"
    /\ entry'[c] = [entry[c] EXCEPT !.due = entry'[c].due]
    /\ Changes(c)
    /\ UNCHANGED receipt

\* A draft is issued, once, in a slot where nothing is issued.
Issue(c) ==
    /\ entry[c].issue = "draft"
    /\ entry' = [entry EXCEPT ![c].issue = "issued"]
    /\ Free(c, "issued")
    /\ UNCHANGED receipt

\* An issued charge nobody has paid becomes overdue.
FallDue(c) ==
    /\ entry[c].issue = "issued"
    /\ entry[c].pay = "open"
    /\ entry' = [entry EXCEPT ![c].pay = "overdue"]
    /\ UNCHANGED receipt

\* A receipt of amount a settles charge c by comparing a with what is due now.
Settles(k, c, a, r) ==
    LET due == entry[c].due IN
    /\ entry[c].issue # "absent"
    /\ receipt' = [receipt EXCEPT ![k] = [charge |-> c, amount |-> a, ref |-> r,
           recon |-> IF a = due THEN "matched" ELSE IF a < due THEN "partial" ELSE "divergent"]]
    /\ entry' = [entry EXCEPT ![c].pay =
           IF a = due THEN "paid" ELSE IF a < due THEN "partially_paid" ELSE @]

\* Money arrives for a known charge; a boleto is received only once.
Receive(k, c) ==
    LET new == receipt'[k] IN
    /\ receipt[k].recon = "absent"
    /\ new.ref \in Boletos => \A j \in Payments : receipt[j].ref # new.ref
    /\ Settles(k, c, new.amount, new.ref)

\* Money arrives that fits no charge.
Park(k) ==
    /\ receipt[k].recon = "absent"
    /\ receipt' = [receipt EXCEPT ![k] = receipt'[k]]
    /\ receipt'[k].charge = None /\ receipt'[k].recon = "unmatched"
    /\ UNCHANGED entry

\* A person assigns parked money to a charge, once.
Assign(k, c) ==
    /\ receipt[k].recon = "unmatched"
    /\ Settles(k, c, receipt[k].amount, receipt[k].ref)

Next ==
    \/ \E c \in Charges : Draft(c) \/ Reprice(c) \/ Issue(c) \/ FallDue(c)
    \/ \E k \in Payments : Park(k) \/ \E c \in Charges : Receive(k, c) \/ Assign(k, c)

Spec == Init /\ [][Next]_<<entry, receipt>>
=============================================================================
