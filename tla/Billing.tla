------------------------------- MODULE Billing -------------------------------
(***************************************************************************)
(* Charges, boletos and payments of apps/api-node: the rows of the tables  *)
(* "charges" and "payments", the boletos the bank has registered, and the  *)
(* requests and jobs in flight that read those rows and later write them.  *)
(*                                                                         *)
(* None of the handlers reads and writes in one transaction: each awaited  *)
(* database or bank call is a step of its own, and what a handler read is  *)
(* kept in its record proc[p] until it writes.  A process may die between  *)
(* any two steps (Crash).                                                  *)
(***************************************************************************)
EXTENDS Integers, FiniteSets

CONSTANTS
    Charges,      \* ids a charge row can get
    Slots,        \* (lease contract, billing period) pairs
    Boletos,      \* ids the bank can give to a boleto
    PixRefs,      \* bank references of transfers a PSP notifies
    Payments,     \* ids a payment row can get
    Procs,        \* requests and jobs in flight at the same time
    Extras,       \* line items besides the rent
    Rent,         \* amount of the rent line item, in cents
    ExtraPrice,   \* amount of every other line item, in cents
    Adjustments,  \* values of penalty - discount of a generated charge
    Amounts,      \* amounts a payer may transfer, in cents
    Ops,          \* the operations the clients use
    None,         \* a null column
    Mock          \* the id of a locally generated "MOCK-..." boleto

AllOps == {"generate", "compose", "edit", "issue", "santander", "psp",
           "reconcile", "overdue"}

ASSUME BillingAssumption ==
    /\ IsFiniteSet(Extras) /\ IsFiniteSet(Procs)
    /\ Rent \in Nat /\ ExtraPrice \in Nat
    /\ Adjustments \subseteq Int
    /\ Amounts \subseteq Nat
    /\ Ops \subseteq AllOps
    /\ None \notin Charges \cup Slots \cup Boletos \cup PixRefs \cup Payments
    /\ Mock \notin Boletos \cup {None}
    /\ Boletos \cap PixRefs = {}

VARIABLES
    charge,   \* table charges
    payment,  \* table payments
    bank,     \* boletos registered at Santander
    proc      \* requests and jobs in flight, with what each has read

vars == <<charge, payment, bank, proc>>

-----------------------------------------------------------------------------
(* Rows and amounts *)

IssueStatus == {"absent", "draft", "issued"}
PayStatus == {"open", "partially_paid", "paid", "overdue"}
Recon == {"absent", "unmatched", "matched", "partial", "divergent"}

\* Sum of the line items: addLineItem and removeLineItem store it as netAmount.
Gross(extras) == Rent + ExtraPrice * Cardinality(extras)

ChargeRow == [slot : Slots \cup {None}, extras : SUBSET Extras, adj : Int, net : Int,
              issue : IssueStatus, pay : PayStatus, boleto : Boletos \cup {None, Mock}]

AbsentRow == [slot |-> None, extras |-> {}, adj |-> 0, net |-> 0,
              issue |-> "absent", pay |-> "open", boleto |-> None]

\* calculateCharge: net = gross + penalty - discount; the row starts as a draft.
NewRow(s, extras, adj) ==
    [slot |-> s, extras |-> extras, adj |-> adj, net |-> Gross(extras) + adj,
     issue |-> "draft", pay |-> "open", boleto |-> None]

PaymentRow == [charge : Charges \cup {None}, amount : Int,
               ref : Boletos \cup PixRefs \cup {None}, recon : Recon]

AbsentPayment == [charge |-> None, amount |-> 0, ref |-> None, recon |-> "absent"]

BankBoleto == [state : {"free", "registered", "shown", "paid"},
               charge : Charges \cup {None}, amount : Int, paid : Int]

FreeBoleto == [state |-> "free", charge |-> None, amount |-> 0, paid |-> 0]

Exists(c) == charge[c].issue # "absent"

\* Mutant of IndexFree: a partial index, on drafts only.
IndexFreeOfDrafts(c, s, st) ==
    st = "draft" => \A d \in Charges \ {c} : ~(charge[d].slot = s /\ charge[d].issue = st)

\* The unique index charges_idempotency_idx (contract, period, issueStatus):
\* no row other than c holds status st in slot s.
IndexFree(c, s, st) ==
    \A d \in Charges \ {c} : ~(charge[d].slot = s /\ charge[d].issue = st)

\* Mutant of Classify: an overpayment counts as a match.
ClassifyAtLeast(received, expected) == IF received >= expected THEN "matched" ELSE "partial"

Classify(received, expected) ==
    CASE received = expected -> "matched"
      [] received < expected -> "partial"
      [] received > expected -> "divergent"

\* Mutants of Settled: a divergent payment pays the charge, too; and the
\* reconciliation status is stored in the column of the payment status.
SettledByAny(recon, read) == IF recon = "partial" THEN "partially_paid" ELSE "paid"
SettledAsRecon(recon, read) == recon

\* The status a charge gets when a payment is recorded on it; a divergent
\* payment writes back the status that was READ.
Settled(recon, read) ==
    CASE recon = "matched" -> "paid"
      [] recon = "partial" -> "partially_paid"
      [] OTHER -> read

Idle == [pc |-> "idle", charge |-> None, row |-> AbsentRow, boleto |-> None,
         payment |-> None, amount |-> 0, ref |-> None, recon |-> "absent", todo |-> {}]

ProcState ==
    [pc : {"idle", "insert", "write_items", "request_boleto", "write_issue",
           "check_duplicate", "read_match", "park", "record",
           "read_charge", "link", "mark_overdue"},
     charge : Charges \cup {None}, row : ChargeRow, boleto : Boletos \cup {None, Mock},
     payment : Payments \cup {None}, amount : Int,
     ref : Boletos \cup PixRefs \cup {None}, recon : Recon, todo : SUBSET Charges]

Init ==
    /\ charge = [c \in Charges |-> AbsentRow]
    /\ payment = [k \in Payments |-> AbsentPayment]
    /\ bank = [b \in Boletos |-> FreeBoleto]
    /\ proc = [p \in Procs |-> Idle]

\* p is free and a client asks for operation op.
Request(p, op) == op \in Ops /\ proc[p].pc = "idle"

Finish(p) == proc' = [proc EXCEPT ![p] = Idle]

-----------------------------------------------------------------------------
(* Composing drafts *)

\* POST /charges/generate: one INSERT, refused only by the unique index.
GenerateCharge(s) ==
    /\ "generate" \in Ops
    /\ \E c \in Charges, extras \in SUBSET Extras, adj \in Adjustments :
        /\ ~Exists(c)
        /\ IndexFree(c, s, "draft")
        /\ charge' = [charge EXCEPT ![c] = NewRow(s, extras, adj)]
    /\ UNCHANGED <<payment, bank, proc>>

\* Maestro, for one contract: look for any charge of the slot, then compute.
ComposeCheck(p, s) ==
    /\ Request(p, "compose")
    /\ \A c \in Charges : charge[c].slot # s
    /\ \E extras \in SUBSET Extras :
        proc' = [proc EXCEPT ![p] = [Idle EXCEPT !.pc = "insert", !.row = NewRow(s, extras, 0)]]
    /\ UNCHANGED <<charge, payment, bank>>

ComposeInsert(p) ==
    /\ proc[p].pc = "insert"
    /\ \E c \in Charges :
        /\ ~Exists(c)
        /\ IndexFree(c, proc[p].row.slot, "draft")
        /\ charge' = [charge EXCEPT ![c] = proc[p].row]
    /\ Finish(p)
    /\ UNCHANGED <<payment, bank>>

\* The INSERT fails on the index and the contract is skipped.
ComposeSkip(p) ==
    /\ proc[p].pc = "insert"
    /\ \E c \in Charges : charge[c].slot = proc[p].row.slot /\ charge[c].issue = "draft"
    /\ Finish(p)
    /\ UNCHANGED <<charge, payment, bank>>

\* Mutant of ReadForEdit: the check that the charge is a draft is missing.
ReadAnyForEdit(p, c, extras) ==
    /\ Request(p, "edit")
    /\ Exists(c)
    /\ proc' = [proc EXCEPT ![p] = [Idle EXCEPT !.pc = "write_items", !.charge = c,
                    !.row = [charge[c] EXCEPT !.extras = extras, !.net = Gross(extras)]]]
    /\ UNCHANGED <<charge, payment, bank>>

\* addLineItem and removeLineItem read the row, check that it is a draft and
\* compute the new list and its sum.
ReadForEdit(p, c, extras) ==
    /\ Request(p, "edit")
    /\ charge[c].issue = "draft"
    /\ proc' = [proc EXCEPT ![p] = [Idle EXCEPT !.pc = "write_items", !.charge = c,
                    !.row = [charge[c] EXCEPT !.extras = extras, !.net = Gross(extras)]]]
    /\ UNCHANGED <<charge, payment, bank>>

AddLineItem(p, c) ==
    \E e \in Extras \ charge[c].extras : ReadForEdit(p, c, charge[c].extras \cup {e})

RemoveLineItem(p, c) ==
    \E e \in charge[c].extras : ReadForEdit(p, c, charge[c].extras \ {e})

\* The UPDATE sets lineItems, grossAmount and netAmount by id alone.
WriteLineItems(p) ==
    /\ proc[p].pc = "write_items"
    /\ charge' = [charge EXCEPT ![proc[p].charge].extras = proc[p].row.extras,
                                ![proc[p].charge].net = proc[p].row.net]
    /\ Finish(p)
    /\ UNCHANGED <<payment, bank>>

-----------------------------------------------------------------------------
(* Issuing *)

\* Mutant of IssueRead: a charge that is issued can be issued again.
ReadAnyForIssue(p, c) ==
    /\ Request(p, "issue")
    /\ Exists(c)
    /\ proc' = [proc EXCEPT ![p] = [Idle EXCEPT !.pc = "request_boleto", !.charge = c,
                                                !.row = charge[c]]]
    /\ UNCHANGED <<charge, payment, bank>>

\* issueCharge reads the row and refuses anything but a draft.
IssueRead(p, c) ==
    /\ Request(p, "issue")
    /\ charge[c].issue = "draft"
    /\ proc' = [proc EXCEPT ![p] = [Idle EXCEPT !.pc = "request_boleto", !.charge = c,
                                                !.row = charge[c]]]
    /\ UNCHANGED <<charge, payment, bank>>

GotBoleto(p, b) == proc' = [proc EXCEPT ![p].pc = "write_issue", ![p].boleto = b]

\* The bank registers a boleto for the amount that was read; when its answer
\* is lost the handler falls back to a mock boleto.
BoletoRegistered(p) ==
    /\ proc[p].pc = "request_boleto"
    /\ \E b \in Boletos :
        /\ bank[b].state = "free"
        /\ bank' = [bank EXCEPT ![b] = [state |-> "registered", charge |-> proc[p].charge,
                                        amount |-> proc[p].row.net, paid |-> 0]]
        /\ \E got \in {b, Mock} : GotBoleto(p, got)
    /\ UNCHANGED <<charge, payment>>

\* No credentials, an error of the bank or an exception: a mock boleto with
\* status "generated"; tenant or contract row missing: no boleto ("failed").
BoletoUnavailable(p) ==
    /\ proc[p].pc = "request_boleto"
    /\ \E got \in {Mock, None} : GotBoleto(p, got)
    /\ UNCHANGED <<charge, payment, bank>>

\* The UPDATE by id; the boleto then reaches the tenant by e-mail.
IssueWrite(p) ==
    LET c == proc[p].charge
        b == proc[p].boleto
    IN  /\ proc[p].pc = "write_issue"
        /\ IndexFree(c, charge[c].slot, "issued")
        /\ charge' = [charge EXCEPT ![c].issue = "issued", ![c].boleto = b]
        /\ bank' = [d \in Boletos |-> IF d = b THEN [bank[d] EXCEPT !.state = "shown"]
                                               ELSE bank[d]]
        /\ Finish(p)
        /\ UNCHANGED payment

\* Mutant of IssueConflict: the columns of the boleto are saved by an UPDATE of
\* their own, before the status.
BoletoSavedBeforeConflict(p) ==
    /\ proc[p].pc = "write_issue"
    /\ ~IndexFree(proc[p].charge, charge[proc[p].charge].slot, "issued")
    /\ charge' = [charge EXCEPT ![proc[p].charge].boleto = proc[p].boleto]
    /\ Finish(p)
    /\ UNCHANGED <<payment, bank>>

\* The slot already has an issued charge: the UPDATE violates the index.
IssueConflict(p) ==
    /\ proc[p].pc = "write_issue"
    /\ ~IndexFree(proc[p].charge, charge[proc[p].charge].slot, "issued")
    /\ Finish(p)
    /\ UNCHANGED <<charge, payment, bank>>

\* The tenant pays a boleto that was sent; the bank settles a boleto once.
PayBoleto(b) ==
    /\ bank[b].state = "shown"
    /\ \E a \in Amounts \cup {bank[b].amount} :
        bank' = [bank EXCEPT ![b].state = "paid", ![b].paid = a]
    /\ UNCHANGED <<charge, payment, proc>>

-----------------------------------------------------------------------------
(* Payments *)

\* p has decided to record a payment of amount a with reference r on the row
\* read of charge c.
ToRecord(a, r, c, row, recon) ==
    [Idle EXCEPT !.pc = "record", !.amount = a, !.ref = r, !.charge = c,
                 !.row = row, !.recon = recon]

\* Mutants of SantanderFind: the charge is looked up by the amount; and only
\* among the open charges.
SantanderFindByAmount(p, b) ==
    /\ Request(p, "santander")
    /\ bank[b].state = "paid"
    /\ \E c \in Charges :
        /\ Exists(c) /\ charge[c].net = bank[b].paid
        /\ proc' = [proc EXCEPT ![p] =
                [ToRecord(bank[b].paid, b, c, charge[c], "absent")
                    EXCEPT !.pc = "check_duplicate"]]
    /\ UNCHANGED <<charge, payment, bank>>

SantanderFindOpen(p, b) ==
    /\ Request(p, "santander")
    /\ bank[b].state = "paid"
    /\ \E c \in Charges :
        /\ charge[c].boleto = b /\ charge[c].pay = "open"
        /\ proc' = [proc EXCEPT ![p] =
                [ToRecord(bank[b].paid, b, c, charge[c], "absent")
                    EXCEPT !.pc = "check_duplicate"]]
    /\ UNCHANGED <<charge, payment, bank>>

\* POST /webhooks/santander for a paid boleto, delivered any number of times:
\* find the charge that stores this boleto (no such charge: nothing is done).
SantanderFind(p, b) ==
    /\ Request(p, "santander")
    /\ bank[b].state = "paid"
    /\ \E c \in Charges :
        /\ charge[c].boleto = b
        /\ proc' = [proc EXCEPT ![p] =
                [ToRecord(bank[b].paid, b, c, charge[c], "absent")
                    EXCEPT !.pc = "check_duplicate"]]
    /\ UNCHANGED <<charge, payment, bank>>

\* Mutant of AlreadyRecorded: only matched payments are looked at.
AlreadyMatched(c, r) ==
    \E k \in Payments : payment[k].charge = c /\ payment[k].ref = r /\ payment[k].recon = "matched"

AlreadyRecorded(c, r) == \E k \in Payments : payment[k].charge = c /\ payment[k].ref = r

SantanderIgnore(p) ==
    /\ proc[p].pc = "check_duplicate"
    /\ AlreadyRecorded(proc[p].charge, proc[p].ref)
    /\ Finish(p)
    /\ UNCHANGED <<charge, payment, bank>>

SantanderAccept(p) ==
    /\ proc[p].pc = "check_duplicate"
    /\ ~AlreadyRecorded(proc[p].charge, proc[p].ref)
    /\ proc' = [proc EXCEPT ![p].pc = "record",
                            ![p].recon = Classify(proc[p].amount, proc[p].row.net)]
    /\ UNCHANGED <<charge, payment, bank>>

\* POST /payments/webhook naming the charge: read it and classify.
NoticeForCharge(p, c) ==
    /\ Request(p, "psp")
    /\ Exists(c)
    /\ \E a \in Amounts, r \in PixRefs :
        proc' = [proc EXCEPT ![p] = ToRecord(a, r, c, charge[c], Classify(a, charge[c].net))]
    /\ UNCHANGED <<charge, payment, bank>>

Candidates(a) == {c \in Charges : Exists(c) /\ charge[c].pay = "open" /\ charge[c].net = a}

\* POST /payments/webhook without a charge: the open charges, drafts too, are
\* matched by amount.
NoticeMatch(p) ==
    /\ Request(p, "psp")
    /\ \E a \in Amounts, r \in PixRefs : \E c \in Candidates(a) :
        proc' = [proc EXCEPT ![p] = [ToRecord(a, r, c, charge[c], "matched")
                                        EXCEPT !.pc = "read_match"]]
    /\ UNCHANGED <<charge, payment, bank>>

\* The matched row is read again, to see that it exists: a match sets "paid"
\* whatever that reading says.
ReadMatched(p) ==
    /\ proc[p].pc = "read_match"
    /\ Exists(proc[p].charge)
    /\ proc' = [proc EXCEPT ![p].pc = "record"]
    /\ UNCHANGED <<charge, payment, bank>>

NoticeUnmatched(p) ==
    /\ Request(p, "psp")
    /\ \E a \in Amounts, r \in PixRefs :
        /\ Candidates(a) = {}
        /\ proc' = [proc EXCEPT ![p] = [ToRecord(a, r, None, AbsentRow, "unmatched")
                                            EXCEPT !.pc = "park"]]
    /\ UNCHANGED <<charge, payment, bank>>

\* INSERT INTO payments with a fresh id.
InsertPayment(p) ==
    \E k \in Payments :
        /\ payment[k].recon = "absent"
        /\ payment' = [payment EXCEPT ![k] =
                [charge |-> proc[p].charge, amount |-> proc[p].amount,
                 ref |-> proc[p].ref, recon |-> proc[p].recon]]

ParkPayment(p) ==
    /\ proc[p].pc = "park"
    /\ InsertPayment(p)
    /\ Finish(p)
    /\ UNCHANGED <<charge, bank>>

\* The transaction of both webhooks: insert the payment and set the status of
\* the charge from the row read before the transaction.
RecordPayment(p) ==
    /\ proc[p].pc = "record"
    /\ InsertPayment(p)
    /\ charge' = [charge EXCEPT ![proc[p].charge].pay = Settled(proc[p].recon, proc[p].row.pay)]
    /\ Finish(p)
    /\ UNCHANGED bank

\* Mutant of ReconcileRead: any payment that is not settled can be reconciled.
ReconcileReadUnsettled(p, k) ==
    /\ Request(p, "reconcile")
    /\ payment[k].recon \in {"unmatched", "partial", "divergent"}
    /\ proc' = [proc EXCEPT ![p] = [Idle EXCEPT !.pc = "read_charge", !.payment = k,
                                                !.amount = payment[k].amount]]
    /\ UNCHANGED <<charge, payment, bank>>

\* POST /payments/:id/reconcile: read the payment, read the charge, link both.
ReconcileRead(p, k) ==
    /\ Request(p, "reconcile")
    /\ payment[k].recon = "unmatched"
    /\ proc' = [proc EXCEPT ![p] = [Idle EXCEPT !.pc = "read_charge", !.payment = k,
                                                !.amount = payment[k].amount]]
    /\ UNCHANGED <<charge, payment, bank>>

ReconcileReadCharge(p, c) ==
    /\ proc[p].pc = "read_charge"
    /\ Exists(c)
    /\ proc' = [proc EXCEPT ![p].pc = "link", ![p].charge = c, ![p].row = charge[c],
                            ![p].recon = Classify(proc[p].amount, charge[c].net)]
    /\ UNCHANGED <<charge, payment, bank>>

ReconcileWrite(p) ==
    /\ proc[p].pc = "link"
    /\ payment' = [payment EXCEPT ![proc[p].payment].charge = proc[p].charge,
                                  ![proc[p].payment].recon = proc[p].recon]
    /\ charge' = [charge EXCEPT ![proc[p].charge].pay = Settled(proc[p].recon, proc[p].row.pay)]
    /\ Finish(p)
    /\ UNCHANGED bank

-----------------------------------------------------------------------------
(* The overdue job, and processes that die *)

\* Mutant of OverdueScan: drafts are selected, too.
OverdueScanDrafts(p) ==
    /\ Request(p, "overdue")
    /\ \E due \in SUBSET {c \in Charges : Exists(c) /\ charge[c].pay = "open"} :
        /\ due # {}
        /\ proc' = [proc EXCEPT ![p] = [Idle EXCEPT !.pc = "mark_overdue", !.todo = due]]
    /\ UNCHANGED <<charge, payment, bank>>

\* check-overdue selects the issued, open charges that are past their due date
\* (any set of them: the dates are not modelled) ...
OverdueScan(p) ==
    /\ Request(p, "overdue")
    /\ \E due \in SUBSET {c \in Charges : charge[c].issue = "issued" /\ charge[c].pay = "open"} :
        /\ due # {}
        /\ proc' = [proc EXCEPT ![p] = [Idle EXCEPT !.pc = "mark_overdue", !.todo = due]]
    /\ UNCHANGED <<charge, payment, bank>>

\* ... and updates them one by one, by id alone.
MarkOverdue(p, c) ==
    /\ proc[p].pc = "mark_overdue"
    /\ c \in proc[p].todo
    /\ charge' = [charge EXCEPT ![c].pay = "overdue"]
    /\ IF proc[p].todo = {c} THEN Finish(p)
                             ELSE proc' = [proc EXCEPT ![p].todo = @ \ {c}]
    /\ UNCHANGED <<payment, bank>>

\* The API or worker process restarts: what it had read is gone.
Crash(p) ==
    /\ proc[p].pc # "idle"
    /\ Finish(p)
    /\ UNCHANGED <<charge, payment, bank>>

Compose(p) == (\E s \in Slots : ComposeCheck(p, s)) \/ ComposeInsert(p) \/ ComposeSkip(p)

Edit(p) == (\E c \in Charges : AddLineItem(p, c) \/ RemoveLineItem(p, c)) \/ WriteLineItems(p)

Issue(p) ==
    \/ \E c \in Charges : IssueRead(p, c)
    \/ BoletoRegistered(p) \/ BoletoUnavailable(p) \/ IssueWrite(p) \/ IssueConflict(p)

Santander(p) ==
    (\E b \in Boletos : SantanderFind(p, b)) \/ SantanderIgnore(p) \/ SantanderAccept(p)

Psp(p) ==
    \/ \E c \in Charges : NoticeForCharge(p, c)
    \/ NoticeMatch(p) \/ ReadMatched(p) \/ NoticeUnmatched(p) \/ ParkPayment(p)

Reconcile(p) ==
    \/ \E k \in Payments : ReconcileRead(p, k)
    \/ \E c \in Charges : ReconcileReadCharge(p, c)
    \/ ReconcileWrite(p)

Overdue(p) == OverdueScan(p) \/ \E c \in Charges : MarkOverdue(p, c)

Next ==
    \/ \E s \in Slots : GenerateCharge(s)
    \/ \E b \in Boletos : PayBoleto(b)
    \/ \E p \in Procs : Compose(p) \/ Edit(p) \/ Issue(p) \/ Santander(p) \/ Psp(p)
                        \/ RecordPayment(p) \/ Reconcile(p) \/ Overdue(p) \/ Crash(p)

Spec == Init /\ [][Next]_vars

\* A request in flight goes on; the bank repeats a notice until it is answered,
\* and a handler that gets to a step again and again in spite of restarts
\* eventually completes it.
Continue(p) ==
    /\ proc[p].pc # "idle"
    /\ Compose(p) \/ Edit(p) \/ Issue(p) \/ Santander(p) \/ Psp(p) \/ RecordPayment(p)
       \/ Reconcile(p) \/ Overdue(p)

Fairness ==
    \A p \in Procs :
        /\ WF_vars(Continue(p))
        /\ SF_vars(SantanderAccept(p))
        /\ SF_vars(RecordPayment(p))
        /\ \A b \in Boletos : SF_vars(SantanderFind(p, b))

FairSpec == Spec /\ Fairness

-----------------------------------------------------------------------------
(* Properties that hold however requests overlap *)

TypeOK ==
    /\ charge \in [Charges -> ChargeRow]
    /\ payment \in [Payments -> PaymentRow]
    /\ bank \in [Boletos -> BankBoleto]
    /\ proc \in [Procs -> ProcState]

(* A contract has at most one draft and at most one issued charge for a    *)
(* billing period, although composing checks and inserts, and issuing      *)
(* reads and updates, in separate steps (charges_idempotency_idx).         *)
OneLivePerSlot ==
    \A c, d \in Charges :
        Exists(c) /\ charge[c].slot = charge[d].slot /\ charge[c].issue = charge[d].issue => c = d

(* The boleto stored on a charge is one the bank registered for this very  *)
(* charge and that was sent to its tenant, even when issueCharge runs      *)
(* twice for the same charge or for two charges of a period.               *)
StoredBoletoIsOwn ==
    \A c \in Charges : charge[c].boleto \in Boletos =>
        /\ charge[c].issue = "issued"
        /\ bank[charge[c].boleto].charge = c
        /\ bank[charge[c].boleto].state \in {"shown", "paid"}

(* A payment the Santander webhook recorded carries the amount the tenant  *)
(* paid for a boleto and sits on the charge that boleto was made for,      *)
(* whatever was delivered twice, out of order, or cut short by a restart.  *)
BoletoPaymentOnOwnCharge ==
    \A k \in Payments : payment[k].ref \in Boletos =>
        LET b == payment[k].ref IN
        /\ payment[k].charge = bank[b].charge
        /\ bank[b].state = "paid"
        /\ payment[k].amount = bank[b].paid

(* Only issued charges are overdue, although a divergent payment writes    *)
(* back a status it read earlier and the overdue job marks rows by id.     *)
OverdueWasIssued ==
    \A c \in Charges : charge[c].pay = "overdue" => charge[c].issue = "issued"

(* A charge is paid only if a matched payment is on it, and partially paid *)
(* only if a partial payment is: a status written back from a stale read   *)
(* still has its payment.                                                  *)
SettledIsBacked ==
    \A c \in Charges :
        /\ charge[c].pay = "paid" =>
              \E k \in Payments : payment[k].charge = c /\ payment[k].recon = "matched"
        /\ charge[c].pay = "partially_paid" =>
              \E k \in Payments : payment[k].charge = c /\ payment[k].recon = "partial"

(* One boleto is never recorded more often than requests run at the same   *)
(* time, however often the bank repeats its notice and whichever handler   *)
(* dies: only requests that all looked for the payment (                   *)
(* findExistingBoletoPayment) before one of them had recorded it can       *)
(* record it again.  With one process: once.                               *)
RecordedPerRequest ==
    \A b \in Boletos :
        Cardinality({k \in Payments : payment[k].ref = b}) <= Cardinality(Procs)

(* ... so not always once: the webhooks claim "duplicate payment detection". *)
BoletoRecordedOnce ==
    \A j, k \in Payments :
        payment[j].ref \in Boletos /\ payment[j].ref = payment[k].ref => j = k

(* A charge that is issued and that no request still holds as a draft.     *)
Sealed(c) ==
    /\ charge[c].issue = "issued"
    /\ \A p \in Procs : proc[p].pc \in {"write_items", "request_boleto", "write_issue"}
                          => proc[p].charge # c

(* Only the requests that had read the draft before it was issued can      *)
(* change the boleto or the amount of an issued charge; once they have     *)
(* ended both stay, and no later request gets hold of the charge: the      *)
(* checks "can only issue from draft" and "can only add line items to      *)
(* draft charges".                                                         *)
IssuedIsFinal ==
    [][\A c \in Charges : Sealed(c) =>
          /\ Sealed(c)'
          /\ charge'[c].boleto = charge[c].boleto
          /\ charge'[c].net = charge[c].net]_vars

(* A payment that has been settled and that nobody is about to reconcile.  *)
Filed(k) ==
    /\ payment[k].recon \notin {"absent", "unmatched"}
    /\ \A p \in Procs : proc[p].pc \in {"read_charge", "link"} => proc[p].payment # k

(* Two people may both see a payment unmatched and link it to different    *)
(* charges, but once the last of them is done the payment stays as it is:  *)
(* "can only reconcile from unmatched".                                    *)
ReconciledStays ==
    [][\A k \in Payments : Filed(k) => Filed(k)' /\ payment'[k] = payment[k]]_vars

-----------------------------------------------------------------------------
(* Requests that were overtaken by others *)

\* What p has read, and rests its next write on, is no longer so.
Overtaken(p) ==
    LET q == proc[p]
        now == charge[q.charge]
    IN  \/ q.pc = "write_items" /\ now.issue # q.row.issue
        \/ q.pc \in {"write_issue", "record", "link"} /\ now.net # q.row.net
        \/ q.pc \in {"record", "link"} /\ now.pay # q.row.pay
        \/ q.pc = "record" /\ q.ref \in Boletos /\ AlreadyRecorded(q.charge, q.ref)
        \/ q.pc = "link" /\ payment[q.payment].recon # "unmatched"
        \/ q.pc = "mark_overdue" /\ \E c \in q.todo : charge[c].pay # "open"

\* The step is not the step of a request that was overtaken.
Timely == \A p \in Procs : proc'[p] # proc[p] => ~Overtaken(p)

(* The boleto a tenant holds is for the amount the charge now says.        *)
Agrees(c) ==
    charge[c].boleto \in Boletos => bank[charge[c].boleto].amount = charge[c].net

(* Nothing but the write of a request that was overtaken (an issue whose   *)
(* amount was edited while the bank answered, or an edit of a draft that   *)
(* was issued meanwhile) can leave a tenant with a boleto that is not for  *)
(* the amount of the charge, whatever else runs at the same time.          *)
BoletoAmountStays ==
    [][Timely => \A c \in Charges : Agrees(c) => Agrees(c)']_vars

Recorded(b) == \E k \in Payments : payment[k].ref = b

\* Another issue of the same draft has put its own boleto, or none, on the charge.
Replaced(b) == \A c \in Charges : charge[c].boleto # b

(* A boleto that a tenant paid is eventually recorded as a payment,        *)
(* although every process may die at any step: the bank repeats its        *)
(* notice.  Only a second request that was issuing the same draft can      *)
(* prevent it, by taking the boleto off the charge.                        *)
PaidBoletoIsRecorded ==
    \A b \in Boletos : bank[b].state = "paid" ~> Recorded(b) \/ Replaced(b)

=============================================================================
