---------------------------- MODULE BillingProofs ----------------------------
(* Theorems about Billing for every value of its constants: any number of   *)
(* charges, boletos, payments and processes, and any interleaving of them.  *)
EXTENDS Billing, FiniteSetTheorems, TLAPS

-----------------------------------------------------------------------------
(* Values *)

(* The sum of a set of line items is an integer. *)
LEMMA GrossInt == ASSUME NEW E \in SUBSET Extras PROVE Gross(E) \in Int
<1>1. IsFiniteSet(E)
  BY BillingAssumption, FS_Subset
<1>2. Cardinality(E) \in Nat
  BY <1>1, FS_CardinalityType
<1> QED
  BY <1>2, BillingAssumption DEF Gross

(* A new draft has the type of a row. *)
LEMMA NewRowType ==
    ASSUME NEW s \in Slots, NEW E \in SUBSET Extras, NEW a \in Int
    PROVE  NewRow(s, E, a) \in ChargeRow
BY GrossInt DEF NewRow, ChargeRow, IssueStatus, PayStatus

(* A process at rest has the type of a process. *)
LEMMA IdleType == Idle \in ProcState /\ Idle.pc = "idle"
BY DEF Idle, ProcState, ChargeRow, AbsentRow, IssueStatus, PayStatus, Recon

(* Classifying an amount yields a reconciliation status. *)
LEMMA ClassifyType ==
    ASSUME NEW a \in Int, NEW n \in Int
    PROVE  Classify(a, n) \in {"matched", "partial", "divergent"}
BY DEF Classify

(* Recording a payment leaves a payment status on the charge. *)
LEMMA SettledType ==
    ASSUME NEW rec \in Recon, NEW s \in PayStatus
    PROVE  Settled(rec, s) \in PayStatus
BY DEF Settled, PayStatus, Recon

(* A process that finishes is idle, and the others are as they were. *)
LEMMA FinishType ==
    ASSUME TypeOK, NEW p \in Procs, Finish(p)
    PROVE  proc' \in [Procs -> ProcState]
BY IdleType DEF Finish, TypeOK

(* A process set to a state is in that state, and the others are as they were. *)
LEMMA ProcType ==
    ASSUME TypeOK, NEW p \in Procs, NEW st \in ProcState, proc' = [proc EXCEPT ![p] = st]
    PROVE  proc' \in [Procs -> ProcState]
BY DEF TypeOK

-----------------------------------------------------------------------------
(* Type correctness *)

(* A handler that will write the row of a charge has a charge to write.      *)
HoldingCharge == {"write_items", "request_boleto", "write_issue", "check_duplicate",
                  "read_match", "record", "link"}

ChargeInHand == \A p \in Procs : proc[p].pc \in HoldingCharge => proc[p].charge \in Charges

LEMMA TypeInit == Init => TypeOK /\ ChargeInHand
BY IdleType DEF Init, ChargeInHand, HoldingCharge, TypeOK, AbsentRow, AbsentPayment, FreeBoleto, ChargeRow, PaymentRow,
                BankBoleto, IssueStatus, PayStatus, Recon

LEMMA TypeCompose ==
    ASSUME TypeOK, NEW p \in Procs, Compose(p)
    PROVE  TypeOK'
<1>1. CASE \E s \in Slots : ComposeCheck(p, s)
  <2>1. PICK s \in Slots, E \in SUBSET Extras :
          proc' = [proc EXCEPT ![p] = [Idle EXCEPT !.pc = "insert", !.row = NewRow(s, E, 0)]]
    BY <1>1 DEF ComposeCheck
  <2>2. NewRow(s, E, 0) \in ChargeRow
    BY NewRowType
  <2>3. [Idle EXCEPT !.pc = "insert", !.row = NewRow(s, E, 0)] \in ProcState
    BY <2>2, IdleType DEF ProcState
  <2>4. proc' \in [Procs -> ProcState]
    BY <2>1, <2>3, ProcType
  <2> QED
    BY <1>1, <2>4 DEF ComposeCheck, TypeOK
<1>2. CASE ComposeInsert(p)
  <2>1. proc[p].row \in ChargeRow
    BY DEF TypeOK, ProcState
  <2>2. charge' \in [Charges -> ChargeRow]
    BY <1>2, <2>1 DEF ComposeInsert, TypeOK
  <2> QED
    BY <1>2, <2>2, FinishType DEF ComposeInsert, TypeOK
<1>3. CASE ComposeSkip(p)
  BY <1>3, FinishType DEF ComposeSkip, TypeOK
<1> QED
  BY <1>1, <1>2, <1>3 DEF Compose

LEMMA TypeEdit ==
    ASSUME TypeOK, NEW p \in Procs, Edit(p)
    PROVE  TypeOK'
<1>1. ASSUME NEW c \in Charges, NEW E \in SUBSET Extras, ReadForEdit(p, c, E)
      PROVE  TypeOK'
  <2> DEFINE row == [charge[c] EXCEPT !.extras = E, !.net = Gross(E)]
             st == [Idle EXCEPT !.pc = "write_items", !.charge = c, !.row = row]
  <2>1. row \in ChargeRow
    BY GrossInt DEF TypeOK, ChargeRow
  <2>2. st \in ProcState
    BY <2>1, IdleType DEF ProcState
  <2>3. proc' = [proc EXCEPT ![p] = st]
    BY <1>1 DEF ReadForEdit
  <2>4. proc' \in [Procs -> ProcState]
    BY <2>2, <2>3, ProcType
  <2> QED
    BY <1>1, <2>4 DEF ReadForEdit, TypeOK
<1>2. ASSUME NEW c \in Charges PROVE charge[c].extras \in SUBSET Extras
  BY DEF TypeOK, ChargeRow
<1>3. CASE \E c \in Charges : AddLineItem(p, c) \/ RemoveLineItem(p, c)
  BY <1>1, <1>2, <1>3 DEF AddLineItem, RemoveLineItem
<1>4. CASE WriteLineItems(p)
  <2>1. proc[p].row \in ChargeRow
    BY DEF TypeOK, ProcState
  <2>2. charge' \in [Charges -> ChargeRow]
    BY <1>4, <2>1 DEF WriteLineItems, TypeOK, ChargeRow
  <2> QED
    BY <1>4, <2>2, FinishType DEF WriteLineItems, TypeOK
<1> QED
  BY <1>3, <1>4 DEF Edit

LEMMA TypeIssue ==
    ASSUME TypeOK, NEW p \in Procs, Issue(p)
    PROVE  TypeOK'
<1>1. CASE \E c \in Charges : IssueRead(p, c)
  <2>1. PICK c \in Charges : IssueRead(p, c)
    BY <1>1
  <2>2. [Idle EXCEPT !.pc = "request_boleto", !.charge = c, !.row = charge[c]] \in ProcState
    BY IdleType DEF TypeOK, ProcState
  <2> QED
    BY <2>1, <2>2, ProcType DEF IssueRead, TypeOK
<1>2. ASSUME NEW b \in Boletos \cup {None, Mock}, GotBoleto(p, b)
      PROVE  proc' \in [Procs -> ProcState]
  <2> DEFINE st == [proc[p] EXCEPT !.pc = "write_issue", !.boleto = b]
  <2>1. proc[p] \in ProcState
    BY DEF TypeOK
  <2>2. st \in ProcState
    BY <2>1 DEF ProcState
  <2>3. proc' = [proc EXCEPT ![p] = st]
    BY <1>2 DEF GotBoleto
  <2> QED
    BY <2>2, <2>3, ProcType
<1>3. CASE BoletoRegistered(p)
  <2>1. /\ proc[p].charge \in Charges \cup {None}
        /\ proc[p].row.net \in Int
    BY DEF TypeOK, ProcState, ChargeRow
  <2>2. bank' \in [Boletos -> BankBoleto]
    BY <1>3, <2>1 DEF BoletoRegistered, TypeOK, BankBoleto
  <2> QED
    BY <1>2, <1>3, <2>2 DEF BoletoRegistered, TypeOK
<1>4. CASE BoletoUnavailable(p)
  BY <1>2, <1>4 DEF BoletoUnavailable, TypeOK
<1>5. CASE IssueWrite(p)
  <2>1. proc[p].boleto \in Boletos \cup {None, Mock}
    BY DEF TypeOK, ProcState
  <2>2. charge' \in [Charges -> ChargeRow]
    <3> DEFINE c == proc[p].charge
               row == [charge[c] EXCEPT !.issue = "issued", !.boleto = proc[p].boleto]
    <3>1. charge' = [charge EXCEPT ![c] = row]
      BY <1>5 DEF IssueWrite
    <3>2. ASSUME c \in Charges PROVE row \in ChargeRow
      <4>1. charge[c] \in ChargeRow
        BY <3>2 DEF TypeOK
      <4> QED
        BY <2>1, <4>1 DEF ChargeRow, IssueStatus
    <3> QED
      BY <3>1, <3>2 DEF TypeOK
  <2>3. bank' \in [Boletos -> BankBoleto]
    BY <1>5 DEF IssueWrite, TypeOK, BankBoleto
  <2> QED
    BY <1>5, <2>2, <2>3, FinishType DEF IssueWrite, TypeOK
<1>6. CASE IssueConflict(p)
  BY <1>6, FinishType DEF IssueConflict, TypeOK
<1> QED
  BY <1>1, <1>3, <1>4, <1>5, <1>6 DEF Issue

LEMMA TypeSantander ==
    ASSUME TypeOK, NEW p \in Procs, Santander(p)
    PROVE  TypeOK'
<1>1. CASE \E b \in Boletos : SantanderFind(p, b)
  <2>1. PICK b \in Boletos : SantanderFind(p, b)
    BY <1>1
  <2>2. PICK c \in Charges : proc' = [proc EXCEPT ![p] =
            [ToRecord(bank[b].paid, b, c, charge[c], "absent") EXCEPT !.pc = "check_duplicate"]]
    BY <2>1 DEF SantanderFind
  <2>3. charge[c] \in ChargeRow /\ bank[b].paid \in Int
    BY DEF TypeOK, BankBoleto
  <2>4. [ToRecord(bank[b].paid, b, c, charge[c], "absent") EXCEPT !.pc = "check_duplicate"]
            \in ProcState
    BY <2>3, IdleType DEF ToRecord, ProcState, Recon
  <2> QED
    BY <2>1, <2>2, <2>4, ProcType DEF SantanderFind, TypeOK
<1>2. CASE SantanderIgnore(p)
  BY <1>2, FinishType DEF SantanderIgnore, TypeOK
<1>3. CASE SantanderAccept(p)
  <2> DEFINE rec == Classify(proc[p].amount, proc[p].row.net)
             st == [proc[p] EXCEPT !.pc = "record", !.recon = rec]
  <2>1. proc[p] \in ProcState /\ proc[p].amount \in Int /\ proc[p].row.net \in Int
    BY DEF TypeOK, ProcState, ChargeRow
  <2>2. rec \in Recon
    BY <2>1, ClassifyType DEF Recon
  <2>3. st \in ProcState
    BY <2>1, <2>2 DEF ProcState
  <2>4. proc' = [proc EXCEPT ![p] = st]
    BY <1>3 DEF SantanderAccept
  <2> QED
    BY <1>3, <2>3, <2>4, ProcType DEF SantanderAccept, TypeOK
<1> QED
  BY <1>1, <1>2, <1>3 DEF Santander

(* What a payment handler keeps of its request has the type of a process. *)
LEMMA ToRecordType ==
    ASSUME NEW a \in Int, NEW r \in Boletos \cup PixRefs, NEW c \in Charges \cup {None},
           NEW row \in ChargeRow, NEW rec \in Recon, NEW next \in {"record", "read_match", "park"}
    PROVE  [ToRecord(a, r, c, row, rec) EXCEPT !.pc = next] \in ProcState
BY IdleType DEF ToRecord, ProcState

LEMMA InsertPaymentType ==
    ASSUME TypeOK, NEW p \in Procs, InsertPayment(p)
    PROVE  payment' \in [Payments -> PaymentRow]
BY DEF InsertPayment, TypeOK, ProcState, PaymentRow

LEMMA TypePsp ==
    ASSUME TypeOK, ChargeInHand, NEW p \in Procs, Psp(p)
    PROVE  TypeOK'
<1>0. Amounts \subseteq Int
  BY BillingAssumption
<1>1. CASE \E c \in Charges : NoticeForCharge(p, c)
  <2>1. PICK c \in Charges, a \in Amounts, r \in PixRefs :
          proc' = [proc EXCEPT ![p] = ToRecord(a, r, c, charge[c], Classify(a, charge[c].net))]
    BY <1>1 DEF NoticeForCharge
  <2> DEFINE rec == Classify(a, charge[c].net)
             st == ToRecord(a, r, c, charge[c], rec)
  <2>2. charge[c] \in ChargeRow /\ charge[c].net \in Int
    BY DEF TypeOK, ChargeRow
  <2>3. rec \in Recon
    BY <1>0, <2>2, ClassifyType DEF Recon
  <2>4. st \in ProcState
    <3> HIDE DEF rec
    <3> QED
      BY <1>0, <2>2, <2>3, IdleType DEF ToRecord, ProcState
  <2> QED
    BY <1>1, <2>1, <2>4, ProcType DEF NoticeForCharge, TypeOK
<1>2. CASE NoticeMatch(p)
  <2>1. PICK a \in Amounts, r \in PixRefs, c \in Charges :
          proc' = [proc EXCEPT ![p] =
                     [ToRecord(a, r, c, charge[c], "matched") EXCEPT !.pc = "read_match"]]
    BY <1>2 DEF NoticeMatch, Candidates
  <2>2. charge[c] \in ChargeRow
    BY DEF TypeOK
  <2>3. [ToRecord(a, r, c, charge[c], "matched") EXCEPT !.pc = "read_match"] \in ProcState
    BY <1>0, <2>2, ToRecordType DEF Recon
  <2> QED
    BY <1>2, <2>1, <2>3, ProcType DEF NoticeMatch, TypeOK
<1>3. CASE ReadMatched(p)
  <2> DEFINE st == [proc[p] EXCEPT !.pc = "record"]
  <2>1. proc[p] \in ProcState
    BY DEF TypeOK
  <2>2. st \in ProcState
    BY <2>1 DEF ProcState
  <2>3. proc' = [proc EXCEPT ![p] = st]
    BY <1>3 DEF ReadMatched
  <2> QED
    BY <1>3, <2>2, <2>3, ProcType DEF ReadMatched, TypeOK
<1>4. CASE NoticeUnmatched(p)
  <2>1. PICK a \in Amounts, r \in PixRefs :
          proc' = [proc EXCEPT ![p] =
                     [ToRecord(a, r, None, AbsentRow, "unmatched") EXCEPT !.pc = "park"]]
    BY <1>4 DEF NoticeUnmatched
  <2>2. AbsentRow \in ChargeRow
    BY IdleType DEF Idle, ProcState
  <2>3. [ToRecord(a, r, None, AbsentRow, "unmatched") EXCEPT !.pc = "park"] \in ProcState
    BY <1>0, <2>2, ToRecordType DEF Recon
  <2> QED
    BY <1>4, <2>1, <2>3, ProcType DEF NoticeUnmatched, TypeOK
<1>5. CASE ParkPayment(p)
  BY <1>5, InsertPaymentType, FinishType DEF ParkPayment, TypeOK
<1> QED
  BY <1>1, <1>2, <1>3, <1>4, <1>5 DEF Psp

(* Recording a payment, by a webhook or by hand, keeps the type of the charges. *)
LEMMA SettleType ==
    ASSUME TypeOK, NEW p \in Procs,
           charge' = [charge EXCEPT ![proc[p].charge].pay =
                                        Settled(proc[p].recon, proc[p].row.pay)]
    PROVE  charge' \in [Charges -> ChargeRow]
<1> DEFINE new == Settled(proc[p].recon, proc[p].row.pay)
<1>1. proc[p].recon \in Recon /\ proc[p].row.pay \in PayStatus
  BY DEF TypeOK, ProcState, ChargeRow
<1>2. new \in PayStatus
  BY <1>1, SettledType
<1> DEFINE c == proc[p].charge
           row == [charge[c] EXCEPT !.pay = new]
<1>3. charge' = [charge EXCEPT ![c] = row]
  OBVIOUS
<1>4. ASSUME c \in Charges PROVE row \in ChargeRow
  <2>1. charge[c] \in ChargeRow
    BY <1>4 DEF TypeOK
  <2> HIDE DEF new, c
  <2> QED
    BY <1>2, <2>1 DEF ChargeRow
<1> HIDE DEF row, c
<1> QED
  BY <1>3, <1>4 DEF TypeOK

LEMMA TypeRecordPayment ==
    ASSUME TypeOK, NEW p \in Procs, RecordPayment(p)
    PROVE  TypeOK'
BY SettleType, InsertPaymentType, FinishType DEF RecordPayment, TypeOK

LEMMA TypeReconcile ==
    ASSUME TypeOK, NEW p \in Procs, Reconcile(p)
    PROVE  TypeOK'
<1>1. CASE \E k \in Payments : ReconcileRead(p, k)
  <2>1. PICK k \in Payments : ReconcileRead(p, k)
    BY <1>1
  <2>2. payment[k].amount \in Int
    BY DEF TypeOK, PaymentRow
  <2>3. [Idle EXCEPT !.pc = "read_charge", !.payment = k, !.amount = payment[k].amount]
            \in ProcState
    BY <2>2, IdleType DEF ProcState
  <2> QED
    BY <2>1, <2>3, ProcType DEF ReconcileRead, TypeOK
<1>2. CASE \E c \in Charges : ReconcileReadCharge(p, c)
  <2>1. PICK c \in Charges : ReconcileReadCharge(p, c)
    BY <1>2
  <2> DEFINE rec == Classify(proc[p].amount, charge[c].net)
             st == [proc[p] EXCEPT !.pc = "link", !.charge = c, !.row = charge[c], !.recon = rec]
  <2>2. /\ proc[p] \in ProcState /\ proc[p].amount \in Int
        /\ charge[c] \in ChargeRow /\ charge[c].net \in Int
    BY DEF TypeOK, ProcState, ChargeRow
  <2>3. rec \in Recon
    BY <2>2, ClassifyType DEF Recon
  <2>4. st \in ProcState
    BY <2>2, <2>3 DEF ProcState
  <2>5. proc' = [proc EXCEPT ![p] = st]
    BY <2>1 DEF ReconcileReadCharge
  <2> QED
    BY <2>1, <2>4, <2>5, ProcType DEF ReconcileReadCharge, TypeOK
<1>3. CASE ReconcileWrite(p)
  <2>1. proc[p].charge \in Charges \cup {None} /\ proc[p].recon \in Recon
    BY DEF TypeOK, ProcState
  <2>2. payment' \in [Payments -> PaymentRow]
    BY <1>3, <2>1 DEF ReconcileWrite, TypeOK, PaymentRow
  <2> QED
    BY <1>3, <2>2, SettleType, FinishType DEF ReconcileWrite, TypeOK
<1> QED
  BY <1>1, <1>2, <1>3 DEF Reconcile

LEMMA TypeOverdue ==
    ASSUME TypeOK, NEW p \in Procs, Overdue(p)
    PROVE  TypeOK'
<1>1. CASE OverdueScan(p)
  <2>1. PICK due \in SUBSET Charges :
          proc' = [proc EXCEPT ![p] = [Idle EXCEPT !.pc = "mark_overdue", !.todo = due]]
    BY <1>1 DEF OverdueScan
  <2>2. [Idle EXCEPT !.pc = "mark_overdue", !.todo = due] \in ProcState
    BY IdleType DEF ProcState
  <2> QED
    BY <1>1, <2>1, <2>2, ProcType DEF OverdueScan, TypeOK
<1>2. CASE \E c \in Charges : MarkOverdue(p, c)
  <2>1. PICK c \in Charges : MarkOverdue(p, c)
    BY <1>2
  <2>2. charge' \in [Charges -> ChargeRow]
    BY <2>1 DEF MarkOverdue, TypeOK, ChargeRow, PayStatus
  <2>3. [proc[p] EXCEPT !.todo = @ \ {c}] \in ProcState
    BY DEF TypeOK, ProcState
  <2>4. CASE proc[p].todo = {c}
    BY <2>1, <2>2, <2>4, FinishType DEF MarkOverdue, TypeOK
  <2>5. CASE proc[p].todo # {c}
    BY <2>1, <2>2, <2>3, <2>5, ProcType DEF MarkOverdue, TypeOK
  <2> QED
    BY <2>4, <2>5
<1> QED
  BY <1>1, <1>2 DEF Overdue

(* Every step keeps the types and the charge a process works on. *)
LEMMA TypeStep ==
    ASSUME TypeOK, ChargeInHand, [Next]_vars
    PROVE  TypeOK'
<1>1. ASSUME NEW s \in Slots, GenerateCharge(s) PROVE TypeOK'
  <2>1. PICK c \in Charges, E \in SUBSET Extras, a \in Adjustments :
          charge' = [charge EXCEPT ![c] = NewRow(s, E, a)]
    BY <1>1 DEF GenerateCharge
  <2>2. NewRow(s, E, a) \in ChargeRow
    BY NewRowType, BillingAssumption
  <2> QED
    BY <1>1, <2>1, <2>2 DEF GenerateCharge, TypeOK
<1>2. ASSUME NEW b \in Boletos, PayBoleto(b) PROVE TypeOK'
  <2>1. PICK a \in Amounts \cup {bank[b].amount} :
          bank' = [bank EXCEPT ![b].state = "paid", ![b].paid = a]
    BY <1>2 DEF PayBoleto
  <2>2. bank[b] \in BankBoleto
    BY DEF TypeOK
  <2>3. a \in Int
    <3>1. Amounts \subseteq Int
      BY BillingAssumption
    <3> QED
      BY <3>1, <2>2 DEF BankBoleto
  <2>4. [bank[b] EXCEPT !.state = "paid", !.paid = a] \in BankBoleto
    BY <2>2, <2>3 DEF BankBoleto
  <2>5. bank' = [bank EXCEPT ![b] = [bank[b] EXCEPT !.state = "paid", !.paid = a]]
    BY <2>1
  <2>6. bank' \in [Boletos -> BankBoleto]
    BY <2>4, <2>5 DEF TypeOK
  <2> QED
    BY <1>2, <2>6 DEF PayBoleto, TypeOK
<1>3. ASSUME NEW p \in Procs, Crash(p) PROVE TypeOK'
  BY <1>3, FinishType DEF Crash, TypeOK
<1>4. ASSUME NEW p \in Procs,
             Compose(p) \/ Edit(p) \/ Issue(p) \/ Santander(p) \/ Psp(p)
                        \/ RecordPayment(p) \/ Reconcile(p) \/ Overdue(p)
      PROVE TypeOK'
  BY <1>4, TypeCompose, TypeEdit, TypeIssue, TypeSantander, TypePsp, TypeRecordPayment,
     TypeReconcile, TypeOverdue
<1>5. CASE UNCHANGED vars
  BY <1>5 DEF vars, TypeOK
<1> QED
  BY <1>1, <1>2, <1>3, <1>4, <1>5 DEF Next

(* A step of the system changes what at most one process has read, and it is *)
(* a step of that process.                                                   *)
Moves(p) == Compose(p) \/ Edit(p) \/ Issue(p) \/ Santander(p) \/ Psp(p)
            \/ RecordPayment(p) \/ Reconcile(p) \/ Overdue(p) \/ Crash(p)

LEMMA OthersStay ==
    ASSUME TypeOK, NEW p \in Procs, NEW q \in Procs, Moves(p), p # q
    PROVE  proc'[q] = proc[q]
<1> USE DEF TypeOK, Finish, GotBoleto
<1>1. CASE Compose(p)
  BY <1>1 DEF Compose, ComposeCheck, ComposeInsert, ComposeSkip
<1>2. CASE Edit(p)
  BY <1>2 DEF Edit, AddLineItem, RemoveLineItem, ReadForEdit, WriteLineItems
<1>3. CASE Issue(p)
  BY <1>3 DEF Issue, IssueRead, BoletoRegistered, BoletoUnavailable, IssueWrite, IssueConflict
<1>4. CASE Santander(p)
  BY <1>4 DEF Santander, SantanderFind, SantanderIgnore, SantanderAccept
<1>5. CASE Psp(p)
  BY <1>5 DEF Psp, NoticeForCharge, NoticeMatch, ReadMatched, NoticeUnmatched, ParkPayment
<1>6. CASE RecordPayment(p)
  BY <1>6 DEF RecordPayment
<1>7. CASE Reconcile(p)
  BY <1>7 DEF Reconcile, ReconcileRead, ReconcileReadCharge, ReconcileWrite
<1>8. CASE Overdue(p)
  BY <1>8 DEF Overdue, OverdueScan, MarkOverdue
<1>9. CASE Crash(p)
  BY <1>9 DEF Crash
<1> QED
  BY <1>1, <1>2, <1>3, <1>4, <1>5, <1>6, <1>7, <1>8, <1>9 DEF Moves

LEMMA OwnMoves ==
    ASSUME TypeOK, [Next]_vars, NEW q \in Procs, proc'[q] # proc[q]
    PROVE  Moves(q)
<1>1. CASE \E p \in Procs : Moves(p)
  BY <1>1, OthersStay
<1>2. CASE \E s \in Slots : GenerateCharge(s)
  BY <1>2 DEF GenerateCharge
<1>3. CASE \E b \in Boletos : PayBoleto(b)
  BY <1>3 DEF PayBoleto
<1>4. CASE UNCHANGED vars
  BY <1>4 DEF vars
<1> QED
  BY <1>1, <1>2, <1>3, <1>4 DEF Next, Moves

(* What a process has in hand after a step of its own, by the place in the  *)
(* code it has reached.                                                     *)
Drafted(new) ==
    new.pc = "insert" /\ \E s \in Slots, E \in SUBSET Extras : new.row = NewRow(s, E, 0)

Editing(new) ==
    /\ new.charge \in Charges
    /\ charge[new.charge].issue = "draft"
    /\ \/ new.pc = "write_items" /\ "edit" \in Ops
       \/ new.pc = "request_boleto" /\ new.row = charge[new.charge]

Registering(old, new) ==
    old.pc = "request_boleto" /\ new.pc = "write_issue" /\ new.charge = old.charge

Found(new) ==
    /\ new.pc = "check_duplicate" /\ new.charge \in Charges /\ new.ref \in Boletos
    /\ new.row = charge[new.charge] /\ charge[new.charge].boleto = new.ref
    /\ bank[new.ref].state = "paid" /\ new.amount = bank[new.ref].paid

Settling == {"matched", "partial", "divergent"}

Accepted(old, new) ==
    /\ old.pc = "check_duplicate" /\ new.pc = "record" /\ new.recon \in Settling
    /\ new.charge = old.charge /\ new.row = old.row
    /\ new.ref = old.ref /\ new.amount = old.amount
    /\ ~AlreadyRecorded(old.charge, old.ref)

Noticed(new) ==
    /\ new.pc \in {"record", "read_match"} /\ new.charge \in Charges
    /\ new.row = charge[new.charge] /\ new.ref \in PixRefs /\ new.recon \in Settling

Reread(old, new) ==
    /\ old.pc = "read_match" /\ new.pc = "record"
    /\ new.charge = old.charge /\ new.ref = old.ref /\ new.row = old.row
    /\ new.recon = old.recon

Parking(new) == new.pc = "park" /\ new.charge = None /\ new.ref \in PixRefs

Linking(old, new) ==
    \/ /\ "reconcile" \in Ops /\ new.pc = "read_charge"
       /\ new.payment \in Payments /\ payment[new.payment].recon = "unmatched"
    \/ /\ old.pc = "read_charge" /\ new.pc = "link" /\ new.payment = old.payment
       /\ new.charge \in Charges /\ new.row = charge[new.charge] /\ new.recon \in Settling

Scanned(old, new) ==
    /\ new.pc = "mark_overdue"
    /\ \/ \A c \in new.todo : c \in Charges /\ charge[c].issue = "issued"
       \/ old.pc = "mark_overdue" /\ new.todo \subseteq old.todo

Reaches(old, new) ==
    \/ new = Idle \/ Drafted(new) \/ Editing(new) \/ Registering(old, new) \/ Found(new)
    \/ Accepted(old, new) \/ Noticed(new) \/ Reread(old, new) \/ Parking(new)
    \/ Linking(old, new) \/ Scanned(old, new)

LEMMA MovesReach ==
    ASSUME TypeOK, NEW p \in Procs, Moves(p)
    PROVE  Reaches(proc[p], proc'[p])
<1> DEFINE new == proc'[p]
<1>0. proc[p] \in ProcState
  BY DEF TypeOK
<1>2. ASSUME Finish(p) PROVE new = Idle
  BY <1>2 DEF Finish, TypeOK
<1>3. CASE \E s \in Slots : ComposeCheck(p, s)
  <2>1. PICK s \in Slots, E \in SUBSET Extras :
          proc' = [proc EXCEPT ![p] = [Idle EXCEPT !.pc = "insert", !.row = NewRow(s, E, 0)]]
    BY <1>3 DEF ComposeCheck
  <2>2. new = [Idle EXCEPT !.pc = "insert", !.row = NewRow(s, E, 0)]
    BY <2>1 DEF TypeOK
  <2>3. new.pc = "insert" /\ new.row = NewRow(s, E, 0)
    BY <2>2, IdleType DEF ProcState
  <2> QED
    BY <2>3 DEF Reaches, Drafted
<1>4. CASE \/ ComposeInsert(p) \/ ComposeSkip(p) \/ WriteLineItems(p) \/ IssueWrite(p)
           \/ IssueConflict(p) \/ SantanderIgnore(p) \/ ParkPayment(p) \/ RecordPayment(p)
           \/ ReconcileWrite(p) \/ Crash(p)
  <2>1. Finish(p)
    BY <1>4 DEF ComposeInsert, ComposeSkip, WriteLineItems, IssueWrite, IssueConflict,
                SantanderIgnore, ParkPayment, RecordPayment, ReconcileWrite, Crash
  <2> QED
    BY <1>2, <2>1 DEF Reaches
<1>5. CASE \E c \in Charges : AddLineItem(p, c) \/ RemoveLineItem(p, c)
  <2>1. PICK c \in Charges, E \in SUBSET Extras : ReadForEdit(p, c, E)
    <3>1. ASSUME NEW c \in Charges PROVE charge[c].extras \in SUBSET Extras
      BY DEF TypeOK, ChargeRow
    <3> QED
      BY <1>5, <3>1 DEF AddLineItem, RemoveLineItem
  <2> DEFINE row == [charge[c] EXCEPT !.extras = E, !.net = Gross(E)]
  <2>2. new = [Idle EXCEPT !.pc = "write_items", !.charge = c, !.row = row]
    BY <2>1 DEF ReadForEdit, TypeOK
  <2> HIDE DEF row
  <2>3. new.pc = "write_items" /\ new.charge = c
    BY <2>2, IdleType DEF ProcState
  <2>4. "edit" \in Ops /\ charge[c].issue = "draft"
    BY <2>1 DEF ReadForEdit, Request
  <2> QED
    BY <2>3, <2>4 DEF Reaches, Editing
<1>6. CASE \E c \in Charges : IssueRead(p, c)
  <2>1. PICK c \in Charges : IssueRead(p, c)
    BY <1>6
  <2>2. new = [Idle EXCEPT !.pc = "request_boleto", !.charge = c, !.row = charge[c]]
    BY <2>1 DEF IssueRead, TypeOK
  <2>3. new.pc = "request_boleto" /\ new.charge = c /\ new.row = charge[c]
    BY <2>2, IdleType DEF ProcState
  <2> QED
    BY <2>1, <2>3 DEF Reaches, Editing, IssueRead
<1>7. CASE BoletoRegistered(p) \/ BoletoUnavailable(p)
  <2>1. PICK b \in Boletos \cup {None, Mock} : GotBoleto(p, b)
    BY <1>7 DEF BoletoRegistered, BoletoUnavailable
  <2>2. new.pc = "write_issue" /\ new.charge = proc[p].charge
    BY <1>0, <2>1 DEF GotBoleto, TypeOK, ProcState
  <2> QED
    BY <1>7, <2>2 DEF Reaches, Registering, BoletoRegistered, BoletoUnavailable
<1>8. CASE \E b \in Boletos : SantanderFind(p, b)
  <2>1. PICK b \in Boletos : SantanderFind(p, b)
    BY <1>8
  <2>2. PICK c \in Charges :
          /\ charge[c].boleto = b
          /\ proc' = [proc EXCEPT ![p] =
               [ToRecord(bank[b].paid, b, c, charge[c], "absent") EXCEPT !.pc = "check_duplicate"]]
    BY <2>1 DEF SantanderFind
  <2>3. new = [ToRecord(bank[b].paid, b, c, charge[c], "absent") EXCEPT !.pc = "check_duplicate"]
    BY <2>2 DEF TypeOK
  <2>4. /\ new.pc = "check_duplicate" /\ new.charge = c /\ new.ref = b
        /\ new.row = charge[c] /\ new.amount = bank[b].paid
    BY <2>3, IdleType DEF ToRecord, ProcState
  <2> QED
    BY <2>1, <2>2, <2>4 DEF Reaches, Found, SantanderFind
<1>9. CASE SantanderAccept(p)
  <2> DEFINE rec == Classify(proc[p].amount, proc[p].row.net)
  <2>1. rec \in Settling
    BY <1>0, ClassifyType DEF Settling, ProcState, ChargeRow
  <2>2. proc' = [proc EXCEPT ![p].pc = "record", ![p].recon = rec]
    BY <1>9 DEF SantanderAccept
  <2> HIDE DEF rec
  <2>3. /\ new.pc = "record" /\ new.charge = proc[p].charge /\ new.row = proc[p].row
        /\ new.ref = proc[p].ref /\ new.amount = proc[p].amount /\ new.recon = rec
    BY <1>0, <2>2 DEF TypeOK, ProcState
  <2> QED
    BY <1>9, <2>1, <2>3 DEF Reaches, Accepted, SantanderAccept
<1>10. CASE (\E c \in Charges : NoticeForCharge(p, c)) \/ NoticeMatch(p)
  <2>1. CASE NoticeMatch(p)
    <3>1. PICK c \in Charges, a \in Amounts, r \in PixRefs :
            proc' = [proc EXCEPT ![p] =
                       [ToRecord(a, r, c, charge[c], "matched") EXCEPT !.pc = "read_match"]]
      BY <2>1 DEF NoticeMatch, Candidates
    <3>2. new = [ToRecord(a, r, c, charge[c], "matched") EXCEPT !.pc = "read_match"]
      BY <3>1 DEF TypeOK
    <3>3. /\ new.pc = "read_match" /\ new.charge = c /\ new.row = charge[c] /\ new.ref = r
          /\ new.recon = "matched"
      BY <3>2, IdleType DEF ToRecord, ProcState
    <3> QED
      BY <3>3 DEF Reaches, Noticed, Settling
  <2>2. CASE \E c \in Charges : NoticeForCharge(p, c)
    <3>1. PICK c \in Charges, a \in Amounts, r \in PixRefs :
            proc' = [proc EXCEPT ![p] =
                       ToRecord(a, r, c, charge[c], Classify(a, charge[c].net))]
      BY <2>2 DEF NoticeForCharge
    <3> DEFINE rec == Classify(a, charge[c].net)
    <3>2. new = ToRecord(a, r, c, charge[c], rec)
      BY <3>1 DEF TypeOK
    <3>3. rec \in Settling
      BY ClassifyType, BillingAssumption DEF Settling, TypeOK, ChargeRow
    <3> HIDE DEF rec
    <3>4. /\ new.pc = "record" /\ new.charge = c /\ new.row = charge[c] /\ new.ref = r
          /\ new.recon = rec
      BY <3>2, IdleType DEF ToRecord, ProcState
    <3> QED
      BY <3>3, <3>4 DEF Reaches, Noticed
  <2> QED
    BY <1>10, <2>1, <2>2
<1>11. CASE ReadMatched(p)
  <2>1. /\ new.pc = "record" /\ new.charge = proc[p].charge /\ new.ref = proc[p].ref
        /\ new.row = proc[p].row /\ new.recon = proc[p].recon
    BY <1>0, <1>11 DEF ReadMatched, TypeOK, ProcState
  <2> QED
    BY <1>11, <2>1 DEF Reaches, Reread, ReadMatched
<1>12. CASE NoticeUnmatched(p)
  <2>1. PICK a \in Amounts, r \in PixRefs :
          proc' = [proc EXCEPT ![p] =
                     [ToRecord(a, r, None, AbsentRow, "unmatched") EXCEPT !.pc = "park"]]
    BY <1>12 DEF NoticeUnmatched
  <2>2. new = [ToRecord(a, r, None, AbsentRow, "unmatched") EXCEPT !.pc = "park"]
    BY <2>1 DEF TypeOK
  <2>3. new.pc = "park" /\ new.charge = None /\ new.ref = r
    BY <2>2, IdleType DEF ToRecord, ProcState
  <2> QED
    BY <2>3 DEF Reaches, Parking
<1>13. CASE \E k \in Payments : ReconcileRead(p, k)
  <2>1. PICK k \in Payments : ReconcileRead(p, k)
    BY <1>13
  <2>2. new = [Idle EXCEPT !.pc = "read_charge", !.payment = k, !.amount = payment[k].amount]
    BY <2>1 DEF ReconcileRead, TypeOK
  <2>3. new.pc = "read_charge" /\ new.payment = k
    BY <2>2, IdleType DEF ProcState
  <2>4. "reconcile" \in Ops /\ payment[k].recon = "unmatched"
    BY <2>1 DEF ReconcileRead, Request
  <2> QED
    BY <2>3, <2>4 DEF Reaches, Linking
<1>14. CASE \E c \in Charges : ReconcileReadCharge(p, c)
  <2>1. PICK c \in Charges : ReconcileReadCharge(p, c)
    BY <1>14
  <2> DEFINE rec == Classify(proc[p].amount, charge[c].net)
  <2>2. rec \in Settling
    BY <1>0, ClassifyType DEF Settling, ProcState, TypeOK, ChargeRow
  <2>3. proc' = [proc EXCEPT ![p].pc = "link", ![p].charge = c, ![p].row = charge[c],
                             ![p].recon = rec]
    BY <2>1 DEF ReconcileReadCharge
  <2> HIDE DEF rec
  <2>4. /\ new.pc = "link" /\ new.charge = c /\ new.row = charge[c] /\ new.recon = rec
        /\ new.payment = proc[p].payment
    BY <1>0, <2>3 DEF TypeOK, ProcState
  <2> QED
    BY <2>1, <2>2, <2>4 DEF Reaches, Linking, ReconcileReadCharge
<1>15. CASE OverdueScan(p)
  <2>1. PICK due \in SUBSET {c \in Charges : charge[c].issue = "issued" /\ charge[c].pay = "open"} :
          proc' = [proc EXCEPT ![p] = [Idle EXCEPT !.pc = "mark_overdue", !.todo = due]]
    BY <1>15 DEF OverdueScan
  <2>2. new = [Idle EXCEPT !.pc = "mark_overdue", !.todo = due]
    BY <2>1 DEF TypeOK
  <2>3. new.pc = "mark_overdue" /\ new.todo = due
    BY <2>2, IdleType DEF ProcState
  <2> QED
    BY <2>3 DEF Reaches, Scanned
<1>16. CASE \E c \in Charges : MarkOverdue(p, c)
  <2>1. PICK c \in Charges : MarkOverdue(p, c)
    BY <1>16
  <2>2. CASE Finish(p)
    BY <1>2, <2>2 DEF Reaches
  <2>3. CASE proc' = [proc EXCEPT ![p].todo = @ \ {c}]
    <3>1. new.pc = proc[p].pc /\ new.todo = proc[p].todo \ {c}
      BY <1>0, <2>3 DEF TypeOK, ProcState
    <3> QED
      BY <2>1, <3>1 DEF Reaches, Scanned, MarkOverdue
  <2> QED
    BY <2>1, <2>2, <2>3 DEF MarkOverdue
<1> QED
  BY <1>3, <1>4, <1>5, <1>6, <1>7, <1>8, <1>9, <1>10, <1>11, <1>12, <1>13, <1>14, <1>15, <1>16
     DEF Moves, Compose, Edit, Issue, Santander, Psp, Reconcile, Overdue

(* At most one process moves in a step. *)
LEMMA OneMover ==
    ASSUME TypeOK, [Next]_vars, NEW p \in Procs, NEW q \in Procs, p # q
    PROVE  proc'[p] = proc[p] \/ proc'[q] = proc[q]
BY OwnMoves, OthersStay

LEMMA ChargeInHandStep ==
    ASSUME TypeOK, ChargeInHand, [Next]_vars
    PROVE  ChargeInHand'
<1> SUFFICES ASSUME NEW p \in Procs, proc'[p].pc \in HoldingCharge, proc'[p] # proc[p]
             PROVE  proc'[p].charge \in Charges
  BY DEF ChargeInHand
<1>1. Reaches(proc[p], proc'[p])
  BY OwnMoves, MovesReach
<1>2. proc[p].pc \in HoldingCharge => proc[p].charge \in Charges
  BY DEF ChargeInHand
<1> QED
  BY <1>1, <1>2, IdleType DEF HoldingCharge, Reaches, Drafted, Editing, Registering, Found,
     Accepted, Noticed, Reread, Parking, Linking, Scanned

(* Every row the program can store has the shape db/schema.ts declares, and  *)
(* every snapshot a handler keeps is such a row.                             *)
THEOREM TypeCorrect == Spec => []TypeOK
<1>1. Init => TypeOK /\ ChargeInHand
  BY TypeInit
<1>2. TypeOK /\ ChargeInHand /\ [Next]_vars => (TypeOK /\ ChargeInHand)'
  BY TypeStep, ChargeInHandStep
<1> QED
  BY <1>1, <1>2, PTL DEF Spec

-----------------------------------------------------------------------------
(* How rows change *)

(* What Maestro is about to insert is a draft nobody has paid. *)
DraftInHand ==
    \A p \in Procs : proc[p].pc = "insert" =>
        proc[p].row.issue = "draft" /\ proc[p].row.pay = "open" /\ proc[p].row.boleto = None

LEMMA DraftInHandStep ==
    ASSUME TypeOK, DraftInHand, [Next]_vars
    PROVE  DraftInHand'
<1> SUFFICES ASSUME NEW p \in Procs, proc'[p].pc = "insert", proc'[p] # proc[p]
             PROVE  /\ proc'[p].row.issue = "draft"
                    /\ proc'[p].row.pay = "open"
                    /\ proc'[p].row.boleto = None
  BY DEF DraftInHand
<1>1. Reaches(proc[p], proc'[p])
  BY OwnMoves, MovesReach
<1>2. Drafted(proc'[p])
  BY <1>1, IdleType DEF Reaches, Editing, Registering, Found, Accepted, Noticed, Reread,
     Parking, Linking, Scanned
<1> QED
  BY <1>2 DEF Drafted, NewRow

(* The ways in which a step can change the row of a charge. *)
Created(c) ==
    /\ charge[c].issue = "absent"
    /\ charge'[c].issue = "draft" /\ charge'[c].pay = "open" /\ charge'[c].boleto = None
    /\ IndexFree(c, charge'[c].slot, "draft")

SameButAmount(c) ==
    /\ charge'[c].slot = charge[c].slot /\ charge'[c].issue = charge[c].issue
    /\ charge'[c].pay = charge[c].pay /\ charge'[c].boleto = charge[c].boleto

IssuedBy(p, c) ==
    /\ IssueWrite(p) /\ c = proc[p].charge
    /\ charge'[c].slot = charge[c].slot /\ charge'[c].pay = charge[c].pay
    /\ charge'[c].net = charge[c].net
    /\ charge'[c].issue = "issued" /\ charge'[c].boleto = proc[p].boleto

SameButPay(c) ==
    /\ charge'[c].slot = charge[c].slot /\ charge'[c].issue = charge[c].issue
    /\ charge'[c].boleto = charge[c].boleto /\ charge'[c].net = charge[c].net

SettledBy(p, c) ==
    /\ RecordPayment(p) \/ ReconcileWrite(p)
    /\ c = proc[p].charge /\ SameButPay(c)
    /\ charge'[c].pay = Settled(proc[p].recon, proc[p].row.pay)

MarkedBy(p, c) ==
    MarkOverdue(p, c) /\ SameButPay(c) /\ charge'[c].pay = "overdue"

RowChanges(c) ==
    \/ charge'[c] = charge[c] \/ Created(c)
    \/ SameButAmount(c) /\ \E p \in Procs : proc[p].pc = "write_items" /\ proc[p].charge = c
    \/ \E p \in Procs : IssuedBy(p, c) \/ SettledBy(p, c) \/ MarkedBy(p, c)

(* The rows other than c are as they were. *)
Only(c) == \A d \in Charges \ {c} : charge'[d] = charge[d]

LEMMA StepChangesRow ==
    ASSUME TypeOK, ChargeInHand, DraftInHand, [Next]_vars
    PROVE  charge' = charge \/ \E c \in Charges : Only(c) /\ RowChanges(c)
<1> DEFINE Goal == \E c \in Charges : Only(c) /\ RowChanges(c)
<1>0. ASSUME NEW c \in Charges, NEW row, charge' = [charge EXCEPT ![c] = row]
      PROVE  Only(c) /\ charge'[c] = row
  BY <1>0 DEF TypeOK, Only
<1>1. ASSUME NEW c \in Charges PROVE charge[c] \in ChargeRow
  BY DEF TypeOK
<1>2. ASSUME NEW s \in Slots, GenerateCharge(s) PROVE Goal
  <2>1. PICK c \in Charges, E \in SUBSET Extras, a \in Adjustments :
          /\ ~Exists(c) /\ IndexFree(c, s, "draft")
          /\ charge' = [charge EXCEPT ![c] = NewRow(s, E, a)]
    BY <1>2 DEF GenerateCharge
  <2>2. Only(c) /\ charge'[c] = NewRow(s, E, a)
    BY <1>0, <2>1
  <2>3. Created(c)
    BY <2>1, <2>2 DEF Created, NewRow, Exists
  <2> QED
    BY <2>2, <2>3 DEF RowChanges
<1>3. ASSUME NEW p \in Procs, ComposeInsert(p) PROVE Goal
  <2>1. PICK c \in Charges :
          /\ ~Exists(c) /\ IndexFree(c, proc[p].row.slot, "draft")
          /\ charge' = [charge EXCEPT ![c] = proc[p].row]
    BY <1>3 DEF ComposeInsert
  <2>2. Only(c) /\ charge'[c] = proc[p].row
    BY <1>0, <2>1
  <2>3. Created(c)
    BY <1>3, <2>1, <2>2 DEF Created, Exists, ComposeInsert, DraftInHand
  <2> QED
    BY <2>2, <2>3 DEF RowChanges
<1>4. ASSUME NEW p \in Procs, WriteLineItems(p) PROVE Goal
  <2> DEFINE c == proc[p].charge
             row == [charge[c] EXCEPT !.extras = proc[p].row.extras, !.net = proc[p].row.net]
  <2>1. c \in Charges
    BY <1>4 DEF WriteLineItems, ChargeInHand, HoldingCharge
  <2>2. charge' = [charge EXCEPT ![c] = row]
    BY <1>4 DEF WriteLineItems
  <2>3. Only(c) /\ charge'[c] = row
    BY <2>1, <2>2 DEF TypeOK, Only
  <2>4. SameButAmount(c)
    BY <1>1, <2>1, <2>3 DEF SameButAmount, ChargeRow
  <2> QED
    BY <1>4, <2>1, <2>3, <2>4 DEF RowChanges, WriteLineItems
<1>5. ASSUME NEW p \in Procs, IssueWrite(p) PROVE Goal
  <2> DEFINE c == proc[p].charge
             row == [charge[c] EXCEPT !.issue = "issued", !.boleto = proc[p].boleto]
  <2>1. c \in Charges
    BY <1>5 DEF IssueWrite, ChargeInHand, HoldingCharge
  <2>2. charge' = [charge EXCEPT ![c] = row]
    BY <1>5 DEF IssueWrite
  <2>3. Only(c) /\ charge'[c] = row
    BY <2>1, <2>2 DEF TypeOK, Only
  <2>4. IssuedBy(p, c)
    BY <1>1, <1>5, <2>1, <2>3 DEF IssuedBy, ChargeRow
  <2> QED
    BY <2>1, <2>3, <2>4 DEF RowChanges
<1>6. ASSUME NEW p \in Procs, RecordPayment(p) \/ ReconcileWrite(p) PROVE Goal
  <2> DEFINE c == proc[p].charge
             new == Settled(proc[p].recon, proc[p].row.pay)
             row == [charge[c] EXCEPT !.pay = new]
  <2>1. c \in Charges
    BY <1>6 DEF RecordPayment, ReconcileWrite, ChargeInHand, HoldingCharge
  <2>2. charge' = [charge EXCEPT ![c] = row]
    BY <1>6 DEF RecordPayment, ReconcileWrite
  <2>3. Only(c) /\ charge'[c] = row
    BY <2>1, <2>2 DEF TypeOK, Only
  <2>4. SameButPay(c) /\ charge'[c].pay = new
    <3> HIDE DEF new
    <3> QED
      BY <1>1, <2>1, <2>3 DEF SameButPay, ChargeRow
  <2> QED
    BY <1>6, <2>1, <2>3, <2>4 DEF RowChanges, SettledBy
<1>7. ASSUME NEW p \in Procs, NEW c \in Charges, MarkOverdue(p, c) PROVE Goal
  <2>1. charge' = [charge EXCEPT ![c] = [charge[c] EXCEPT !.pay = "overdue"]]
    BY <1>7 DEF MarkOverdue
  <2>2. Only(c) /\ charge'[c] = [charge[c] EXCEPT !.pay = "overdue"]
    BY <2>1 DEF TypeOK, Only
  <2>3. SameButPay(c) /\ charge'[c].pay = "overdue"
    BY <1>1, <2>2 DEF SameButPay, ChargeRow
  <2> QED
    BY <1>7, <2>2, <2>3 DEF RowChanges, MarkedBy
<1>8. ASSUME NEW p \in Procs, Moves(p)
      PROVE  charge' = charge \/ Goal
  <2> HIDE DEF Goal
  <2>1. CASE Compose(p)
    BY <1>3, <2>1 DEF Compose, ComposeCheck, ComposeSkip
  <2>2. CASE Edit(p)
    BY <1>4, <2>2 DEF Edit, AddLineItem, RemoveLineItem, ReadForEdit
  <2>3. CASE Issue(p)
    BY <1>5, <2>3 DEF Issue, IssueRead, BoletoRegistered, BoletoUnavailable, IssueConflict
  <2>4. CASE Santander(p)
    BY <2>4 DEF Santander, SantanderFind, SantanderIgnore, SantanderAccept
  <2>5. CASE Psp(p)
    BY <2>5 DEF Psp, NoticeForCharge, NoticeMatch, ReadMatched, NoticeUnmatched, ParkPayment
  <2>6. CASE Reconcile(p)
    BY <1>6, <2>6 DEF Reconcile, ReconcileRead, ReconcileReadCharge
  <2>7. CASE Overdue(p)
    BY <1>7, <2>7 DEF Overdue, OverdueScan
  <2>8. CASE RecordPayment(p) \/ Crash(p)
    BY <1>6, <2>8 DEF Crash
  <2> QED
    BY <1>8, <2>1, <2>2, <2>3, <2>4, <2>5, <2>6, <2>7, <2>8 DEF Moves
<1>9. ASSUME NEW b \in Boletos, PayBoleto(b) PROVE charge' = charge
  BY <1>9 DEF PayBoleto
<1>10. CASE UNCHANGED vars
  BY <1>10 DEF vars
<1>11. CASE \E p \in Procs : Moves(p)
  BY <1>8, <1>11
<1>12. CASE \E s \in Slots : GenerateCharge(s)
  BY <1>2, <1>12
<1>13. CASE \E b \in Boletos : PayBoleto(b)
  BY <1>9, <1>13
<1> QED
  BY <1>10, <1>11, <1>12, <1>13 DEF Next, Moves

-----------------------------------------------------------------------------
(* One draft and one issued charge for a contract and a period *)

LEMMA OneLivePerSlotStep ==
    ASSUME TypeOK, ChargeInHand, DraftInHand, OneLivePerSlot, [Next]_vars
    PROVE  OneLivePerSlot'
<1>0. CASE charge' = charge
  BY <1>0 DEF OneLivePerSlot, Exists
<1> SUFFICES ASSUME charge' # charge PROVE OneLivePerSlot'
  BY <1>0
<1> PICK c \in Charges : Only(c) /\ RowChanges(c)
  BY StepChangesRow
<1>1. CASE charge'[c] = charge[c] \/ SameButAmount(c)
           \/ \E p \in Procs : SettledBy(p, c) \/ MarkedBy(p, c)
  <2>1. \A d \in Charges : charge'[d].slot = charge[d].slot /\ charge'[d].issue = charge[d].issue
    BY <1>1 DEF Only, SameButAmount, SettledBy, MarkedBy, SameButPay
  <2> QED
    BY <2>1 DEF OneLivePerSlot, Exists
<1>2. CASE Created(c)
  BY <1>2 DEF Created, Only, IndexFree, OneLivePerSlot, Exists
<1>3. CASE \E p \in Procs : IssuedBy(p, c)
  <2>1. /\ charge'[c].slot = charge[c].slot /\ charge'[c].issue = "issued"
        /\ IndexFree(c, charge[c].slot, "issued")
    BY <1>3 DEF IssuedBy, IssueWrite
  <2> QED
    BY <2>1 DEF Only, IndexFree, OneLivePerSlot, Exists
<1> QED
  BY <1>1, <1>2, <1>3 DEF RowChanges

(* The steps shared by every theorem below. *)
RowInv == TypeOK /\ ChargeInHand /\ DraftInHand

LEMMA RowInvInit == Init => RowInv
BY TypeInit, IdleType DEF Init, RowInv, DraftInHand

LEMMA RowInvStep == RowInv /\ [Next]_vars => RowInv'
BY TypeStep, ChargeInHandStep, DraftInHandStep DEF RowInv

(* No interleaving of composing and issuing gives a contract two drafts, or  *)
(* two issued charges, for the same billing period.                          *)
THEOREM AtMostOneLive == Spec => []OneLivePerSlot
<1>1. Init => OneLivePerSlot
  BY DEF Init, OneLivePerSlot, Exists, AbsentRow
<1>2. RowInv /\ OneLivePerSlot /\ [Next]_vars => OneLivePerSlot'
  BY OneLivePerSlotStep DEF RowInv
<1> QED
  BY <1>1, <1>2, RowInvInit, RowInvStep, PTL DEF Spec

-----------------------------------------------------------------------------
(* Only issued charges are overdue *)

(* A handler that will write back "overdue" works on an issued charge, and    *)
(* the overdue job holds issued charges only.                                *)
OverdueInHand ==
    \A p \in Procs :
        /\ /\ proc[p].pc \in {"check_duplicate", "read_match", "record", "link"}
           /\ proc[p].row.pay = "overdue"
           => charge[proc[p].charge].issue = "issued"
        /\ proc[p].pc = "mark_overdue" =>
              \A c \in proc[p].todo : c \in Charges /\ charge[c].issue = "issued"

(* Issuing is never undone. *)
LEMMA IssuedStays ==
    ASSUME RowInv, [Next]_vars, NEW c \in Charges, charge[c].issue = "issued"
    PROVE  charge'[c].issue = "issued"
<1>1. charge' = charge \/ \E d \in Charges : Only(d) /\ RowChanges(d)
  BY StepChangesRow DEF RowInv
<1> QED
  BY <1>1 DEF Only, RowChanges, Created, SameButAmount, IssuedBy, SettledBy, MarkedBy, SameButPay

LEMMA OverdueInHandStep ==
    ASSUME RowInv, OverdueWasIssued, OverdueInHand, [Next]_vars
    PROVE  OverdueInHand'
<1> SUFFICES ASSUME NEW p \in Procs
             PROVE  /\ /\ proc'[p].pc \in {"check_duplicate", "read_match", "record", "link"}
                       /\ proc'[p].row.pay = "overdue"
                       => charge'[proc'[p].charge].issue = "issued"
                    /\ proc'[p].pc = "mark_overdue" =>
                         \A c \in proc'[p].todo : c \in Charges /\ charge'[c].issue = "issued"
  BY DEF OverdueInHand
<1>1. proc'[p] = proc[p] \/ Reaches(proc[p], proc'[p])
  BY OwnMoves, MovesReach DEF RowInv
<1>2. ASSUME proc'[p].pc \in {"check_duplicate", "read_match", "record", "link"},
             proc'[p].row.pay = "overdue"
      PROVE  charge'[proc'[p].charge].issue = "issued"
  <2>1. proc'[p].charge \in Charges
    BY <1>2, ChargeInHandStep DEF RowInv, ChargeInHand, HoldingCharge
  <2>2. CASE proc'[p].row = charge[proc'[p].charge]
    BY <1>2, <2>1, <2>2, IssuedStays DEF OverdueWasIssued
  <2>3. CASE /\ proc[p].pc \in {"check_duplicate", "read_match", "record", "link"}
             /\ proc'[p].row = proc[p].row /\ proc'[p].charge = proc[p].charge
    BY <1>2, <2>1, <2>3, IssuedStays DEF OverdueInHand
  <2> QED
    BY <1>1, <1>2, <2>2, <2>3, IdleType DEF Reaches, Drafted, Editing, Registering, Found, Accepted,
       Noticed, Reread, Parking, Linking, Scanned
<1>3. ASSUME proc'[p].pc = "mark_overdue", NEW c \in proc'[p].todo
      PROVE  c \in Charges /\ charge'[c].issue = "issued"
  <2>1. c \in Charges /\ charge[c].issue = "issued"
    <3>1. CASE proc'[p] = proc[p]
      BY <1>3, <3>1 DEF OverdueInHand
    <3>2. CASE Scanned(proc[p], proc'[p])
      BY <1>3, <3>2 DEF OverdueInHand, Scanned
    <3> QED
      BY <1>1, <1>3, <3>1, <3>2, IdleType DEF Reaches, Drafted, Editing, Registering, Found,
         Accepted, Noticed, Reread, Parking, Linking
  <2> QED
    BY <2>1, IssuedStays
<1> QED
  BY <1>2, <1>3

LEMMA OverdueWasIssuedStep ==
    ASSUME RowInv, OverdueWasIssued, OverdueInHand, [Next]_vars
    PROVE  OverdueWasIssued'
<1> SUFFICES ASSUME NEW c \in Charges, charge'[c].pay = "overdue"
             PROVE  charge'[c].issue = "issued"
  BY DEF OverdueWasIssued
<1> SUFFICES ASSUME charge[c].issue # "issued" PROVE FALSE
  BY IssuedStays
<1>1. charge'[c] # charge[c]
  BY DEF OverdueWasIssued
<1>2. RowChanges(c)
  BY <1>1, StepChangesRow DEF RowInv, Only
<1>3. \E p \in Procs : SettledBy(p, c) \/ MarkedBy(p, c)
  BY <1>1, <1>2 DEF RowChanges, Created, SameButAmount, IssuedBy, OverdueWasIssued
<1>4. PICK p \in Procs : SettledBy(p, c) \/ MarkedBy(p, c)
  BY <1>3
<1>5. CASE SettledBy(p, c)
  <2>1. proc[p].pc \in {"record", "link"} /\ c = proc[p].charge
    BY <1>5 DEF SettledBy, RecordPayment, ReconcileWrite
  <2>2. proc[p].row.pay = "overdue"
    BY <1>5 DEF SettledBy, Settled
  <2> QED
    BY <2>1, <2>2 DEF OverdueInHand
<1>6. CASE MarkedBy(p, c)
  BY <1>6 DEF MarkedBy, MarkOverdue, OverdueInHand
<1> QED
  BY <1>4, <1>5, <1>6

(* A draft is never overdue, whatever a stale snapshot writes back. *)
THEOREM OverdueOnlyIssued == Spec => []OverdueWasIssued
<1>1. Init => OverdueWasIssued /\ OverdueInHand
  BY IdleType DEF Init, OverdueWasIssued, OverdueInHand, AbsentRow
<1>2. RowInv /\ OverdueWasIssued /\ OverdueInHand /\ [Next]_vars
        => (OverdueWasIssued /\ OverdueInHand)'
  BY OverdueWasIssuedStep, OverdueInHandStep
<1> QED
  BY <1>1, <1>2, RowInvInit, RowInvStep, PTL DEF Spec

-----------------------------------------------------------------------------
(* The boleto on a charge *)

(* The ways in which a step can change a boleto at the bank. *)
Registered(p, b) ==
    /\ proc[p].pc = "request_boleto" /\ bank[b].state = "free"
    /\ bank'[b].state = "registered" /\ bank'[b].charge = proc[p].charge
    /\ bank'[b].amount = proc[p].row.net

Shown(p, b) ==
    /\ IssueWrite(p) /\ b = proc[p].boleto
    /\ bank'[b] = [bank[b] EXCEPT !.state = "shown"]

Paid(b) ==
    /\ bank[b].state = "shown" /\ bank'[b].state = "paid"
    /\ bank'[b].charge = bank[b].charge /\ bank'[b].amount = bank[b].amount

BoletoChanges(b) ==
    \/ bank'[b] = bank[b] \/ Paid(b) \/ \E p \in Procs : Registered(p, b) \/ Shown(p, b)

LEMMA StepChangesBoleto ==
    ASSUME TypeOK, [Next]_vars, NEW b \in Boletos
    PROVE  BoletoChanges(b)
<1>1. ASSUME NEW d \in Boletos, PayBoleto(d) PROVE BoletoChanges(b)
  <2>1. bank[b] \in BankBoleto
    BY DEF TypeOK
  <2>2. CASE b = d
    BY <1>1, <2>1, <2>2 DEF PayBoleto, BoletoChanges, Paid, TypeOK, BankBoleto
  <2>3. CASE b # d
    BY <1>1, <2>3 DEF PayBoleto, BoletoChanges, TypeOK
  <2> QED
    BY <2>2, <2>3
<1>2. ASSUME NEW p \in Procs, BoletoRegistered(p) PROVE BoletoChanges(b)
  <2>1. PICK d \in Boletos :
          /\ bank[d].state = "free"
          /\ bank' = [bank EXCEPT ![d] = [state |-> "registered", charge |-> proc[p].charge,
                                          amount |-> proc[p].row.net, paid |-> 0]]
    BY <1>2 DEF BoletoRegistered
  <2> QED
    BY <1>2, <2>1 DEF BoletoRegistered, BoletoChanges, Registered, TypeOK
<1>3. ASSUME NEW p \in Procs, IssueWrite(p) PROVE BoletoChanges(b)
  BY <1>3 DEF IssueWrite, BoletoChanges, Shown
<1>4. ASSUME NEW p \in Procs, Moves(p) PROVE BoletoChanges(b)
  <2>1. CASE Compose(p)
    BY <2>1 DEF BoletoChanges, Compose, ComposeCheck, ComposeInsert, ComposeSkip
  <2>2. CASE Edit(p)
    BY <2>2 DEF BoletoChanges, Edit, AddLineItem, RemoveLineItem, ReadForEdit, WriteLineItems
  <2>3. CASE Issue(p)
    <3>1. CASE BoletoRegistered(p) \/ IssueWrite(p)
      BY <1>2, <1>3, <3>1
    <3>2. CASE ~(BoletoRegistered(p) \/ IssueWrite(p))
      BY <2>3, <3>2 DEF BoletoChanges, Issue, IssueRead, BoletoUnavailable, IssueConflict
    <3> QED
      BY <3>1, <3>2
  <2>4. CASE Santander(p)
    BY <2>4 DEF BoletoChanges, Santander, SantanderFind, SantanderIgnore, SantanderAccept
  <2>5. CASE Psp(p)
    BY <2>5 DEF BoletoChanges, Psp, NoticeForCharge, NoticeMatch, ReadMatched, NoticeUnmatched,
                ParkPayment
  <2>6. CASE Reconcile(p)
    BY <2>6 DEF BoletoChanges, Reconcile, ReconcileRead, ReconcileReadCharge, ReconcileWrite
  <2>7. CASE Overdue(p)
    BY <2>7 DEF BoletoChanges, Overdue, OverdueScan, MarkOverdue
  <2>8. CASE RecordPayment(p) \/ Crash(p)
    BY <2>8 DEF BoletoChanges, RecordPayment, Crash
  <2> QED
    BY <1>4, <2>1, <2>2, <2>3, <2>4, <2>5, <2>6, <2>7, <2>8 DEF Moves
<1>5. CASE \E p \in Procs : Moves(p)
  BY <1>4, <1>5
<1>6. CASE \E d \in Boletos : PayBoleto(d)
  BY <1>1, <1>6
<1>7. CASE \E s \in Slots : GenerateCharge(s)
  BY <1>7 DEF GenerateCharge, BoletoChanges
<1>8. CASE UNCHANGED vars
  BY <1>8 DEF vars, BoletoChanges
<1> QED
  BY <1>5, <1>6, <1>7, <1>8 DEF Next, Moves

(* A boleto that a handler is about to write on a charge was registered for   *)
(* that charge.                                                               *)
BoletoInHand ==
    \A p \in Procs : proc[p].pc = "write_issue" /\ proc[p].boleto \in Boletos =>
        /\ bank[proc[p].boleto].charge = proc[p].charge
        /\ bank[proc[p].boleto].state # "free"

(* A boleto keeps its charge once it is registered. *)
LEMMA BoletoKeepsCharge ==
    ASSUME TypeOK, [Next]_vars, NEW b \in Boletos, bank[b].state # "free"
    PROVE  bank'[b].state # "free" /\ bank'[b].charge = bank[b].charge
<1>1. bank[b] \in BankBoleto /\ BoletoChanges(b)
  BY StepChangesBoleto DEF TypeOK
<1> QED
  BY <1>1 DEF BoletoChanges, Registered, Shown, Paid, BankBoleto

(* A process that asked for a boleto does nothing else but get one or die. *)
LEMMA RequestBoletoNext ==
    ASSUME NEW p \in Procs, TypeOK, Moves(p), proc[p].pc = "request_boleto",
           proc'[p].pc = "write_issue"
    PROVE  BoletoRegistered(p) \/ BoletoUnavailable(p)
<1>1. ~Crash(p)
  BY IdleType DEF Crash, Finish, TypeOK
<1>2. ~Compose(p) /\ ~Edit(p)
  BY DEF Compose, ComposeCheck, ComposeInsert, ComposeSkip, Request, Edit, AddLineItem,
         RemoveLineItem, ReadForEdit, WriteLineItems
<1>3. ~Santander(p) /\ ~Psp(p) /\ ~RecordPayment(p)
  BY DEF Santander, SantanderFind, SantanderIgnore, SantanderAccept, Request, Psp,
         NoticeForCharge, NoticeMatch, ReadMatched, NoticeUnmatched, ParkPayment, RecordPayment
<1>4. ~Reconcile(p) /\ ~Overdue(p)
  BY DEF Reconcile, ReconcileRead, ReconcileReadCharge, ReconcileWrite, Request, Overdue,
         OverdueScan, MarkOverdue
<1>5. Issue(p)
  BY <1>1, <1>2, <1>3, <1>4 DEF Moves
<1> QED
  BY <1>5 DEF Issue, IssueRead, Request, IssueWrite, IssueConflict

LEMMA BoletoInHandStep ==
    ASSUME RowInv, BoletoInHand, [Next]_vars
    PROVE  BoletoInHand'
<1> SUFFICES ASSUME NEW p \in Procs, proc'[p].pc = "write_issue", proc'[p].boleto \in Boletos
             PROVE  /\ bank'[proc'[p].boleto].charge = proc'[p].charge
                    /\ bank'[proc'[p].boleto].state # "free"
  BY DEF BoletoInHand
<1>1. CASE proc'[p] = proc[p]
  BY <1>1, BoletoKeepsCharge DEF BoletoInHand, RowInv
<1>2. CASE proc'[p] # proc[p]
  <2>1. Registering(proc[p], proc'[p]) /\ Moves(p)
    BY <1>2, OwnMoves, MovesReach, IdleType DEF RowInv, Reaches, Drafted, Editing, Found, Accepted,
       Noticed, Reread, Parking, Linking, Scanned
  <2>2. BoletoRegistered(p) \/ BoletoUnavailable(p)
    BY <2>1, RequestBoletoNext DEF RowInv, Registering
  <2>3. CASE BoletoRegistered(p)
    <3>1. PICK b \in Boletos :
            /\ bank' = [bank EXCEPT ![b] = [state |-> "registered", charge |-> proc[p].charge,
                                            amount |-> proc[p].row.net, paid |-> 0]]
            /\ GotBoleto(p, b) \/ GotBoleto(p, Mock)
      BY <2>3 DEF BoletoRegistered
    <3>2. proc'[p].boleto = b
      BY <3>1, BillingAssumption DEF RowInv, TypeOK, ProcState, GotBoleto
    <3>3. bank'[b].charge = proc[p].charge /\ bank'[b].state = "registered"
      BY <3>1 DEF RowInv, TypeOK
    <3> QED
      BY <2>1, <3>2, <3>3 DEF Registering
  <2>4. CASE BoletoUnavailable(p)
    <3>1. PICK got \in {Mock, None} : GotBoleto(p, got)
      BY <2>4 DEF BoletoUnavailable
    <3>2. proc'[p].boleto \in {Mock, None}
      BY <3>1 DEF RowInv, TypeOK, ProcState, GotBoleto
    <3> QED
      BY <3>2, BillingAssumption
  <2> QED
    BY <2>2, <2>3, <2>4
<1> QED
  BY <1>1, <1>2

LEMMA StoredBoletoIsOwnStep ==
    ASSUME RowInv, BoletoInHand, StoredBoletoIsOwn, [Next]_vars
    PROVE  StoredBoletoIsOwn'
<1> SUFFICES ASSUME NEW c \in Charges, charge'[c].boleto \in Boletos
             PROVE  /\ charge'[c].issue = "issued"
                    /\ bank'[charge'[c].boleto].charge = c
                    /\ bank'[charge'[c].boleto].state \in {"shown", "paid"}
  BY DEF StoredBoletoIsOwn
<1> DEFINE b == charge'[c].boleto
<1>1. bank[b] \in BankBoleto /\ BoletoChanges(b)
  BY StepChangesBoleto DEF RowInv, TypeOK
<1>2. charge'[c] = charge[c] \/ RowChanges(c)
  BY StepChangesRow DEF RowInv, Only
<1>3. CASE charge[c].boleto = b
  <2>1. /\ b \in Boletos /\ charge[c].issue = "issued"
        /\ bank[b].charge = c /\ bank[b].state \in {"shown", "paid"}
    BY <1>3 DEF StoredBoletoIsOwn
  <2>2. charge'[c].issue = "issued"
    BY <2>1, IssuedStays
  <2> HIDE DEF b
  <2>3. bank'[b].charge = c
    BY <2>1, BoletoKeepsCharge DEF RowInv
  <2>4. bank'[b].state \in {"shown", "paid"}
    BY <1>1, <2>1 DEF BoletoChanges, Registered, Shown, Paid, BankBoleto
  <2> QED
    BY <2>2, <2>3, <2>4 DEF b
<1>4. CASE charge[c].boleto # b
  <2>1. b # None
    BY BillingAssumption
  <2>2. PICK p \in Procs : IssuedBy(p, c)
    BY <1>2, <1>4, <2>1 DEF RowChanges, Created, SameButAmount, SettledBy, MarkedBy, SameButPay
  <2>3. /\ proc[p].pc = "write_issue" /\ proc[p].charge = c /\ proc[p].boleto = b
        /\ charge'[c].issue = "issued"
    BY <2>2 DEF IssuedBy, IssueWrite
  <2>4. bank[b].charge = c /\ bank[b].state # "free"
    BY <2>3 DEF BoletoInHand
  <2>5. bank'[b] = [bank[b] EXCEPT !.state = "shown"]
    BY <2>2, <2>3 DEF IssuedBy, IssueWrite
  <2> QED
    BY <1>1, <2>3, <2>4, <2>5 DEF BankBoleto
<1> QED
  BY <1>3, <1>4

(* Two requests that issue the same charge, or two charges of one period,     *)
(* never leave a charge with the boleto of another.                           *)
THEOREM BoletoIsOwn == Spec => []StoredBoletoIsOwn
<1>1. Init => BoletoInHand /\ StoredBoletoIsOwn
  BY IdleType, BillingAssumption DEF Init, BoletoInHand, StoredBoletoIsOwn, AbsentRow
<1>2. RowInv /\ BoletoInHand /\ StoredBoletoIsOwn /\ [Next]_vars
        => (BoletoInHand /\ StoredBoletoIsOwn)'
  BY BoletoInHandStep, StoredBoletoIsOwnStep
<1> QED
  BY <1>1, <1>2, RowInvInit, RowInvStep, PTL DEF Spec

-----------------------------------------------------------------------------
(* Paid charges have their payment *)

(* The ways in which a step can change a payment. *)
InsertedBy(p, k) ==
    /\ RecordPayment(p) \/ ParkPayment(p)
    /\ payment[k].recon = "absent"
    /\ payment'[k] = [charge |-> proc[p].charge, amount |-> proc[p].amount,
                      ref |-> proc[p].ref, recon |-> proc[p].recon]

LinkedBy(p, k) ==
    /\ ReconcileWrite(p) /\ k = proc[p].payment
    /\ payment'[k].ref = payment[k].ref /\ payment'[k].amount = payment[k].amount
    /\ payment'[k].recon = proc[p].recon

PaymentChanges(k) ==
    payment'[k] = payment[k] \/ \E p \in Procs : InsertedBy(p, k) \/ LinkedBy(p, k)

LEMMA StepChangesPayment ==
    ASSUME TypeOK, [Next]_vars, NEW k \in Payments
    PROVE  PaymentChanges(k)
<1>0. payment[k] \in PaymentRow
  BY DEF TypeOK
<1>1. ASSUME NEW p \in Procs, RecordPayment(p) \/ ParkPayment(p) PROVE PaymentChanges(k)
  <2>1. PICK j \in Payments :
          /\ payment[j].recon = "absent"
          /\ payment' = [payment EXCEPT ![j] = [charge |-> proc[p].charge, amount |-> proc[p].amount,
                                               ref |-> proc[p].ref, recon |-> proc[p].recon]]
    BY <1>1 DEF RecordPayment, ParkPayment, InsertPayment
  <2> QED
    BY <1>1, <2>1 DEF PaymentChanges, InsertedBy, TypeOK
<1>2. ASSUME NEW p \in Procs, ReconcileWrite(p) PROVE PaymentChanges(k)
  <2>1. CASE k = proc[p].payment
    BY <1>0, <1>2, <2>1 DEF ReconcileWrite, PaymentChanges, LinkedBy, TypeOK, PaymentRow
  <2>2. CASE k # proc[p].payment
    BY <1>2, <2>2 DEF ReconcileWrite, PaymentChanges, TypeOK
  <2> QED
    BY <2>1, <2>2
<1>3. ASSUME NEW p \in Procs, Moves(p) PROVE PaymentChanges(k)
  <2>1. CASE Compose(p)
    BY <2>1 DEF PaymentChanges, Compose, ComposeCheck, ComposeInsert, ComposeSkip
  <2>2. CASE Edit(p)
    BY <2>2 DEF PaymentChanges, Edit, AddLineItem, RemoveLineItem, ReadForEdit, WriteLineItems
  <2>3. CASE Issue(p)
    BY <2>3 DEF PaymentChanges, Issue, IssueRead, BoletoRegistered, BoletoUnavailable, IssueWrite,
                IssueConflict
  <2>4. CASE Santander(p)
    BY <2>4 DEF PaymentChanges, Santander, SantanderFind, SantanderIgnore, SantanderAccept
  <2>5. CASE Psp(p)
    <3>1. CASE ParkPayment(p)
      BY <1>1, <3>1
    <3>2. CASE ~ParkPayment(p)
      BY <2>5, <3>2 DEF PaymentChanges, Psp, NoticeForCharge, NoticeMatch, ReadMatched,
                        NoticeUnmatched
    <3> QED
      BY <3>1, <3>2
  <2>6. CASE Reconcile(p)
    <3>1. CASE ReconcileWrite(p)
      BY <1>2, <3>1
    <3>2. CASE ~ReconcileWrite(p)
      BY <2>6, <3>2 DEF PaymentChanges, Reconcile, ReconcileRead, ReconcileReadCharge
    <3> QED
      BY <3>1, <3>2
  <2>7. CASE Overdue(p)
    BY <2>7 DEF PaymentChanges, Overdue, OverdueScan, MarkOverdue
  <2>8. CASE RecordPayment(p)
    BY <1>1, <2>8
  <2>9. CASE Crash(p)
    BY <2>9 DEF PaymentChanges, Crash
  <2> QED
    BY <1>3, <2>1, <2>2, <2>3, <2>4, <2>5, <2>6, <2>7, <2>8, <2>9 DEF Moves
<1>4. CASE \E p \in Procs : Moves(p)
  BY <1>3, <1>4
<1>5. CASE \E b \in Boletos : PayBoleto(b)
  BY <1>5 DEF PayBoleto, PaymentChanges
<1>6. CASE \E s \in Slots : GenerateCharge(s)
  BY <1>6 DEF GenerateCharge, PaymentChanges
<1>7. CASE UNCHANGED vars
  BY <1>7 DEF vars, PaymentChanges
<1> QED
  BY <1>4, <1>5, <1>6, <1>7 DEF Next, Moves

(* A payment that justifies status s of charge c. *)
Backed(c, s) ==
    /\ s = "paid" => \E k \in Payments : payment[k].charge = c /\ payment[k].recon = "matched"
    /\ s = "partially_paid" =>
          \E k \in Payments : payment[k].charge = c /\ payment[k].recon = "partial"

(* The status a handler will write back is backed, and nobody is reconciling. *)
BackedInHand ==
    \A p \in Procs :
        /\ proc[p].pc \in {"check_duplicate", "read_match", "record"} =>
              Backed(proc[p].charge, proc[p].row.pay)
        /\ proc[p].pc \notin {"read_charge", "link"}

(* Without reconciliation by hand, what backs a status goes on backing it. *)
LEMMA BackedStays ==
    ASSUME TypeOK, BackedInHand, [Next]_vars, NEW c, NEW s, Backed(c, s)
    PROVE  Backed(c, s)'
<1>1. ASSUME NEW k \in Payments, payment[k].recon \in {"matched", "partial"}
      PROVE  payment'[k] = payment[k]
  BY <1>1, StepChangesPayment DEF PaymentChanges, InsertedBy, LinkedBy, ReconcileWrite, BackedInHand
<1> QED
  BY <1>1 DEF Backed

LEMMA BackedInHandStep ==
    ASSUME RowInv, "reconcile" \notin Ops, SettledIsBacked, BackedInHand, [Next]_vars
    PROVE  BackedInHand'
<1> SUFFICES ASSUME NEW p \in Procs
             PROVE  /\ proc'[p].pc \in {"check_duplicate", "read_match", "record"} =>
                         Backed(proc[p].charge, proc[p].row.pay)'
                    /\ proc'[p].pc \notin {"read_charge", "link"}
  BY DEF BackedInHand
<1>1. proc'[p] = proc[p] \/ Reaches(proc[p], proc'[p])
  BY OwnMoves, MovesReach DEF RowInv
<1>2. proc'[p].pc \notin {"read_charge", "link"}
  BY <1>1, IdleType DEF BackedInHand, Reaches, Drafted, Editing, Registering, Found, Accepted,
     Noticed, Reread, Parking, Linking, Scanned
<1>3. ASSUME proc'[p].pc \in {"check_duplicate", "read_match", "record"}
      PROVE  Backed(proc[p].charge, proc[p].row.pay)'
  <2>1. proc'[p].charge \in Charges
    BY <1>3, ChargeInHandStep DEF RowInv, ChargeInHand, HoldingCharge
  <2>2. \A c \in Charges : Backed(c, charge[c].pay)
    BY DEF SettledIsBacked, Backed
  <2>3. Backed(proc'[p].charge, proc'[p].row.pay)
    <3>1. CASE proc'[p].row = charge[proc'[p].charge]
      BY <2>1, <2>2, <3>1
    <3>2. CASE /\ proc[p].pc \in {"check_duplicate", "read_match", "record"}
               /\ proc'[p].row = proc[p].row /\ proc'[p].charge = proc[p].charge
      BY <3>2 DEF BackedInHand
    <3> QED
      BY <1>1, <1>3, <3>1, <3>2, IdleType DEF Reaches, Drafted, Editing, Registering, Found,
         Accepted, Noticed, Reread, Parking, Linking, Scanned
  <2>4. ASSUME NEW c, NEW s, Backed(c, s) PROVE Backed(c, s)'
    BY <2>4, BackedStays DEF RowInv
  <2> QED
    BY <2>3, <2>4 DEF Backed
<1> QED
  BY <1>2, <1>3

LEMMA SettledIsBackedStep ==
    ASSUME RowInv, SettledIsBacked, BackedInHand, [Next]_vars
    PROVE  SettledIsBacked'
<1>1. ASSUME NEW c \in Charges, charge'[c].pay \in {charge[c].pay, "open", "overdue"}
      PROVE  Backed(c, charge[c].pay)'
  <2>1. Backed(c, charge[c].pay)
    BY DEF SettledIsBacked, Backed
  <2> DEFINE s == charge[c].pay
  <2>2. Backed(c, s)
    BY <2>1
  <2> QED
    BY <1>1, <2>2, BackedStays DEF RowInv, Backed
<1>2. ASSUME NEW c \in Charges, NEW p \in Procs, SettledBy(p, c)
      PROVE  Backed(c, charge[c].pay)'
  <2>1. RecordPayment(p) /\ c = proc[p].charge
    BY <1>2 DEF SettledBy, ReconcileWrite, BackedInHand
  <2>2. PICK k \in Payments : payment'[k].charge = c /\ payment'[k].recon = proc[p].recon
    BY <2>1 DEF RecordPayment, InsertPayment, RowInv, TypeOK
  <2>3. charge'[c].pay = Settled(proc[p].recon, proc[p].row.pay)
    BY <1>2 DEF SettledBy
  <2>4. CASE proc[p].recon \in {"matched", "partial"}
    BY <2>2, <2>3, <2>4 DEF Settled, Backed
  <2>5. CASE proc[p].recon \notin {"matched", "partial"}
    <3> DEFINE s == proc[p].row.pay
    <3>1. charge'[c].pay = s
      BY <2>3, <2>5 DEF Settled
    <3>2. Backed(c, s)
      BY <2>1 DEF RecordPayment, BackedInHand
    <3> QED
      BY <3>1, <3>2, BackedStays DEF RowInv, Backed
  <2> QED
    BY <2>4, <2>5
<1>3. ASSUME NEW c \in Charges PROVE Backed(c, charge[c].pay)'
  <2>1. charge'[c] = charge[c] \/ RowChanges(c)
    BY StepChangesRow DEF RowInv, Only
  <2> QED
    BY <1>1, <1>2, <2>1 DEF RowChanges, Created, SameButAmount, IssuedBy, MarkedBy
<1> QED
  BY <1>3 DEF SettledIsBacked, Backed

(* As long as nobody reconciles by hand, a charge says "paid" or "partially   *)
(* paid" only while a payment of that kind is on it.                          *)
THEOREM SettledCharges ==
    ASSUME "reconcile" \notin Ops
    PROVE  Spec => []SettledIsBacked
<1>1. Init => SettledIsBacked /\ BackedInHand
  BY IdleType DEF Init, SettledIsBacked, BackedInHand, AbsentRow
<1>2. RowInv /\ SettledIsBacked /\ BackedInHand /\ [Next]_vars
        => (SettledIsBacked /\ BackedInHand)'
  BY SettledIsBackedStep, BackedInHandStep
<1> QED
  BY <1>1, <1>2, RowInvInit, RowInvStep, PTL DEF Spec

-----------------------------------------------------------------------------
(* Payments of boletos *)

(* A boleto that is about to be written on a charge is not known to anybody   *)
(* else: it was not sent, and no other process is about to write it.          *)
BoletoFresh ==
    \A p \in Procs : proc[p].pc = "write_issue" /\ proc[p].boleto \in Boletos =>
        /\ bank[proc[p].boleto].state = "registered"
        /\ \A q \in Procs \ {p} :
              proc[q].pc = "write_issue" => proc[q].boleto # proc[p].boleto

(* What the Santander webhook works on is a paid boleto of its charge, and    *)
(* what the other handlers of payments work on is not a boleto.               *)
PaidInHand ==
    \A p \in Procs :
        /\ proc[p].pc \in {"check_duplicate", "record"} /\ proc[p].ref \in Boletos =>
              /\ bank[proc[p].ref].state = "paid"
              /\ bank[proc[p].ref].charge = proc[p].charge
              /\ bank[proc[p].ref].paid = proc[p].amount
        /\ proc[p].pc \in {"read_match", "park"} => proc[p].ref \notin Boletos
        /\ proc[p].pc \in {"read_match", "record", "link"} => proc[p].recon \in Settling
        /\ proc[p].pc \in {"read_charge", "link"} =>
              \A k \in Payments : k = proc[p].payment =>
                  payment[k].ref \notin Boletos /\ payment[k].recon # "absent"

(* Parked payments are not of boletos. *)
ParkedIsNotBoleto ==
    \A k \in Payments : payment[k].recon \in {"absent", "unmatched"} => payment[k].ref \notin Boletos

(* What a process writes as boleto is one it got from the bank in that step,  *)
(* a mock, or none.                                                           *)
LEMMA WriteIssueNext ==
    ASSUME TypeOK, [Next]_vars, NEW p \in Procs, proc'[p] # proc[p],
           proc'[p].pc = "write_issue", proc'[p].boleto \in Boletos
    PROVE  /\ bank[proc'[p].boleto].state = "free"
           /\ bank'[proc'[p].boleto].state = "registered"
           /\ charge' = charge
<1>1. Registering(proc[p], proc'[p]) /\ Moves(p)
  BY OwnMoves, MovesReach, IdleType DEF Reaches, Drafted, Editing, Found, Accepted,
     Noticed, Reread, Parking, Linking, Scanned
<1>2. BoletoRegistered(p) \/ BoletoUnavailable(p)
  BY <1>1, RequestBoletoNext DEF Registering
<1>3. CASE BoletoRegistered(p)
  <2>1. PICK b \in Boletos :
          /\ bank[b].state = "free"
          /\ bank' = [bank EXCEPT ![b] = [state |-> "registered", charge |-> proc[p].charge,
                                          amount |-> proc[p].row.net, paid |-> 0]]
          /\ GotBoleto(p, b) \/ GotBoleto(p, Mock)
    BY <1>3 DEF BoletoRegistered
  <2>2. proc'[p].boleto = b
    BY <2>1, BillingAssumption DEF TypeOK, ProcState, GotBoleto
  <2> QED
    BY <1>3, <2>1, <2>2 DEF TypeOK, BoletoRegistered
<1>4. CASE BoletoUnavailable(p)
  <2>1. PICK got \in {Mock, None} : GotBoleto(p, got)
    BY <1>4 DEF BoletoUnavailable
  <2>2. proc'[p].boleto \in {Mock, None}
    BY <2>1 DEF TypeOK, ProcState, GotBoleto
  <2> QED
    BY <2>2, BillingAssumption
<1> QED
  BY <1>2, <1>3, <1>4

LEMMA BoletoFreshStep ==
    ASSUME RowInv, BoletoInHand, BoletoFresh, [Next]_vars
    PROVE  BoletoFresh'
<1> SUFFICES ASSUME NEW p \in Procs, proc'[p].pc = "write_issue", proc'[p].boleto \in Boletos
             PROVE  /\ bank'[proc'[p].boleto].state = "registered"
                    /\ \A q \in Procs \ {p} :
                          proc'[q].pc = "write_issue" => proc'[q].boleto # proc'[p].boleto
  BY DEF BoletoFresh
<1> DEFINE b == proc'[p].boleto
<1>1. ASSUME NEW q \in Procs, NEW r \in Procs, q # r,
             proc'[q].pc = "write_issue", proc'[r].pc = "write_issue",
             proc'[q].boleto = b, proc'[r].boleto = b, proc'[q] = proc[q]
      PROVE  FALSE
  <2>1. bank[b].state = "registered"
    BY <1>1 DEF BoletoFresh
  <2>2. CASE proc'[r] = proc[r]
    BY <1>1, <2>2 DEF BoletoFresh
  <2>3. CASE proc'[r] # proc[r]
    BY <1>1, <2>1, <2>3, WriteIssueNext DEF RowInv
  <2> QED
    BY <2>2, <2>3
<1>2. ASSUME NEW q \in Procs \ {p}, proc'[q].pc = "write_issue", proc'[q].boleto = b
      PROVE  FALSE
  <2>1. proc'[q] = proc[q] \/ proc'[p] = proc[p]
    BY OneMover DEF RowInv
  <2> QED
    BY <1>1, <1>2, <2>1
<1>3. bank'[b].state = "registered"
  <2>1. CASE proc'[p] # proc[p]
    BY <2>1, WriteIssueNext DEF RowInv
  <2>2. CASE proc'[p] = proc[p]
    <3>1. proc[p].pc = "write_issue" /\ proc[p].boleto = b /\ bank[b].state = "registered"
      BY <2>2 DEF BoletoFresh
    <3>2. ASSUME NEW q \in Procs, Shown(q, b) PROVE FALSE
      <4>1. proc[q].pc = "write_issue" /\ proc[q].boleto = b /\ Finish(q)
        BY <3>2 DEF Shown, IssueWrite
      <4>2. q = p
        BY <3>1, <4>1 DEF BoletoFresh
      <4> QED
        BY <4>1, <4>2, IdleType DEF Finish, RowInv, TypeOK
    <3>3. BoletoChanges(b)
      BY StepChangesBoleto DEF RowInv
    <3> QED
      BY <3>1, <3>2, <3>3 DEF BoletoChanges, Paid, Registered
  <2> QED
    BY <2>1, <2>2
<1> QED
  BY <1>2, <1>3

(* A paid boleto is settled once and for all. *)
LEMMA PaidStays ==
    ASSUME TypeOK, BoletoFresh, [Next]_vars, NEW b \in Boletos, bank[b].state = "paid"
    PROVE  bank'[b] = bank[b]
<1>1. BoletoChanges(b)
  BY StepChangesBoleto
<1>2. ASSUME NEW p \in Procs, Shown(p, b) PROVE FALSE
  BY <1>2 DEF Shown, IssueWrite, BoletoFresh
<1> QED
  BY <1>1, <1>2 DEF BoletoChanges, Paid, Registered

LEMMA PaidInHandStep ==
    ASSUME RowInv, BoletoFresh, StoredBoletoIsOwn, PaidInHand, ParkedIsNotBoleto, [Next]_vars
    PROVE  PaidInHand'
<1>0. \A r \in PixRefs : r \notin Boletos
  BY BillingAssumption
<1>1. ASSUME NEW p \in Procs PROVE proc'[p] = proc[p] \/ Reaches(proc[p], proc'[p])
  BY OwnMoves, MovesReach DEF RowInv
<1>2. ASSUME NEW p \in Procs,
             proc'[p].pc \in {"check_duplicate", "record"}, proc'[p].ref \in Boletos
      PROVE  /\ bank'[proc'[p].ref].state = "paid"
             /\ bank'[proc'[p].ref].charge = proc'[p].charge
             /\ bank'[proc'[p].ref].paid = proc'[p].amount
  <2> DEFINE b == proc'[p].ref
  <2>1. bank[b].state = "paid" /\ bank[b].charge = proc'[p].charge /\ bank[b].paid = proc'[p].amount
    <3>1. CASE Found(proc'[p])
      BY <3>1 DEF Found, StoredBoletoIsOwn
    <3>2. CASE proc'[p] = proc[p] \/ Accepted(proc[p], proc'[p])
      BY <1>2, <3>2 DEF Accepted, PaidInHand
    <3>3. ~Noticed(proc'[p]) /\ ~Reread(proc[p], proc'[p])
      BY <1>0, <1>2 DEF Noticed, Reread, PaidInHand
    <3> QED
      BY <1>1, <1>2, <3>1, <3>2, <3>3, IdleType DEF Reaches, Drafted, Editing, Registering, Parking,
         Linking, Scanned
  <2>2. bank'[b] = bank[b]
    BY <1>2, <2>1, PaidStays DEF RowInv
  <2> QED
    BY <2>1, <2>2
<1>3. ASSUME NEW p \in Procs, proc'[p].pc \in {"read_match", "park"}
      PROVE  proc'[p].ref \notin Boletos
  BY <1>0, <1>1, <1>3, IdleType DEF PaidInHand, Reaches, Drafted, Editing, Registering, Found,
     Accepted, Noticed, Reread, Parking, Linking, Scanned
<1>4. ASSUME NEW p \in Procs, proc'[p].pc \in {"read_match", "record", "link"}
      PROVE  proc'[p].recon \in Settling
  BY <1>1, <1>4, IdleType DEF PaidInHand, Reaches, Drafted, Editing, Registering, Found,
     Accepted, Noticed, Reread, Parking, Linking, Scanned
<1>5. ASSUME NEW p \in Procs, proc'[p].pc \in {"read_charge", "link"},
             NEW k \in Payments, k = proc'[p].payment
      PROVE  payment'[k].ref \notin Boletos /\ payment'[k].recon # "absent"
  <2>1. payment[k].ref \notin Boletos /\ payment[k].recon # "absent"
    <3>1. CASE proc'[p] = proc[p]
      BY <1>5, <3>1 DEF PaidInHand
    <3>2. CASE Linking(proc[p], proc'[p])
      BY <1>5, <3>2 DEF Linking, PaidInHand, ParkedIsNotBoleto
    <3> QED
      BY <1>1, <1>5, <3>1, <3>2, IdleType DEF Reaches, Drafted, Editing, Registering, Found,
         Accepted, Noticed, Reread, Parking, Scanned
  <2>2. PaymentChanges(k)
    BY StepChangesPayment DEF RowInv
  <2> QED
    BY <2>1, <2>2 DEF PaymentChanges, InsertedBy, LinkedBy, ReconcileWrite, PaidInHand, Settling
<1> QED
  BY <1>2, <1>3, <1>4, <1>5 DEF PaidInHand

LEMMA ParkedIsNotBoletoStep ==
    ASSUME RowInv, PaidInHand, ParkedIsNotBoleto, [Next]_vars
    PROVE  ParkedIsNotBoleto'
<1> SUFFICES ASSUME NEW k \in Payments, payment'[k].recon \in {"absent", "unmatched"}
             PROVE  payment'[k].ref \notin Boletos
  BY DEF ParkedIsNotBoleto
<1>1. PaymentChanges(k)
  BY StepChangesPayment DEF RowInv
<1>2. ASSUME NEW p \in Procs, InsertedBy(p, k) PROVE payment'[k].ref \notin Boletos
  BY <1>2 DEF InsertedBy, RecordPayment, ParkPayment, PaidInHand, Settling
<1>3. ASSUME NEW p \in Procs, LinkedBy(p, k) PROVE FALSE
  BY <1>3 DEF LinkedBy, ReconcileWrite, PaidInHand, Settling
<1> QED
  BY <1>1, <1>2, <1>3 DEF PaymentChanges, ParkedIsNotBoleto

LEMMA BoletoPaymentStep ==
    ASSUME RowInv, BoletoFresh, PaidInHand, BoletoPaymentOnOwnCharge, [Next]_vars
    PROVE  BoletoPaymentOnOwnCharge'
<1> SUFFICES ASSUME NEW k \in Payments, payment'[k].ref \in Boletos
             PROVE  /\ payment'[k].charge = bank'[payment'[k].ref].charge
                    /\ bank'[payment'[k].ref].state = "paid"
                    /\ payment'[k].amount = bank'[payment'[k].ref].paid
  BY DEF BoletoPaymentOnOwnCharge
<1> DEFINE b == payment'[k].ref
<1>1. /\ payment'[k].charge = bank[b].charge /\ bank[b].state = "paid"
      /\ payment'[k].amount = bank[b].paid
  <2>1. PaymentChanges(k)
    BY StepChangesPayment DEF RowInv
  <2>2. ASSUME NEW p \in Procs, InsertedBy(p, k)
        PROVE  /\ payment'[k].charge = bank[b].charge /\ bank[b].state = "paid"
               /\ payment'[k].amount = bank[b].paid
    BY <2>2 DEF InsertedBy, RecordPayment, ParkPayment, PaidInHand
  <2>3. ASSUME NEW p \in Procs, LinkedBy(p, k) PROVE FALSE
    BY <2>3 DEF LinkedBy, ReconcileWrite, PaidInHand
  <2> QED
    BY <2>1, <2>2, <2>3 DEF PaymentChanges, BoletoPaymentOnOwnCharge
<1>2. bank'[b] = bank[b]
  BY <1>1, PaidStays DEF RowInv
<1> QED
  BY <1>1, <1>2

BoletoInv == /\ RowInv /\ BoletoInHand /\ StoredBoletoIsOwn /\ BoletoFresh
             /\ PaidInHand /\ ParkedIsNotBoleto

(* Whatever is delivered twice, late or cut short, a payment of a boleto is   *)
(* on the charge the boleto was made for, with the amount that was paid.      *)
THEOREM BoletoPayments == Spec => []BoletoPaymentOnOwnCharge
<1>1. Init => BoletoInv /\ BoletoPaymentOnOwnCharge
  BY RowInvInit, IdleType, BillingAssumption DEF Init, BoletoInv, BoletoInHand, StoredBoletoIsOwn,
     BoletoFresh, PaidInHand, ParkedIsNotBoleto, BoletoPaymentOnOwnCharge, AbsentRow, AbsentPayment
<1>2. BoletoInv /\ [Next]_vars => BoletoInv'
  BY RowInvStep, BoletoInHandStep, StoredBoletoIsOwnStep, BoletoFreshStep, PaidInHandStep,
     ParkedIsNotBoletoStep DEF BoletoInv
<1>3. BoletoInv /\ BoletoPaymentOnOwnCharge /\ [Next]_vars => BoletoPaymentOnOwnCharge'
  BY BoletoPaymentStep DEF BoletoInv
<1> QED
  BY <1>1, <1>2, <1>3, PTL DEF Spec
=============================================================================
