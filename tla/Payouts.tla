------------------------------- MODULE Payouts -------------------------------
(***************************************************************************)
(* One month of an owner's money in apps/api-node: the Radar captures the  *)
(* bills of a property, the Pagador pays the approved ones and announces   *)
(* what each owner gets, while people onboard, suspend and terminate the   *)
(* contracts and tenants pay.                                              *)
(*                                                                         *)
(* A task is the run of its handler (module AgentTasks has the pipeline    *)
(* around it).  Captures, paid bills and payouts are announced as domain   *)
(* events; no row says that an announcement was made.                      *)
(***************************************************************************)
EXTENDS Integers, FiniteSets, Functions

CONSTANTS
    Contracts,  \* lease contracts, each with one issued charge for the month
    Owners,
    Owner,      \* the owner of each contract
    Homes,
    Home,       \* the property of each contract
    Bills,      \* keys of property_expenses: property and type, this month
    BillHome,   \* the property of each
    Values,     \* amounts the Radar may read on a bill
    Net, Fee,   \* net amount of a charge, and the fee on its gross amount
    Tasks,      \* ids of agent_tasks rows
    People,     \* people who change the status of contracts
    Requests,   \* the changes they ask for: contracts and their next status
    MaxStalled, \* BullMQ's maxStalledCount
    MaxFaults,  \* bound: deaths of workers and events that are lost
    None

ASSUME PayoutsAssumption ==
    /\ IsFiniteSet(Contracts) /\ IsFiniteSet(Bills)
    /\ Owner \in [Contracts -> Owners]
    /\ Home \in [Contracts -> Homes] /\ BillHome \in [Bills -> Homes]
    /\ Values \subseteq Nat /\ Net \in Nat /\ Fee \in 0 .. Net
    /\ MaxStalled \in Nat /\ MaxFaults \in Nat
    /\ Requests \subseteq Contracts \X {"active", "suspended", "terminated"}
    /\ None \notin Contracts \cup Bills

VARIABLES
    contract,   \* operationalStatus of each lease contract
    paid,       \* contracts whose charge of the month is paid
    expense,    \* rows of property_expenses
    task,       \* what each task is doing
    person,     \* the contract each person has read, and its next status
    captured,   \* expense.captured events of each bill
    billsPaid,  \* payout.bills_paid events: the amounts
    payouts,    \* payout.completed events
    faults

vars == <<contract, paid, expense, task, person, captured, billsPaid, payouts, faults>>

\* left is what a loop has still to do; total the amount payBills has added up;
\* for a payout run, active holds the contracts it selected, counted those whose
\* charge it read as paid and spent the bills it read for each contract;
\* before is the set of bills that were paid when it began.
IdleTask == [kind |-> "none", pc |-> "absent", bill |-> None, left |-> {}, total |-> 0,
             contract |-> None, active |-> {}, counted |-> {},
             spent |-> [c \in Contracts |-> 0], before |-> {}, stalls |-> 0]

Idle == [contract |-> None, to |-> "absent"]

\* Some contracts are active and some bills approved when the month begins.
Init ==
    /\ contract \in [Contracts -> {"absent", "active"}]
    /\ paid = {}
    /\ expense \in [Bills -> {[status |-> "absent", value |-> 0]}
                                \cup [status : {"approved"}, value : Values]]
    /\ task = [t \in Tasks |-> IdleTask]
    /\ person = [p \in People |-> Idle]
    /\ captured = [b \in Bills |-> 0]
    /\ billsPaid = {} /\ payouts = {}
    /\ faults = 0

Fault == faults < MaxFaults /\ faults' = faults + 1

-----------------------------------------------------------------------------
(* Contracts *)

\* onboardContract: one transaction.
Onboard(c) ==
    /\ contract[c] = "absent"
    /\ contract' = [contract EXCEPT ![c] = "pending_onboarding"]
    /\ UNCHANGED <<paid, expense, task, person, captured, billsPaid, payouts, faults>>

\* VALID_TRANSITIONS.
Transitions == {<<"pending_onboarding", "active">>,
                <<"active", "suspended">>, <<"active", "terminated">>,
                <<"suspended", "active">>, <<"suspended", "terminated">>}

\* Mutant of MayBecome: a contract can be deleted, and activated, from any status.
MayBecomeAgain(from, to) ==
    \/ <<from, to>> \in Transitions
    \/ to = "terminated" /\ from # "absent"
    \/ to = "active" /\ from # "absent"

\* transitionContractStatus and activateContract check the table; deleteContract
\* terminates whatever is not terminated.
MayBecome(from, to) ==
    \/ <<from, to>> \in Transitions
    \/ to = "terminated" /\ from \notin {"absent", "terminated"}

\* The status is read and checked, ...
ReadStatus(p, c, to) ==
    /\ person[p] = Idle
    /\ MayBecome(contract[c], to)
    /\ person' = [person EXCEPT ![p] = [contract |-> c, to |-> to]]
    /\ UNCHANGED <<contract, paid, expense, task, captured, billsPaid, payouts, faults>>

\* ... then written, by id.
WriteStatus(p) ==
    /\ person[p] # Idle
    /\ contract' = [contract EXCEPT ![person[p].contract] = person[p].to]
    /\ person' = [person EXCEPT ![p] = Idle]
    /\ UNCHANGED <<paid, expense, task, captured, billsPaid, payouts, faults>>

\* The charge of the month is issued and paid (module Billing).
TenantPays(c) ==
    /\ contract[c] # "absent" /\ c \notin paid
    /\ paid' = paid \cup {c}
    /\ UNCHANGED <<contract, expense, task, person, captured, billsPaid, payouts, faults>>

-----------------------------------------------------------------------------
(* The Radar *)

Start(t, kind, b) ==
    /\ task[t].pc = "absent"
    /\ task' = [task EXCEPT ![t].kind = kind, ![t].pc = "waiting", ![t].bill = b]
    /\ UNCHANGED <<contract, paid, expense, person, captured, billsPaid, payouts, faults>>

\* A bill arrives by e-mail or WhatsApp, perhaps by both.
BillArrives(t, b) == Start(t, "radar", b)

Take(t, kind) == task[t].kind = kind /\ task[t].pc = "waiting"

\* Mutant of RadarCapture: a bill that is already there is announced again.
RadarCaptureAgain(t) ==
    LET b == task[t].bill IN
    /\ Take(t, "radar")
    /\ task' = [task EXCEPT ![t].pc = "announce"]
    /\ \E v \in Values :
        expense' = IF expense[b].status = "absent"
                   THEN [expense EXCEPT ![b] = [status |-> "captured", value |-> v]] ELSE expense
    /\ UNCHANGED <<contract, paid, person, captured, billsPaid, payouts, faults>>

\* The row is inserted, unless property_expenses_idempotency_idx has one for
\* the property, type and month.  A bill that is read badly, or matches no
\* property, is left to a person.
RadarCapture(t) ==
    LET b == task[t].bill IN
    /\ Take(t, "radar")
    /\ \/ /\ expense[b].status = "absent"
          /\ \E v \in Values :
                expense' = [expense EXCEPT ![b] = [status |-> "captured", value |-> v]]
          /\ task' = [task EXCEPT ![t].pc = "announce"]
       \/ task' = [task EXCEPT ![t].pc = "done"] /\ UNCHANGED expense
    /\ UNCHANGED <<contract, paid, person, captured, billsPaid, payouts, faults>>

\* emitDomainEvent; an error is logged.
RadarAnnounce(t) ==
    LET b == task[t].bill IN
    /\ task[t].pc = "announce"
    /\ \/ captured' = [captured EXCEPT ![b] = @ + 1] /\ UNCHANGED faults
       \/ UNCHANGED captured /\ Fault
    /\ task' = [task EXCEPT ![t].pc = "done"]
    /\ UNCHANGED <<contract, paid, expense, person, billsPaid, payouts>>

\* No code approves a bill: somebody does it in the database.
ApproveBill(b) ==
    /\ expense[b].status = "captured"
    /\ expense' = [expense EXCEPT ![b].status = "approved"]
    /\ UNCHANGED <<contract, paid, task, person, captured, billsPaid, payouts, faults>>

-----------------------------------------------------------------------------
(* The Pagador: bills *)

\* payBills selects the approved bills ...
SelectBills(t) ==
    /\ Take(t, "pay_bills")
    /\ task' = [task EXCEPT ![t].pc = "pay",
                            ![t].left = {b \in Bills : expense[b].status = "approved"}]
    /\ UNCHANGED <<contract, paid, expense, person, captured, billsPaid, payouts, faults>>

\* ... marks each one paid, by id, and adds it up, ...
PayBill(t) ==
    /\ task[t].pc = "pay"
    /\ \E b \in task[t].left :
        /\ expense' = [expense EXCEPT ![b].status = "paid"]
        /\ task' = [task EXCEPT ![t].left = @ \ {b}, ![t].total = @ + expense[b].value]
    /\ UNCHANGED <<contract, paid, person, captured, billsPaid, payouts, faults>>

\* ... and announces the sum.
AnnounceBills(t) ==
    /\ task[t].pc = "pay" /\ task[t].left = {}
    /\ \/ billsPaid' = billsPaid \cup {[task |-> t, total |-> task[t].total]} /\ UNCHANGED faults
       \/ UNCHANGED billsPaid /\ Fault
    /\ task' = [task EXCEPT ![t].pc = "done"]
    /\ UNCHANGED <<contract, paid, expense, person, captured, payouts>>

-----------------------------------------------------------------------------
(* The Pagador: payouts *)

Sum(fun, S) == SumFunctionOnSet(fun, S)

\* The paid bills of the property of a contract.
BillsOf(c, S) ==
    Sum([b \in Bills |-> expense[b].value], {b \in S : BillHome[b] = Home[c]})

PaidBills == {b \in Bills : expense[b].status = "paid"}

\* calculatePayouts selects the active contracts and groups them by owner.
SelectContracts(t) ==
    LET active == {c \in Contracts : contract[c] = "active"} IN
    /\ Take(t, "payout")
    /\ task' = [task EXCEPT ![t].pc = "charges", ![t].left = active, ![t].active = active,
                            ![t].before = PaidBills]
    /\ UNCHANGED <<contract, paid, expense, person, captured, billsPaid, payouts, faults>>

\* Mutant of ReadCharges: open charges count as received.
ReadAnyCharges(t) ==
    /\ task[t].pc = "charges"
    /\ \E c \in task[t].left :
        task' = [task EXCEPT ![t].pc = "bills", ![t].contract = c, ![t].counted = @ \cup {c}]
    /\ UNCHANGED <<contract, paid, expense, person, captured, billsPaid, payouts, faults>>

\* Contract after contract: its paid charges ...
ReadCharges(t) ==
    /\ task[t].pc = "charges"
    /\ \E c \in task[t].left :
        task' = [task EXCEPT ![t].pc = "bills", ![t].contract = c,
                             ![t].counted = @ \cup ({c} \cap paid)]
    /\ UNCHANGED <<contract, paid, expense, person, captured, billsPaid, payouts, faults>>

\* ... and the paid bills of its property.
ReadBills(t) ==
    LET c == task[t].contract IN
    /\ task[t].pc = "bills"
    /\ task' = [task EXCEPT ![t].pc = "charges", ![t].contract = None, ![t].left = @ \ {c},
                            ![t].spent[c] = BillsOf(c, PaidBills)]
    /\ UNCHANGED <<contract, paid, expense, person, captured, billsPaid, payouts, faults>>

OwnedBy(o, S) == {c \in S : Owner[c] = o}

Received(S) == Cardinality(S) * (Net - Fee)

\* netPayout, which is never negative.
NetPayout(t, o) ==
    LET net == Received(OwnedBy(o, task[t].counted))
                 - Sum(task[t].spent, OwnedBy(o, task[t].active))
    IN  IF net > 0 THEN net ELSE 0

\* When all are read, the payouts are announced, owner after owner.
CountOwners(t) ==
    /\ task[t].pc = "charges" /\ task[t].left = {}
    /\ task' = [task EXCEPT ![t].pc = "payouts", ![t].left = {Owner[c] : c \in task[t].active}]
    /\ UNCHANGED <<contract, paid, expense, person, captured, billsPaid, payouts, faults>>

AnnouncePayout(t) ==
    /\ task[t].pc = "payouts"
    /\ \E o \in task[t].left :
        LET own == OwnedBy(o, task[t].active)
            payout == [task |-> t, run |-> task[t].stalls, contracts |-> own,
                       net |-> NetPayout(t, o),
                       before |-> Sum([c \in Contracts |-> BillsOf(c, task[t].before)], own)]
        IN  /\ \/ payouts' = payouts \cup {payout} /\ UNCHANGED faults
               \/ UNCHANGED payouts /\ Fault
            /\ task' = [task EXCEPT ![t].left = @ \ {o}]
    /\ UNCHANGED <<contract, paid, expense, person, captured, billsPaid>>

PayoutsEnd(t) ==
    /\ task[t].pc = "payouts" /\ task[t].left = {}
    /\ task' = [task EXCEPT ![t].pc = "done"]
    /\ UNCHANGED <<contract, paid, expense, person, captured, billsPaid, payouts, faults>>

\* The worker dies: BullMQ hands the job out again, MaxStalled times, and the
\* handler starts over.  Or the database refuses a statement: the handler throws,
\* and its task has failed.
Crash(t) ==
    /\ task[t].pc \notin {"absent", "waiting", "done"}
    /\ Fault
    /\ \E pc \in {"done"} \cup (IF task[t].stalls < MaxStalled THEN {"waiting"} ELSE {}) :
        task' = [task EXCEPT ![t] =
                    [IdleTask EXCEPT !.kind = task[t].kind, !.bill = task[t].bill,
                                     !.pc = pc, !.stalls = task[t].stalls + 1]]
    /\ UNCHANGED <<contract, paid, expense, person, captured, billsPaid, payouts>>

-----------------------------------------------------------------------------
Next ==
    \/ \E c \in Contracts : Onboard(c) \/ TenantPays(c)
    \/ \E p \in People :
          WriteStatus(p) \/ \E req \in Requests : ReadStatus(p, req[1], req[2])
    \/ \E t \in Tasks, b \in Bills : BillArrives(t, b)
    \/ \E t \in Tasks : Start(t, "pay_bills", None) \/ Start(t, "payout", None)
    \/ \E t \in Tasks : RadarCapture(t) \/ RadarAnnounce(t)
    \/ \E b \in Bills : ApproveBill(b)
    \/ \E t \in Tasks : SelectBills(t) \/ PayBill(t) \/ AnnounceBills(t)
    \/ \E t \in Tasks : SelectContracts(t) \/ ReadCharges(t) \/ ReadBills(t)
    \/ \E t \in Tasks : CountOwners(t) \/ AnnouncePayout(t) \/ PayoutsEnd(t)
    \/ \E t \in Tasks : Crash(t)

Spec == Init /\ [][Next]_vars

-----------------------------------------------------------------------------
(* Properties *)

\* c is terminated, and nobody has read it before it was.
Closed(c) == contract[c] = "terminated" /\ \A p \in People : person[p].contract # c

(* "terminated: [] // terminal state": neither a transition, an activation *)
(* nor a deletion revives a contract that is terminated and that nobody    *)
(* had in hand by then, however many people change contracts.              *)
TerminatedIsFinal == [][\A c \in Contracts : Closed(c) => Closed(c)']_vars

(* A bill that arrives twice, or whose task runs again after a death, is   *)
(* captured once: one announcement at most, and only of a row that exists. *)
CapturedOnce ==
    \A b \in Bills : captured[b] <= IF expense[b].status = "absent" THEN 0 ELSE 1

(* A payout is covered.  Though it is put together from many reads while   *)
(* tenants pay, bills are paid and contracts change, no owner is announced *)
(* more than what the charges of the contracts had brought in, less the    *)
(* fee and less the bills that were paid before the run began.             *)
PayoutIsCovered ==
    \A p \in payouts :
        p.net = 0 \/ p.net + p.before <= Received(p.contracts \cap paid)
=============================================================================
