---------------------------- MODULE PayoutsProofs ----------------------------
(* Theorems about Payouts for any number of contracts, bills, tasks and     *)
(* faults.                                                                  *)
EXTENDS Payouts, FiniteSetTheorems, TLAPS

-----------------------------------------------------------------------------
(* The inductive invariant of the captures *)

(* A task is a record of these fields, whatever is in them. *)
IsTask(x) ==
    x \in [kind : {x.kind}, pc : {x.pc}, bill : {x.bill}, left : {x.left}, total : {x.total},
           contract : {x.contract}, active : {x.active}, counted : {x.counted},
           spent : {x.spent}, before : {x.before}, stalls : {x.stalls}]

IsExpense(x) == x = [status |-> x.status, value |-> x.value]

Shape ==
    /\ DOMAIN task = Tasks /\ task = [t \in Tasks |-> task[t]]
    /\ \A t \in Tasks : IsTask(task[t])
    /\ expense = [b \in Bills |-> expense[b]]
    /\ \A b \in Bills : IsExpense(expense[b])
    /\ captured \in [Bills -> Nat]

(* A task that is about to announce a bill is the one that inserted its     *)
(* row, and has not announced it yet.                                       *)
Announcing(t) ==
    /\ task[t].kind = "radar" => task[t].bill \in Bills
    /\ task[t].pc = "announce" =>
          /\ task[t].kind = "radar"
          /\ expense[task[t].bill].status # "absent"
          /\ captured[task[t].bill] = 0
          /\ \A u \in Tasks : task[u].pc = "announce" /\ task[u].bill = task[t].bill => u = t

Inv == Shape /\ CapturedOnce /\ \A t \in Tasks : Announcing(t)

LEMMA InvInit == Init => Inv
<1> SUFFICES ASSUME Init PROVE Inv
  OBVIOUS
<1>1. Shape
  <2>1. /\ \A t \in Tasks : task[t] = IdleTask
        /\ IsTask(IdleTask)
    BY DEF Init, IdleTask, IsTask
  <2>2. expense = [b \in Bills |-> expense[b]] /\ \A b \in Bills : IsExpense(expense[b])
    BY DEF Init, IsExpense
  <2> QED
    BY <2>1, <2>2 DEF Init, Shape
<1>2. CapturedOnce /\ \A t \in Tasks : Announcing(t)
  BY DEF Init, CapturedOnce, Announcing, IdleTask
<1> QED
  BY <1>1, <1>2 DEF Inv

-----------------------------------------------------------------------------
(* Steps that capture nothing *)

(* Bills never become absent. *)
Recorded ==
    /\ expense' = [b \in Bills |-> expense'[b]]
    /\ \A b \in Bills :
          /\ IsExpense(expense'[b])
          /\ expense[b].status # "absent" => expense'[b].status # "absent"

(* A task that goes on with its bill and announces none. *)
Quiet(t, x) ==
    /\ IsTask(x)
    /\ x.kind = "radar" => x.bill \in Bills
    /\ x.pc # "announce"

LEMMA TaskAt ==
    ASSUME Inv, NEW t \in Tasks
    PROVE  /\ IsTask(task[t])
           /\ task[t].kind = "radar" \/ task[t].pc = "announce" => task[t].bill \in Bills
BY DEF Inv, Shape, Announcing

LEMMA QuietStep ==
    ASSUME Inv, Recorded, captured' = captured,
           \/ task' = task
           \/ \E t \in Tasks : \E x : Quiet(t, x) /\ task' = [task EXCEPT ![t] = x]
    PROVE  Inv'
<1>1. \A u \in Tasks : task'[u] = task[u] \/ Quiet(u, task'[u])
  BY DEF Inv, Shape, Quiet
<1>2. Shape'
  BY <1>1 DEF Inv, Shape, Recorded, Quiet
<1>3. CapturedOnce'
  BY DEF Inv, Shape, Recorded, CapturedOnce
<1>4. \A t \in Tasks : Announcing(t)'
  BY <1>1 DEF Inv, Recorded, Announcing, Quiet
<1> QED
  BY <1>2, <1>3, <1>4 DEF Inv

LEMMA SameBills == Inv /\ expense' = expense => Recorded
BY DEF Inv, Shape, Recorded

LEMMA StartStep ==
    ASSUME Inv, NEW t \in Tasks, NEW kind, NEW b, kind = "radar" => b \in Bills, Start(t, kind, b)
    PROVE  Inv'
<1> DEFINE x == [task[t] EXCEPT !.kind = kind, !.pc = "waiting", !.bill = b]
<1>1. task' = [task EXCEPT ![t] = x] /\ UNCHANGED <<expense, captured>>
  BY DEF Start
<1>2. Quiet(t, x)
  BY TaskAt DEF Quiet, IsTask
<1> HIDE DEF x
<1> QED
  BY <1>1, <1>2, QuietStep, SameBills

LEMMA SelectBillsStep ==
    ASSUME Inv, NEW t \in Tasks, SelectBills(t)
    PROVE  Inv'
<1> DEFINE x == [task[t] EXCEPT !.pc = "pay", !.left = {b \in Bills : expense[b].status = "approved"}]
<1>1. /\ task[t].kind = "pay_bills"
      /\ task' = [task EXCEPT ![t] = x]
      /\ UNCHANGED <<expense, captured>>
  BY DEF SelectBills, Take
<1>2. Quiet(t, x)
  BY TaskAt DEF Quiet, IsTask
<1> HIDE DEF x
<1> QED
  BY <1>1, <1>2, QuietStep, SameBills

LEMMA AnnounceBillsStep ==
    ASSUME Inv, NEW t \in Tasks, AnnounceBills(t)
    PROVE  Inv'
<1> DEFINE x == [task[t] EXCEPT !.pc = "done"]
<1>1. /\ task[t].pc = "pay"
      /\ task' = [task EXCEPT ![t] = x]
      /\ UNCHANGED <<expense, captured>>
  BY DEF AnnounceBills
<1>2. Quiet(t, x)
  BY TaskAt DEF Quiet, IsTask
<1> HIDE DEF x
<1> QED
  BY <1>1, <1>2, QuietStep, SameBills

LEMMA SelectContractsStep ==
    ASSUME Inv, NEW t \in Tasks, SelectContracts(t)
    PROVE  Inv'
<1> DEFINE active == {c \in Contracts : contract[c] = "active"}
           before == PaidBills
           x == [task[t] EXCEPT !.pc = "charges", !.left = active, !.active = active,
                                !.before = before]
<1>1. /\ task[t].kind = "payout"
      /\ task' = [task EXCEPT ![t] = x]
      /\ UNCHANGED <<expense, captured>>
  BY DEF SelectContracts, Take
<1> HIDE DEF active, before
<1>2. Quiet(t, x)
  BY TaskAt DEF Quiet, IsTask
<1> HIDE DEF x
<1> QED
  BY <1>1, <1>2, QuietStep, SameBills

LEMMA ReadBillsStep ==
    ASSUME Inv, NEW t \in Tasks, ReadBills(t)
    PROVE  Inv'
<1> DEFINE c == task[t].contract
           left == task[t].left \ {c}
           spent == [task[t].spent EXCEPT ![c] = BillsOf(c, PaidBills)]
           x == [task[t] EXCEPT !.pc = "charges", !.contract = None, !.left = left,
                                !.spent = spent]
<1>1. /\ task[t].pc = "bills"
      /\ task' = [task EXCEPT ![t] = x]
      /\ UNCHANGED <<expense, captured>>
  BY DEF ReadBills
<1> HIDE DEF left, spent
<1>2. Quiet(t, x)
  BY TaskAt DEF Quiet, IsTask
<1> HIDE DEF x
<1> QED
  BY <1>1, <1>2, QuietStep, SameBills

LEMMA CountOwnersStep ==
    ASSUME Inv, NEW t \in Tasks, CountOwners(t)
    PROVE  Inv'
<1> DEFINE x == [task[t] EXCEPT !.pc = "payouts", !.left = {Owner[c] : c \in task[t].active}]
<1>1. /\ task[t].pc = "charges"
      /\ task' = [task EXCEPT ![t] = x]
      /\ UNCHANGED <<expense, captured>>
  BY DEF CountOwners
<1>2. Quiet(t, x)
  BY TaskAt DEF Quiet, IsTask
<1> HIDE DEF x
<1> QED
  BY <1>1, <1>2, QuietStep, SameBills

LEMMA PayoutsEndStep ==
    ASSUME Inv, NEW t \in Tasks, PayoutsEnd(t)
    PROVE  Inv'
<1> DEFINE x == [task[t] EXCEPT !.pc = "done"]
<1>1. /\ task[t].pc = "payouts"
      /\ task' = [task EXCEPT ![t] = x]
      /\ UNCHANGED <<expense, captured>>
  BY DEF PayoutsEnd
<1>2. Quiet(t, x)
  BY TaskAt DEF Quiet, IsTask
<1> HIDE DEF x
<1> QED
  BY <1>1, <1>2, QuietStep, SameBills

LEMMA CrashStep ==
    ASSUME Inv, NEW t \in Tasks, Crash(t)
    PROVE  Inv'
<1>0. PICK pc \in {"done"} \cup (IF task[t].stalls < MaxStalled THEN {"waiting"} ELSE {}) :
        task' = [task EXCEPT ![t] =
                    [IdleTask EXCEPT !.kind = task[t].kind, !.bill = task[t].bill,
                                     !.pc = pc, !.stalls = task[t].stalls + 1]]
  BY DEF Crash
<1> DEFINE x == [IdleTask EXCEPT !.kind = task[t].kind, !.bill = task[t].bill,
                                  !.pc = pc, !.stalls = task[t].stalls + 1]
<1>1. /\ task' = [task EXCEPT ![t] = x]
      /\ UNCHANGED <<expense, captured>>
  BY <1>0 DEF Crash
<1>2. Quiet(t, x)
  BY <1>0, TaskAt DEF Quiet, IsTask, IdleTask
<1> HIDE DEF x
<1> QED
  BY <1>1, <1>2, QuietStep, SameBills

LEMMA ReadChargesStep ==
    ASSUME Inv, NEW t \in Tasks, ReadCharges(t)
    PROVE  Inv'
<1>1. PICK c \in task[t].left :
        task' = [task EXCEPT ![t].pc = "bills", ![t].contract = c,
                             ![t].counted = @ \cup ({c} \cap paid)]
  BY DEF ReadCharges
<1> DEFINE counted == task[t].counted \cup ({c} \cap paid)
           x == [task[t] EXCEPT !.pc = "bills", !.contract = c, !.counted = counted]
<1>2. task' = [task EXCEPT ![t] = x] /\ UNCHANGED <<expense, captured>>
  BY <1>1 DEF ReadCharges
<1> HIDE DEF counted
<1>3. Quiet(t, x)
  BY TaskAt DEF Quiet, IsTask
<1> HIDE DEF x
<1> QED
  BY <1>2, <1>3, QuietStep, SameBills

LEMMA AnnouncePayoutStep ==
    ASSUME Inv, NEW t \in Tasks, AnnouncePayout(t)
    PROVE  Inv'
<1>1. PICK o \in task[t].left : task' = [task EXCEPT ![t].left = @ \ {o}]
  BY DEF AnnouncePayout
<1> DEFINE x == [task[t] EXCEPT !.left = @ \ {o}]
<1>2. /\ task[t].pc = "payouts"
      /\ task' = [task EXCEPT ![t] = x] /\ UNCHANGED <<expense, captured>>
  BY <1>1 DEF AnnouncePayout
<1>3. Quiet(t, x)
  BY <1>2, TaskAt DEF Quiet, IsTask
<1> HIDE DEF x
<1> QED
  BY <1>2, <1>3, QuietStep, SameBills

LEMMA PayBillStep ==
    ASSUME Inv, NEW t \in Tasks, PayBill(t)
    PROVE  Inv'
<1>1. PICK b \in task[t].left :
        /\ expense' = [expense EXCEPT ![b].status = "paid"]
        /\ task' = [task EXCEPT ![t].left = @ \ {b}, ![t].total = @ + expense[b].value]
  BY DEF PayBill
<1> DEFINE x == [task[t] EXCEPT !.left = @ \ {b}, !.total = @ + expense[b].value]
<1>2. /\ task[t].pc = "pay"
      /\ task' = [task EXCEPT ![t] = x] /\ UNCHANGED captured
  BY <1>1 DEF PayBill
<1>3. Quiet(t, x)
  BY <1>2, TaskAt DEF Quiet, IsTask
<1> HIDE DEF x
<1>4. Recorded
  BY <1>1 DEF Inv, Shape, Recorded, IsExpense
<1> QED
  BY <1>2, <1>3, <1>4, QuietStep

LEMMA ApproveBillStep ==
    ASSUME Inv, NEW b \in Bills, ApproveBill(b)
    PROVE  Inv'
<1>1. /\ expense' = [expense EXCEPT ![b].status = "approved"]
      /\ UNCHANGED <<task, captured>>
  BY DEF ApproveBill
<1>2. Recorded
  BY <1>1 DEF Inv, Shape, Recorded, IsExpense
<1> QED
  BY <1>1, <1>2, QuietStep

-----------------------------------------------------------------------------
(* A capture *)

LEMMA RadarCaptureStep ==
    ASSUME Inv, NEW t \in Tasks, RadarCapture(t)
    PROVE  Inv'
<1> DEFINE b == task[t].bill
<1>1. task[t].kind = "radar" /\ b \in Bills /\ UNCHANGED captured
  BY DEF RadarCapture, Take, Inv, Announcing
<1>2. CASE task' = [task EXCEPT ![t].pc = "done"] /\ UNCHANGED expense
  <2> DEFINE x == [task[t] EXCEPT !.pc = "done"]
  <2>1. task' = [task EXCEPT ![t] = x]
    BY <1>2
  <2>2. Quiet(t, x)
    BY <1>1 DEF Inv, Shape, Quiet, IsTask
  <2> HIDE DEF x
  <2> QED
    BY <1>1, <1>2, <2>1, <2>2, QuietStep, SameBills
<1>3. CASE /\ expense[b].status = "absent"
           /\ \E v \in Values :
                 expense' = [expense EXCEPT ![b] = [status |-> "captured", value |-> v]]
           /\ task' = [task EXCEPT ![t].pc = "announce"]
  <2> DEFINE x == [task[t] EXCEPT !.pc = "announce"]
  <2>1. IsTask(x) /\ x.pc = "announce" /\ x.kind = "radar" /\ x.bill = b
    BY <1>1 DEF Inv, Shape, IsTask
  <2>2. task' = [task EXCEPT ![t] = x]
    BY <1>3
  <2> HIDE DEF x
  <2>3. task'[t] = x /\ \A u \in Tasks \ {t} : task'[u] = task[u]
    BY <2>2 DEF Inv, Shape
  <2>4. PICK v \in Values : expense' = [expense EXCEPT ![b] = [status |-> "captured", value |-> v]]
    BY <1>3
  <2>5. Recorded /\ expense'[b].status = "captured"
    BY <1>1, <2>4 DEF Inv, Shape, Recorded, IsExpense
  <2>6. captured[b] = 0
    BY <1>1, <1>3 DEF Inv, Shape, CapturedOnce
  <2>7. \A u \in Tasks : ~(task[u].pc = "announce" /\ task[u].bill = b)
    BY <1>3 DEF Inv, Announcing
  <2>8. Shape'
    BY <1>1, <2>1, <2>2, <2>3, <2>5 DEF Inv, Shape, Recorded
  <2>9. CapturedOnce'
    BY <1>1, <2>5, <2>6 DEF Inv, Shape, CapturedOnce, Recorded
  <2> HIDE DEF b
  <2>10. \A u \in Tasks : Announcing(u)'
    BY <1>1, <2>1, <2>3, <2>5, <2>6, <2>7 DEF Inv, Announcing, Recorded
  <2> QED
    BY <2>8, <2>9, <2>10 DEF Inv
<1> QED
  BY <1>2, <1>3 DEF RadarCapture

LEMMA RadarAnnounceStep ==
    ASSUME Inv, NEW t \in Tasks, RadarAnnounce(t)
    PROVE  Inv'
<1> DEFINE b == task[t].bill
           x == [task[t] EXCEPT !.pc = "done"]
<1>1. /\ task[t].pc = "announce"
      /\ task' = [task EXCEPT ![t] = x]
      /\ UNCHANGED expense
      /\ captured' = [captured EXCEPT ![b] = @ + 1] \/ captured' = captured
  BY DEF RadarAnnounce
<1>2. b \in Bills /\ expense[b].status # "absent" /\ captured[b] = 0
  BY <1>1 DEF Inv, Announcing
<1>3. Quiet(t, x)
  BY TaskAt DEF Quiet, IsTask
<1> HIDE DEF x
<1>4. \A u \in Tasks : IF u = t THEN Quiet(u, task'[u]) ELSE task'[u] = task[u]
  BY <1>1, <1>3 DEF Inv, Shape
<1>5. \A u \in Tasks \ {t} : ~(task[u].pc = "announce" /\ task[u].bill = b)
  BY <1>1 DEF Inv, Announcing
<1> HIDE DEF b
<1>6. captured' \in [Bills -> Nat] /\ captured'[b] <= 1
      /\ \A a \in Bills \ {b} : captured'[a] = captured[a]
  BY <1>1, <1>2 DEF Inv, Shape
<1>7. Shape'
  BY <1>1, <1>3, <1>4, <1>6 DEF Inv, Shape, Quiet
<1>8. CapturedOnce'
  BY <1>1, <1>2, <1>6 DEF Inv, CapturedOnce
<1>9. \A u \in Tasks : Announcing(u)'
  <2> SUFFICES ASSUME NEW u \in Tasks PROVE Announcing(u)'
    OBVIOUS
  <2>1. task'[u].pc = "announce" => task'[u] = task[u] /\ task[u].bill \in Bills \ {b}
    BY <1>4, <1>5, TaskAt DEF Quiet
  <2>2. \A v \in Tasks : task'[v].pc = "announce" => task'[v] = task[v]
    BY <1>4 DEF Quiet
  <2>3. task'[u].kind = "radar" => task'[u].bill \in Bills
    BY <1>4, TaskAt DEF Quiet
  <2> QED
    BY <1>1, <1>6, <2>1, <2>2, <2>3 DEF Inv, Announcing
<1> QED
  BY <1>7, <1>8, <1>9 DEF Inv

(* Every step keeps the invariant. *)
LEMMA InvStep == Inv /\ [Next]_vars => Inv'
<1> SUFFICES ASSUME Inv, [Next]_vars PROVE Inv'
  OBVIOUS
<1>1. CASE UNCHANGED <<task, expense, captured>>
  BY <1>1, QuietStep, SameBills
<1>2. ASSUME NEW c \in Contracts, Onboard(c) \/ TenantPays(c) PROVE Inv'
  BY <1>1, <1>2 DEF Onboard, TenantPays
<1>3. ASSUME NEW p \in People,
             WriteStatus(p) \/ \E req \in Requests : ReadStatus(p, req[1], req[2])
      PROVE  Inv'
  BY <1>1, <1>3 DEF WriteStatus, ReadStatus
<1>4. ASSUME NEW t \in Tasks, NEW b \in Bills, BillArrives(t, b) PROVE Inv'
  BY <1>4, StartStep DEF BillArrives
<1>5. ASSUME NEW t \in Tasks, Start(t, "pay_bills", None) \/ Start(t, "payout", None) PROVE Inv'
  BY <1>5, StartStep
<1>6. ASSUME NEW t \in Tasks, RadarCapture(t) \/ RadarAnnounce(t) PROVE Inv'
  BY <1>6, RadarCaptureStep, RadarAnnounceStep
<1>7. ASSUME NEW b \in Bills, ApproveBill(b) PROVE Inv'
  BY <1>7, ApproveBillStep
<1>8. ASSUME NEW t \in Tasks, SelectBills(t) \/ PayBill(t) \/ AnnounceBills(t) PROVE Inv'
  BY <1>8, SelectBillsStep, PayBillStep, AnnounceBillsStep
<1>9. ASSUME NEW t \in Tasks, SelectContracts(t) \/ ReadCharges(t) \/ ReadBills(t) PROVE Inv'
  BY <1>9, SelectContractsStep, ReadChargesStep, ReadBillsStep
<1>10. ASSUME NEW t \in Tasks, CountOwners(t) \/ AnnouncePayout(t) \/ PayoutsEnd(t) PROVE Inv'
  BY <1>10, CountOwnersStep, AnnouncePayoutStep, PayoutsEndStep
<1>11. ASSUME NEW t \in Tasks, Crash(t) PROVE Inv'
  BY <1>11, CrashStep
<1>12. CASE UNCHANGED vars
  BY <1>1, <1>12 DEF vars
<1> QED
  BY <1>2, <1>3, <1>4, <1>5, <1>6, <1>7, <1>8, <1>9, <1>10, <1>11, <1>12 DEF Next

(* A bill that arrives many times, and whose tasks die and start over, is   *)
(* announced once at most, and never without its row.                       *)
THEOREM CapturesAreUnique == Spec => []CapturedOnce
<1>1. Inv => CapturedOnce
  BY DEF Inv
<1> QED
  BY <1>1, InvInit, InvStep, PTL DEF Spec

-----------------------------------------------------------------------------
(* Terminated contracts *)

Functional ==
    contract = [c \in Contracts |-> contract[c]] /\ person = [p \in People |-> person[p]]

Kept == \A c \in Contracts : Closed(c) => Closed(c)'

(* A write concerns a contract its writer has in hand, and nobody takes a    *)
(* terminated contract in hand.                                              *)
LEMMA KeptStep == Functional /\ [Next]_vars => Functional' /\ Kept
<1> SUFFICES ASSUME Functional, [Next]_vars PROVE Functional' /\ Kept
  OBVIOUS
<1>1. CASE UNCHANGED <<contract, person>>
  BY <1>1 DEF Functional, Kept, Closed
<1>2. ASSUME NEW c \in Contracts, Onboard(c) PROVE Functional' /\ Kept
  BY <1>2 DEF Onboard, Functional, Kept, Closed
<1>3. ASSUME NEW p \in People, WriteStatus(p) PROVE Functional' /\ Kept
  <2>1. /\ contract' = [contract EXCEPT ![person[p].contract] = person[p].to]
        /\ person' = [person EXCEPT ![p] = Idle]
    BY <1>3 DEF WriteStatus
  <2>2. \A c \in Contracts : Idle.contract # c
    BY PayoutsAssumption DEF Idle
  <2> QED
    BY <2>1, <2>2 DEF Functional, Kept, Closed
<1>4. ASSUME NEW p \in People, NEW req \in Requests, ReadStatus(p, req[1], req[2])
      PROVE  Functional' /\ Kept
  <2> DEFINE c == req[1]
             to == req[2]
  <2>1. /\ MayBecome(contract[c], to) /\ contract' = contract
        /\ person' = [person EXCEPT ![p] = [contract |-> c, to |-> to]]
    BY <1>4 DEF ReadStatus
  <2>2. contract[c] # "terminated"
    BY <2>1 DEF MayBecome, Transitions
  <2> QED
    BY <2>1, <2>2 DEF Functional, Kept, Closed
<1> QED
  BY <1>1, <1>2, <1>3, <1>4
     DEF Next, vars, TenantPays, BillArrives, Start, RadarCapture, RadarAnnounce, ApproveBill,
         SelectBills, PayBill, AnnounceBills, SelectContracts, ReadCharges, ReadBills,
         CountOwners, AnnouncePayout, PayoutsEnd, Crash

(* However many people change contracts, one that is terminated and in      *)
(* nobody's hands stays so.                                                 *)
THEOREM TerminatedStays == Spec => TerminatedIsFinal
<1>1. Init => Functional
  BY DEF Init, Functional
<1>2. Spec => [][Kept]_vars
  BY <1>1, KeptStep, PTL DEF Spec
<1> QED
  BY <1>2 DEF TerminatedIsFinal, Kept

-----------------------------------------------------------------------------
(* Sums over finite sets *)

(* Among finite sets, one that has no part in the collection: how a fact     *)
(* about every finite set is proved from its smallest counterexample.        *)
LEMMA SmallestSet ==
    ASSUME NEW S, IsFiniteSet(S), NEW C, C \subseteq SUBSET S, C # {}
    PROVE  \E s \in C : IsFiniteSet(s) /\ \A u \in SUBSET s : u # s => u \notin C
<1>1. IsWellFoundedOn(StrictSubsetOrdering(S), FiniteSubsetsOf(S))
  BY FS_StrictSubsetOrderingWellFounded
<1>2. C \subseteq FiniteSubsetsOf(S)
  BY FS_Subset DEF FiniteSubsetsOf
<1>3. PICK s \in C : \A u \in C : <<u, s>> \notin StrictSubsetOrdering(S)
  BY <1>1, <1>2, WFMin
<1>4. \A u \in SUBSET s : u # s => u \notin C
  BY <1>3 DEF StrictSubsetOrdering
<1> QED
  BY <1>3, <1>4, FS_Subset

Picked(s) == CHOOSE x \in s : TRUE

(* g adds up fun over each subset of S, one picked element after another.   *)
AddsUp(g, fun, S) ==
    g = [s \in SUBSET S |-> IF s = {} THEN 0 ELSE fun[Picked(s)] + g[s \ {Picked(s)}]]

LEMMA AddsUpAlike ==
    ASSUME NEW S, IsFiniteSet(S), NEW fun, NEW A, NEW B, S \subseteq A, S \subseteq B,
           NEW g, NEW h, AddsUp(g, fun, A), AddsUp(h, fun, B)
    PROVE  g[S] = h[S]
<1> DEFINE C == {s \in SUBSET S : g[s] # h[s]}
<1> SUFFICES ASSUME C # {} PROVE FALSE
  OBVIOUS
<1>0. C \subseteq SUBSET S
  OBVIOUS
<1> HIDE DEF C
<1>1. PICK s \in C : IsFiniteSet(s) /\ \A u \in SUBSET s : u # s => u \notin C
  BY <1>0, SmallestSet
<1> USE DEF C
<1>2. s \in SUBSET A /\ s \in SUBSET B
  OBVIOUS
<1>3. g[s] = IF s = {} THEN 0 ELSE fun[Picked(s)] + g[s \ {Picked(s)}]
  BY <1>2 DEF AddsUp
<1>4. h[s] = IF s = {} THEN 0 ELSE fun[Picked(s)] + h[s \ {Picked(s)}]
  BY <1>2 DEF AddsUp
<1>5. s # {} => Picked(s) \in s
  BY DEF Picked
<1> QED
  BY <1>1, <1>3, <1>4, <1>5

Sums(fun, S) == CHOOSE g : AddsUp(g, fun, S)

LEMMA SumsAddUp ==
    ASSUME NEW fun, NEW S, IsFiniteSet(S)
    PROVE  AddsUp(Sums(fun, S), fun, S)
<1> DEFINE C == {s \in SUBSET S : ~ AddsUp(Sums(fun, s), fun, s)}
<1> SUFFICES ASSUME C # {} PROVE FALSE
  OBVIOUS
<1>0. C \subseteq SUBSET S
  OBVIOUS
<1> HIDE DEF C
<1>1. PICK s \in C : IsFiniteSet(s) /\ \A u \in SUBSET s : u # s => u \notin C
  BY <1>0, SmallestSet
<1> USE DEF C
<1> DEFINE below(u) == Sums(fun, u)[u]
           g == [u \in SUBSET s |-> IF u = {} THEN 0 ELSE fun[Picked(u)] + below(u \ {Picked(u)})]
<1>2. ASSUME NEW u \in SUBSET s, u # {} PROVE u \ {Picked(u)} \in SUBSET s /\ u \ {Picked(u)} # s
  BY <1>2 DEF Picked
<1>3. ASSUME NEW u \in SUBSET s, u # s PROVE g[u] = below(u)
  <2>1. AddsUp(Sums(fun, u), fun, u)
    BY <1>1, <1>3
  <2>2. below(u) = IF u = {} THEN 0 ELSE fun[Picked(u)] + Sums(fun, u)[u \ {Picked(u)}]
    BY <2>1 DEF AddsUp
  <2>3. CASE u # {}
    <3> DEFINE v == u \ {Picked(u)}
    <3>1. IsFiniteSet(v) /\ AddsUp(Sums(fun, v), fun, v)
      BY <1>1, <1>2, <2>3, FS_Subset
    <3> HIDE DEF v
    <3>2. Sums(fun, u)[v] = below(v)
      BY <2>1, <3>1, AddsUpAlike DEF v
    <3> QED
      BY <2>2, <2>3, <3>2 DEF v
  <2> QED
    BY <2>2, <2>3
<1>4. AddsUp(g, fun, s)
  BY <1>2, <1>3 DEF AddsUp
<1> QED
  BY <1>1, <1>4 DEF Sums

LEMMA SumIs ==
    ASSUME NEW fun, NEW S
    PROVE  Sum(fun, S) = Sums(fun, S)[S]
BY DEF Sum, SumFunctionOnSet, FoldFunctionOnSet, MapThenFoldSet, Sums, AddsUp, Picked

LEMMA SumEmpty ==
    ASSUME NEW fun
    PROVE  Sum(fun, {}) = 0
<1>1. AddsUp(Sums(fun, {}), fun, {})
  BY SumsAddUp, FS_EmptySet
<1>2. Sums(fun, {})[{}] = 0
  BY <1>1 DEF AddsUp
<1> QED
  BY <1>2, SumIs

LEMMA SumPicked ==
    ASSUME NEW fun, NEW S, IsFiniteSet(S), S # {}
    PROVE  /\ Picked(S) \in S
           /\ Sum(fun, S) = fun[Picked(S)] + Sum(fun, S \ {Picked(S)})
<1> DEFINE u == S \ {Picked(S)}
<1>1. AddsUp(Sums(fun, S), fun, S) /\ AddsUp(Sums(fun, u), fun, u) /\ IsFiniteSet(u)
  BY SumsAddUp, FS_Subset
<1>2. Sums(fun, S)[S] = fun[Picked(S)] + Sums(fun, S)[u]
  BY <1>1 DEF AddsUp
<1>3. Sums(fun, S)[u] = Sums(fun, u)[u]
  <2> HIDE DEF u
  <2>1. u \subseteq S
    BY DEF u
  <2> QED
    BY <1>1, <2>1, AddsUpAlike
<1> QED
  BY <1>2, <1>3, SumIs DEF Picked

LEMMA SumNat ==
    ASSUME NEW fun, NEW S, IsFiniteSet(S), \A x \in S : fun[x] \in Nat
    PROVE  Sum(fun, S) \in Nat
<1> DEFINE C == {s \in SUBSET S : Sum(fun, s) \notin Nat}
<1> SUFFICES ASSUME C # {} PROVE FALSE
  OBVIOUS
<1>0. C \subseteq SUBSET S
  OBVIOUS
<1> HIDE DEF C
<1>1. PICK s \in C : IsFiniteSet(s) /\ \A u \in SUBSET s : u # s => u \notin C
  BY <1>0, SmallestSet
<1> USE DEF C
<1>2. s # {}
  <2>1. Sum(fun, {}) = 0
    BY SumEmpty
  <2>2. Sum(fun, s) \notin Nat
    BY <1>1
  <2> HIDE DEF C
  <2> QED
    BY <2>1, <2>2
<1>3. Picked(s) \in s /\ Sum(fun, s) = fun[Picked(s)] + Sum(fun, s \ {Picked(s)})
  BY <1>1, <1>2, SumPicked
<1>4. Sum(fun, s \ {Picked(s)}) \in Nat /\ fun[Picked(s)] \in Nat
  BY <1>1, <1>3
<1> QED
  BY <1>3, <1>4

LEMMA SumMonotone ==
    ASSUME NEW f, NEW g, NEW S, IsFiniteSet(S),
           \A x \in S : f[x] \in Nat /\ g[x] \in Nat /\ f[x] <= g[x]
    PROVE  Sum(f, S) <= Sum(g, S)
<1> DEFINE C == {s \in SUBSET S : ~ (Sum(f, s) <= Sum(g, s))}
<1> SUFFICES ASSUME C # {} PROVE FALSE
  OBVIOUS
<1>0. C \subseteq SUBSET S
  OBVIOUS
<1> HIDE DEF C
<1>1. PICK s \in C : IsFiniteSet(s) /\ \A u \in SUBSET s : u # s => u \notin C
  BY <1>0, SmallestSet
<1> USE DEF C
<1>2. s # {}
  <2>1. Sum(f, {}) = 0 /\ Sum(g, {}) = 0
    BY SumEmpty
  <2>2. ~ (Sum(f, s) <= Sum(g, s))
    BY <1>1
  <2> HIDE DEF C
  <2> QED
    BY <2>1, <2>2
<1> DEFINE x == Picked(s)
           u == s \ {x}
<1>3. x \in s /\ Sum(f, s) = f[x] + Sum(f, u) /\ Sum(g, s) = g[x] + Sum(g, u)
  BY <1>1, <1>2, SumPicked
<1> HIDE DEF x
<1>4. u \in SUBSET s /\ u # s /\ IsFiniteSet(u)
  BY <1>1, <1>3, FS_Subset
<1>5. Sum(f, u) <= Sum(g, u)
  BY <1>1, <1>4
<1>6. Sum(f, u) \in Nat /\ Sum(g, u) \in Nat
  BY <1>4, SumNat
<1> HIDE DEF u
<1> QED
  BY <1>3, <1>5, <1>6

LEMMA SumSame ==
    ASSUME NEW f, NEW g, NEW S, IsFiniteSet(S), \A x \in S : f[x] = g[x]
    PROVE  Sum(f, S) = Sum(g, S)
<1> DEFINE C == {s \in SUBSET S : Sum(f, s) # Sum(g, s)}
<1> SUFFICES ASSUME C # {} PROVE FALSE
  OBVIOUS
<1>0. C \subseteq SUBSET S
  OBVIOUS
<1> HIDE DEF C
<1>1. PICK s \in C : IsFiniteSet(s) /\ \A u \in SUBSET s : u # s => u \notin C
  BY <1>0, SmallestSet
<1> USE DEF C
<1>2. s # {}
  BY <1>1, SumEmpty
<1>3. /\ Picked(s) \in s
      /\ Sum(f, s) = f[Picked(s)] + Sum(f, s \ {Picked(s)})
      /\ Sum(g, s) = g[Picked(s)] + Sum(g, s \ {Picked(s)})
  BY <1>1, <1>2, SumPicked
<1> QED
  BY <1>1, <1>3

(* Any element may be taken out, not only the picked one.                    *)
LEMMA SumWithout ==
    ASSUME NEW fun, NEW S, IsFiniteSet(S), \A y \in S : fun[y] \in Nat, NEW x \in S
    PROVE  Sum(fun, S) = fun[x] + Sum(fun, S \ {x})
<1> DEFINE C == {s \in SUBSET S : \E z \in s : Sum(fun, s) # fun[z] + Sum(fun, s \ {z})}
<1> SUFFICES ASSUME C # {} PROVE FALSE
  OBVIOUS
<1>0. C \subseteq SUBSET S
  OBVIOUS
<1> HIDE DEF C
<1>1. PICK s \in C : IsFiniteSet(s) /\ \A u \in SUBSET s : u # s => u \notin C
  BY <1>0, SmallestSet
<1> USE DEF C
<1>2. PICK z \in s : Sum(fun, s) # fun[z] + Sum(fun, s \ {z})
  BY <1>1
<1> DEFINE y == Picked(s)
<1>3. y \in s /\ Sum(fun, s) = fun[y] + Sum(fun, s \ {y})
  BY <1>1, SumPicked
<1> HIDE DEF y
<1>4. y # z
  BY <1>2, <1>3
<1>5. Sum(fun, s \ {y}) = fun[z] + Sum(fun, (s \ {y}) \ {z})
  <2>1. s \ {y} \in SUBSET s /\ s \ {y} # s /\ z \in s \ {y}
    BY <1>3, <1>4
  <2> QED
    BY <1>1, <2>1
<1>6. Sum(fun, s \ {z}) = fun[y] + Sum(fun, (s \ {z}) \ {y})
  <2>1. s \ {z} \in SUBSET s /\ s \ {z} # s /\ y \in s \ {z}
    BY <1>3, <1>4
  <2> QED
    BY <1>1, <2>1
<1>7. (s \ {y}) \ {z} = (s \ {z}) \ {y}
  OBVIOUS
<1>8. Sum(fun, (s \ {y}) \ {z}) \in Nat
  <2>1. IsFiniteSet((s \ {y}) \ {z})
    BY <1>1, FS_Subset
  <2> QED
    BY <2>1, SumNat
<1>9. fun[y] \in Nat /\ fun[z] \in Nat
  BY <1>3
<1> QED
  BY <1>2, <1>3, <1>5, <1>6, <1>7, <1>8, <1>9

LEMMA SumPart ==
    ASSUME NEW fun, NEW S, IsFiniteSet(S), \A x \in S : fun[x] \in Nat, NEW T \in SUBSET S
    PROVE  Sum(fun, T) <= Sum(fun, S)
<1> DEFINE C == {s \in SUBSET S : T \subseteq s /\ ~ (Sum(fun, T) <= Sum(fun, s))}
<1> SUFFICES ASSUME C # {} PROVE FALSE
  OBVIOUS
<1>0. C \subseteq SUBSET S
  OBVIOUS
<1> HIDE DEF C
<1>1. PICK s \in C : IsFiniteSet(s) /\ \A u \in SUBSET s : u # s => u \notin C
  BY <1>0, SmallestSet
<1> USE DEF C
<1>2. Sum(fun, T) \in Nat
  BY SumNat, FS_Subset
<1>3. PICK x \in s : x \notin T
  <2>1. s # T
    BY <1>1, <1>2
  <2> QED
    BY <1>1, <2>1
<1> DEFINE u == s \ {x}
<1>4. u \in SUBSET s /\ u # s /\ T \subseteq u /\ IsFiniteSet(u)
  BY <1>1, <1>3, FS_Subset
<1>5. Sum(fun, T) <= Sum(fun, u)
  BY <1>1, <1>4
<1>6. Sum(fun, s) = fun[x] + Sum(fun, u)
  BY <1>1, SumWithout
<1>7. Sum(fun, u) \in Nat /\ fun[x] \in Nat
  BY <1>4, SumNat
<1> HIDE DEF u
<1> QED
  BY <1>1, <1>2, <1>5, <1>6, <1>7


-----------------------------------------------------------------------------
(* The inductive invariant of the payouts *)

\* The paid bills of the property of c that are in S, as the rows e have them.
BillsIn(e, c, S) == Sum([b \in Bills |-> e[b].value], {b \in S : BillHome[b] = Home[c]})

(* What a payout run x has read, with the rows e and the paid charges p: it *)
(* counts no charge that is not paid and, of each contract it is done with, *)
(* no less than the bills that were paid when it began.                     *)
Sound(x, e, p) ==
    /\ x.active \subseteq Contracts
    /\ x.before \subseteq {b \in Bills : e[b].status = "paid"}
    /\ x.counted \subseteq x.active \cap p
    /\ x.spent \in [Contracts -> Nat]
    /\ x.pc \in {"charges", "bills"} =>
          /\ x.left \subseteq x.active
          /\ \A c \in x.active \ x.left : BillsIn(e, c, x.before) <= x.spent[c]
    /\ x.pc = "bills" => x.contract \in x.left
    /\ x.pc = "payouts" => \A c \in x.active : BillsIn(e, c, x.before) <= x.spent[c]

Covered(payout, p) ==
    /\ payout.net \in Nat /\ payout.before \in Nat /\ payout.contracts \subseteq Contracts
    /\ payout.net = 0 \/ payout.net + payout.before <= Received(payout.contracts \cap p)

Amounts(e, p) == p \subseteq Contracts /\ \A b \in Bills : e[b].value \in Nat

CoverInv ==
    /\ Amounts(expense, paid)
    /\ \A t \in Tasks : Sound(task[t], expense, paid)
    /\ \A p \in payouts : Covered(p, paid)

LEMMA CoverInit == Init => CoverInv
<1> SUFFICES ASSUME Init PROVE CoverInv
  OBVIOUS
<1>1. ASSUME NEW b \in Bills PROVE expense[b].value \in Nat
  <2>1. \/ expense[b] = [status |-> "absent", value |-> 0]
        \/ expense[b] \in [status : {"approved"}, value : Values]
    BY DEF Init
  <2>2. expense[b].value = 0 \/ expense[b].value \in Values
    BY <2>1
  <2>3. 0 \in Nat /\ Values \subseteq Nat
    BY PayoutsAssumption
  <2> QED
    BY <2>2, <2>3
<1>2. Sound(IdleTask, expense, paid)
  BY DEF Sound, IdleTask
<1> QED
  BY <1>1, <1>2 DEF Init, CoverInv, Amounts

LEMMA TimesMore ==
    ASSUME NEW a \in Nat, NEW b \in Nat, NEW k \in Nat, a <= b
    PROVE  a * k \in Nat /\ a * k <= b * k
<1>1. PICK d \in Nat : b = a + d
  <2>1. b - a \in Nat /\ b = a + (b - a)
    OBVIOUS
  <2> QED
    BY <2>1
<1>2. b * k = a * k + d * k /\ a * k \in Nat /\ d * k \in Nat
  BY <1>1
<1> QED
  BY <1>2

LEMMA ReceivedMore ==
    ASSUME NEW T \in SUBSET Contracts, NEW S \in SUBSET T
    PROVE  /\ Received(S) \in Nat /\ Received(T) \in Nat
           /\ Received(S) <= Received(T)
<1>1. IsFiniteSet(T)
  BY PayoutsAssumption, FS_Subset
<1>2. Cardinality(S) \in Nat /\ Cardinality(T) \in Nat /\ Cardinality(S) <= Cardinality(T)
  BY <1>1, FS_Subset, FS_CardinalityType
<1>3. Net - Fee \in Nat
  BY PayoutsAssumption
<1> QED
  BY <1>2, <1>3, TimesMore DEF Received

LEMMA BillsInNat ==
    ASSUME NEW e, \A b \in Bills : e[b].value \in Nat, NEW c, NEW S \in SUBSET Bills
    PROVE  BillsIn(e, c, S) \in Nat
<1> DEFINE T == {b \in S : BillHome[b] = Home[c]}
<1>1. T \subseteq Bills /\ IsFiniteSet(T)
  BY PayoutsAssumption, FS_Subset
<1> HIDE DEF T
<1>2. Sum([b \in Bills |-> e[b].value], T) \in Nat
  BY <1>1, SumNat
<1> QED
  BY <1>2 DEF BillsIn, T

LEMMA BillsInMore ==
    ASSUME NEW e, \A b \in Bills : e[b].value \in Nat, NEW c,
           NEW T \in SUBSET Bills, NEW S \in SUBSET T
    PROVE  BillsIn(e, c, S) <= BillsIn(e, c, T)
<1> DEFINE A == {b \in S : BillHome[b] = Home[c]}
           B == {b \in T : BillHome[b] = Home[c]}
<1>1. A \subseteq B /\ B \subseteq Bills /\ IsFiniteSet(B)
  BY PayoutsAssumption, FS_Subset
<1> HIDE DEF A, B
<1>2. Sum([b \in Bills |-> e[b].value], A) <= Sum([b \in Bills |-> e[b].value], B)
  BY <1>1, SumPart
<1> QED
  BY <1>2 DEF BillsIn, A, B

LEMMA BillsInSame ==
    ASSUME NEW e, NEW f, NEW c, NEW S \in SUBSET Bills, \A b \in S : f[b] = e[b]
    PROVE  BillsIn(f, c, S) = BillsIn(e, c, S)
<1> DEFINE T == {b \in S : BillHome[b] = Home[c]}
           g == [b \in Bills |-> e[b].value]
           h == [b \in Bills |-> f[b].value]
<1>1. T \subseteq Bills /\ IsFiniteSet(T) /\ \A b \in T : h[b] = g[b]
  BY PayoutsAssumption, FS_Subset
<1> HIDE DEF T, g, h
<1>2. Sum(h, T) = Sum(g, T)
  BY <1>1, SumSame
<1> QED
  BY <1>2 DEF BillsIn, T, g, h

-----------------------------------------------------------------------------
(* Steps keep the invariant of the payouts *)

(* Charges stay paid, and so do bills, at the value they were paid with.    *)
Grows ==
    /\ paid \subseteq paid' /\ Amounts(expense', paid')
    /\ \A b \in Bills : expense[b].status = "paid" => expense'[b] = expense[b]

LEMMA SoundGrows ==
    ASSUME Grows, NEW x, Sound(x, expense, paid)
    PROVE  Sound(x, expense', paid')
<1>1. x.before \subseteq Bills /\ \A b \in x.before : expense'[b] = expense[b]
  BY DEF Grows, Sound
<1>2. \A c : BillsIn(expense', c, x.before) = BillsIn(expense, c, x.before)
  BY <1>1, BillsInSame
<1> QED
  BY <1>1, <1>2 DEF Grows, Sound

LEMMA CoveredGrows ==
    ASSUME CoverInv, Grows, NEW p, Covered(p, paid)
    PROVE  Covered(p, paid')
<1>1. /\ p.contracts \cap paid \in SUBSET (p.contracts \cap paid')
      /\ p.contracts \cap paid' \in SUBSET Contracts
  BY DEF Grows, Covered
<1>2. /\ Received(p.contracts \cap paid) \in Nat /\ Received(p.contracts \cap paid') \in Nat
      /\ Received(p.contracts \cap paid) <= Received(p.contracts \cap paid')
  BY <1>1, ReceivedMore
<1> QED
  BY <1>2 DEF Covered

LEMMA CoverStep ==
    ASSUME Inv, CoverInv, Grows,
           \/ task' = task
           \/ \E t \in Tasks : \E x : Sound(x, expense, paid) /\ task' = [task EXCEPT ![t] = x],
           \/ payouts' = payouts
           \/ \E p : Covered(p, paid) /\ payouts' = payouts \cup {p}
    PROVE  CoverInv'
<1>1. \A u \in Tasks : Sound(task'[u], expense, paid)
  BY DEF Inv, Shape, CoverInv
<1>2. \A u \in Tasks : Sound(task'[u], expense', paid')
  BY <1>1, SoundGrows
<1>3. \A p \in payouts' : Covered(p, paid)
  BY DEF CoverInv
<1>4. \A p \in payouts' : Covered(p, paid')
  BY <1>3, CoveredGrows
<1> QED
  BY <1>2, <1>4 DEF CoverInv, Grows

LEMMA SameMoney == CoverInv /\ UNCHANGED <<expense, paid>> => Grows
BY DEF CoverInv, Grows

LEMMA SoundTask ==
    ASSUME Inv, CoverInv, NEW t \in Tasks
    PROVE  IsTask(task[t]) /\ Sound(task[t], expense, paid)
BY DEF Inv, Shape, CoverInv

LEMMA CoverPlain ==
    ASSUME Inv, CoverInv, Grows, NEW t \in Tasks, NEW x, task' = [task EXCEPT ![t] = x],
           payouts' = payouts, x.active = task[t].active, x.before = task[t].before,
           x.counted = task[t].counted, x.spent = task[t].spent,
           x.pc \notin {"charges", "bills", "payouts"}
    PROVE  CoverInv'
<1>1. Sound(x, expense, paid)
  BY SoundTask DEF Sound
<1> QED
  BY <1>1, CoverStep

LEMMA CoverStart ==
    ASSUME Inv, CoverInv, NEW t \in Tasks, NEW kind, NEW b, Start(t, kind, b)
    PROVE  CoverInv'
<1> DEFINE x == [task[t] EXCEPT !.kind = kind, !.pc = "waiting", !.bill = b]
<1>1. task' = [task EXCEPT ![t] = x] /\ UNCHANGED <<paid, expense, payouts>>
  BY DEF Start
<1>2. /\ x.active = task[t].active /\ x.before = task[t].before
      /\ x.counted = task[t].counted /\ x.spent = task[t].spent /\ x.pc = "waiting"
  BY SoundTask DEF IsTask
<1> HIDE DEF x
<1> QED
  BY <1>1, <1>2, CoverPlain, SameMoney

LEMMA CoverSelectBills ==
    ASSUME Inv, CoverInv, NEW t \in Tasks, SelectBills(t)
    PROVE  CoverInv'
<1> DEFINE x == [task[t] EXCEPT !.pc = "pay", !.left = {b \in Bills : expense[b].status = "approved"}]
<1>1. task' = [task EXCEPT ![t] = x] /\ UNCHANGED <<paid, expense, payouts>>
  BY DEF SelectBills
<1>2. /\ x.active = task[t].active /\ x.before = task[t].before
      /\ x.counted = task[t].counted /\ x.spent = task[t].spent /\ x.pc = "pay"
  BY SoundTask DEF IsTask
<1> HIDE DEF x
<1> QED
  BY <1>1, <1>2, CoverPlain, SameMoney

LEMMA CoverPayBill ==
    ASSUME Inv, CoverInv, NEW t \in Tasks, PayBill(t)
    PROVE  CoverInv'
<1>1. PICK b \in task[t].left :
        /\ expense' = [expense EXCEPT ![b].status = "paid"]
        /\ task' = [task EXCEPT ![t].left = @ \ {b}, ![t].total = @ + expense[b].value]
  BY DEF PayBill
<1> DEFINE x == [task[t] EXCEPT !.left = @ \ {b}, !.total = @ + expense[b].value]
<1>2. /\ task[t].pc = "pay" /\ task' = [task EXCEPT ![t] = x]
      /\ UNCHANGED <<paid, payouts>>
  BY <1>1 DEF PayBill
<1>3. /\ x.active = task[t].active /\ x.before = task[t].before
      /\ x.counted = task[t].counted /\ x.spent = task[t].spent /\ x.pc = "pay"
  BY <1>2, SoundTask DEF IsTask
<1> HIDE DEF x
<1>4. Grows
  BY <1>1, <1>2 DEF Inv, Shape, IsExpense, CoverInv, Amounts, Grows
<1> QED
  BY <1>2, <1>3, <1>4, CoverPlain

LEMMA CoverAnnounceBills ==
    ASSUME Inv, CoverInv, NEW t \in Tasks, AnnounceBills(t)
    PROVE  CoverInv'
<1> DEFINE x == [task[t] EXCEPT !.pc = "done"]
<1>1. task' = [task EXCEPT ![t] = x] /\ UNCHANGED <<paid, expense, payouts>>
  BY DEF AnnounceBills
<1>2. /\ x.active = task[t].active /\ x.before = task[t].before
      /\ x.counted = task[t].counted /\ x.spent = task[t].spent /\ x.pc = "done"
  BY SoundTask DEF IsTask
<1> HIDE DEF x
<1> QED
  BY <1>1, <1>2, CoverPlain, SameMoney

LEMMA CoverPayoutsEnd ==
    ASSUME Inv, CoverInv, NEW t \in Tasks, PayoutsEnd(t)
    PROVE  CoverInv'
<1> DEFINE x == [task[t] EXCEPT !.pc = "done"]
<1>1. task' = [task EXCEPT ![t] = x] /\ UNCHANGED <<paid, expense, payouts>>
  BY DEF PayoutsEnd
<1>2. /\ x.active = task[t].active /\ x.before = task[t].before
      /\ x.counted = task[t].counted /\ x.spent = task[t].spent /\ x.pc = "done"
  BY SoundTask DEF IsTask
<1> HIDE DEF x
<1> QED
  BY <1>1, <1>2, CoverPlain, SameMoney

LEMMA CoverRadarAnnounce ==
    ASSUME Inv, CoverInv, NEW t \in Tasks, RadarAnnounce(t)
    PROVE  CoverInv'
<1> DEFINE x == [task[t] EXCEPT !.pc = "done"]
<1>1. task' = [task EXCEPT ![t] = x] /\ UNCHANGED <<paid, expense, payouts>>
  BY DEF RadarAnnounce
<1>2. /\ x.active = task[t].active /\ x.before = task[t].before
      /\ x.counted = task[t].counted /\ x.spent = task[t].spent /\ x.pc = "done"
  BY SoundTask DEF IsTask
<1> HIDE DEF x
<1> QED
  BY <1>1, <1>2, CoverPlain, SameMoney

LEMMA CoverRadarCapture ==
    ASSUME Inv, CoverInv, NEW t \in Tasks, RadarCapture(t)
    PROVE  CoverInv'
<1>1. PICK pc \in {"announce", "done"} : task' = [task EXCEPT ![t].pc = pc]
  BY DEF RadarCapture
<1> DEFINE x == [task[t] EXCEPT !.pc = pc]
<1>2. task' = [task EXCEPT ![t] = x] /\ UNCHANGED <<paid, payouts>>
  BY <1>1 DEF RadarCapture
<1>3. /\ x.active = task[t].active /\ x.before = task[t].before
      /\ x.counted = task[t].counted /\ x.spent = task[t].spent /\ x.pc = pc
  BY SoundTask DEF IsTask
<1> HIDE DEF x
<1> DEFINE b == task[t].bill
<1>4. \/ expense' = expense
      \/ /\ expense[b].status = "absent"
         /\ \E v \in Values : expense' = [expense EXCEPT ![b] = [status |-> "captured", value |-> v]]
  BY DEF RadarCapture
<1> HIDE DEF b
<1>5. Grows
  BY <1>2, <1>4, PayoutsAssumption DEF Inv, Shape, CoverInv, Amounts, Grows
<1> QED
  BY <1>1, <1>2, <1>3, <1>5, CoverPlain

LEMMA CoverApproveBill ==
    ASSUME Inv, CoverInv, NEW b \in Bills, ApproveBill(b)
    PROVE  CoverInv'
<1>1. /\ expense[b].status = "captured"
      /\ expense' = [expense EXCEPT ![b].status = "approved"]
      /\ UNCHANGED <<paid, task, payouts>>
  BY DEF ApproveBill
<1>2. Grows
  BY <1>1 DEF Inv, Shape, IsExpense, CoverInv, Amounts, Grows
<1> QED
  BY <1>1, <1>2, CoverStep

LEMMA CoverTenantPays ==
    ASSUME Inv, CoverInv, NEW c \in Contracts, TenantPays(c)
    PROVE  CoverInv'
<1>1. paid' = paid \cup {c} /\ UNCHANGED <<expense, task, payouts>>
  BY DEF TenantPays
<1>2. Grows
  BY <1>1 DEF CoverInv, Amounts, Grows
<1> QED
  BY <1>1, <1>2, CoverStep

LEMMA CoverCrash ==
    ASSUME Inv, CoverInv, NEW t \in Tasks, Crash(t)
    PROVE  CoverInv'
<1>0. PICK pc \in {"done"} \cup (IF task[t].stalls < MaxStalled THEN {"waiting"} ELSE {}) :
        task' = [task EXCEPT ![t] =
                    [IdleTask EXCEPT !.kind = task[t].kind, !.bill = task[t].bill,
                                     !.pc = pc, !.stalls = task[t].stalls + 1]]
  BY DEF Crash
<1> DEFINE x == [IdleTask EXCEPT !.kind = task[t].kind, !.bill = task[t].bill,
                                  !.pc = pc, !.stalls = task[t].stalls + 1]
<1>1. task' = [task EXCEPT ![t] = x] /\ UNCHANGED <<paid, expense, payouts>>
  BY <1>0 DEF Crash
<1>2. /\ x.active = {} /\ x.before = {} /\ x.counted = {} /\ x.left = {}
      /\ x.spent = [c \in Contracts |-> 0] /\ x.pc \in {"waiting", "done"}
  BY <1>0 DEF IdleTask
<1> HIDE DEF x
<1>3. Sound(x, expense, paid)
  BY <1>2 DEF Sound
<1> QED
  BY <1>1, <1>3, CoverStep, SameMoney

-----------------------------------------------------------------------------
(* The steps of a payout run *)

LEMMA CoverSelectContracts ==
    ASSUME Inv, CoverInv, NEW t \in Tasks, SelectContracts(t)
    PROVE  CoverInv'
<1> DEFINE active == {c \in Contracts : contract[c] = "active"}
           before == PaidBills
           x == [task[t] EXCEPT !.pc = "charges", !.left = active, !.active = active,
                                !.before = before]
<1>1. task' = [task EXCEPT ![t] = x] /\ UNCHANGED <<paid, expense, payouts>>
  BY DEF SelectContracts
<1>2. active \subseteq Contracts /\ before \subseteq {b \in Bills : expense[b].status = "paid"}
  BY DEF PaidBills
<1> HIDE DEF active, before
<1>3. /\ x.active = active /\ x.before = before /\ x.left = active /\ x.pc = "charges"
      /\ x.counted = task[t].counted /\ x.spent = task[t].spent
  BY SoundTask DEF IsTask
<1> HIDE DEF x
<1>4. Sound(x, expense, paid)
  BY <1>2, <1>3, SoundTask DEF Sound
<1> QED
  BY <1>1, <1>4, CoverStep, SameMoney

LEMMA CoverReadCharges ==
    ASSUME Inv, CoverInv, NEW t \in Tasks, ReadCharges(t)
    PROVE  CoverInv'
<1>1. PICK c \in task[t].left :
        task' = [task EXCEPT ![t].pc = "bills", ![t].contract = c,
                             ![t].counted = @ \cup ({c} \cap paid)]
  BY DEF ReadCharges
<1> DEFINE counted == task[t].counted \cup ({c} \cap paid)
           x == [task[t] EXCEPT !.pc = "bills", !.contract = c, !.counted = counted]
<1>2. /\ task[t].pc = "charges"
      /\ task' = [task EXCEPT ![t] = x] /\ UNCHANGED <<paid, expense, payouts>>
  BY <1>1 DEF ReadCharges
<1>3. task[t].left \subseteq task[t].active /\ counted \subseteq task[t].active \cap paid
  BY <1>2, SoundTask DEF Sound
<1> HIDE DEF counted
<1>4. /\ x.active = task[t].active /\ x.before = task[t].before /\ x.left = task[t].left
      /\ x.counted = counted /\ x.spent = task[t].spent /\ x.pc = "bills" /\ x.contract = c
  BY SoundTask DEF IsTask
<1> HIDE DEF x
<1>5. Sound(x, expense, paid)
  BY <1>2, <1>3, <1>4, SoundTask DEF Sound
<1> QED
  BY <1>2, <1>5, CoverStep, SameMoney

(* What is read of a contract has the bills that were paid in the beginning *)
(* among the bills that are paid now.                                       *)
LEMMA CoverReadBills ==
    ASSUME Inv, CoverInv, NEW t \in Tasks, ReadBills(t)
    PROVE  CoverInv'
<1> DEFINE c == task[t].contract
           left == task[t].left \ {c}
           spent == [task[t].spent EXCEPT ![c] = BillsOf(c, PaidBills)]
           x == [task[t] EXCEPT !.pc = "charges", !.contract = None, !.left = left,
                                !.spent = spent]
<1>1. /\ task[t].pc = "bills"
      /\ task' = [task EXCEPT ![t] = x] /\ UNCHANGED <<paid, expense, payouts>>
  BY DEF ReadBills
<1>2. /\ task[t].active \subseteq Contracts /\ task[t].spent \in [Contracts -> Nat]
      /\ c \in task[t].left /\ task[t].left \subseteq task[t].active
      /\ \A d \in task[t].active \ task[t].left :
            BillsIn(expense, d, task[t].before) <= task[t].spent[d]
  BY <1>1, SoundTask DEF Sound
<1>3. /\ BillsOf(c, PaidBills) = BillsIn(expense, c, PaidBills)
      /\ PaidBills \in SUBSET Bills /\ task[t].before \in SUBSET PaidBills
      /\ \A b \in Bills : expense[b].value \in Nat
  BY SoundTask DEF BillsOf, BillsIn, PaidBills, Sound, CoverInv, Amounts
<1>4. BillsOf(c, PaidBills) \in Nat /\ BillsIn(expense, c, task[t].before) <= BillsOf(c, PaidBills)
  BY <1>3, BillsInNat, BillsInMore
<1> HIDE DEF c
<1>5. /\ spent \in [Contracts -> Nat]
      /\ \A d \in task[t].active \ left : BillsIn(expense, d, task[t].before) <= spent[d]
  BY <1>2, <1>4
<1>6. left \subseteq task[t].active
  BY <1>2
<1> HIDE DEF left, spent
<1>7. /\ x.active = task[t].active /\ x.before = task[t].before /\ x.left = left
      /\ x.counted = task[t].counted /\ x.spent = spent /\ x.pc = "charges"
  BY SoundTask DEF IsTask
<1> HIDE DEF x
<1>8. Sound(x, expense, paid)
  BY <1>5, <1>6, <1>7, SoundTask DEF Sound
<1> QED
  BY <1>1, <1>8, CoverStep, SameMoney

LEMMA CoverCountOwners ==
    ASSUME Inv, CoverInv, NEW t \in Tasks, CountOwners(t)
    PROVE  CoverInv'
<1> DEFINE owners == {Owner[c] : c \in task[t].active}
           x == [task[t] EXCEPT !.pc = "payouts", !.left = owners]
<1>1. /\ task[t].pc = "charges" /\ task[t].left = {}
      /\ task' = [task EXCEPT ![t] = x] /\ UNCHANGED <<paid, expense, payouts>>
  BY DEF CountOwners
<1> HIDE DEF owners
<1>2. /\ x.active = task[t].active /\ x.before = task[t].before
      /\ x.counted = task[t].counted /\ x.spent = task[t].spent /\ x.pc = "payouts"
  BY SoundTask DEF IsTask
<1> HIDE DEF x
<1>3. Sound(x, expense, paid)
  BY <1>1, <1>2, SoundTask DEF Sound
<1> QED
  BY <1>1, <1>3, CoverStep, SameMoney

(* What an owner is announced is covered when it is announced.              *)
LEMMA PayoutCovered ==
    ASSUME Inv, CoverInv, NEW t \in Tasks, task[t].pc = "payouts", NEW o,
           NEW payout, payout.contracts = OwnedBy(o, task[t].active), payout.net = NetPayout(t, o),
           payout.before = Sum([c \in Contracts |-> BillsOf(c, task[t].before)],
                               OwnedBy(o, task[t].active))
    PROVE  Covered(payout, paid)
<1> DEFINE own == OwnedBy(o, task[t].active)
           counted == OwnedBy(o, task[t].counted)
           billed == [c \in Contracts |-> BillsOf(c, task[t].before)]
<1>1. /\ task[t].active \subseteq Contracts /\ task[t].spent \in [Contracts -> Nat]
      /\ task[t].counted \subseteq task[t].active \cap paid
      /\ task[t].before \in SUBSET Bills
      /\ \A c \in task[t].active : BillsIn(expense, c, task[t].before) <= task[t].spent[c]
      /\ \A b \in Bills : expense[b].value \in Nat
  BY SoundTask DEF Sound, CoverInv, Amounts
<1>2. /\ own \subseteq Contracts /\ own \subseteq task[t].active /\ IsFiniteSet(own)
      /\ counted \in SUBSET (own \cap paid) /\ own \cap paid \in SUBSET Contracts
  BY <1>1, PayoutsAssumption, FS_Subset DEF OwnedBy
<1>3. \A c : /\ BillsOf(c, task[t].before) = BillsIn(expense, c, task[t].before)
             /\ BillsIn(expense, c, task[t].before) \in Nat
  <2>1. \A c : BillsOf(c, task[t].before) = BillsIn(expense, c, task[t].before)
    BY DEF BillsOf, BillsIn
  <2>2. \A c : BillsIn(expense, c, task[t].before) \in Nat
    BY <1>1, BillsInNat
  <2> QED
    BY <2>1, <2>2
<1>4. \A c \in own : /\ billed[c] \in Nat /\ task[t].spent[c] \in Nat
                     /\ billed[c] <= task[t].spent[c]
  BY <1>1, <1>2, <1>3
<1> DEFINE before == Sum(billed, own)
           spent == Sum(task[t].spent, own)
<1> HIDE DEF own, counted, billed
<1>5. before \in Nat /\ spent \in Nat /\ before <= spent
  BY <1>2, <1>4, SumNat, SumMonotone
<1>6. /\ Received(counted) \in Nat /\ Received(own \cap paid) \in Nat
      /\ Received(counted) <= Received(own \cap paid)
  BY <1>2, ReceivedMore
<1>7. payout.net = IF Received(counted) - spent > 0 THEN Received(counted) - spent ELSE 0
  BY DEF NetPayout, own, counted
<1>8. payout.before = before /\ payout.contracts = own
  BY DEF own, billed
<1> HIDE DEF before, spent
<1>9. payout.net \in Nat /\ (payout.net = 0 \/ payout.net + before <= Received(own \cap paid))
  BY <1>5, <1>6, <1>7
<1> QED
  BY <1>2, <1>5, <1>8, <1>9 DEF Covered

LEMMA CoverAnnouncePayout ==
    ASSUME Inv, CoverInv, NEW t \in Tasks, AnnouncePayout(t)
    PROVE  CoverInv'
<1> DEFINE payout(o) == [task |-> t, run |-> task[t].stalls,
                         contracts |-> OwnedBy(o, task[t].active), net |-> NetPayout(t, o),
                         before |-> Sum([c \in Contracts |-> BillsOf(c, task[t].before)],
                                        OwnedBy(o, task[t].active))]
<1>1. PICK o \in task[t].left :
        /\ task' = [task EXCEPT ![t].left = @ \ {o}]
        /\ payouts' = payouts \cup {payout(o)} \/ payouts' = payouts
  BY DEF AnnouncePayout
<1> DEFINE x == [task[t] EXCEPT !.left = @ \ {o}]
<1>2. /\ task[t].pc = "payouts"
      /\ task' = [task EXCEPT ![t] = x] /\ UNCHANGED <<paid, expense>>
  BY <1>1 DEF AnnouncePayout
<1>3. /\ x.active = task[t].active /\ x.before = task[t].before
      /\ x.counted = task[t].counted /\ x.spent = task[t].spent /\ x.pc = "payouts"
  BY <1>2, SoundTask DEF IsTask
<1> HIDE DEF x
<1>4. Sound(x, expense, paid)
  BY <1>2, <1>3, SoundTask DEF Sound
<1>5. Covered(payout(o), paid)
  BY <1>2, PayoutCovered
<1> HIDE DEF payout
<1> QED
  BY <1>1, <1>2, <1>4, <1>5, CoverStep, SameMoney

LEMMA CoverNext == Inv /\ CoverInv /\ [Next]_vars => CoverInv'
<1> SUFFICES ASSUME Inv, CoverInv, [Next]_vars PROVE CoverInv'
  OBVIOUS
<1>1. CASE UNCHANGED <<task, expense, paid, payouts>>
  BY <1>1, CoverStep, SameMoney
<1>2. ASSUME NEW c \in Contracts, Onboard(c) \/ TenantPays(c) PROVE CoverInv'
  BY <1>1, <1>2, CoverTenantPays DEF Onboard
<1>3. ASSUME NEW p \in People,
             WriteStatus(p) \/ \E req \in Requests : ReadStatus(p, req[1], req[2])
      PROVE  CoverInv'
  BY <1>1, <1>3 DEF WriteStatus, ReadStatus
<1>4. ASSUME NEW t \in Tasks, NEW b \in Bills, BillArrives(t, b) PROVE CoverInv'
  BY <1>4, CoverStart DEF BillArrives
<1>5. ASSUME NEW t \in Tasks, Start(t, "pay_bills", None) \/ Start(t, "payout", None)
      PROVE  CoverInv'
  BY <1>5, CoverStart
<1>6. ASSUME NEW t \in Tasks, RadarCapture(t) \/ RadarAnnounce(t) PROVE CoverInv'
  BY <1>6, CoverRadarCapture, CoverRadarAnnounce
<1>7. ASSUME NEW b \in Bills, ApproveBill(b) PROVE CoverInv'
  BY <1>7, CoverApproveBill
<1>8. ASSUME NEW t \in Tasks, SelectBills(t) \/ PayBill(t) \/ AnnounceBills(t) PROVE CoverInv'
  BY <1>8, CoverSelectBills, CoverPayBill, CoverAnnounceBills
<1>9. ASSUME NEW t \in Tasks, SelectContracts(t) \/ ReadCharges(t) \/ ReadBills(t) PROVE CoverInv'
  BY <1>9, CoverSelectContracts, CoverReadCharges, CoverReadBills
<1>10. ASSUME NEW t \in Tasks, CountOwners(t) \/ AnnouncePayout(t) \/ PayoutsEnd(t) PROVE CoverInv'
  BY <1>10, CoverCountOwners, CoverAnnouncePayout, CoverPayoutsEnd
<1>11. ASSUME NEW t \in Tasks, Crash(t) PROVE CoverInv'
  BY <1>11, CoverCrash
<1>12. CASE UNCHANGED vars
  BY <1>1, <1>12 DEF vars
<1> QED
  BY <1>2, <1>3, <1>4, <1>5, <1>6, <1>7, <1>8, <1>9, <1>10, <1>11, <1>12 DEF Next

(* However the reads of a payout run interleave with payments, bills and    *)
(* changes of contracts, and though it may die and start over, no owner is  *)
(* announced more than the paid charges of the contracts, less the fee and  *)
(* the bills that were paid before the run began.                           *)
THEOREM PayoutsAreCovered == Spec => []PayoutIsCovered
<1>1. CoverInv => PayoutIsCovered
  BY DEF CoverInv, Covered, PayoutIsCovered
<1> QED
  BY <1>1, InvInit, InvStep, CoverInit, CoverNext, PTL DEF Spec
=============================================================================
