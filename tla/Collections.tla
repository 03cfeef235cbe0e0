----------------------------- MODULE Collections -----------------------------
(***************************************************************************)
(* How tenants of apps/api-node hear of their charges: the Cobrador issues *)
(* a charge, posts the notices and schedules the reminders; the Sentinela  *)
(* marks charges overdue and gives each one to a Cobrador task; the daily  *)
(* scheduler does the same on its own; the worker of the queue "messages"  *)
(* sends what is posted.  Agent tasks are run by the pipeline that module  *)
(* AgentTasks describes; here a task is the run of its handler.            *)
(*                                                                         *)
(* Time is a calendar day, and all charges are due on DueDay.  A Cobrador  *)
(* task for several charges handles one after the other, as so many tasks  *)
(* would.  Domain events are left out: they leave the system and nothing   *)
(* in it reads them back.                                                  *)
(***************************************************************************)
EXTENDS Integers, Sequences, FiniteSets

CONSTANTS
    Charges,    \* ids of charges
    Tasks,      \* ids of agent_tasks rows
    Emails,     \* charges whose tenant has an e-mail address
    Phones,     \* charges whose tenant has a phone
    Offsets,    \* days from the due date to each reminder, in the order of the code
    Lead,       \* days before the due date at which the scheduler reminds
    DueDay,     \* the day charges are due
    LastDay,    \* bound: the last day of a behaviour
    MaxStalled, \* BullMQ's maxStalledCount
    MaxFaults,  \* bound: deaths, refused writes and jobs, and deliveries that
                \* fail or are told wrong
    None

ASSUME CollectionsAssumption ==
    /\ Emails \subseteq Charges /\ Phones \subseteq Charges
    /\ Offsets \in Seq(Int)
    /\ \A i, j \in DOMAIN Offsets : Offsets[i] = Offsets[j] => i = j
    /\ IsFiniteSet(Tasks)
    /\ Lead \in Nat /\ DueDay \in Nat /\ LastDay \in Nat
    /\ MaxStalled \in Nat /\ MaxFaults \in Nat
    /\ None \notin Charges \cup Tasks

VARIABLES
    day,       \* today
    charge,    \* the rows of charges, and how often each was issued
    task,      \* the runs of the Cobrador and the Sentinela
    outbox,    \* the jobs of the queue "messages" with their message_records row
    scheduler, \* what the scheduler's worker has selected and not handled yet
    faults     \* faults so far

vars == <<day, charge, task, outbox, scheduler, faults>>

\* The templates that exist.
Templates == {"charge_issued", "charge_overdue", "payment_confirmed",
              "statement_ready", "simulation_report"}

Purposes == {"email", "whatsapp", "reminder", "upcoming"}
Template(purpose) == IF purpose = "reminder" THEN "charge_reminder" ELSE "charge_issued"
\* Only sendMessage inserts a message_records row.
Recorded == {"email", "whatsapp"}

\* ready is the first day the job may run.  A job is "sent" or "refused" by what
\* the channel answered, "stored" when its row says so too.  sends counts the
\* times a provider took the message; misled is history: a channel once answered
\* otherwise than the provider did.
Message == [ready : Int,
            state : {"adding", "lost", "waiting", "sent", "refused", "stored", "done",
                     "failed", "given_up"},
            row : {"none", "queued", "sent", "failed"},
            sends : Nat, misled : BOOLEAN, stalls : Nat]

\* The messages of one purpose about one charge are numbered as they are posted.
Id == Purposes \X Charges \X Nat
At(id) == outbox[id[1]][id[2]][id[3]]
Ids == UNION {{<<p, c, n>> : n \in DOMAIN outbox[p][c]} : p \in Purposes, c \in Charges}

Posted(purpose, c, ready, state) ==
    [outbox EXCEPT ![purpose][c] =
        Append(@, [ready |-> ready, state |-> state, sends |-> 0, misled |-> FALSE, stalls |-> 0,
                   row |-> IF purpose \in Recorded THEN "queued" ELSE "none"])]

With(id, m) == [outbox EXCEPT ![id[1]][id[2]][id[3]] = m]

\* A run of a handler: msg is the message it is posting, child the task it is
\* queueing, next the reminder it is at, and rows what the Sentinela selected
\* and has not handled, with the payment status it read.
IdleRun == [kind |-> "none", charge |-> None, pc |-> "absent", msg |-> <<>>, child |-> None,
            next |-> 1, rows |-> {}, stalls |-> 0]

Started(t) == task[t].pc \notin {"absent", "adding", "lost", "waiting", "done", "gone"}

\* Some charges were issued before, through the API and without a Cobrador.
Init ==
    /\ day = 0
    /\ \E issues \in [Charges -> {0, 1}] :
          charge = [c \in Charges |-> [issues |-> issues[c], pay |-> "open"]]
    /\ task = [t \in Tasks |-> IdleRun]
    /\ outbox = [p \in Purposes |-> [c \in Charges |-> <<>>]]
    /\ scheduler = [upcoming |-> "due", remind |-> {}, mark |-> {}, stalls |-> 0]
    /\ faults = 0

Issued(c) == charge[c].issues > 0

Fault == faults < MaxFaults /\ faults' = faults + 1

-----------------------------------------------------------------------------
(* The world: days go by, tenants pay, people ask agents for work *)

Tomorrow ==
    /\ day < LastDay
    /\ day' = day + 1
    /\ UNCHANGED <<charge, task, outbox, scheduler, faults>>

\* A payment that settles the charge (module Billing has the ways to get here).
Settle(c) ==
    /\ Issued(c) /\ charge[c].pay # "paid"
    /\ charge' = [charge EXCEPT ![c].pay = "paid"]
    /\ UNCHANGED <<day, task, outbox, scheduler, faults>>

\* POST /agents/tasks.
AskCobrador(t, c) ==
    /\ task[t].pc = "absent"
    /\ task' = [task EXCEPT ![t].kind = "cobrador", ![t].charge = c, ![t].pc = "waiting"]
    /\ UNCHANGED <<day, charge, outbox, scheduler, faults>>

AskSentinela(t) ==
    /\ task[t].pc = "absent"
    /\ task' = [task EXCEPT ![t].kind = "sentinela", ![t].pc = "waiting"]
    /\ UNCHANGED <<day, charge, outbox, scheduler, faults>>

-----------------------------------------------------------------------------
(* The Cobrador *)

\* Mutant of CobradorRead: a charge that is already issued is announced again.
CobradorReadAny(t) ==
    /\ task[t].kind = "cobrador" /\ task[t].pc = "waiting"
    /\ task' = [task EXCEPT ![t].pc = IF Issued(task[t].charge) THEN "email" ELSE "issue"]
    /\ UNCHANGED <<day, charge, outbox, scheduler, faults>>

\* A worker takes the job; issueCharge reads the charge.  Unless it is a draft
\* it throws, and processCharge takes "can only issue from" for success.
CobradorRead(t) ==
    /\ task[t].kind = "cobrador" /\ task[t].pc = "waiting"
    /\ task' = [task EXCEPT ![t].pc = IF Issued(task[t].charge) THEN "done" ELSE "issue"]
    /\ UNCHANGED <<day, charge, outbox, scheduler, faults>>

\* What follows when the tenant cannot be reached by e-mail, by phone.
AfterIssue(c) == CASE c \in Emails -> "email"
                   [] c \in Phones \ Emails -> "whatsapp"
                   [] OTHER -> "done"
AfterEmail(c) == IF c \in Phones THEN "whatsapp" ELSE "done"

\* The UPDATE by id, after the boleto and the PIX code were obtained.
CobradorIssue(t) ==
    LET c == task[t].charge IN
    /\ task[t].pc = "issue"
    /\ charge' = [charge EXCEPT ![c].issues = @ + 1]
    /\ task' = [task EXCEPT ![t].pc = AfterIssue(c)]
    /\ UNCHANGED <<day, outbox, scheduler, faults>>

\* sendMessage inserts the row ...
PostMessage(t) ==
    /\ task[t].pc \in Recorded
    /\ outbox' = Posted(task[t].pc, task[t].charge, day, "adding")
    /\ task' = [task EXCEPT ![t].pc = "add",
                            ![t].msg = <<task[t].pc, task[t].charge,
                                         Len(outbox'[task[t].pc][task[t].charge])>>]
    /\ UNCHANGED <<day, charge, scheduler, faults>>

AfterPost(t) == IF task[t].msg[1] = "email" THEN AfterEmail(task[t].charge) ELSE "remind"

\* ... and adds the job.  When Redis refuses, the error is logged and the row
\* keeps its status.
AddMessage(t) ==
    LET id == task[t].msg IN
    /\ task[t].pc = "add"
    /\ \/ outbox' = With(id, [At(id) EXCEPT !.state = "waiting"]) /\ UNCHANGED faults
       \/ outbox' = With(id, [At(id) EXCEPT !.state = "lost"]) /\ Fault
    /\ task' = [task EXCEPT ![t].pc = AfterPost(t), ![t].msg = <<>>]
    /\ UNCHANGED <<day, charge, scheduler>>

\* Where the run goes on when the database refuses what it does at pc: the
\* issue itself, something the e-mail needs, or, for the message by phone, the
\* SELECTs of the contract and the tenant or the row.
AfterRefusal(t) == CASE task[t].pc = "issue" -> {"done"}
                     [] task[t].pc = "email" -> {AfterEmail(task[t].charge)}
                     [] task[t].pc = "whatsapp" -> {"done", "remind"}

\* Every such error is caught, by sendMessage's callers or by processCharge, and
\* the notice is never posted.
CobradorRefused(t) ==
    /\ task[t].pc \in {"issue"} \cup Recorded
    /\ Fault
    /\ \E pc \in AfterRefusal(t) : task' = [task EXCEPT ![t].pc = pc]
    /\ UNCHANGED <<day, charge, outbox, scheduler>>

RemindersLeft(t) == task[t].next <= Len(Offsets)

\* scheduleReminders: a delayed job for 14h of each day, without a
\* message_records row, unless it is past that hour.
ScheduleReminder(t) ==
    LET ready == DueDay + Offsets[task[t].next] IN
    /\ task[t].pc = "remind" /\ RemindersLeft(t)
    /\ \/ ready >= day /\ outbox' = Posted("reminder", task[t].charge, ready, "waiting")
       \/ ready <= day /\ UNCHANGED outbox
    /\ task' = [task EXCEPT ![t].next = @ + 1]
    /\ UNCHANGED <<day, charge, scheduler, faults>>

\* All are scheduled, or Redis refused one and the rest is left out.
CobradorEnd(t) ==
    /\ task[t].pc = "remind"
    /\ \/ ~RemindersLeft(t) /\ UNCHANGED faults
       \/ RemindersLeft(t) /\ Fault
    /\ task' = [task EXCEPT ![t].pc = "done", ![t].next = 1]
    /\ UNCHANGED <<day, charge, outbox, scheduler>>

-----------------------------------------------------------------------------
(* The Sentinela *)

Late(c, pay) == Issued(c) /\ charge[c].pay = pay

\* A worker takes the job.  Two SELECTs, one after the other: the issued charges
\* that are open and past their due date, and those that are overdue; a charge
\* in both keeps the status it had in the first.
SentinelaOpen(t) ==
    /\ task[t].kind = "sentinela" /\ task[t].pc = "waiting"
    /\ task' = [task EXCEPT ![t].pc = "overdue",
                            ![t].rows = {<<c, "open">> : c \in {d \in Charges :
                                            Late(d, "open") /\ DueDay < day}}]
    /\ UNCHANGED <<day, charge, outbox, scheduler, faults>>

SentinelaOverdue(t) ==
    LET rows == task[t].rows IN
    /\ task[t].pc = "overdue"
    /\ task' = [task EXCEPT ![t].pc = "mark",
                            ![t].rows = rows \cup {<<c, "overdue">> : c \in {d \in Charges :
                                            Late(d, "overdue") /\ <<d, "open">> \notin rows}}]
    /\ UNCHANGED <<day, charge, outbox, scheduler, faults>>

\* For each of them in turn: overdue, if it was open when it was read; ...
SentinelaMark(t) ==
    /\ task[t].pc = "mark"
    /\ \E row \in task[t].rows :
        /\ charge' = IF row[2] = "open" THEN [charge EXCEPT ![row[1]].pay = "overdue"] ELSE charge
        /\ task' = [task EXCEPT ![t].pc = "assign", ![t].charge = row[1],
                                ![t].rows = @ \ {row}]
    /\ UNCHANGED <<day, outbox, scheduler, faults>>

\* ... the row of a Cobrador task; ...
SentinelaAssign(t) ==
    /\ task[t].pc = "assign"
    /\ \E child \in Tasks :
        /\ task[child].pc = "absent"
        /\ task' = [task EXCEPT ![t].pc = "queue", ![t].child = child,
                                ![child].kind = "cobrador", ![child].charge = task[t].charge,
                                ![child].pc = "adding"]
    /\ UNCHANGED <<day, charge, outbox, scheduler, faults>>

\* ... and its job.  When Redis refuses, the handler throws and the charges
\* that are left get no task.
SentinelaQueue(t) ==
    LET child == task[t].child IN
    /\ task[t].pc = "queue"
    /\ \/ /\ task' = [task EXCEPT ![t].pc = "mark", ![t].child = None, ![child].pc = "waiting"]
          /\ UNCHANGED faults
       \/ /\ task' = [task EXCEPT ![t].pc = "done", ![t].child = None, ![t].rows = {},
                                  ![child].pc = "lost"]
          /\ Fault
    /\ UNCHANGED <<day, charge, outbox, scheduler>>

SentinelaEnd(t) ==
    /\ task[t].pc = "mark" /\ task[t].rows = {}
    /\ task' = [task EXCEPT ![t].pc = "done"]
    /\ UNCHANGED <<day, charge, outbox, scheduler, faults>>

\* The worker dies: what it was about to queue is never queued; BullMQ hands
\* the job out again, MaxStalled times.
Crash(t) ==
    LET run == task[t]
        again == [IdleRun EXCEPT !.kind = run.kind, !.stalls = run.stalls,
                                 !.charge = IF run.kind = "cobrador" THEN run.charge ELSE None]
    IN  /\ Started(t)
        /\ Fault
        /\ outbox' = IF run.msg = <<>> THEN outbox
                     ELSE With(run.msg, [At(run.msg) EXCEPT !.state = "lost"])
        /\ task' = [s \in Tasks |->
                        CASE s = t /\ run.stalls < MaxStalled ->
                                [again EXCEPT !.pc = "waiting", !.stalls = @ + 1]
                          [] s = t /\ run.stalls >= MaxStalled -> [again EXCEPT !.pc = "gone"]
                          [] s # t /\ s = run.child -> [task[s] EXCEPT !.pc = "lost"]
                          [] OTHER -> task[s]]
        /\ UNCHANGED <<day, charge, scheduler>>

-----------------------------------------------------------------------------
(* The scheduler, one job at a time *)

SchedulerFree == scheduler.remind = {} /\ scheduler.mark = {}

\* charge-reminders, at 9h: the open charges that are due in Lead days ...
UpcomingScan ==
    /\ SchedulerFree /\ scheduler.upcoming = "due" /\ day = DueDay - Lead
    /\ scheduler' = [scheduler EXCEPT !.upcoming = "ran",
                                      !.remind = {c \in Charges : Late(c, "open")}]
    /\ UNCHANGED <<day, charge, task, outbox, faults>>

\* ... get the text of the notice once more, if the tenant has a phone.
UpcomingSend(c) ==
    /\ c \in scheduler.remind
    /\ outbox' = IF c \in Phones THEN Posted("upcoming", c, day, "waiting") ELSE outbox
    /\ scheduler' = [scheduler EXCEPT !.remind = @ \ {c}]
    /\ UNCHANGED <<day, charge, task, faults>>

\* check-overdue, at 8h: select, then update by id.
OverdueScan ==
    /\ SchedulerFree /\ DueDay < day
    /\ scheduler' = [scheduler EXCEPT !.mark = {c \in Charges : Late(c, "open")}]
    /\ UNCHANGED <<day, charge, task, outbox, faults>>

OverdueMark(c) ==
    /\ c \in scheduler.mark
    /\ charge' = [charge EXCEPT ![c].pay = "overdue"]
    /\ scheduler' = [scheduler EXCEPT !.mark = @ \ {c}]
    /\ UNCHANGED <<day, task, outbox, faults>>

\* The worker dies; a stalled job starts over.
SchedulerCrash ==
    /\ ~SchedulerFree
    /\ Fault
    /\ scheduler' = IF scheduler.remind # {} /\ scheduler.stalls < MaxStalled
                    THEN [upcoming |-> "due", remind |-> {}, mark |-> {},
                          stalls |-> scheduler.stalls + 1]
                    ELSE [scheduler EXCEPT !.remind = {}, !.mark = {}]
    /\ UNCHANGED <<day, charge, task, outbox>>

-----------------------------------------------------------------------------
(* The message worker *)

MayRun(id) == At(id).state = "waiting" /\ At(id).ready <= day
Rendered(id) == Template(id[1]) \in Templates

\* renderTemplate throws before anything else: BullMQ fails the job, which has
\* one attempt.
RenderFails(id) ==
    /\ MayRun(id) /\ ~Rendered(id)
    /\ outbox' = With(id, [At(id) EXCEPT !.state = "failed"])
    /\ UNCHANGED <<day, charge, task, scheduler, faults>>

\* The provider takes the message, or not, and the channel answers that it did,
\* or not.  They differ when the provider's answer is lost, and when a stub
\* answers in its place: for WhatsApp after an exception, and for a channel that
\* has no provider.
Send(id) ==
    LET Told(answer, taken) ==
            [At(id) EXCEPT !.state = answer, !.sends = @ + taken,
                           !.misled = @ \/ (answer = "sent") # (taken = 1)]
    IN  /\ MayRun(id) /\ Rendered(id)
        /\ \/ outbox' = With(id, Told("sent", 1)) /\ UNCHANGED faults
           \/ /\ \E answer \in {"sent", "refused"}, taken \in {0, 1} :
                    outbox' = With(id, Told(answer, taken))
              /\ Fault
        /\ UNCHANGED <<day, charge, task, scheduler>>

Outcome(m) == CASE m.row = "none" -> "none"
                [] m.row # "none" /\ m.state = "sent" -> "sent"
                [] OTHER -> "failed"

\* Mutant of StoreMessage: a failed delivery leaves the row as it is.
StoreIfSent(id) ==
    /\ At(id).state \in {"sent", "refused"}
    /\ outbox' = With(id, [At(id) EXCEPT !.state = "stored",
                              !.row = IF At(id).state = "sent" THEN Outcome(At(id)) ELSE @])
    /\ UNCHANGED <<day, charge, task, scheduler, faults>>

\* The row, if there is one, gets the outcome.  When the database refuses the
\* UPDATE, the processor throws and the job fails, which has one attempt.
StoreMessage(id) ==
    /\ At(id).state \in {"sent", "refused"}
    /\ \/ outbox' = With(id, [At(id) EXCEPT !.state = "stored", !.row = Outcome(At(id))])
          /\ UNCHANGED faults
       \/ outbox' = With(id, [At(id) EXCEPT !.state = "failed"]) /\ Fault
    /\ UNCHANGED <<day, charge, task, scheduler>>

\* The job is complete whatever the outcome: a failed delivery is never
\* repeated.
CompleteMessage(id) ==
    /\ At(id).state = "stored"
    /\ outbox' = With(id, [At(id) EXCEPT !.state = "done"])
    /\ UNCHANGED <<day, charge, task, scheduler, faults>>

\* The worker dies before or after the provider was called, or with the outcome
\* stored: the job is found stalled and handed out again, MaxStalled times.
MessageCrash(id) ==
    /\ MayRun(id) \/ At(id).state \in {"sent", "refused", "stored"}
    /\ Fault
    /\ outbox' = With(id, IF At(id).stalls < MaxStalled
                          THEN [At(id) EXCEPT !.state = "waiting", !.stalls = @ + 1]
                          ELSE [At(id) EXCEPT !.state = "given_up"])
    /\ UNCHANGED <<day, charge, task, scheduler>>

-----------------------------------------------------------------------------
(* The specification *)

RunTask(t) ==
    \/ CobradorRead(t) \/ CobradorIssue(t) \/ PostMessage(t) \/ AddMessage(t)
    \/ CobradorRefused(t) \/ ScheduleReminder(t) \/ CobradorEnd(t)
    \/ SentinelaOpen(t) \/ SentinelaOverdue(t) \/ SentinelaMark(t) \/ SentinelaAssign(t)
    \/ SentinelaQueue(t) \/ SentinelaEnd(t)

RunScheduler ==
    \/ UpcomingScan
    \/ \E c \in Charges : UpcomingSend(c) \/ OverdueMark(c)

RunMessage(id) == RenderFails(id) \/ Send(id) \/ StoreMessage(id) \/ CompleteMessage(id)

Next ==
    \/ Tomorrow
    \/ \E c \in Charges : Settle(c)
    \/ \E t \in Tasks : AskSentinela(t) \/ \E c \in Charges : AskCobrador(t, c)
    \/ \E t \in Tasks : RunTask(t) \/ Crash(t)
    \/ RunScheduler \/ OverdueScan \/ SchedulerCrash
    \/ \E id \in Ids : RunMessage(id) \/ MessageCrash(id)

Spec == Init /\ [][Next]_vars

\* Days go by and the workers keep taking what the queues hold.
Fairness ==
    /\ WF_vars(Tomorrow)
    /\ \A t \in Tasks : WF_vars(RunTask(t))
    /\ WF_vars(RunScheduler)
    /\ \A p \in Purposes, c \in Charges :
          WF_vars(\E n \in DOMAIN outbox[p][c] : RunMessage(<<p, c, n>>))

FairSpec == Spec /\ Fairness

-----------------------------------------------------------------------------
(* Properties *)

Reminders(c, ready) == {n \in DOMAIN outbox["reminder"][c] :
                            outbox["reminder"][c][n].ready = ready}

(* A charge is announced for what was done with it, however often its      *)
(* Cobrador tasks run again after a death and however many the Sentinela   *)
(* adds: of the notice by e-mail, the one by phone and the reminder of     *)
(* each day, no more are posted than the charge was issued, and the notice *)
(* that the scheduler repeats by phone before the due date is posted once, *)
(* and once more for each time the scheduler's job ran again.  What is     *)
(* posted once is delivered once, and once more for each time its worker   *)
(* died, which BullMQ allows MaxStalled times.                             *)
NoticesMatchIssues ==
    /\ \A c \in Charges :
          /\ \A purpose \in Recorded : Len(outbox[purpose][c]) <= charge[c].issues
          /\ \A ready \in 0 .. LastDay : Cardinality(Reminders(c, ready)) <= charge[c].issues
          /\ Len(outbox["upcoming"][c]) <= scheduler.stalls + 1
    /\ \A id \in Ids : At(id).sends <= At(id).stalls + 1 /\ At(id).stalls <= MaxStalled

(* What a message_records row says, against what the provider did.  A row  *)
(* that says "sent" is of a message that was taken, and one that says      *)
(* "failed" of a message that was not, unless a channel answered what was  *)
(* not so, or the message was sent again after a death.  And no job is     *)
(* complete whose row still says "queued": such a row has a job that will  *)
(* decide it, or one that Redis refused, that BullMQ gave up after         *)
(* MaxStalled recoveries, or that failed because the row could not be      *)
(* written.                                                                *)
RowTellsDelivery ==
    \A id \in Ids :
        LET m == At(id) IN
        /\ m.row = "sent" => m.sends > 0 \/ m.misled
        /\ m.row = "failed" => m.sends = 0 \/ m.misled \/ m.stalls > 0
        /\ m.row = "queued" => /\ m.state \notin {"stored", "done"}
                               /\ m.state = "given_up" => m.stalls = MaxStalled

(* The Cobrador "sends collection reminders until the payment": a reminder *)
(* that was scheduled reaches a provider, unless the charge is paid.       *)
ReminderReachesTenant ==
    \A c \in Charges :
        Len(outbox["reminder"][c]) > 0
            ~> charge[c].pay = "paid" \/ \E n \in DOMAIN outbox["reminder"][c] :
                                            outbox["reminder"][c][n].sends > 0
=============================================================================
