----------------------------- MODULE AgentTasks -----------------------------
(***************************************************************************)
(* The agent task pipeline of apps/api-node: rows of agent_tasks, the jobs *)
(* of the BullMQ queue "agent-tasks", the worker slots that run them, and  *)
(* the people who approve or reject the results.                           *)
(*                                                                         *)
(* A row and its job are separate: the row is inserted, then the job is    *)
(* added; the worker updates the row, then BullMQ closes the job.  A worker *)
(* may die between any two steps; BullMQ then finds the job stalled and    *)
(* hands it out again, MaxStalled times.  The database may refuse any      *)
(* statement of the worker: the processor then throws, and the job, which  *)
(* has a single attempt, has failed for good.                              *)
(***************************************************************************)
EXTENDS Integers

CONSTANTS
    Tasks,        \* ids of agent_tasks rows
    Workers,      \* concurrency slots of the agent-tasks worker
    Reviewers,    \* people with the review page open
    Confidences,  \* confidence scores a handler may report
    Configs,      \* the agentConfigs rows an administrator may store
    MaxStalled,   \* BullMQ's maxStalledCount
    MaxFaults,    \* bound: worker deaths and refused statements in a behaviour
    None

ASSUME AgentTasksAssumption ==
    /\ Confidences \subseteq Int
    /\ Configs \subseteq [auto : Int, escalate : Int]
    /\ Configs # {}
    /\ MaxStalled \in Nat
    /\ MaxFaults \in Nat
    /\ None \notin Tasks

VARIABLES
    task,     \* rows of agent_tasks
    job,      \* the BullMQ job of each task
    worker,   \* what each worker slot is doing
    review,   \* what each reviewer has read
    config,   \* the confidence thresholds of the task type
    faults    \* worker deaths and refused statements so far

vars == <<task, job, worker, review, config, faults>>

Terminal == {"completed", "failed", "escalated", "cancelled"}
\* Mutants of Reviewable: a task can be reviewed while it runs; and again after
\* it was rejected.
ReviewableEarly == {"running", "completed", "escalated"}
ReviewableAgain == {"completed", "escalated", "cancelled"}
Reviewable == {"completed", "escalated"}

\* output and action name an execution of the handler by its number; 0 is
\* null and -1 the output a reviewer put in its place.  runs counts the
\* executions: each of them issues boletos, sends messages and so on.
TaskRow == [status : {"absent", "queued", "running"} \cup Terminal,
            output : Nat, action : Nat \cup {-1},
            verdict : {"none", "approved", "rejected"}, runs : Nat]

\* A job has failed when its processor threw, and is given up when it stalled
\* once too often.
JobState == {"none", "adding", "lost", "waiting", "active", "done", "failed", "given_up"}
Job == [state : JobState, stalls : Nat]

\* route is where routeByConfidence sent the result, if it was asked.
Result == [status : {"completed", "failed", "escalated"}, output : Nat,
           route : {"none", "auto_execute", "needs_review", "escalate"}]
NoResult == [status |-> "failed", output |-> 0, route |-> "none"]

WorkerSlot == [pc : {"idle", "taken", "execute", "store", "catch", "ack"},
               task : Tasks \cup {None}, result : Result]
FreeSlot == [pc |-> "idle", task |-> None, result |-> NoResult]

Reading == [task : Tasks \cup {None}, status : Terminal, output : Nat,
            kind : {"approve", "reject"}]
NoReading == [task |-> None, status |-> "completed", output |-> 0, kind |-> "approve"]

Init ==
    /\ task = [t \in Tasks |-> [status |-> "absent", output |-> 0, action |-> 0,
                                verdict |-> "none", runs |-> 0]]
    /\ job = [t \in Tasks |-> [state |-> "none", stalls |-> 0]]
    /\ worker = [w \in Workers |-> FreeSlot]
    /\ review = [r \in Reviewers |-> NoReading]
    /\ config \in Configs
    /\ faults = 0

-----------------------------------------------------------------------------
(* Producers *)

\* Sentinela's cron, the orchestrator and the scheduler: INSERT the row ...
InsertTask(t) ==
    /\ task[t].status = "absent"
    /\ task' = [task EXCEPT ![t].status = "queued"]
    /\ job' = [job EXCEPT ![t].state = "adding"]
    /\ UNCHANGED <<worker, review, config, faults>>

\* ... then add the job,
AddJob(t) ==
    /\ job[t].state = "adding"
    /\ job' = [job EXCEPT ![t].state = "waiting"]
    /\ UNCHANGED <<task, worker, review, config, faults>>

\* unless the producer dies or Redis refuses.
LoseJob(t) ==
    /\ job[t].state = "adding"
    /\ job' = [job EXCEPT ![t].state = "lost"]
    /\ UNCHANGED <<task, worker, review, config, faults>>

-----------------------------------------------------------------------------
(* The worker *)

TakeJob(w, t) ==
    /\ worker[w].pc = "idle"
    /\ job[t].state = "waiting"
    /\ job' = [job EXCEPT ![t].state = "active"]
    /\ worker' = [worker EXCEPT ![w] = [FreeSlot EXCEPT !.pc = "taken", !.task = t]]
    /\ UNCHANGED <<task, review, config, faults>>

\* processAgentTask marks the row running whatever its status is, and loads it.
MarkRunning(w) ==
    /\ worker[w].pc = "taken"
    /\ task' = [task EXCEPT ![worker[w].task].status = "running"]
    /\ worker' = [worker EXCEPT ![w].pc = "execute"]
    /\ UNCHANGED <<job, review, config, faults>>

\* routeByConfidence: at or above auto execute, at or above escalate leave the
\* result for review, below escalate.
Route(conf) ==
    CASE conf >= config.auto -> "auto_execute"
      [] conf < config.auto /\ conf >= config.escalate -> "needs_review"
      [] OTHER -> "escalate"

\* What executeTask makes of a handler's completed result.
Routed(conf, out) ==
    [status |-> IF Route(conf) = "escalate" THEN "escalated" ELSE "completed",
     output |-> out,
     route |-> Route(conf)]

\* The handler runs, with all its effects, and only then is its result routed;
\* a handler may also complete without a confidence, fail, or escalate by itself.
Execute(w) ==
    LET t == worker[w].task
        run == task[t].runs + 1
        own == [status : {"completed", "failed", "escalated"}, output : {run}, route : {"none"}]
    IN  /\ worker[w].pc = "execute"
        /\ task' = [task EXCEPT ![t].runs = run]
        /\ \E res \in own \cup {Routed(conf, run) : conf \in Confidences} :
            worker' = [worker EXCEPT ![w].pc = "store", ![w].result = res]
        /\ UNCHANGED <<job, review, config, faults>>

\* A handler may also throw.
Throw(w) ==
    /\ worker[w].pc = "execute"
    /\ task' = [task EXCEPT ![worker[w].task].runs = @ + 1]
    /\ worker' = [worker EXCEPT ![w].pc = "catch"]
    /\ UNCHANGED <<job, review, config, faults>>

\* The row gets status and output; executedAction is written only when the
\* result was auto-executed (an undefined column is left out of the UPDATE).
StoreResult(w) ==
    LET t == worker[w].task
        res == worker[w].result
    IN  /\ worker[w].pc = "store"
        /\ task' = [task EXCEPT
                        ![t].status = res.status, ![t].output = res.output,
                        ![t].action = IF res.route = "auto_execute" THEN res.output ELSE @]
        /\ worker' = [worker EXCEPT ![w].pc = "ack"]
        /\ UNCHANGED <<job, review, config, faults>>

Fault == faults < MaxFaults /\ faults' = faults + 1

\* The SELECT of the row or the UPDATE of the result is refused inside the try.
Refuse(w) ==
    /\ worker[w].pc \in {"execute", "store"}
    /\ Fault
    /\ worker' = [worker EXCEPT ![w].pc = "catch"]
    /\ UNCHANGED <<task, job, review, config>>

\* Mutant of StoreFailure: the exception is logged and the row is not updated.
SwallowFailure(w) ==
    /\ worker[w].pc = "catch"
    /\ worker' = [worker EXCEPT ![w].pc = "ack"]
    /\ UNCHANGED <<task, job, review, config, faults>>

\* The catch writes the status and the reason and nothing else.
StoreFailure(w) ==
    /\ worker[w].pc = "catch"
    /\ task' = [task EXCEPT ![worker[w].task].status = "failed"]
    /\ worker' = [worker EXCEPT ![w].pc = "ack"]
    /\ UNCHANGED <<job, review, config, faults>>

\* processAgentTask returned, with or without an error of the handler: for
\* BullMQ the job is complete.
CompleteJob(w) ==
    /\ worker[w].pc = "ack"
    /\ job' = [job EXCEPT ![worker[w].task].state = "done"]
    /\ worker' = [worker EXCEPT ![w] = FreeSlot]
    /\ UNCHANGED <<task, review, config, faults>>

\* The UPDATE before the try, or the one of the catch, is refused:
\* processAgentTask throws and the job fails, whatever the row says.
FailJob(w) ==
    /\ worker[w].pc \in {"taken", "catch"}
    /\ Fault
    /\ job' = [job EXCEPT ![worker[w].task].state = "failed"]
    /\ worker' = [worker EXCEPT ![w] = FreeSlot]
    /\ UNCHANGED <<task, review, config>>

Crash(w) ==
    /\ worker[w].pc # "idle"
    /\ Fault
    /\ worker' = [worker EXCEPT ![w] = FreeSlot]
    /\ UNCHANGED <<task, job, review, config>>

Orphaned(t) == job[t].state = "active" /\ \A w \in Workers : worker[w].task # t

\* Mutant of Stall: the recoveries are not limited.
StallForever(t) ==
    /\ Orphaned(t)
    /\ job' = [job EXCEPT ![t] = [state |-> "waiting", stalls |-> @.stalls + 1]]
    /\ UNCHANGED <<task, worker, review, config, faults>>

\* BullMQ finds an active job without a worker and queues it again ...
Stall(t) ==
    /\ Orphaned(t)
    /\ job[t].stalls < MaxStalled
    /\ job' = [job EXCEPT ![t] = [state |-> "waiting", stalls |-> @.stalls + 1]]
    /\ UNCHANGED <<task, worker, review, config, faults>>

\* ... or gives it up; nothing updates the row.
GiveUp(t) ==
    /\ Orphaned(t)
    /\ job[t].stalls >= MaxStalled
    /\ job' = [job EXCEPT ![t].state = "given_up"]
    /\ UNCHANGED <<task, worker, review, config, faults>>

-----------------------------------------------------------------------------
(* People *)

\* approveTask and rejectTask read the row and check its status ...
ReviewRead(r, t) ==
    /\ review[r].task = None
    /\ task[t].status \in Reviewable
    /\ \E kind \in {"approve", "reject"} :
        review' = [review EXCEPT ![r] = [task |-> t, status |-> task[t].status,
                                         output |-> task[t].output, kind |-> kind]]
    /\ UNCHANGED <<task, job, worker, config, faults>>

\* ... then update it by id: an approval copies the output that was read,
Approve(r) ==
    LET t == review[r].task IN
    /\ t # None /\ review[r].kind = "approve"
    /\ task' = [task EXCEPT ![t].status = "completed", ![t].action = review[r].output,
                            ![t].verdict = "approved"]
    /\ review' = [review EXCEPT ![r] = NoReading]
    /\ UNCHANGED <<job, worker, config, faults>>

\* Mutant of Reject: the reviewer's output replaces the handler's.
RejectOverOutput(r) ==
    LET t == review[r].task IN
    /\ t # None /\ review[r].kind = "reject"
    /\ task' = [task EXCEPT ![t].status = "cancelled", ![t].output = -1,
                            ![t].verdict = "rejected"]
    /\ review' = [review EXCEPT ![r] = NoReading]
    /\ UNCHANGED <<job, worker, config, faults>>

\* a rejection puts the reviewer's own output, or nothing, in its place.
Reject(r) ==
    LET t == review[r].task IN
    /\ t # None /\ review[r].kind = "reject"
    /\ \E own \in {0, -1} :
        task' = [task EXCEPT ![t].status = "cancelled", ![t].action = own,
                             ![t].verdict = "rejected"]
    /\ review' = [review EXCEPT ![r] = NoReading]
    /\ UNCHANGED <<job, worker, config, faults>>

\* PUT /agents/configs: either threshold, in any order.
UpdateConfig ==
    /\ config' \in Configs
    /\ UNCHANGED <<task, job, worker, review, faults>>

Work(w) ==
    \/ \E t \in Tasks : TakeJob(w, t)
    \/ MarkRunning(w) \/ Execute(w) \/ Throw(w) \/ StoreResult(w) \/ StoreFailure(w)
    \/ CompleteJob(w)

Next ==
    \/ \E t \in Tasks : InsertTask(t) \/ AddJob(t) \/ LoseJob(t) \/ Stall(t) \/ GiveUp(t)
    \/ \E w \in Workers : Work(w) \/ Refuse(w) \/ FailJob(w) \/ Crash(w)
    \/ \E r \in Reviewers : (\E t \in Tasks : ReviewRead(r, t)) \/ Approve(r) \/ Reject(r)
    \/ UpdateConfig

Spec == Init /\ [][Next]_vars

\* Producers, workers and BullMQ's stalled-job check keep going; people need not.
Fairness ==
    /\ \A t \in Tasks : WF_vars(AddJob(t) \/ LoseJob(t)) /\ WF_vars(Stall(t) \/ GiveUp(t))
                        /\ \A w \in Workers : SF_vars(TakeJob(w, t))
    /\ \A w \in Workers : WF_vars(Work(w))

FairSpec == Spec /\ Fairness

-----------------------------------------------------------------------------
(* Properties.  Workers may die, statements may be refused and any number  *)
(* of people may review at the same time.                                  *)

TypeOK ==
    /\ task \in [Tasks -> TaskRow]
    /\ job \in [Tasks -> Job]
    /\ worker \in [Workers -> WorkerSlot]
    /\ review \in [Reviewers -> Reading]
    /\ config \in Configs
    /\ faults \in 0 .. MaxFaults

(* The handler of a task, which issues boletos, charges and payouts, runs  *)
(* at most once more than its job was found stalled, and so at most        *)
(* MaxStalled + 1 times, whatever dies and whatever reviewers do.          *)
RunsBounded ==
    \A t \in Tasks :
        /\ task[t].runs <= job[t].stalls + 1
        /\ job[t].stalls <= MaxStalled

(* A row that says "running" has a job that is in a worker's hands or was  *)
(* found stalled and waits to be taken again.  It is left "running" for    *)
(* good only by a job that stalled MaxStalled times and once more, or one  *)
(* whose processor threw, and either has cost a fault besides its stalls.  *)
RunningIsHeld ==
    \A t \in Tasks : task[t].status = "running" =>
        \/ job[t].state = "active"
        \/ job[t].state = "waiting" /\ job[t].stalls > 0
        \/ job[t].state = "given_up" /\ job[t].stalls = MaxStalled /\ faults > MaxStalled
        \/ job[t].state = "failed" /\ faults > job[t].stalls

(* The worker touches the row of a task a person has decided only when a   *)
(* stalled job runs the task again.                                        *)
VerdictIsFinal ==
    [][\A t \in Tasks : task[t].verdict # "none" /\ job[t].stalls = 0 =>
          task'[t].output = task[t].output /\ task'[t].runs = task[t].runs]_vars

(* An approval puts an output on record, and it is the one the row shows   *)
(* next to it, unless a stalled job ran the task again.                    *)
ApprovedIsOnRecord ==
    \A t \in Tasks : task[t].verdict = "approved" =>
        /\ task[t].output # 0 /\ task[t].action \notin {0, -1}
        /\ job[t].stalls = 0 => task[t].action = task[t].output

\* What the pages and the API show of the tasks, as an AgentBook.
shown == [t \in Tasks |-> [status |-> task[t].status, output |-> task[t].output,
                            action |-> task[t].action, verdict |-> task[t].verdict]]

Book == INSTANCE AgentBook WITH row <- shown

\* The job of t never stalled, and nobody decided it since somebody else read it.
Undisturbed(t) ==
    /\ job[t].stalls = 0
    /\ \A r \in Reviewers : review[r].task = t => task[t].status = review[r].status

(* Seen through its rows alone the pipeline is an AgentBook: the job, the  *)
(* slot that runs it, the effect and its routing in several steps, and the *)
(* review that is read first and written by id later, amount to one step   *)
(* for the result and decisions on what is shown, and nothing reopens a    *)
(* rejected task ("Cannot approve task in status ...").  The exceptions    *)
(* are a task whose job stalled, which runs again over what it left, and a *)
(* task somebody decided while another person had it open.                 *)
ImplementsBook ==
    /\ Book!Init
    /\ [][(\A t \in Tasks : task'[t] # task[t] => Undisturbed(t)) =>
            Book!Next]_shown

(* README.md says that a result of low confidence is escalated for a       *)
(* person's approval: it has not been carried out.  It has: the handler    *)
(* runs with all its effects before its result is routed.                  *)
EscalatedNotRun ==
    \A w \in Workers :
        worker[w].pc = "store" /\ worker[w].result.route = "escalate" =>
            task[worker[w].task].runs = 0

-----------------------------------------------------------------------------
(* Liveness *)

(* A task whose job was added ends up completed, failed, escalated or      *)
(* cancelled, however workers die, unless its job stalled so often that    *)
(* BullMQ gave it up, or its processor threw.                              *)
EnqueuedIsSettled ==
    \A t \in Tasks :
        job[t].state = "waiting" ~>
            task[t].status \in Terminal \/ job[t].state \in {"failed", "given_up"}
=============================================================================
