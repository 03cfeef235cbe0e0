-------------------------- MODULE AgentTasksProofs --------------------------
(* Theorems about AgentTasks for any number of tasks, workers, reviewers,    *)
(* worker deaths and refused statements, and any limit on stalled jobs.      *)
EXTENDS AgentTasks, TLAPS

(* Results the worker keeps between executing and storing have their type. *)
LEMMA ResultType ==
    ASSUME NEW run \in Nat, NEW conf
    PROVE  Routed(conf, run) \in Result
BY DEF Routed, Route, Result

LEMMA FreeSlotType == FreeSlot \in WorkerSlot /\ FreeSlot.pc = "idle" /\ FreeSlot.task = None
BY DEF FreeSlot, WorkerSlot, NoResult, Result

(* A busy slot works on a task whose job is active, a free slot on none. *)
Busy(w) == worker[w].pc # "idle"

SlotsBusy ==
    \A w \in Workers :
        /\ Busy(w) => worker[w].task \in Tasks /\ job[worker[w].task].state = "active"
        /\ ~Busy(w) => worker[w].task = None

(* No two workers have the same job. *)
Alone ==
    \A v, w \in Workers : Busy(v) /\ Busy(w) /\ v # w => worker[v].task # worker[w].task

(* A worker that is about to close a job has stored a status. *)
AckedIsStored ==
    \A w \in Workers : worker[w].pc = "ack" => task[worker[w].task].status # "running"

(* Every run of a job but the first is paid for by a stall, and a job that a *)
(* worker has still to run has one to spend.                                 *)
RunsCounted ==
    /\ \A t \in Tasks : task[t].status = "absent" => job[t].state = "none"
    /\ \A t \in Tasks : job[t].state \in {"none", "adding", "waiting"} =>
                          task[t].runs <= job[t].stalls
    /\ \A w \in Workers : worker[w].pc \in {"taken", "execute"} =>
                            task[worker[w].task].runs <= job[worker[w].task].stalls

(* Every stall of a job is paid for by a fault, and so is a job that is no   *)
(* longer in a worker's hands without being done.                            *)
Dropped(t) == Orphaned(t) \/ job[t].state \in {"given_up", "failed"}

FaultsCounted ==
    \A t \in Tasks : job[t].stalls <= faults /\ (Dropped(t) => job[t].stalls < faults)

Inv == /\ TypeOK /\ SlotsBusy /\ Alone /\ AckedIsStored /\ RunsCounted
       /\ FaultsCounted /\ RunsBounded /\ RunningIsHeld

LEMMA InvInit == Init => Inv
<1>1. Init => TypeOK
  BY FreeSlotType, AgentTasksAssumption
     DEF Init, TypeOK, TaskRow, Terminal, Job, JobState, Reading, NoReading
<1>2. Init => SlotsBusy /\ Alone /\ AckedIsStored /\ RunsCounted
  BY FreeSlotType DEF Init, SlotsBusy, Busy, Alone, AckedIsStored, RunsCounted
<1>3. Init => FaultsCounted /\ RunsBounded /\ RunningIsHeld
  BY AgentTasksAssumption
     DEF Init, FaultsCounted, Dropped, Orphaned, RunsBounded, RunningIsHeld
<1> QED
  BY <1>1, <1>2, <1>3 DEF Inv

-----------------------------------------------------------------------------
(* Type correctness *)

LEMMA TypeJobs ==
    ASSUME TypeOK, NEW t \in Tasks,
           InsertTask(t) \/ AddJob(t) \/ LoseJob(t) \/ Stall(t) \/ GiveUp(t)
    PROVE  TypeOK'
<1>1. CASE InsertTask(t)
  BY <1>1 DEF InsertTask, TypeOK, TaskRow, Job, JobState
<1>2. CASE AddJob(t)
  BY <1>2 DEF AddJob, TypeOK, Job, JobState
<1>3. CASE LoseJob(t)
  BY <1>3 DEF LoseJob, TypeOK, Job, JobState
<1>4. CASE Stall(t)
  BY <1>4 DEF Stall, TypeOK, Job, JobState
<1>5. CASE GiveUp(t)
  BY <1>5 DEF GiveUp, TypeOK, Job, JobState
<1> QED
  BY <1>1, <1>2, <1>3, <1>4, <1>5

LEMMA TypeWork ==
    ASSUME TypeOK, SlotsBusy, NEW w \in Workers,
           Work(w) \/ Refuse(w) \/ FailJob(w) \/ Crash(w)
    PROVE  TypeOK'
<1>0. Busy(w) => worker[w].task \in Tasks
  BY DEF SlotsBusy
<1>1. CASE \E t \in Tasks : TakeJob(w, t)
  <2>1. PICK t \in Tasks : TakeJob(w, t)
    BY <1>1
  <2>2. [FreeSlot EXCEPT !.pc = "taken", !.task = t] \in WorkerSlot
    BY FreeSlotType DEF WorkerSlot
  <2> QED
    BY <2>1, <2>2 DEF TakeJob, TypeOK, Job, JobState
<1>2. CASE MarkRunning(w)
  <2>1. worker[w].task \in Tasks
    BY <1>0, <1>2 DEF MarkRunning, Busy
  <2>2. \A row \in TaskRow : [row EXCEPT !.status = "running"] \in TaskRow
    BY DEF TaskRow
  <2>3. task' \in [Tasks -> TaskRow]
    BY <1>2, <2>1, <2>2 DEF MarkRunning, TypeOK
  <2>4. worker' \in [Workers -> WorkerSlot]
    BY <1>2 DEF MarkRunning, TypeOK, WorkerSlot
  <2> QED
    BY <1>2, <2>3, <2>4 DEF MarkRunning, TypeOK
<1>3. CASE Execute(w)
  <2> DEFINE t == worker[w].task
             run == task[t].runs + 1
  <2>1. t \in Tasks /\ run \in Nat
    BY <1>0, <1>3 DEF Execute, Busy, TypeOK, TaskRow
  <2>2. PICK res \in Result :
          /\ task' = [task EXCEPT ![t].runs = run]
          /\ worker' = [worker EXCEPT ![w].pc = "store", ![w].result = res]
    <3>1. \A conf \in Confidences : Routed(conf, run) \in Result
      BY <2>1, ResultType
    <3> HIDE DEF run
    <3>2. [status : {"completed", "failed", "escalated"}, output : {run}, route : {"none"}]
            \subseteq Result
      BY <2>1 DEF Result
    <3> QED
      BY <1>3, <3>1, <3>2 DEF Execute, run
  <2> HIDE DEF run
  <2>3. task' \in [Tasks -> TaskRow]
    BY <2>1, <2>2 DEF TypeOK, TaskRow
  <2>4. worker' \in [Workers -> WorkerSlot]
    BY <2>2 DEF TypeOK, WorkerSlot
  <2> QED
    BY <1>3, <2>3, <2>4 DEF Execute, TypeOK
<1>4. CASE StoreResult(w)
  <2> DEFINE t == worker[w].task
             res == worker[w].result
             row == [task[t] EXCEPT !.status = res.status, !.output = res.output,
                                    !.action = IF res.route = "auto_execute" THEN res.output ELSE @]
  <2>1. t \in Tasks /\ task[t] \in TaskRow /\ res \in Result
    BY <1>0, <1>4 DEF StoreResult, Busy, TypeOK, WorkerSlot
  <2>2. row \in TaskRow
    <3> HIDE DEF res, t
    <3> QED
      BY <2>1 DEF TaskRow, Result, Terminal
  <2>3. task' = [task EXCEPT ![t] = row]
    BY <1>4 DEF StoreResult
  <2>4. worker' \in [Workers -> WorkerSlot]
    BY <1>4 DEF StoreResult, TypeOK, WorkerSlot
  <2> HIDE DEF row, res, t
  <2>5. task' \in [Tasks -> TaskRow]
    BY <2>1, <2>2, <2>3 DEF TypeOK
  <2> QED
    BY <1>4, <2>4, <2>5 DEF StoreResult, TypeOK
<1>5. CASE StoreFailure(w)
  <2>1. worker[w].task \in Tasks
    BY <1>0, <1>5 DEF StoreFailure, Busy
  <2>2. \A row \in TaskRow : [row EXCEPT !.status = "failed"] \in TaskRow
    BY DEF TaskRow, Terminal
  <2>3. task' \in [Tasks -> TaskRow]
    BY <1>5, <2>1, <2>2 DEF StoreFailure, TypeOK
  <2>4. worker' \in [Workers -> WorkerSlot]
    BY <1>5 DEF StoreFailure, TypeOK, WorkerSlot
  <2> QED
    BY <1>5, <2>3, <2>4 DEF StoreFailure, TypeOK
<1>6. CASE CompleteJob(w)
  BY <1>6, FreeSlotType DEF CompleteJob, TypeOK, Job, JobState
<1>7. CASE Throw(w)
  <2>1. worker[w].task \in Tasks
    BY <1>0, <1>7 DEF Throw, Busy
  <2>2. \A row \in TaskRow : [row EXCEPT !.runs = @ + 1] \in TaskRow
    BY DEF TaskRow
  <2>3. task' \in [Tasks -> TaskRow]
    BY <1>7, <2>1, <2>2 DEF Throw, TypeOK
  <2>4. worker' \in [Workers -> WorkerSlot]
    BY <1>7 DEF Throw, TypeOK, WorkerSlot
  <2> QED
    BY <1>7, <2>3, <2>4 DEF Throw, TypeOK
<1>8. Fault => faults' \in 0 .. MaxFaults
  BY AgentTasksAssumption DEF Fault, TypeOK
<1>9. CASE Refuse(w)
  <2>1. worker' \in [Workers -> WorkerSlot]
    BY <1>9 DEF Refuse, TypeOK, WorkerSlot
  <2> QED
    BY <1>8, <1>9, <2>1 DEF Refuse, TypeOK
<1>10. CASE FailJob(w)
  BY <1>8, <1>10, FreeSlotType DEF FailJob, TypeOK, Job, JobState
<1>11. CASE Crash(w)
  BY <1>8, <1>11, FreeSlotType DEF Crash, TypeOK
<1> QED
  BY <1>1, <1>2, <1>3, <1>4, <1>5, <1>6, <1>7, <1>9, <1>10, <1>11 DEF Work

LEMMA TypeReview ==
    ASSUME TypeOK, NEW r \in Reviewers,
           (\E t \in Tasks : ReviewRead(r, t)) \/ Approve(r) \/ Reject(r)
    PROVE  TypeOK'
<1>1. CASE \E t \in Tasks : ReviewRead(r, t)
  BY <1>1 DEF ReviewRead, TypeOK, Reading, TaskRow, Reviewable, Terminal
<1>2. CASE Approve(r)
  BY <1>2 DEF Approve, TypeOK, Reading, NoReading, TaskRow, Terminal
<1>3. CASE Reject(r)
  BY <1>3 DEF Reject, TypeOK, Reading, NoReading, TaskRow, Terminal
<1> QED
  BY <1>1, <1>2, <1>3

LEMMA TypeStep == TypeOK /\ SlotsBusy /\ [Next]_vars => TypeOK'
BY TypeJobs, TypeWork, TypeReview DEF Next, UpdateConfig, vars, TypeOK

-----------------------------------------------------------------------------
(* Workers and jobs *)

LEMMA JobsStep ==
    ASSUME Inv, TypeOK', NEW t \in Tasks,
           InsertTask(t) \/ AddJob(t) \/ LoseJob(t) \/ Stall(t) \/ GiveUp(t)
    PROVE  Inv'
<1> USE DEF TypeOK, TaskRow, Job
<1>0. /\ faults' = faults /\ worker' = worker
      /\ \A u \in Tasks \ {t} : job'[u] = job[u]
  BY DEF InsertTask, AddJob, LoseJob, Stall, GiveUp, Inv
<1>1. CASE InsertTask(t) \/ AddJob(t) \/ LoseJob(t)
  <2>1. /\ job[t].state \in {"none", "adding"}
        /\ job'[t].state \in {"adding", "waiting", "lost"} /\ job'[t].stalls = job[t].stalls
        /\ \A u \in Tasks : /\ task'[u].runs = task[u].runs
                            /\ task'[u].status = task[u].status
                               \/ (u = t /\ task'[u].status = "queued")
        /\ job'[t].state = "adding" => task'[t].status = "queued"
    BY <1>1 DEF InsertTask, AddJob, LoseJob, Inv, RunsCounted
  <2>2. SlotsBusy' /\ Alone' /\ AckedIsStored'
    BY <1>0, <2>1 DEF Inv, SlotsBusy, Busy, Alone, AckedIsStored
  <2>3. RunsCounted'
    <3>1. task[t].runs <= job[t].stalls /\ task'[t].status # "absent"
      BY <1>1, <2>1 DEF InsertTask, AddJob, LoseJob, Inv, RunsCounted
    <3>2. \A w \in Workers : Busy(w) => worker[w].task \in Tasks \ {t}
      BY <2>1 DEF Inv, SlotsBusy
    <3> HIDE DEF TypeOK, TaskRow, Job
    <3> QED
      BY <1>0, <2>1, <3>1, <3>2 DEF Inv, Busy, RunsCounted
  <2>4. FaultsCounted'
    BY <1>0, <2>1 DEF Inv, FaultsCounted, Dropped, Orphaned
  <2>5. RunsBounded' /\ RunningIsHeld'
    BY <1>0, <2>1 DEF Inv, RunsBounded, RunningIsHeld
  <2> QED
    BY <2>2, <2>3, <2>4, <2>5 DEF Inv
<1>4. CASE Stall(t)
  <2>1. SlotsBusy' /\ Alone' /\ AckedIsStored'
    BY <1>4 DEF Stall, Orphaned, Inv, SlotsBusy, Busy, Alone, AckedIsStored
  <2>2. RunsBounded'
    BY <1>4, AgentTasksAssumption DEF Stall, Orphaned, Inv, RunsBounded
  <2>3. RunsCounted'
    BY <1>4, <2>1 DEF Stall, Orphaned, Inv, SlotsBusy, Busy, RunsCounted, RunsBounded
  <2>4. RunningIsHeld'
    BY <1>4 DEF Stall, Orphaned, Inv, RunningIsHeld
  <2>5. job[t].stalls < faults /\ job'[t] = [state |-> "waiting", stalls |-> job[t].stalls + 1]
    BY <1>4 DEF Stall, Inv, FaultsCounted, Dropped
  <2>6. job'[t].stalls <= faults /\ ~Dropped(t)'
    <3>1. job[t].stalls \in Nat /\ faults \in Nat
      BY AgentTasksAssumption DEF Inv
    <3> QED
      BY <2>5, <3>1 DEF Dropped, Orphaned
  <2>7. FaultsCounted'
    <3> HIDE DEF TypeOK, TaskRow, Job
    <3> QED
      BY <1>0, <2>6 DEF Inv, FaultsCounted, Dropped, Orphaned
  <2> QED
    BY <2>1, <2>2, <2>3, <2>4, <2>7 DEF Inv
<1>5. CASE GiveUp(t)
  <2>1. SlotsBusy' /\ Alone' /\ AckedIsStored'
    BY <1>5 DEF GiveUp, Orphaned, Inv, SlotsBusy, Busy, Alone, AckedIsStored
  <2>2. RunsBounded'
    BY <1>5, AgentTasksAssumption DEF GiveUp, Inv, RunsBounded
  <2>3. RunsCounted'
    BY <1>5, <2>1 DEF GiveUp, Orphaned, Inv, SlotsBusy, Busy, RunsCounted
  <2>4. job[t].stalls = MaxStalled
    <3>1. job[t].stalls \in Nat /\ MaxStalled \in Nat
      BY AgentTasksAssumption DEF Inv
    <3>2. job[t].stalls >= MaxStalled
      BY <1>5 DEF GiveUp
    <3>3. job[t].stalls <= MaxStalled
      BY DEF Inv, RunsBounded
    <3>4. \A m, n \in Nat : m >= n /\ m <= n => m = n
      OBVIOUS
    <3> HIDE DEF TypeOK, TaskRow, Job
    <3> QED
      BY <3>1, <3>2, <3>3, <3>4
  <2>5. job'[t] = [state |-> "given_up", stalls |-> MaxStalled]
    BY <1>5, <2>4 DEF GiveUp, Inv
  <2>6. job[t].stalls < faults
    BY <1>5 DEF GiveUp, Inv, FaultsCounted, Dropped
  <2>7. MaxStalled < faults
    BY <2>4, <2>6
  <2>8. MaxStalled <= faults /\ faults > MaxStalled
    BY <2>7, AgentTasksAssumption DEF Inv
  <2>9. task' = task
    BY <1>5 DEF GiveUp
  <2> HIDE DEF TypeOK, TaskRow, Job
  <2>10. RunningIsHeld'
    BY <1>0, <2>5, <2>8, <2>9 DEF Inv, RunningIsHeld
  <2>11. FaultsCounted'
    BY <1>0, <2>5, <2>7, <2>8 DEF Inv, FaultsCounted, Dropped, Orphaned
  <2> QED
    BY <2>1, <2>2, <2>3, <2>10, <2>11 DEF Inv
<1> QED
  BY <1>1, <1>4, <1>5

(* What a step of a busy worker rests on: its task, and that no other slot *)
(* has it.                                                                 *)
LEMMA OwnTask ==
    ASSUME Inv, NEW w \in Workers, Busy(w)
    PROVE  /\ worker[w].task \in Tasks
           /\ job[worker[w].task].state = "active"
           /\ \A v \in Workers \ {w} : Busy(v) => worker[v].task \in Tasks \ {worker[w].task}
BY DEF Inv, SlotsBusy, Alone, Busy

(* Steps that change one row and the phase of the slot that has it, and not *)
(* the jobs, preserve Inv under conditions on that row and slot alone.      *)
LEMMA RowStep ==
    ASSUME Inv, TypeOK', NEW w \in Workers, Busy(w), Busy(w)',
           job' = job, faults' >= faults, worker'[w].task = worker[w].task,
           \A v \in Workers \ {w} : worker'[v] = worker[v],
           \A u \in Tasks \ {worker[w].task} : task'[u] = task[u],
           task'[worker[w].task].status # "absent",
           worker'[w].pc = "ack" => task'[worker[w].task].status # "running",
           task'[worker[w].task].runs <= job[worker[w].task].stalls + 1,
           worker'[w].pc \in {"taken", "execute"} =>
              task'[worker[w].task].runs <= job[worker[w].task].stalls
    PROVE  Inv'
<1>1. /\ worker[w].task \in Tasks
      /\ job[worker[w].task].state = "active"
      /\ \A v \in Workers \ {w} : Busy(v) => worker[v].task \in Tasks \ {worker[w].task}
  BY OwnTask
<1>2. SlotsBusy' /\ Alone'
  BY <1>1 DEF Inv, SlotsBusy, Alone, Busy
<1>3. AckedIsStored'
  BY <1>1 DEF Inv, AckedIsStored, Busy
<1>4. RunsCounted'
  BY <1>1 DEF Inv, RunsCounted, Busy
<1>5. RunsBounded'
  BY <1>1 DEF Inv, RunsBounded
<1>6. \A n \in Nat : (n <= faults => n <= faults') /\ (n < faults => n < faults')
                     /\ (faults > n => faults' > n)
  BY AgentTasksAssumption DEF Inv, TypeOK
<1>7. MaxStalled \in Nat /\ \A u \in Tasks : job[u].stalls \in Nat
  BY AgentTasksAssumption DEF Inv, TypeOK, Job
<1>8. \A v \in Workers : worker'[v].task = worker[v].task
  OBVIOUS
<1>9. FaultsCounted'
  BY <1>6, <1>7, <1>8 DEF Inv, FaultsCounted, Dropped, Orphaned
<1>10. RunningIsHeld'
  BY <1>1, <1>6, <1>7 DEF Inv, RunningIsHeld
<1> QED
  BY <1>2, <1>3, <1>4, <1>5, <1>9, <1>10 DEF Inv

(* A slot that lets go of its task, whose job becomes d: a job that is neither *)
(* done nor in the slot's hands any more has cost a fault.                     *)
LEMMA LetGo ==
    ASSUME Inv, TypeOK', NEW w \in Workers, Busy(w), NEW t, t = worker[w].task,
           worker' = [worker EXCEPT ![w] = FreeSlot], task' = task,
           job'[t].stalls = job[t].stalls, \A u \in Tasks \ {t} : job'[u] = job[u],
           \/ job'[t].state = "done" /\ worker[w].pc = "ack" /\ faults' = faults
           \/ job'[t].state \in {"failed", "active"} /\ Fault
    PROVE  Inv'
<1>1. /\ t \in Tasks /\ job[t].state = "active"
      /\ \A v \in Workers \ {w} : Busy(v) => worker[v].task \in Tasks \ {t}
  BY OwnTask
<1>2. /\ worker'[w].pc = "idle" /\ worker'[w].task = None
      /\ \A v \in Workers \ {w} : worker'[v] = worker[v]
  BY FreeSlotType DEF Inv, TypeOK
<1>3. SlotsBusy' /\ Alone' /\ AckedIsStored'
  BY <1>1, <1>2 DEF Inv, SlotsBusy, Alone, AckedIsStored, Busy
<1>4. RunsCounted' /\ RunsBounded'
  BY <1>1, <1>2 DEF Inv, RunsCounted, RunsBounded, Busy
<1>5. /\ faults \in Nat /\ MaxStalled \in Nat
      /\ \A u \in Tasks : job[u].stalls \in Nat /\ job[u].stalls <= faults
  BY AgentTasksAssumption DEF Inv, TypeOK, Job, FaultsCounted
<1>6. CASE job'[t].state = "done" /\ worker[w].pc = "ack" /\ faults' = faults
  <2>1. task[t].status # "running"
    BY <1>6 DEF Inv, AckedIsStored
  <2>2. RunningIsHeld'
    BY <1>1, <1>6, <2>1 DEF Inv, RunningIsHeld
  <2>3. \A u \in Tasks : Dropped(u)' => Dropped(u)
    BY <1>1, <1>2, <1>6 DEF Dropped, Orphaned
  <2>4. FaultsCounted'
    BY <1>1, <1>6, <2>3 DEF Inv, FaultsCounted
  <2> QED
    BY <1>3, <1>4, <2>2, <2>4 DEF Inv
<1>7. CASE job'[t].state \in {"failed", "active"} /\ Fault
  <2>1. faults' = faults + 1
    BY <1>7 DEF Fault
  <2>2. \A n \in Nat : n <= faults => n <= faults' /\ n < faults' /\ faults' > n
    BY <1>5, <2>1
  <2>3. \A n \in Nat : faults > n => faults' > n
    BY <1>5, <2>1
  <2>4. FaultsCounted'
    BY <1>1, <1>5, <2>2 DEF FaultsCounted
  <2>5. RunningIsHeld'
    BY <1>1, <1>5, <1>7, <2>2, <2>3 DEF Inv, RunningIsHeld
  <2> QED
    BY <1>3, <1>4, <2>4, <2>5 DEF Inv
<1> QED
  BY <1>6, <1>7

LEMMA WorkStep ==
    ASSUME Inv, TypeOK', NEW w \in Workers, Work(w) \/ Refuse(w) \/ FailJob(w) \/ Crash(w)
    PROVE  Inv'
<1> DEFINE t == worker[w].task
<1>0. TypeOK'
  OBVIOUS
<1>1. CASE \E u \in Tasks : TakeJob(w, u)
  <2>1. PICK u \in Tasks : TakeJob(w, u)
    BY <1>1
  <2>2. /\ job[u].state = "waiting"
        /\ job'[u].state = "active" /\ job'[u].stalls = job[u].stalls
        /\ \A x \in Tasks \ {u} : job'[x] = job[x]
        /\ worker'[w].pc = "taken" /\ worker'[w].task = u
        /\ \A v \in Workers \ {w} : worker'[v] = worker[v]
        /\ task' = task
    BY <2>1 DEF TakeJob, FreeSlot, Inv, TypeOK, Job
  <2>3. \A v \in Workers : Busy(v) => worker[v].task \in Tasks \ {u}
    BY <2>2 DEF Inv, SlotsBusy
  <2>4. SlotsBusy' /\ AckedIsStored'
    BY <2>2, <2>3 DEF Inv, SlotsBusy, AckedIsStored, Busy
  <2>5. Alone'
    BY <2>2, <2>3 DEF Inv, Alone, Busy
  <2>6. RunsCounted'
    BY <2>2, <2>3 DEF Inv, RunsCounted, Busy
  <2>7. RunsBounded' /\ RunningIsHeld'
    BY <2>1, <2>2 DEF TakeJob, Inv, RunsBounded, RunningIsHeld
  <2>8. \A v \in Tasks : Dropped(v)' => Dropped(v)
    <3>1. worker[w].task = None /\ None \notin Tasks
      BY <2>1, AgentTasksAssumption DEF TakeJob, Inv, SlotsBusy, Busy
    <3> QED
      BY <2>2, <3>1 DEF Dropped, Orphaned
  <2>9. FaultsCounted'
    BY <2>1, <2>2, <2>8 DEF TakeJob, Inv, FaultsCounted
  <2> QED
    BY <1>0, <2>4, <2>5, <2>6, <2>7, <2>9 DEF Inv
<1>f. faults >= faults /\ faults + 1 >= faults
  BY AgentTasksAssumption DEF Inv, TypeOK
<1>2. CASE MarkRunning(w)
  <2>1. Busy(w)
    BY <1>2 DEF MarkRunning, Busy
  <2>2. t \in Tasks
    BY <2>1, OwnTask
  <2>3. /\ worker'[w].pc = "execute" /\ worker'[w].task = t
        /\ task'[t].status = "running" /\ task'[t].runs = task[t].runs
        /\ job' = job /\ faults' = faults
        /\ \A v \in Workers \ {w} : worker'[v] = worker[v]
        /\ \A u \in Tasks \ {t} : task'[u] = task[u]
    BY <1>2, <2>2 DEF MarkRunning, Inv, TypeOK, TaskRow, WorkerSlot
  <2>4. task[t].runs <= job[t].stalls /\ task[t].runs <= job[t].stalls + 1
    BY <1>2, <2>2 DEF MarkRunning, Inv, RunsCounted, RunsBounded
  <2> QED
    BY <2>1, <2>3, <2>4, RowStep, <1>f DEF Busy
<1>3. CASE Execute(w)
  <2>1. Busy(w)
    BY <1>3 DEF Execute, Busy
  <2>2. t \in Tasks
    BY <2>1, OwnTask
  <2>3. /\ worker'[w].pc = "store" /\ worker'[w].task = t
        /\ task'[t].status = task[t].status /\ task'[t].runs = task[t].runs + 1
        /\ job' = job /\ faults' = faults
        /\ \A v \in Workers \ {w} : worker'[v] = worker[v]
        /\ \A u \in Tasks \ {t} : task'[u] = task[u]
    BY <1>3, <2>2 DEF Execute, Inv, TypeOK, TaskRow, WorkerSlot
  <2>4. task[t].runs + 1 <= job[t].stalls + 1
    BY <1>3, <2>2 DEF Execute, Inv, RunsCounted, TypeOK, TaskRow, Job
  <2>5. task[t].status # "absent"
    BY <2>1, <2>2, OwnTask DEF Inv, RunsCounted
  <2> QED
    BY <2>1, <2>3, <2>4, <2>5, RowStep, <1>f DEF Busy
<1>4. CASE StoreResult(w)
  <2>1. Busy(w)
    BY <1>4 DEF StoreResult, Busy
  <2>2. t \in Tasks
    BY <2>1, OwnTask
  <2>3. /\ worker'[w].pc = "ack" /\ worker'[w].task = t
        /\ task'[t].status = worker[w].result.status /\ task'[t].runs = task[t].runs
        /\ job' = job /\ faults' = faults
        /\ \A v \in Workers \ {w} : worker'[v] = worker[v]
        /\ \A u \in Tasks \ {t} : task'[u] = task[u]
    <3> DEFINE row == [task[t] EXCEPT !.status = worker[w].result.status,
                                      !.output = worker[w].result.output,
                                      !.action = IF worker[w].result.route = "auto_execute"
                                                 THEN worker[w].result.output ELSE @]
    <3>1. task[t] \in TaskRow
      BY <2>2 DEF Inv, TypeOK
    <3>2. row.status = worker[w].result.status /\ row.runs = task[t].runs
      BY <3>1 DEF TaskRow
    <3>3. task' = [task EXCEPT ![t] = row]
      BY <1>4 DEF StoreResult
    <3> HIDE DEF row
    <3>4. task'[t] = row /\ \A u \in Tasks \ {t} : task'[u] = task[u]
      BY <2>2, <3>3 DEF Inv, TypeOK
    <3>5. /\ worker'[w].pc = "ack" /\ worker'[w].task = t
          /\ job' = job /\ faults' = faults
          /\ \A v \in Workers \ {w} : worker'[v] = worker[v]
      BY <1>4 DEF StoreResult, Inv, TypeOK, WorkerSlot
    <3> QED
      BY <3>2, <3>4, <3>5
  <2>4. worker[w].result.status \in {"completed", "failed", "escalated"}
    BY DEF Inv, TypeOK, WorkerSlot, Result
  <2>5. task[t].runs <= job[t].stalls + 1
    BY <2>2 DEF Inv, RunsBounded
  <2> QED
    BY <2>1, <2>3, <2>4, <2>5, RowStep, <1>f DEF Busy
<1>5. CASE StoreFailure(w)
  <2>1. Busy(w)
    BY <1>5 DEF StoreFailure, Busy
  <2>2. t \in Tasks
    BY <2>1, OwnTask
  <2>3. /\ worker'[w].pc = "ack" /\ worker'[w].task = t
        /\ task'[t].status = "failed" /\ task'[t].runs = task[t].runs
        /\ job' = job /\ faults' = faults
        /\ \A v \in Workers \ {w} : worker'[v] = worker[v]
        /\ \A u \in Tasks \ {t} : task'[u] = task[u]
    BY <1>5, <2>2 DEF StoreFailure, Inv, TypeOK, TaskRow, WorkerSlot
  <2>4. task[t].runs <= job[t].stalls + 1
    BY <2>2 DEF Inv, RunsBounded
  <2> QED
    BY <2>1, <2>3, <2>4, RowStep, <1>f DEF Busy
<1>6. CASE Throw(w)
  <2>1. Busy(w)
    BY <1>6 DEF Throw, Busy
  <2>2. t \in Tasks
    BY <2>1, OwnTask
  <2>3. /\ worker'[w].pc = "catch" /\ worker'[w].task = t
        /\ task'[t].status = task[t].status /\ task'[t].runs = task[t].runs + 1
        /\ job' = job /\ faults' = faults
        /\ \A v \in Workers \ {w} : worker'[v] = worker[v]
        /\ \A u \in Tasks \ {t} : task'[u] = task[u]
    BY <1>6, <2>2 DEF Throw, Inv, TypeOK, TaskRow, WorkerSlot
  <2>4. task[t].runs + 1 <= job[t].stalls + 1
    BY <1>6, <2>2 DEF Throw, Inv, RunsCounted, TypeOK, TaskRow, Job
  <2>5. task[t].status # "absent"
    BY <2>1, <2>2, OwnTask DEF Inv, RunsCounted
  <2> QED
    BY <2>1, <2>3, <2>4, <2>5, RowStep, <1>f DEF Busy
<1>7. CASE Refuse(w)
  <2>1. Busy(w)
    BY <1>7 DEF Refuse, Busy
  <2>2. t \in Tasks
    BY <2>1, OwnTask
  <2>3. /\ worker'[w].pc = "catch" /\ worker'[w].task = t
        /\ task' = task /\ job' = job /\ faults' = faults + 1
        /\ \A v \in Workers \ {w} : worker'[v] = worker[v]
    BY <1>7, <2>2 DEF Refuse, Fault, Inv, TypeOK, WorkerSlot
  <2>4. task[t].runs <= job[t].stalls + 1
    BY <2>2 DEF Inv, RunsBounded
  <2>5. task[t].status # "absent"
    BY <2>1, <2>2, OwnTask DEF Inv, RunsCounted
  <2> QED
    BY <2>1, <2>3, <2>4, <2>5, RowStep, <1>f DEF Busy
<1>8. CASE CompleteJob(w)
  <2>1. Busy(w) /\ worker[w].pc = "ack" /\ t \in Tasks
    BY <1>8, OwnTask DEF CompleteJob, Busy
  <2>2. /\ job'[t].state = "done" /\ job'[t].stalls = job[t].stalls
        /\ \A u \in Tasks \ {t} : job'[u] = job[u]
        /\ worker' = [worker EXCEPT ![w] = FreeSlot] /\ task' = task /\ faults' = faults
    BY <1>8, <2>1 DEF CompleteJob, Inv, TypeOK, Job
  <2> QED
    BY <2>1, <2>2, LetGo
<1>9. CASE FailJob(w)
  <2>1. Busy(w) /\ t \in Tasks
    BY <1>9, OwnTask DEF FailJob, Busy
  <2>2. /\ job'[t].state = "failed" /\ job'[t].stalls = job[t].stalls
        /\ \A u \in Tasks \ {t} : job'[u] = job[u]
        /\ worker' = [worker EXCEPT ![w] = FreeSlot] /\ task' = task /\ Fault
    BY <1>9, <2>1 DEF FailJob, Inv, TypeOK, Job
  <2> QED
    BY <2>1, <2>2, LetGo
<1>10. CASE Crash(w)
  <2>1. Busy(w) /\ t \in Tasks /\ job[t].state = "active"
    BY <1>10, OwnTask DEF Crash, Busy
  <2>2. job' = job /\ worker' = [worker EXCEPT ![w] = FreeSlot] /\ task' = task /\ Fault
    BY <1>10 DEF Crash
  <2> QED
    BY <2>1, <2>2, LetGo
<1> QED
  BY <1>1, <1>2, <1>3, <1>4, <1>5, <1>6, <1>7, <1>8, <1>9, <1>10 DEF Work

-----------------------------------------------------------------------------
(* People *)

(* A verdict leaves jobs, workers and the number of runs alone and makes no *)
(* row "running" or "absent".                                               *)
LEMMA ReviewStep ==
    ASSUME Inv, TypeOK', NEW r \in Reviewers,
           (\E t \in Tasks : ReviewRead(r, t)) \/ Approve(r) \/ Reject(r)
    PROVE  Inv'
<1>1. /\ job' = job /\ worker' = worker /\ faults' = faults
      /\ \A t \in Tasks : /\ task'[t].runs = task[t].runs
                          /\ \/ task'[t].status = task[t].status
                             \/ task'[t].status \in {"completed", "cancelled"}
  <2>1. CASE \E t \in Tasks : ReviewRead(r, t)
    BY <2>1 DEF ReviewRead
  <2>2. CASE Approve(r)
    BY <2>2 DEF Inv, TypeOK, TaskRow, Approve
  <2>3. CASE Reject(r)
    <3>1. PICK own \in {0, -1} :
            task' = [task EXCEPT ![review[r].task].status = "cancelled",
                                 ![review[r].task].action = own,
                                 ![review[r].task].verdict = "rejected"]
      BY <2>3 DEF Reject
    <3> QED
      BY <2>3, <3>1 DEF Inv, TypeOK, TaskRow, Reject
  <2> QED
    BY <2>1, <2>2, <2>3
<1>2. SlotsBusy' /\ Alone'
  BY <1>1 DEF Inv, SlotsBusy, Alone, Busy
<1>3. AckedIsStored'
  BY <1>1 DEF Inv, SlotsBusy, AckedIsStored, Busy
<1>4. RunsCounted'
  BY <1>1 DEF Inv, SlotsBusy, RunsCounted, Busy
<1>5. RunsBounded' /\ RunningIsHeld'
  BY <1>1 DEF Inv, RunsBounded, RunningIsHeld
<1>6. FaultsCounted'
  BY <1>1 DEF Inv, FaultsCounted, Dropped, Orphaned
<1> QED
  BY <1>2, <1>3, <1>4, <1>5, <1>6 DEF Inv

-----------------------------------------------------------------------------

LEMMA InvStep == Inv /\ [Next]_vars => Inv'
<1> SUFFICES ASSUME Inv, [Next]_vars PROVE Inv'
  OBVIOUS
<1>1. TypeOK'
  BY TypeStep DEF Inv
<1>2. CASE \E t \in Tasks : InsertTask(t) \/ AddJob(t) \/ LoseJob(t) \/ Stall(t) \/ GiveUp(t)
  BY <1>1, <1>2, JobsStep
<1>3. CASE \E w \in Workers : Work(w) \/ Refuse(w) \/ FailJob(w) \/ Crash(w)
  BY <1>1, <1>3, WorkStep
<1>4. CASE \E r \in Reviewers :
             (\E t \in Tasks : ReviewRead(r, t)) \/ Approve(r) \/ Reject(r)
  BY <1>1, <1>4, ReviewStep
<1>5. CASE UpdateConfig \/ UNCHANGED vars
  BY <1>1, <1>5 DEF UpdateConfig, vars, Inv, SlotsBusy, Busy, Alone, AckedIsStored, RunsCounted,
                    FaultsCounted, Dropped, Orphaned, RunsBounded, RunningIsHeld
<1> QED
  BY <1>2, <1>3, <1>4, <1>5 DEF Next

(* The rows, jobs, worker slots and reviews keep their type in every       *)
(* behaviour of the pipeline, deaths and refused statements included.      *)
THEOREM TypeCorrect == Spec => []TypeOK
<1>1. Inv => TypeOK
  BY DEF Inv
<1> QED
  BY <1>1, InvInit, InvStep, PTL DEF Spec

(* However often workers die, a handler runs at most once more than its job *)
(* was found stalled, and so at most MaxStalled + 1 times.                  *)
THEOREM RunsAreBounded == Spec => []RunsBounded
<1>1. Inv => RunsBounded
  BY DEF Inv
<1> QED
  BY <1>1, InvInit, InvStep, PTL DEF Spec

(* A row that says "running" is held by a worker or waits to be taken again *)
(* after a stall; only one death more than BullMQ recovers from, or a       *)
(* statement the database refuses, leaves a task "running" forever.         *)
THEOREM RunningHasAJob == Spec => []RunningIsHeld
<1>1. Inv => RunningIsHeld
  BY DEF Inv
<1> QED
  BY <1>1, InvInit, InvStep, PTL DEF Spec

-----------------------------------------------------------------------------
(* What a row says.  Part of it holds of every row, ... *)

Whole(row) ==
    /\ row.status \in {"completed", "escalated", "cancelled"} \/ row.verdict # "none" =>
          row.output # 0
    /\ row.verdict = "approved" => row.action \notin {0, -1}

(* ... and part of it only of a row whose job never stalled: nothing is      *)
(* recorded before the worker stores a result, and a verdict fits the status. *)
Coherent(row) ==
    /\ row.status \in {"absent", "queued", "running"} =>
          row.output = 0 /\ row.action = 0 /\ row.verdict = "none"
    /\ row.status = "escalated" => row.action = 0 /\ row.verdict = "none"
    /\ row.verdict = "approved" => row.action = row.output /\ row.status = "completed"
    /\ row.verdict = "rejected" => row.status = "cancelled"

Calm(t) == job[t].stalls = 0

RowsCoherent == \A t \in Tasks : Whole(task[t]) /\ (Calm(t) => Coherent(task[t]))

(* A job that nobody has taken is of a row nobody has worked on, ... *)
UntakenIsQueued ==
    \A t \in Tasks : Calm(t) /\ job[t].state \in {"none", "adding", "lost", "waiting"} =>
                        task[t].status \in {"absent", "queued"}

(* ... and the status of the row of a job in a worker's hands tells how far  *)
(* the worker has got.                                                       *)
InStep ==
    \A w \in Workers : Busy(w) /\ Calm(worker[w].task) =>
        LET row == task[worker[w].task] IN
        /\ worker[w].pc = "taken" => row.status = "queued"
        /\ worker[w].pc \in {"execute", "store", "catch"} => row.status = "running"
        /\ worker[w].pc = "ack" => row.status \in Terminal

(* A result has an output, and one that is auto-executed is not escalated. *)
Sound(res) == res.output # 0 /\ (res.route = "auto_execute" => res.status # "escalated")

ResultsMade == \A w \in Workers : worker[w].pc = "store" => Sound(worker[w].result)

(* What a reviewer has read was open and had an output, ... *)
ReadingsMade ==
    \A r \in Reviewers : review[r].task # None =>
        /\ review[r].status \in Reviewable /\ review[r].output # 0
        /\ task[review[r].task].output # 0

(* ... which is still the output of the row, although another reviewer may   *)
(* have decided it.                                                          *)
Fresh(r) ==
    /\ task[review[r].task].status \in Reviewable \cup {"cancelled"}
    /\ task[review[r].task].output = review[r].output

ReadingsFresh ==
    \A r \in Reviewers : review[r].task # None /\ Calm(review[r].task) => Fresh(r)

RowsInv == /\ Inv /\ RowsCoherent /\ UntakenIsQueued /\ InStep /\ ResultsMade
           /\ ReadingsMade /\ ReadingsFresh

LEMMA RowsInit == Init => RowsInv
BY InvInit, FreeSlotType
   DEF Init, RowsInv, RowsCoherent, Whole, Coherent, Calm, UntakenIsQueued, InStep,
       ResultsMade, ReadingsMade, ReadingsFresh, NoReading, Busy

(* A step that touches one row, of which no verdict is out unless its job *)
(* stalled.                                                               *)
Touches(t) ==
    /\ Calm(t) => task[t].status \in {"absent", "queued", "running"}
    /\ \A u \in Tasks \ {t} : task'[u] = task[u]

(* A verdict on a task. *)
Decides(t) ==
    /\ task'[t].output = task[t].output /\ task'[t].runs = task[t].runs
    /\ \A u \in Tasks \ {t} : task'[u] = task[u]

LEMMA RowsJobs ==
    ASSUME RowsInv, Inv', NEW t \in Tasks,
           InsertTask(t) \/ AddJob(t) \/ LoseJob(t) \/ Stall(t) \/ GiveUp(t)
    PROVE  RowsInv' /\ (task' = task \/ Touches(t))
<1>0. TypeOK /\ SlotsBusy /\ Inv
  BY DEF RowsInv, Inv
<1>1. CASE InsertTask(t)
  <2>1. /\ job[t].state = "none" /\ task[t].status = "absent"
        /\ task'[t] = [task[t] EXCEPT !.status = "queued"]
        /\ \A u \in Tasks \ {t} : task'[u] = task[u] /\ job'[u] = job[u]
        /\ job'[t].state = "adding" /\ job'[t].stalls = job[t].stalls
        /\ UNCHANGED <<worker, review>>
    BY <1>0, <1>1 DEF InsertTask, Inv, RunsCounted, TypeOK, Job
  <2>2. task[t] \in TaskRow
    BY <1>0 DEF TypeOK
  <2>3. /\ task'[t].status = "queued" /\ task'[t].output = task[t].output
        /\ Whole(task[t]) => Whole(task'[t])
        /\ Coherent(task[t]) => Coherent(task'[t])
    BY <2>1, <2>2 DEF Whole, Coherent, TaskRow
  <2>4. \A u \in Tasks : Calm(u)' <=> Calm(u)
    BY <2>1 DEF Calm
  <2>5. RowsCoherent'
    BY <2>1, <2>3, <2>4 DEF RowsInv, RowsCoherent
  <2>6. UntakenIsQueued'
    BY <2>1, <2>3, <2>4 DEF RowsInv, UntakenIsQueued
  <2>7. \A w \in Workers : Busy(w) => worker[w].task \in Tasks \ {t}
    BY <1>0, <2>1 DEF SlotsBusy
  <2>8. InStep' /\ ResultsMade'
    BY <2>1, <2>4, <2>7 DEF RowsInv, InStep, ResultsMade, Busy
  <2>9. \A r \in Reviewers : review[r].task # None => review[r].task \in Tasks
    BY <1>0 DEF TypeOK, Reading
  <2>10. ReadingsMade'
    <3>1. \A u \in Tasks : task'[u].output = task[u].output
      BY <2>1, <2>3
    <3> QED
      BY <2>1, <2>9, <3>1 DEF RowsInv, ReadingsMade
  <2>11. ReadingsFresh'
    BY <2>1, <2>4, <2>9 DEF RowsInv, ReadingsFresh, Fresh, Reviewable
  <2> QED
    BY <2>1, <2>5, <2>6, <2>8, <2>10, <2>11 DEF RowsInv, Touches
<1>2. CASE AddJob(t) \/ LoseJob(t) \/ Stall(t) \/ GiveUp(t)
  <2>1. /\ \A u \in Tasks \ {t} : job'[u] = job[u]
        /\ UNCHANGED <<task, worker, review>>
        /\ Calm(t)' => Calm(t)
        /\ Calm(t)' /\ job'[t].state \in {"none", "adding", "lost", "waiting"} =>
              job[t].state = "adding"
    <3>1. job[t] \in Job /\ job[t].stalls + 1 # 0
      BY <1>0 DEF TypeOK, Job
    <3> QED
      BY <1>0, <1>2, <3>1 DEF AddJob, LoseJob, Stall, GiveUp, TypeOK, Job, Calm
  <2>2. \A u \in Tasks : Calm(u)' => Calm(u)
    BY <2>1 DEF Calm
  <2>3. RowsCoherent' /\ ReadingsMade' /\ ResultsMade'
    BY <2>1, <2>2 DEF RowsInv, RowsCoherent, ReadingsMade, ResultsMade
  <2>4. UntakenIsQueued'
    BY <2>1, <2>2 DEF RowsInv, UntakenIsQueued
  <2>5. InStep'
    BY <1>0, <2>1, <2>2 DEF RowsInv, InStep, Busy, SlotsBusy
  <2>6. ReadingsFresh'
    BY <1>0, <2>1, <2>2 DEF RowsInv, ReadingsFresh, Fresh, TypeOK, Reading
  <2> QED
    BY <2>1, <2>3, <2>4, <2>5, <2>6 DEF RowsInv
<1> QED
  BY <1>1, <1>2

(* Steps of a busy worker that change its row and its phase and no job       *)
(* preserve RowsInv under conditions on that row and slot alone.             *)
LEMMA RowsRow ==
    ASSUME RowsInv, Inv', NEW w \in Workers, Busy(w), Busy(w)', worker[w].pc # "ack",
           NEW t, t = worker[w].task,
           job' = job, review' = review, worker'[w].task = t,
           \A v \in Workers \ {w} : worker'[v] = worker[v],
           \A u \in Tasks \ {t} : task'[u] = task[u],
           Whole(task'[t]), task[t].output # 0 => task'[t].output # 0,
           worker'[w].pc = "store" => Sound(worker'[w].result),
           Calm(t) =>
              /\ Coherent(task'[t])
              /\ worker'[w].pc # "taken"
              /\ worker'[w].pc \in {"execute", "store", "catch"} => task'[t].status = "running"
              /\ worker'[w].pc = "ack" => task'[t].status \in Terminal
    PROVE  RowsInv' /\ Touches(t)
<1>1. /\ t \in Tasks /\ job[t].state = "active"
      /\ \A v \in Workers \ {w} : Busy(v) => worker[v].task \in Tasks \ {t}
  BY OwnTask DEF RowsInv
<1>2. \A u \in Tasks : Calm(u)' <=> Calm(u)
  BY DEF Calm
<1>3. Calm(t) => task[t].status \in {"queued", "running"}
  <2>1. worker[w].pc \in {"taken", "execute", "store", "catch"}
    BY DEF RowsInv, Inv, TypeOK, WorkerSlot, Busy
  <2> QED
    BY <2>1 DEF RowsInv, InStep
<1>4. RowsCoherent'
  BY <1>1, <1>2 DEF RowsInv, RowsCoherent
<1>5. UntakenIsQueued'
  BY <1>1, <1>2 DEF RowsInv, UntakenIsQueued
<1>6. InStep' /\ ResultsMade'
  <2>1. ResultsMade'
    BY DEF RowsInv, ResultsMade
  <2>2. \A v \in Workers \ {w} : Busy(v)' => /\ Busy(v) /\ worker'[v].task \in Tasks \ {t}
                                             /\ worker'[v] = worker[v]
    BY <1>1 DEF Busy
  <2>3. InStep'
    BY <1>1, <1>2, <2>2 DEF RowsInv, InStep
  <2> QED
    BY <2>1, <2>3
<1>7. \A r \in Reviewers : review[r].task # None => review[r].task \in Tasks
  BY DEF RowsInv, Inv, TypeOK, Reading
<1>8. ReadingsMade'
  BY <1>1, <1>7 DEF RowsInv, ReadingsMade
<1>9. ReadingsFresh'
  BY <1>1, <1>2, <1>3, <1>7 DEF RowsInv, ReadingsFresh, Fresh, Reviewable
<1> QED
  BY <1>1, <1>3, <1>4, <1>5, <1>6, <1>8, <1>9 DEF RowsInv, Touches

(* Steps by which a slot lets go of its task. *)
LEMMA RowsLetGo ==
    ASSUME RowsInv, Inv', NEW w \in Workers, Busy(w), NEW t, t = worker[w].task,
           worker' = [worker EXCEPT ![w] = FreeSlot], task' = task, review' = review,
           job'[t].stalls = job[t].stalls, job'[t].state \in {"done", "failed", "active"},
           \A u \in Tasks \ {t} : job'[u] = job[u]
    PROVE  RowsInv'
<1>1. t \in Tasks
  BY OwnTask DEF RowsInv
<1>2. /\ ~Busy(w)' /\ worker'[w].pc = "idle"
      /\ \A v \in Workers \ {w} : worker'[v] = worker[v]
  BY FreeSlotType DEF RowsInv, Inv, TypeOK, Busy
<1>3. \A u \in Tasks : Calm(u)' <=> Calm(u)
  BY <1>1 DEF Calm
<1>4. RowsCoherent' /\ ReadingsMade' /\ ResultsMade'
  BY <1>2, <1>3 DEF RowsInv, RowsCoherent, ReadingsMade, ResultsMade
<1>5. UntakenIsQueued'
  BY <1>1, <1>3 DEF RowsInv, UntakenIsQueued
<1>6. InStep'
  BY <1>2, <1>3 DEF RowsInv, Inv, SlotsBusy, InStep, Busy
<1>7. ReadingsFresh'
  BY <1>3 DEF RowsInv, Inv, TypeOK, Reading, ReadingsFresh, Fresh
<1> QED
  BY <1>4, <1>5, <1>6, <1>7 DEF RowsInv

LEMMA RowsWork ==
    ASSUME RowsInv, Inv', NEW w \in Workers, Work(w) \/ Refuse(w) \/ FailJob(w) \/ Crash(w)
    PROVE  RowsInv' /\ (task' = task \/ Touches(worker[w].task))
<1> DEFINE t == worker[w].task
<1>0. /\ TypeOK /\ Inv /\ SlotsBusy /\ worker[w] \in WorkerSlot
      /\ Busy(w) => /\ t \in Tasks /\ task[t] \in TaskRow /\ Whole(task[t])
                    /\ job[t].state = "active" /\ job[t] \in Job
                    /\ Calm(t) => Coherent(task[t])
  BY DEF RowsInv, Inv, TypeOK, SlotsBusy, RowsCoherent
<1>1. CASE \E u \in Tasks : TakeJob(w, u)
  <2>1. PICK u \in Tasks : TakeJob(w, u)
    BY <1>1
  <2>2. /\ job[u].state = "waiting" /\ job'[u].state = "active"
        /\ job'[u].stalls = job[u].stalls
        /\ \A x \in Tasks \ {u} : job'[x] = job[x]
        /\ worker'[w].pc = "taken" /\ worker'[w].task = u
        /\ \A v \in Workers \ {w} : worker'[v] = worker[v]
        /\ UNCHANGED <<task, review>>
    BY <1>0, <2>1 DEF TakeJob, FreeSlot, TypeOK, Job
  <2>3. \A x \in Tasks : Calm(x)' <=> Calm(x)
    BY <2>2 DEF Calm
  <2>4. Calm(u) => task[u].status = "queued"
    BY <1>0, <2>2 DEF RowsInv, UntakenIsQueued, Inv, RunsCounted
  <2>5. RowsCoherent' /\ ReadingsMade' /\ ResultsMade'
    BY <2>2, <2>3 DEF RowsInv, RowsCoherent, ReadingsMade, ResultsMade
  <2>6. UntakenIsQueued'
    BY <2>2, <2>3 DEF RowsInv, UntakenIsQueued
  <2>7. InStep'
    BY <1>0, <2>2, <2>3, <2>4 DEF RowsInv, InStep, SlotsBusy, Busy
  <2>8. ReadingsFresh'
    BY <1>0, <2>2, <2>3 DEF RowsInv, TypeOK, Reading, ReadingsFresh, Fresh
  <2> QED
    BY <2>2, <2>5, <2>6, <2>7, <2>8 DEF RowsInv
<1>2. CASE MarkRunning(w)
  <2>1. Busy(w) /\ worker[w].pc = "taken" /\ (Calm(t) => task[t].status = "queued")
    BY <1>2 DEF MarkRunning, Busy, RowsInv, InStep
  <2>2. /\ worker'[w].pc = "execute" /\ worker'[w].task = t
        /\ task'[t] = [task[t] EXCEPT !.status = "running"]
        /\ UNCHANGED <<job, review>>
        /\ \A v \in Workers \ {w} : worker'[v] = worker[v]
        /\ \A u \in Tasks \ {t} : task'[u] = task[u]
    BY <1>0, <1>2, <2>1 DEF MarkRunning, TypeOK, WorkerSlot
  <2>3. /\ task'[t].status = "running" /\ Whole(task'[t])
        /\ task'[t].output = task[t].output
        /\ Calm(t) => Coherent(task'[t])
    BY <1>0, <2>1, <2>2 DEF Whole, Coherent, TaskRow
  <2> QED
    BY <2>1, <2>2, <2>3, RowsRow DEF Busy
<1>3. CASE Execute(w)
  <2> DEFINE run == task[t].runs + 1
  <2>1. Busy(w) /\ worker[w].pc = "execute" /\ (Calm(t) => task[t].status = "running")
    BY <1>3 DEF Execute, Busy, RowsInv, InStep
  <2>2. run # 0
    BY <1>0, <2>1 DEF TaskRow
  <2>3. PICK res : Sound(res) /\ worker' = [worker EXCEPT ![w].pc = "store", ![w].result = res]
    <3>1. \A conf \in Confidences : Sound(Routed(conf, run))
      BY <2>2 DEF Routed, Sound
    <3>2. \A res \in [status : {"completed", "failed", "escalated"}, output : {run},
                      route : {"none"}] : Sound(res)
      BY <2>2 DEF Sound
    <3> QED
      BY <1>3, <3>1, <3>2 DEF Execute
  <2>4. task'[t] = [task[t] EXCEPT !.runs = run] /\ \A u \in Tasks \ {t} : task'[u] = task[u]
    BY <1>0, <1>3, <2>1 DEF Execute, TypeOK
  <2> HIDE DEF run
  <2>5. /\ worker'[w].pc = "store" /\ worker'[w].task = t /\ worker'[w].result = res
        /\ UNCHANGED <<job, review>>
        /\ \A v \in Workers \ {w} : worker'[v] = worker[v]
    BY <1>0, <1>3, <2>3 DEF Execute, TypeOK, WorkerSlot
  <2>6. /\ task'[t].status = task[t].status /\ Whole(task'[t])
        /\ task'[t].output = task[t].output
        /\ Calm(t) => Coherent(task'[t])
    BY <1>0, <2>1, <2>4 DEF Whole, Coherent, TaskRow
  <2> QED
    BY <2>1, <2>3, <2>4, <2>5, <2>6, RowsRow DEF Busy
<1>4. CASE StoreResult(w)
  <2> DEFINE res == worker[w].result
             row == [task[t] EXCEPT !.status = res.status, !.output = res.output,
                                    !.action = IF res.route = "auto_execute"
                                               THEN res.output ELSE @]
  <2>1. /\ Busy(w) /\ worker[w].pc = "store" /\ (Calm(t) => task[t].status = "running")
        /\ Sound(res) /\ res.status \in {"completed", "failed", "escalated"}
        /\ res.output \in Nat
    BY <1>0, <1>4 DEF StoreResult, Busy, RowsInv, InStep, ResultsMade, WorkerSlot, Result
  <2>2. task' = [task EXCEPT ![t] = row]
    BY <1>4 DEF StoreResult
  <2>3. /\ row.status = res.status /\ row.output = res.output
        /\ row.verdict = task[t].verdict /\ row.runs = task[t].runs
        /\ row.action = IF res.route = "auto_execute" THEN res.output ELSE task[t].action
    BY <1>0, <2>1 DEF TaskRow
  <2> HIDE DEF res, row
  <2>4. Whole(row) /\ row.output # 0
    BY <1>0, <2>1, <2>3 DEF Whole, Sound
  <2>5. Calm(t) => Coherent(row) /\ row.status \in Terminal
    <3>1. Calm(t) => task[t].action = 0 /\ task[t].verdict = "none"
      BY <1>0, <2>1 DEF Coherent
    <3> QED
      BY <2>1, <2>3, <3>1 DEF Coherent, Sound, Terminal
  <2>6. task'[t] = row /\ \A u \in Tasks \ {t} : task'[u] = task[u]
    BY <1>0, <2>1, <2>2 DEF TypeOK
  <2>7. /\ worker'[w].pc = "ack" /\ worker'[w].task = t
        /\ UNCHANGED <<job, review>>
        /\ \A v \in Workers \ {w} : worker'[v] = worker[v]
    BY <1>0, <1>4 DEF StoreResult, TypeOK, WorkerSlot
  <2> QED
    BY <2>1, <2>4, <2>5, <2>6, <2>7, RowsRow DEF Busy
<1>5. CASE StoreFailure(w)
  <2>1. Busy(w) /\ worker[w].pc = "catch" /\ (Calm(t) => task[t].status = "running")
    BY <1>5 DEF StoreFailure, Busy, RowsInv, InStep
  <2>2. /\ task'[t] = [task[t] EXCEPT !.status = "failed"]
        /\ \A u \in Tasks \ {t} : task'[u] = task[u]
    BY <1>0, <1>5, <2>1 DEF StoreFailure, TypeOK
  <2>3. /\ worker'[w].pc = "ack" /\ worker'[w].task = t
        /\ UNCHANGED <<job, review>>
        /\ \A v \in Workers \ {w} : worker'[v] = worker[v]
    BY <1>0, <1>5 DEF StoreFailure, TypeOK, WorkerSlot
  <2>4. /\ task'[t].status = "failed" /\ Whole(task'[t])
        /\ task'[t].output = task[t].output
        /\ Calm(t) => Coherent(task'[t])
    BY <1>0, <2>1, <2>2 DEF Whole, Coherent, TaskRow
  <2> QED
    BY <2>1, <2>2, <2>3, <2>4, RowsRow DEF Terminal, Busy
<1>6. CASE Throw(w)
  <2>1. Busy(w) /\ worker[w].pc = "execute" /\ (Calm(t) => task[t].status = "running")
    BY <1>6 DEF Throw, Busy, RowsInv, InStep
  <2>2. /\ task'[t] = [task[t] EXCEPT !.runs = @ + 1]
        /\ \A u \in Tasks \ {t} : task'[u] = task[u]
    BY <1>0, <1>6, <2>1 DEF Throw, TypeOK
  <2>3. /\ worker'[w].pc = "catch" /\ worker'[w].task = t
        /\ UNCHANGED <<job, review>>
        /\ \A v \in Workers \ {w} : worker'[v] = worker[v]
    BY <1>0, <1>6 DEF Throw, TypeOK, WorkerSlot
  <2>4. /\ task'[t].status = task[t].status /\ Whole(task'[t])
        /\ task'[t].output = task[t].output
        /\ Calm(t) => Coherent(task'[t])
    BY <1>0, <2>1, <2>2 DEF Whole, Coherent, TaskRow
  <2> QED
    BY <2>1, <2>2, <2>3, <2>4, RowsRow DEF Busy
<1>7. CASE Refuse(w)
  <2>1. /\ Busy(w) /\ worker[w].pc \in {"execute", "store"}
        /\ Calm(t) => task[t].status = "running"
    BY <1>7 DEF Refuse, Busy, RowsInv, InStep
  <2>2. /\ worker'[w].pc = "catch" /\ worker'[w].task = t
        /\ UNCHANGED <<task, job, review>>
        /\ \A v \in Workers \ {w} : worker'[v] = worker[v]
    BY <1>0, <1>7 DEF Refuse, TypeOK, WorkerSlot
  <2> QED
    BY <1>0, <2>1, <2>2, RowsRow DEF Busy
<1>8. CASE CompleteJob(w) \/ FailJob(w) \/ Crash(w)
  <2>1. Busy(w)
    BY <1>8 DEF CompleteJob, FailJob, Crash, Busy
  <2>2. /\ job'[t].state \in {"done", "failed", "active"} /\ job'[t].stalls = job[t].stalls
        /\ \A u \in Tasks \ {t} : job'[u] = job[u]
        /\ worker' = [worker EXCEPT ![w] = FreeSlot] /\ UNCHANGED <<task, review>>
    BY <1>0, <1>8, <2>1 DEF CompleteJob, FailJob, Crash, TypeOK, Job
  <2> QED
    BY <2>1, <2>2, RowsLetGo
<1> QED
  BY <1>1, <1>2, <1>3, <1>4, <1>5, <1>6, <1>7, <1>8 DEF Work

LEMMA RowsReview ==
    ASSUME RowsInv, Inv', NEW r \in Reviewers,
           (\E t \in Tasks : ReviewRead(r, t)) \/ Approve(r) \/ Reject(r)
    PROVE  RowsInv' /\ (task' = task \/ Decides(review[r].task))
<1>0. /\ TypeOK /\ SlotsBusy
      /\ \A q \in Reviewers : review[q].task # None => review[q].task \in Tasks
      /\ \A w \in Workers : Busy(w) => worker[w].task \in Tasks
  BY DEF RowsInv, Inv, TypeOK, SlotsBusy, Reading
<1>1. ASSUME NEW t \in Tasks, ReviewRead(r, t) PROVE RowsInv' /\ task' = task
  <2>1. /\ review'[r].task = t /\ review'[r].output = task[t].output
        /\ review'[r].status = task[t].status
        /\ task[t].status \in Reviewable /\ UNCHANGED <<task, job, worker>>
        /\ \A q \in Reviewers \ {r} : review'[q] = review[q]
    BY <1>0, <1>1 DEF ReviewRead, TypeOK
  <2>2. \A u \in Tasks : Calm(u)' <=> Calm(u)
    BY <2>1 DEF Calm
  <2>3. RowsCoherent' /\ UntakenIsQueued' /\ ResultsMade'
    BY <2>1, <2>2 DEF RowsInv, RowsCoherent, UntakenIsQueued, ResultsMade
  <2>4. InStep'
    BY <1>0, <2>1, <2>2 DEF RowsInv, InStep, Busy
  <2>5. task[t].output # 0
    BY <2>1 DEF RowsInv, RowsCoherent, Whole, Reviewable
  <2>6. ReadingsMade'
    BY <2>1, <2>5 DEF RowsInv, ReadingsMade
  <2>7. ReadingsFresh'
    BY <1>0, <2>1, <2>2 DEF RowsInv, ReadingsFresh, Fresh
  <2> QED
    BY <2>1, <2>3, <2>4, <2>6, <2>7 DEF RowsInv
<1>2. CASE Approve(r) \/ Reject(r)
  <2> DEFINE t == review[r].task
  <2>1. /\ t \in Tasks /\ task[t] \in TaskRow /\ t # None
        /\ review[r].output \in Nat \ {0} /\ task[t].output # 0
        /\ Calm(t) => Fresh(r)
    BY <1>0, <1>2 DEF Approve, Reject, TypeOK, Reading, RowsInv, ReadingsMade, ReadingsFresh
  <2>2. /\ review'[r].task = None /\ UNCHANGED <<job, worker>>
        /\ \A q \in Reviewers \ {r} : review'[q] = review[q]
    BY <1>0, <1>2 DEF Approve, Reject, NoReading, TypeOK
  <2>3. /\ task'[t].status \in {"completed", "cancelled"} /\ Whole(task'[t])
        /\ Calm(t) => Coherent(task'[t])
        /\ task'[t].output = task[t].output /\ task'[t].runs = task[t].runs
        /\ \A u \in Tasks \ {t} : task'[u] = task[u]
    <3>1. CASE Approve(r)
      <4>1. /\ task'[t] = [task[t] EXCEPT !.status = "completed", !.action = review[r].output,
                                          !.verdict = "approved"]
            /\ \A u \in Tasks \ {t} : task'[u] = task[u]
        BY <1>0, <2>1, <3>1 DEF Approve, TypeOK
      <4> QED
        BY <2>1, <4>1 DEF Whole, Coherent, Fresh, TaskRow
    <3>2. CASE Reject(r)
      <4>1. PICK own \in {0, -1} :
              task' = [task EXCEPT ![t].status = "cancelled", ![t].action = own,
                                   ![t].verdict = "rejected"]
        BY <3>2 DEF Reject
      <4>2. /\ task'[t] = [task[t] EXCEPT !.status = "cancelled", !.action = own,
                                          !.verdict = "rejected"]
            /\ \A u \in Tasks \ {t} : task'[u] = task[u]
        BY <1>0, <2>1, <4>1 DEF TypeOK
      <4> QED
        BY <2>1, <4>2 DEF Whole, Coherent, TaskRow
    <3> QED
      BY <1>2, <3>1, <3>2
  <2>4. \A u \in Tasks : Calm(u)' <=> Calm(u)
    BY <2>2 DEF Calm
  <2>5. Calm(t) => task[t].status \in {"completed", "escalated", "cancelled"}
    BY <2>1 DEF Fresh, Reviewable
  <2>6. RowsCoherent'
    BY <2>3, <2>4 DEF RowsInv, RowsCoherent
  <2>7. UntakenIsQueued'
    BY <2>1, <2>2, <2>3, <2>4, <2>5 DEF RowsInv, UntakenIsQueued
  <2>8. InStep' /\ ResultsMade'
    <3>1. ResultsMade'
      BY <2>2 DEF RowsInv, ResultsMade
    <3>2. \A w \in Workers : Busy(w)' <=> Busy(w)
      BY <2>2 DEF Busy
    <3>3. InStep'
      <4> SUFFICES ASSUME NEW w \in Workers, Busy(w), Calm(worker[w].task)
                   PROVE  LET row == task'[worker[w].task] IN
                          /\ worker[w].pc = "taken" => row.status = "queued"
                          /\ worker[w].pc \in {"execute", "store", "catch"} =>
                                row.status = "running"
                          /\ worker[w].pc = "ack" => row.status \in Terminal
        BY <1>0, <2>2, <2>4, <3>2 DEF InStep
      <4>1. CASE worker[w].task = t
        BY <2>3, <2>5, <4>1 DEF RowsInv, InStep, Terminal
      <4>2. CASE worker[w].task # t
        BY <1>0, <2>3, <4>2 DEF RowsInv, InStep
      <4> QED
        BY <4>1, <4>2
    <3> QED
      BY <3>1, <3>3
  <2>9. ReadingsMade'
    BY <1>0, <2>1, <2>2, <2>3 DEF RowsInv, ReadingsMade
  <2>10. ReadingsFresh'
    BY <1>0, <2>1, <2>2, <2>3, <2>4 DEF RowsInv, ReadingsFresh, Fresh, Reviewable
  <2> QED
    BY <2>3, <2>6, <2>7, <2>8, <2>9, <2>10 DEF RowsInv, Decides
<1> QED
  BY <1>1, <1>2

(* Every step keeps RowsInv, and touches a row in one of two ways, if at all. *)
LEMMA RowsStep ==
    ASSUME RowsInv, [Next]_vars
    PROVE  RowsInv' /\ (task' = task \/ \E t : Touches(t) \/ Decides(t))
<1>0. Inv'
  BY InvStep DEF RowsInv
<1>1. CASE \E t \in Tasks : InsertTask(t) \/ AddJob(t) \/ LoseJob(t) \/ Stall(t) \/ GiveUp(t)
  BY <1>0, <1>1, RowsJobs
<1>2. CASE \E w \in Workers : Work(w) \/ Refuse(w) \/ FailJob(w) \/ Crash(w)
  BY <1>0, <1>2, RowsWork
<1>3. CASE \E r \in Reviewers :
             (\E t \in Tasks : ReviewRead(r, t)) \/ Approve(r) \/ Reject(r)
  BY <1>0, <1>3, RowsReview
<1>4. CASE UpdateConfig \/ UNCHANGED vars
  <2>1. UNCHANGED <<task, job, worker, review>>
    BY <1>4 DEF UpdateConfig, vars
  <2> QED
    BY <1>0, <2>1 DEF RowsInv, RowsCoherent, Calm, UntakenIsQueued, InStep, ResultsMade,
                      ReadingsMade, ReadingsFresh, Fresh, Busy
<1> QED
  BY <1>1, <1>2, <1>3, <1>4 DEF Next

(* What was approved is an output, and the one the row shows unless a stalled *)
(* job ran the task again.                                                    *)
THEOREM ApprovedHasOutput == Spec => []ApprovedIsOnRecord
<1>1. RowsInv => ApprovedIsOnRecord
  BY DEF RowsInv, RowsCoherent, Whole, Coherent, Calm, ApprovedIsOnRecord
<1>2. RowsInv /\ [Next]_vars => RowsInv'
  BY RowsStep
<1> QED
  BY <1>1, <1>2, RowsInit, PTL DEF Spec

(* No worker touches the row of a task a person has decided, unless its job *)
(* stalled.                                                                 *)
THEOREM VerdictStays == Spec => VerdictIsFinal
<1> DEFINE A == \A t \in Tasks : task[t].verdict # "none" /\ job[t].stalls = 0 =>
                  task'[t].output = task[t].output /\ task'[t].runs = task[t].runs
<1>1. RowsInv /\ [Next]_vars => RowsInv' /\ [A]_vars
  BY RowsStep DEF Touches, Decides, RowsInv, RowsCoherent, Coherent, Calm
<1> QED
  BY <1>1, RowsInit, PTL DEF Spec, VerdictIsFinal

-----------------------------------------------------------------------------
(* The pipeline is an AgentBook *)

(* What the book shows of a row. *)
ShownRow(r) == [status |-> r.status, output |-> r.output, action |-> r.action,
                verdict |-> r.verdict]

(* An update of one row is an update of the same row of the book, whatever   *)
(* it does to the count of the handler's runs.                               *)
LEMMA ShownUpdate ==
    ASSUME TypeOK, NEW t \in Tasks, NEW x,
           task'[t] = x, \A u \in Tasks \ {t} : task'[u] = task[u]
    PROVE  shown' = [shown EXCEPT ![t] = ShownRow(x)]
<1>1. shown' = [u \in Tasks |-> ShownRow(task'[u])]
  BY DEF shown, ShownRow
<1>2. \A u \in Tasks : ShownRow(task'[u]) = IF u = t THEN ShownRow(x) ELSE ShownRow(task[u])
  OBVIOUS
<1>3. [shown EXCEPT ![t] = ShownRow(x)] =
        [u \in Tasks |-> IF u = t THEN ShownRow(x) ELSE ShownRow(task[u])]
  BY DEF shown, ShownRow
<1> QED
  BY <1>1, <1>2, <1>3

LEMMA BookStep ==
    ASSUME NEW t \in Tasks,
           \/ Book!Submit(t) \/ Book!Begin(t) \/ Book!Finish(t)
           \/ Book!Fail(t) \/ Book!Approve(t) \/ Book!Reject(t)
    PROVE  Book!Next
BY DEF Book!Next

LEMMA WorkerKeepsBook ==
    ASSUME RowsInv, NEW w \in Workers, Work(w), NEW t, t = worker[w].task,
           t \in Tasks => task'[t] = task[t] \/ Calm(t)
    PROVE  shown' = shown \/ Book!Next
<1>0. /\ TypeOK /\ worker[w] \in WorkerSlot
      /\ Busy(w) => /\ t \in Tasks /\ task[t] \in TaskRow
                    /\ Calm(t) => Coherent(task[t])
      /\ shown = [u \in Tasks |-> ShownRow(task[u])]
  BY DEF RowsInv, Inv, TypeOK, SlotsBusy, RowsCoherent, shown, ShownRow
<1>s. ASSUME t \in Tasks, task'[t] = task[t], \A u \in Tasks \ {t} : task'[u] = task[u]
      PROVE  shown' = shown
  <2>1. \A u \in Tasks : task'[u] = task[u]
    BY <1>s
  <2> QED
    BY <2>1 DEF shown
<1>1. CASE MarkRunning(w)
  <2>1. Busy(w) /\ (Calm(t) => task[t].status = "queued")
    BY <1>1 DEF MarkRunning, Busy, RowsInv, InStep
  <2>2. /\ task'[t] = [task[t] EXCEPT !.status = "running"]
        /\ \A u \in Tasks \ {t} : task'[u] = task[u]
    BY <1>0, <1>1, <2>1 DEF MarkRunning, TypeOK
  <2>3. CASE Calm(t)
    <3>1. ShownRow([task[t] EXCEPT !.status = "running"]) =
            [ShownRow(task[t]) EXCEPT !.status = "running"]
      BY <1>0, <2>1 DEF ShownRow, TaskRow
    <3>2. shown' = [shown EXCEPT ![t] = [ShownRow(task[t]) EXCEPT !.status = "running"]]
      BY <1>0, <2>1, <2>2, <3>1, ShownUpdate
    <3>3. shown[t] = ShownRow(task[t]) /\ shown[t].status = "queued"
      BY <1>0, <2>1, <2>3 DEF ShownRow
    <3>4. Book!Begin(t)
      BY <3>2, <3>3 DEF Book!Begin
    <3> QED
      BY <1>0, <2>1, <3>4, BookStep
  <2> QED
    BY <1>0, <1>s, <2>1, <2>2, <2>3
<1>2. CASE Execute(w) \/ Throw(w)
  <2>1. Busy(w)
    BY <1>2 DEF Execute, Throw, Busy
  <2>2. /\ task'[t] = [task[t] EXCEPT !.runs = @ + 1]
        /\ \A u \in Tasks \ {t} : task'[u] = task[u]
    BY <1>0, <1>2, <2>1 DEF Execute, Throw, TypeOK
  <2>3. ShownRow([task[t] EXCEPT !.runs = @ + 1]) = ShownRow(task[t])
    BY <1>0, <2>1 DEF ShownRow, TaskRow
  <2>4. shown' = [shown EXCEPT ![t] = ShownRow(task[t])]
    BY <1>0, <2>1, <2>2, <2>3, ShownUpdate
  <2> QED
    BY <1>0, <2>1, <2>4
<1>3. CASE StoreResult(w)
  <2> DEFINE res == worker[w].result
             act == IF res.route = "auto_execute" THEN res.output ELSE task[t].action
  <2>1. /\ Busy(w) /\ (Calm(t) => task[t].status = "running") /\ res \in Result
        /\ Sound(res)
    BY <1>0, <1>3 DEF StoreResult, Busy, RowsInv, InStep, ResultsMade, WorkerSlot
  <2>2. /\ task'[t] = [task[t] EXCEPT !.status = res.status, !.output = res.output,
                                       !.action = act]
        /\ \A u \in Tasks \ {t} : task'[u] = task[u]
    BY <1>0, <1>3, <2>1 DEF StoreResult, TypeOK
  <2>c. CASE Calm(t)
    <3>3. task[t].status = "running" /\ task[t].action = 0 /\ task[t].verdict = "none"
      BY <1>0, <2>1, <2>c DEF Coherent
    <3> DEFINE end == [status |-> res.status, output |-> res.output, action |-> act,
                       verdict |-> "none"]
    <3>4. ShownRow([task[t] EXCEPT !.status = res.status, !.output = res.output,
                                   !.action = act]) = end
      BY <1>0, <2>1, <3>3 DEF ShownRow, TaskRow
    <3>5. shown' = [shown EXCEPT ![t] = end]
      BY <1>0, <2>1, <2>2, <3>4, ShownUpdate
    <3>6. /\ end.status \in {"completed", "failed", "escalated"} /\ end.output # 0
          /\ end.action \in {0, end.output} /\ (end.status = "escalated" => end.action = 0)
      BY <2>1, <3>3 DEF Result, Sound
    <3>7. shown[t].status = "running" /\ shown'[t] = end
      BY <1>0, <2>1, <3>3, <3>5 DEF ShownRow
    <3>8. end = [status |-> end.status, output |-> end.output, action |-> end.action,
                 verdict |-> "none"]
      OBVIOUS
    <3> HIDE DEF end
    <3>9. Book!Finish(t)
      BY <3>5, <3>6, <3>7, <3>8 DEF Book!Finish
    <3> QED
      BY <1>0, <2>1, <3>9, BookStep
  <2> QED
    BY <1>0, <1>s, <2>1, <2>2, <2>c
<1>4. CASE StoreFailure(w)
  <2>1. Busy(w) /\ (Calm(t) => task[t].status = "running")
    BY <1>4 DEF StoreFailure, Busy, RowsInv, InStep
  <2> DEFINE end == [task[t] EXCEPT !.status = "failed"]
  <2>2. task'[t] = end /\ \A u \in Tasks \ {t} : task'[u] = task[u]
    BY <1>0, <1>4, <2>1 DEF StoreFailure, TypeOK
  <2>3. ShownRow(end) = [ShownRow(task[t]) EXCEPT !.status = "failed"]
    BY <1>0, <2>1 DEF ShownRow, TaskRow
  <2> HIDE DEF end
  <2>c. CASE Calm(t)
    <3>1. shown' = [shown EXCEPT ![t] = [ShownRow(task[t]) EXCEPT !.status = "failed"]]
      BY <1>0, <2>1, <2>2, <2>3, ShownUpdate
    <3>2. shown[t] = ShownRow(task[t]) /\ shown[t].status = "running"
      BY <1>0, <2>1, <2>c DEF ShownRow
    <3>3. Book!Fail(t)
      BY <3>1, <3>2 DEF Book!Fail
    <3> QED
      BY <1>0, <2>1, <3>3, BookStep
  <2> QED
    BY <1>0, <1>s, <2>1, <2>2, <2>c
<1>5. CASE UNCHANGED task
  BY <1>5 DEF shown
<1> QED
  BY <1>1, <1>2, <1>3, <1>4, <1>5 DEF Work, TakeJob, CompleteJob

LEMMA ReviewKeepsBook ==
    ASSUME RowsInv, NEW r \in Reviewers, Approve(r) \/ Reject(r), NEW t, t = review[r].task,
           task'[t] = task[t] \/ Undisturbed(t)
    PROVE  shown' = shown \/ Book!Next
<1>0. /\ TypeOK /\ t \in Tasks /\ task[t] \in TaskRow /\ t # None
      /\ review[r].status \in Reviewable
      /\ Undisturbed(t) => /\ task[t].status = review[r].status
                           /\ task[t].output = review[r].output
      /\ shown = [u \in Tasks |-> ShownRow(task[u])]
  BY DEF Approve, Reject, RowsInv, Inv, TypeOK, Reading, ReadingsMade, ReadingsFresh, Fresh,
         Undisturbed, Calm, shown, ShownRow
<1>1. \A u \in Tasks \ {t} : task'[u] = task[u]
  BY <1>0 DEF Approve, Reject, TypeOK
<1>2. CASE task'[t] = task[t]
  <2>1. \A u \in Tasks : task'[u] = task[u]
    BY <1>1, <1>2
  <2> QED
    BY <2>1 DEF shown
<1>3. CASE Undisturbed(t)
  <2>0. shown[t].output = review[r].output /\ Book!Open(t)
    BY <1>0, <1>3 DEF Book!Open, ShownRow, Reviewable
  <2>1. CASE Approve(r)
    <3> DEFINE end == [task[t] EXCEPT !.status = "completed", !.action = review[r].output,
                                      !.verdict = "approved"]
    <3>1. task'[t] = end
      BY <1>0, <2>1 DEF Approve, TypeOK
    <3>2. ShownRow(end) = [status |-> "completed", output |-> shown[t].output,
                           action |-> shown[t].output, verdict |-> "approved"]
      BY <1>0, <1>3, <2>0 DEF ShownRow, TaskRow
    <3> HIDE DEF end
    <3>3. shown' = [shown EXCEPT ![t] = [status |-> "completed", output |-> shown[t].output,
                                         action |-> shown[t].output, verdict |-> "approved"]]
      BY <1>0, <1>1, <3>1, <3>2, ShownUpdate
    <3>4. Book!Approve(t)
      BY <2>0, <3>3 DEF Book!Approve
    <3> QED
      BY <1>0, <3>4, BookStep
  <2>2. CASE Reject(r)
    <3>1. PICK own \in {0, -1} :
            task' = [task EXCEPT ![t].status = "cancelled", ![t].action = own,
                                 ![t].verdict = "rejected"]
      BY <2>2 DEF Reject
    <3> DEFINE end == [task[t] EXCEPT !.status = "cancelled", !.action = own,
                                      !.verdict = "rejected"]
    <3>2. task'[t] = end
      BY <1>0, <3>1 DEF TypeOK
    <3>3. ShownRow(end) = [status |-> "cancelled", output |-> shown[t].output,
                           action |-> own, verdict |-> "rejected"]
      BY <1>0, <1>3 DEF ShownRow, TaskRow
    <3> HIDE DEF end
    <3>4. shown' = [shown EXCEPT ![t] = [status |-> "cancelled", output |-> shown[t].output,
                                         action |-> own, verdict |-> "rejected"]]
      BY <1>0, <1>1, <3>2, <3>3, ShownUpdate
    <3>5. Book!Reject(t)
      BY <2>0, <3>4 DEF Book!Reject
    <3> QED
      BY <1>0, <3>5, BookStep
  <2> QED
    BY <2>1, <2>2
<1> QED
  BY <1>2, <1>3

LEMMA InsertKeepsBook ==
    ASSUME TypeOK, NEW t \in Tasks, InsertTask(t)
    PROVE  Book!Next
<1>1. /\ task[t] \in TaskRow /\ task[t].status = "absent"
      /\ task'[t] = [task[t] EXCEPT !.status = "queued"]
      /\ \A u \in Tasks \ {t} : task'[u] = task[u]
  BY DEF InsertTask, TypeOK
<1>2. ShownRow([task[t] EXCEPT !.status = "queued"]) =
        [ShownRow(task[t]) EXCEPT !.status = "queued"]
  BY <1>1 DEF ShownRow, TaskRow
<1>3. shown' = [shown EXCEPT ![t] = [ShownRow(task[t]) EXCEPT !.status = "queued"]]
  BY <1>1, <1>2, ShownUpdate
<1>4. shown[t] = ShownRow(task[t]) /\ shown[t].status = "absent"
  BY <1>1 DEF shown, ShownRow
<1>5. Book!Submit(t)
  BY <1>3, <1>4 DEF Book!Submit
<1> QED
  BY <1>5, BookStep

(* Seen through its rows the pipeline, with its queue, its worker slots and  *)
(* its reviews of several steps, takes only the steps of the book: one       *)
(* result per run, and decisions on what the row shows.  Deaths, refused     *)
(* statements and other reviewers are excluded only where they have already  *)
(* touched the very row that changes.                                        *)
THEOREM PipelineImplementsBook == Spec => ImplementsBook
<1> DEFINE A == (\A t \in Tasks : task'[t] # task[t] => Undisturbed(t)) => Book!Next
<1>1. Init => Book!Init
  BY DEF Init, Book!Init, shown
<1>2. RowsInv /\ [Next]_vars => [A]_shown
  <2> SUFFICES ASSUME RowsInv, [Next]_vars,
                      \A t \in Tasks : task'[t] = task[t] \/ Undisturbed(t)
               PROVE  shown' = shown \/ Book!Next
    OBVIOUS
  <2>0. TypeOK
    BY DEF RowsInv, Inv
  <2>1. CASE \E t \in Tasks : InsertTask(t)
    BY <2>0, <2>1, InsertKeepsBook
  <2>2. CASE \E w \in Workers : Work(w)
    <3>1. PICK w \in Workers : Work(w)
      BY <2>2
    <3>2. PICK t : t = worker[w].task
      OBVIOUS
    <3>3. t \in Tasks => task'[t] = task[t] \/ Calm(t)
      BY DEF Undisturbed, Calm
    <3> QED
      BY <3>1, <3>2, <3>3, WorkerKeepsBook
  <2>3. CASE \E r \in Reviewers : Approve(r) \/ Reject(r)
    <3>1. PICK r \in Reviewers : Approve(r) \/ Reject(r)
      BY <2>3
    <3>2. PICK t : t = review[r].task
      OBVIOUS
    <3>3. t \in Tasks
      BY <2>0, <3>1, <3>2 DEF Approve, Reject, TypeOK, Reading
    <3> QED
      BY <3>1, <3>2, <3>3, ReviewKeepsBook
  <2>4. CASE task' = task
    BY <2>4 DEF shown
  <2> QED
    BY <2>1, <2>2, <2>3, <2>4
       DEF Next, vars, AddJob, LoseJob, Stall, GiveUp, Refuse, FailJob, Crash, ReviewRead,
           UpdateConfig
<1>3. RowsInv /\ [Next]_vars => RowsInv'
  BY RowsStep
<1> QED
  BY <1>1, <1>2, <1>3, RowsInit, PTL DEF Spec, ImplementsBook
=============================================================================
