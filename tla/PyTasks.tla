------------------------------- MODULE PyTasks -------------------------------
(***************************************************************************)
(* The table "tasks" of apps/api: bulk requests and the scheduler insert   *)
(* rows, OpenClawExecutionWorker polls the table and runs the billing      *)
(* tasks in it, people retry and resolve.                                  *)
(*                                                                         *)
(* There is no lock: a worker selects the oldest pending row and updates   *)
(* it later, by id; a person's request reads a row and updates it later.   *)
(* Every step is one committed statement.  A process may die between two   *)
(* of them, and a statement the database refuses ends it too: its session  *)
(* is of no use any more, so the update to FAILED raises as well.  The     *)
(* worker is a thread without a handler: when a statement raises, only the *)
(* thread ends, /health still answers, and nothing starts it again but a   *)
(* new process.                                                            *)
(* Of the types the worker supports only GENERATE_MONTHLY_CHARGE is ever   *)
(* inserted as pending.                                                    *)
(***************************************************************************)
EXTENDS Integers, Sequences, FiniteSets

CONSTANTS
    Workers,      \* names of worker processes
    Deployments,  \* sets of workers that may be deployed
    People,       \* people at the agent-tasks page
    Requests,     \* POST /bulk/agents/trigger requests
    Batch,        \* contracts in a bulk request
    MaxRows,      \* bound: rows inserted by producers
    MaxRetries,   \* bound: retries by people
    MaxCrashes    \* bound: deaths of workers and requests

ASSUME PyTasksAssumption ==
    /\ Deployments \subseteq SUBSET Workers
    /\ IsFiniteSet(Workers) /\ IsFiniteSet(People)
    /\ Batch \in Nat \ {0} /\ MaxRows \in Nat
    /\ MaxRetries \in Nat /\ MaxCrashes \in Nat

VARIABLES
    rows,      \* the table, in the order of created_at
    worker,    \* what each worker is doing
    replicas,  \* the worker processes that are deployed
    up,        \* those of them whose polling thread is alive
    person,    \* the row each person's request has read, and its status
    request,   \* progress of each bulk request
    dead,      \* rows a worker or request died with
    retries,   \* retries so far
    crashes

vars == <<rows, worker, replicas, up, person, request, dead, retries, crashes>>

Statuses == {"PENDING", "RUNNING", "DONE", "FAILED", "ESCALATED"}

\* keyed: the payload has contract_id and month_ref.  batch: the row of the bulk
\* request the row belongs to, or 0.  charged counts the rent charges committed
\* for the row, retried the times a person made it pending.
Row == [type : {"generate", "other"}, status : Statuses, keyed : BOOLEAN,
        batch : Nat, charged : Nat, retried : Nat]

NewRow(type, status) ==
    [type |-> type, status |-> status, keyed |-> TRUE, batch |-> 0, charged |-> 0, retried |-> 0]

Job == [pc : {"idle", "claimed", "charge", "audit", "finish"}, row : Nat, ok : BOOLEAN]
IdleJob == [pc |-> "idle", row |-> 0, ok |-> TRUE]

Reading == [row : Nat, status : {"FAILED", "ESCALATED"}]
Unread == [row |-> 0, status |-> "FAILED"]

Bulk == [pc : {"new", "insert", "done"}, row : Nat, queued : Nat]

Init ==
    /\ rows = <<>>
    /\ worker = [w \in Workers |-> IdleJob]
    /\ replicas \in Deployments /\ up = replicas
    /\ person = [p \in People |-> Unread]
    /\ request = [r \in Requests |-> [pc |-> "new", row |-> 0, queued |-> 0]]
    /\ dead = {} /\ retries = 0 /\ crashes = 0

-----------------------------------------------------------------------------
(* Producers *)

Insert(row) == Len(rows) < MaxRows /\ rows' = Append(rows, row)

\* The payment reminders and the overdue escalation of the scheduler, which no
\* worker runs.
Schedule ==
    /\ \E status \in {"PENDING", "ESCALATED"} : Insert(NewRow("other", status))
    /\ UNCHANGED <<worker, replicas, up, person, request, dead, retries, crashes>>

\* bulk_trigger_agents commits a row for the whole batch, as RUNNING ...
BulkStart(r) ==
    /\ request[r].pc = "new"
    /\ Insert(NewRow("other", "RUNNING"))
    /\ request' = [request EXCEPT ![r].pc = "insert", ![r].row = Len(rows) + 1]
    /\ UNCHANGED <<worker, replicas, up, person, dead, retries, crashes>>

\* ... then one row for each contract, which the worker supports or not, ...
BulkChild(r) ==
    /\ request[r].pc = "insert" /\ request[r].queued < Batch
    /\ \E type \in {"generate", "other"}, keyed \in BOOLEAN :
        /\ type = "other" => keyed
        /\ Insert([NewRow(type, "PENDING") EXCEPT !.keyed = keyed, !.batch = request[r].row])
    /\ request' = [request EXCEPT ![r].queued = @ + 1]
    /\ UNCHANGED <<worker, replicas, up, person, dead, retries, crashes>>

\* Mutant of BulkEnd: the batch is closed before all its rows are in.
BulkEndEarly(r) ==
    LET b == request[r] IN
    /\ b.pc = "insert" /\ b.queued > 0
    /\ rows' = [rows EXCEPT ![b.row].status = "DONE"]
    /\ request' = [request EXCEPT ![r].pc = "done"]
    /\ UNCHANGED <<worker, replicas, up, person, dead, retries, crashes>>

\* ... and at last the outcome of the batch.  PARTIAL and FAILED are never
\* written: after a failed insert the session is of no use, the inserts that
\* follow fail as well, and so does this update (CrashRequest).
BulkEnd(r) ==
    LET b == request[r] IN
    /\ b.pc = "insert" /\ b.queued = Batch
    /\ rows' = [rows EXCEPT ![b.row].status = "DONE"]
    /\ request' = [request EXCEPT ![r].pc = "done"]
    /\ UNCHANGED <<worker, replicas, up, person, dead, retries, crashes>>

-----------------------------------------------------------------------------
(* The worker *)

Supported(i) == rows[i].type = "generate"

\* Mutants of Claimable: the oldest pending row whatever its type, run only if it
\* is supported; rows that are running are taken up again.
ClaimableInOrder(i) ==
    /\ rows[i].status = "PENDING" /\ Supported(i)
    /\ \A j \in 1 .. i - 1 : rows[j].status # "PENDING"
ClaimableAgain(i) ==
    rows[i].status \in {"PENDING", "RUNNING"} /\ Supported(i)

\* get_next_pending_task: the oldest pending row of a supported type
Claimable(i) ==
    /\ rows[i].status = "PENDING" /\ Supported(i)
    /\ \A j \in 1 .. i - 1 : ~(rows[j].status = "PENDING" /\ Supported(j))

Claim(w) ==
    /\ w \in up
    /\ worker[w].pc = "idle"
    /\ \E i \in DOMAIN rows :
        /\ Claimable(i)
        /\ worker' = [worker EXCEPT ![w] = [pc |-> "claimed", row |-> i, ok |-> TRUE]]
    /\ UNCHANGED <<rows, replicas, up, person, request, dead, retries, crashes>>

\* mark_task_running, whatever the row says by now; a payload without the
\* required keys fails at once.
MarkRunning(w) ==
    LET i == worker[w].row IN
    /\ worker[w].pc = "claimed"
    /\ rows' = [rows EXCEPT ![i].status = "RUNNING"]
    /\ worker' = [worker EXCEPT ![w].pc = IF rows[i].keyed THEN "charge" ELSE "finish",
                                ![w].ok = rows[i].keyed]
    /\ UNCHANGED <<replicas, up, person, request, dead, retries, crashes>>

\* create_monthly_charges: a new charge, with no look at the charges there are.
\* The message row that follows is DONE, nobody reads or changes it, and the
\* model leaves it out.
Charge(w) ==
    /\ worker[w].pc = "charge"
    /\ rows' = [rows EXCEPT ![worker[w].row].charged = @ + 1]
    /\ worker' = [worker EXCEPT ![w].pc = "finish"]
    /\ UNCHANGED <<replicas, up, person, request, dead, retries, crashes>>

\* There is no such contract or no such month.
ChargeFails(w) ==
    /\ worker[w].pc = "charge"
    /\ worker' = [worker EXCEPT ![w].pc = "audit", ![w].ok = FALSE]
    /\ UNCHANGED <<rows, replicas, up, person, request, dead, retries, crashes>>

\* The message of the failure looks like a failed task without its month_ref.
AuditFailed(w) ==
    /\ worker[w].pc = "audit"
    /\ rows' = Append(rows, [NewRow("generate", "FAILED") EXCEPT !.keyed = FALSE])
    /\ worker' = [worker EXCEPT ![w].pc = "finish"]
    /\ UNCHANGED <<replicas, up, person, request, dead, retries, crashes>>

\* Mutants of Finish: the task is done whatever the handler says; a failed task
\* is left as it is.
FinishDone(w) ==
    /\ worker[w].pc = "finish"
    /\ rows' = [rows EXCEPT ![worker[w].row].status = "DONE"]
    /\ worker' = [worker EXCEPT ![w] = IdleJob]
    /\ UNCHANGED <<replicas, up, person, request, dead, retries, crashes>>
FinishOnlyDone(w) ==
    /\ worker[w].pc = "finish"
    /\ rows' = [rows EXCEPT ![worker[w].row].status = IF worker[w].ok THEN "DONE" ELSE @]
    /\ worker' = [worker EXCEPT ![w] = IdleJob]
    /\ UNCHANGED <<replicas, up, person, request, dead, retries, crashes>>

\* mark_task_done, mark_task_failed
Finish(w) ==
    /\ worker[w].pc = "finish"
    /\ rows' = [rows EXCEPT ![worker[w].row].status = IF worker[w].ok THEN "DONE" ELSE "FAILED"]
    /\ worker' = [worker EXCEPT ![w] = IdleJob]
    /\ UNCHANGED <<replicas, up, person, request, dead, retries, crashes>>

-----------------------------------------------------------------------------
(* People *)

\* Both requests load the row and check its status ...
Read(p) ==
    /\ person[p] = Unread
    /\ \E i \in DOMAIN rows :
        /\ rows[i].status \in {"FAILED", "ESCALATED"}
        /\ person' = [person EXCEPT ![p] = [row |-> i, status |-> rows[i].status]]
    /\ UNCHANGED <<rows, worker, replicas, up, request, dead, retries, crashes>>

\* ... and then update it by id: retry_agent_task,
Retry(p) ==
    /\ person[p] # Unread /\ retries < MaxRetries
    /\ retries' = retries + 1
    /\ rows' = [rows EXCEPT ![person[p].row].status = "PENDING", ![person[p].row].retried = @ + 1]
    /\ person' = [person EXCEPT ![p] = Unread]
    /\ UNCHANGED <<worker, replicas, up, request, dead, crashes>>

\* Mutants of Resolve: a failed row is taken as well; the resolution itself is
\* stored as the status.
ResolveFailed(p) ==
    /\ person[p] # Unread
    /\ \E status \in {"DONE", "FAILED"} :
        rows' = [rows EXCEPT ![person[p].row].status = status]
    /\ person' = [person EXCEPT ![p] = Unread]
    /\ UNCHANGED <<worker, replicas, up, request, dead, retries, crashes>>
ResolveVerbatim(p) ==
    /\ person[p].status = "ESCALATED"
    /\ \E resolution \in {"approved", "rejected"} :
        rows' = [rows EXCEPT ![person[p].row].status = resolution]
    /\ person' = [person EXCEPT ![p] = Unread]
    /\ UNCHANGED <<worker, replicas, up, request, dead, retries, crashes>>

\* or resolve_agent_task, which only takes escalated rows.
Resolve(p) ==
    /\ person[p].status = "ESCALATED"
    /\ \E status \in {"DONE", "FAILED"} :
        rows' = [rows EXCEPT ![person[p].row].status = status]
    /\ person' = [person EXCEPT ![p] = Unread]
    /\ UNCHANGED <<worker, replicas, up, request, dead, retries, crashes>>

-----------------------------------------------------------------------------
(* Deaths *)

\* The process dies, or any statement of run_once raises, the poll as well:
\* _background_loop has no handler, and the thread is gone.
CrashWorker(w) ==
    /\ w \in up /\ crashes < MaxCrashes
    /\ crashes' = crashes + 1
    /\ up' = up \ {w}
    /\ dead' = dead \cup ({worker[w].row} \ {0})
    /\ worker' = [worker EXCEPT ![w] = IdleJob]
    /\ UNCHANGED <<rows, replicas, person, request, retries>>

\* A new process with a new thread: the container is started again, or the
\* worker is deployed once more.
StartWorker(w) ==
    /\ w \in replicas \ up
    /\ up' = up \cup {w}
    /\ UNCHANGED <<rows, worker, replicas, person, request, dead, retries, crashes>>

CrashRequest(r) ==
    /\ request[r].pc = "insert" /\ crashes < MaxCrashes
    /\ crashes' = crashes + 1
    /\ dead' = dead \cup {request[r].row}
    /\ request' = [request EXCEPT ![r].pc = "done"]
    /\ UNCHANGED <<rows, worker, replicas, up, person, retries>>

Work(w) ==
    Claim(w) \/ MarkRunning(w) \/ Charge(w) \/ ChargeFails(w) \/ AuditFailed(w) \/ Finish(w)

Trigger(r) == BulkStart(r) \/ BulkChild(r) \/ BulkEnd(r)

Next ==
    \/ Schedule
    \/ \E r \in Requests : Trigger(r) \/ CrashRequest(r)
    \/ \E w \in Workers : Work(w) \/ CrashWorker(w) \/ StartWorker(w)
    \/ \E p \in People : Read(p) \/ Retry(p) \/ Resolve(p)

Spec == Init /\ [][Next]_vars

\* A thread that is alive polls and works; nobody has to start a dead one again.
FairSpec == Spec /\ \A w \in Workers : WF_vars(Work(w))

-----------------------------------------------------------------------------
(* Properties *)

TypeOK ==
    /\ rows \in Seq(Row)
    /\ worker \in [Workers -> Job]
    /\ replicas \in Deployments /\ up \subseteq replicas
    /\ person \in [People -> Reading]
    /\ request \in [Requests -> Bulk]
    /\ dead \subseteq Nat /\ retries \in 0 .. MaxRetries /\ crashes \in 0 .. MaxCrashes
    /\ \A w \in Workers : worker[w].pc # "idle" => worker[w].row \in DOMAIN rows
    /\ \A p \in People : person[p] # Unread => person[p].row \in DOMAIN rows
    /\ \A r \in Requests : request[r].pc = "insert" => request[r].row \in DOMAIN rows

\* One worker is deployed and one person at the page.
OneAtWork == Cardinality(replicas) = 1 /\ Cardinality(People) = 1

(* With one worker and one person a task charges the tenant at most once,  *)
(* whatever dies and however often it is retried: a failed task has        *)
(* charged nothing, and nothing starts a task again that died in between.  *)
ChargedOnce ==
    OneAtWork => \A i \in DOMAIN rows : rows[i].charged <= 1

(* Without a lock every worker may run the same task, once for each time   *)
(* somebody made it pending, and no more.                                  *)
ChargesBounded ==
    \A i \in DOMAIN rows :
        rows[i].charged <= Cardinality(replicas) * (1 + rows[i].retried)

(* A task that says DONE has charged the tenant, although other workers    *)
(* and people write the same row.                                          *)
DoneMeansCharged ==
    \A i \in DOMAIN rows :
        rows[i].type = "generate" /\ rows[i].status = "DONE"
            => rows[i].charged > 0

(* A row that says RUNNING is being worked on by a worker or a request, or *)
(* one of them died with it.                                               *)
RunningIsHeld ==
    \A i \in DOMAIN rows : rows[i].status = "RUNNING" =>
        \/ \E w \in Workers : worker[w].row = i
        \/ \E r \in Requests : request[r].pc = "insert" /\ request[r].row = i
        \/ i \in dead

(* The row of a bulk request says DONE only if every contract has its      *)
(* task, and nobody, also no retry, takes it for done if the request died. *)
BatchIsAccounted ==
    \A r \in Requests :
        LET b == request[r].row
            tasks == {i \in DOMAIN rows : rows[i].batch = b}
        IN  request[r].pc # "new" =>
                /\ rows[b].status = "DONE" => Cardinality(tasks) = Batch
                /\ b \in dead => rows[b].status = "RUNNING"

(* The table of one worker and one person is a TaskBook, whatever dies:    *)
(* the claim, the run, the charge and the outcome are statements of their  *)
(* own, and so are a person's read and write, but every row changes from   *)
(* the status it shows, is charged once per success and never after one.   *)
Book == INSTANCE TaskBook WITH
    table <- [i \in DOMAIN rows |-> [type |-> rows[i].type, status |-> rows[i].status,
                                     charged |-> rows[i].charged]]

ImplementsBook == Book!Init /\ [][OneAtWork => Book!Next]_rows

Pending(i) == i \in DOMAIN rows /\ rows[i].status = "PENDING"

(* A pending task the worker supports is taken, however many other rows    *)
(* are pending and whatever the others do, as long as the polling thread   *)
(* of some deployed worker is alive: nothing starts a dead one again.      *)
PendingIsTaken ==
    \A i \in 1 .. MaxRows : Pending(i) /\ Supported(i) ~> ~Pending(i) \/ up = {}
=============================================================================
