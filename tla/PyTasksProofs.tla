---------------------------- MODULE PyTasksProofs ----------------------------
(* Theorems about PyTasks for any number of workers, replicas, people, bulk *)
(* requests, rows, retries and deaths.                                      *)
EXTENDS PyTasks, SequenceTheorems, TLAPS

-----------------------------------------------------------------------------
(* The inductive invariant *)

(* What a worker knows of its row: a worker without a task has none, a      *)
(* failure is only audited when there is one, and a task that ends well has *)
(* its charge.                                                              *)
WorkerKnows(w) ==
    /\ worker[w].pc = "idle" <=> worker[w].row = 0
    /\ worker[w].pc # "idle" => worker[w].row \in DOMAIN rows
    /\ worker[w].pc = "audit" => ~worker[w].ok
    /\ worker[w].pc = "finish" /\ worker[w].ok => rows[worker[w].row].charged > 0

(* Only rows of the other types are ever escalated, so only such a row is   *)
(* the one a person resolves.                                               *)
PersonKnows(p) ==
    /\ person[p] # Unread => person[p].row \in DOMAIN rows
    /\ person[p].status = "ESCALATED" => rows[person[p].row].type = "other"

RequestKnows(r) ==
    request[r].pc = "insert" =>
        request[r].row \in DOMAIN rows /\ rows[request[r].row].type = "other"

EscalatedIsOther ==
    \A i \in DOMAIN rows : rows[i].status = "ESCALATED" => rows[i].type = "other"

Shape ==
    /\ worker \in [Workers -> Job] /\ replicas \in Deployments
    /\ person \in [People -> Reading] /\ request \in [Requests -> Bulk]
    /\ dead \subseteq Nat /\ retries \in 0 .. MaxRetries /\ crashes \in 0 .. MaxCrashes

Known ==
    /\ \A w \in Workers : WorkerKnows(w)
    /\ \A p \in People : PersonKnows(p)
    /\ \A r \in Requests : RequestKnows(r)

Table == rows \in Seq(Row) /\ EscalatedIsOther /\ DoneMeansCharged

Inv == Shape /\ Table /\ Known /\ RunningIsHeld

LEMMA InvInit == Init => Inv
<1> SUFFICES ASSUME Init PROVE Inv
  OBVIOUS
<1>1. Shape
  BY PyTasksAssumption DEF Init, Shape, IdleJob, Job, Unread, Reading, Bulk
<1>2. Table /\ RunningIsHeld
  BY EmptySeq DEF Init, Table, EscalatedIsOther, DoneMeansCharged, RunningIsHeld
<1>3. Known
  BY DEF Init, Known, WorkerKnows, PersonKnows, RequestKnows, IdleJob, Unread
<1> QED
  BY <1>1, <1>2, <1>3 DEF Inv

-----------------------------------------------------------------------------
(* The table only grows *)

(* What every statement leaves alone: rows are neither deleted nor change   *)
(* their type, and no charge is taken back.                                 *)
Grown ==
    /\ rows' \in Seq(Row)
    /\ DOMAIN rows \subseteq DOMAIN rows'
    /\ \A i \in DOMAIN rows :
          /\ rows'[i].type = rows[i].type
          /\ rows[i].charged > 0 => rows'[i].charged > 0

LEMMA RowAt ==
    ASSUME Table, NEW i \in DOMAIN rows
    PROVE  rows[i] \in Row
BY ElementOfSeq DEF Table

(* An UPDATE by id. *)
LEMMA UpdateRow ==
    ASSUME Table, NEW i \in DOMAIN rows, NEW new \in Row,
           new.type = rows[i].type, rows[i].charged > 0 => new.charged > 0,
           rows' = [rows EXCEPT ![i] = new]
    PROVE  /\ Grown
           /\ DOMAIN rows' = DOMAIN rows
           /\ rows'[i] = new
           /\ \A j \in DOMAIN rows \ {i} : rows'[j] = rows[j]
<1>1. rows \in Seq(Row) /\ i \in 1 .. Len(rows)
  BY LenProperties DEF Table
<1>2. /\ rows' \in Seq(Row) /\ Len(rows') = Len(rows)
      /\ \A j \in 1 .. Len(rows) : rows'[j] = IF j = i THEN new ELSE rows[j]
  BY <1>1, ExceptSeq
<1>3. DOMAIN rows' = DOMAIN rows /\ DOMAIN rows = 1 .. Len(rows)
  BY <1>1, <1>2, LenProperties
<1> QED
  BY <1>1, <1>2, <1>3 DEF Grown

(* An INSERT. *)
LEMMA AddRow ==
    ASSUME Table, NEW new \in Row, rows' = Append(rows, new)
    PROVE  /\ Grown
           /\ DOMAIN rows' = DOMAIN rows \cup {Len(rows) + 1}
           /\ Len(rows) + 1 \notin DOMAIN rows
           /\ rows'[Len(rows) + 1] = new
           /\ \A j \in DOMAIN rows : rows'[j] = rows[j]
<1>1. rows \in Seq(Row)
  BY DEF Table
<1>2. /\ rows' \in Seq(Row) /\ Len(rows') = Len(rows) + 1
      /\ \A j \in 1 .. Len(rows) : rows'[j] = rows[j]
      /\ rows'[Len(rows) + 1] = new
  BY <1>1, AppendProperties
<1>3. DOMAIN rows' = 1 .. Len(rows) + 1 /\ DOMAIN rows = 1 .. Len(rows) /\ Len(rows) \in Nat
  BY <1>1, <1>2, LenProperties
<1> QED
  BY <1>1, <1>2, <1>3 DEF Grown

(* So a worker, a person and a request that do nothing know what they knew. *)
LEMMA StillKnown ==
    ASSUME Inv, Grown
    PROVE  /\ \A w \in Workers : worker'[w] = worker[w] => WorkerKnows(w)'
           /\ \A p \in People : person'[p] = person[p] => PersonKnows(p)'
           /\ \A r \in Requests : request'[r] = request[r] => RequestKnows(r)'
<1>1. ASSUME NEW w \in Workers, worker'[w] = worker[w] PROVE WorkerKnows(w)'
  BY <1>1 DEF Inv, Known, WorkerKnows, Grown
<1>2. ASSUME NEW p \in People, person'[p] = person[p] PROVE PersonKnows(p)'
  BY <1>2 DEF Inv, Known, PersonKnows, Grown, Unread
<1>3. ASSUME NEW r \in Requests, request'[r] = request[r] PROVE RequestKnows(r)'
  BY <1>3 DEF Inv, Known, RequestKnows, Grown
<1> QED
  BY <1>1, <1>2, <1>3

(* A new row that is not escalated or DONE, unless the worker does not run  *)
(* its type, and that is not RUNNING, changes nothing in what is known.     *)
LEMMA InsertStep ==
    ASSUME Inv, Shape', NEW new \in Row, rows' = Append(rows, new),
           new.type = "generate" => new.status \notin {"ESCALATED", "DONE"},
           new.status = "RUNNING" =>
               \E r \in Requests : request'[r].pc = "insert" /\ request'[r].row = Len(rows) + 1,
           \A w \in Workers : \/ worker'[w] = worker[w]
                              \/ WorkerKnows(w)' /\ worker'[w].row = worker[w].row,
           UNCHANGED <<person, dead>>,
           \A r \in Requests : \/ request'[r] = request[r]
                               \/ /\ RequestKnows(r)'
                                  /\ request[r].pc = "insert" =>
                                        request'[r].pc = "insert" /\ request'[r].row = request[r].row
    PROVE  Inv'
<1>1. /\ Grown
      /\ DOMAIN rows' = DOMAIN rows \cup {Len(rows) + 1}
      /\ rows'[Len(rows) + 1] = new
      /\ \A j \in DOMAIN rows : rows'[j] = rows[j]
  BY AddRow DEF Inv
<1>2. Table'
  BY <1>1 DEF Inv, Table, Grown, EscalatedIsOther, DoneMeansCharged, Row
<1>3. Known'
  BY <1>1, StillKnown DEF Known
<1>4. RunningIsHeld'
  <2> SUFFICES ASSUME NEW i \in DOMAIN rows', rows'[i].status = "RUNNING"
               PROVE  \/ \E w \in Workers : worker'[w].row = i
                      \/ \E r \in Requests : request'[r].pc = "insert" /\ request'[r].row = i
                      \/ i \in dead
    BY DEF RunningIsHeld
  <2>1. CASE i = Len(rows) + 1
    BY <1>1, <2>1
  <2>2. CASE i \in DOMAIN rows
    BY <1>1, <2>2 DEF Inv, RunningIsHeld
  <2> QED
    BY <1>1, <2>1, <2>2
<1> QED
  BY <1>2, <1>3, <1>4 DEF Inv

LEMMA NewRowType ==
    ASSUME NEW type \in {"generate", "other"}, NEW status \in Statuses
    PROVE  /\ NewRow(type, status) \in Row
           /\ NewRow(type, status).type = type /\ NewRow(type, status).status = status
BY DEF NewRow, Row

LEMMA ScheduleStep == Inv /\ Schedule => Inv'
<1> SUFFICES ASSUME Inv, Schedule PROVE Inv'
  OBVIOUS
<1>1. PICK status \in {"PENDING", "ESCALATED"} : rows' = Append(rows, NewRow("other", status))
  BY DEF Schedule, Insert
<1>2. UNCHANGED <<worker, replicas, person, request, dead, retries, crashes>>
  BY DEF Schedule
<1>3. Shape'
  BY <1>2 DEF Inv, Shape
<1> QED
  BY <1>1, <1>2, <1>3, InsertStep, NewRowType DEF Statuses

LEMMA BulkStartStep ==
    ASSUME Inv, NEW r \in Requests, BulkStart(r)
    PROVE  Inv'
<1>1. /\ request[r].pc = "new"
      /\ rows' = Append(rows, NewRow("other", "RUNNING"))
      /\ request' = [request EXCEPT ![r] = [@ EXCEPT !.pc = "insert", !.row = Len(rows) + 1]]
      /\ UNCHANGED <<worker, replicas, person, dead, retries, crashes>>
  BY DEF BulkStart, Insert
<1>2. NewRow("other", "RUNNING") \in Row
  BY NewRowType DEF Statuses
<1>3. /\ rows'[Len(rows) + 1] = NewRow("other", "RUNNING") /\ Len(rows) + 1 \in DOMAIN rows'
      /\ Len(rows) + 1 \in Nat
  BY <1>1, <1>2, AddRow, LenProperties DEF Inv, Table
<1> DEFINE b == [request[r] EXCEPT !.pc = "insert", !.row = Len(rows) + 1]
<1>4. b \in Bulk /\ b.pc = "insert" /\ b.row = Len(rows) + 1
  BY <1>3 DEF Inv, Shape, Bulk
<1> HIDE DEF b
<1>5. request' = [request EXCEPT ![r] = b]
  BY <1>1 DEF b
<1>6. Shape'
  BY <1>1, <1>4, <1>5 DEF Inv, Shape
<1>7. request'[r] = b /\ \A q \in Requests \ {r} : request'[q] = request[q]
  BY <1>5 DEF Inv, Shape
<1>8. RequestKnows(r)'
  BY <1>3, <1>4, <1>7, NewRowType DEF RequestKnows, Statuses
<1> QED
  BY <1>1, <1>2, <1>4, <1>6, <1>7, <1>8, InsertStep, NewRowType DEF Statuses

LEMMA BulkChildStep ==
    ASSUME Inv, NEW r \in Requests, BulkChild(r)
    PROVE  Inv'
<1>1. PICK type \in {"generate", "other"}, keyed \in BOOLEAN :
          rows' = Append(rows, [NewRow(type, "PENDING") EXCEPT !.keyed = keyed,
                                                               !.batch = request[r].row])
  BY DEF BulkChild, Insert
<1> DEFINE new == [NewRow(type, "PENDING") EXCEPT !.keyed = keyed, !.batch = request[r].row]
           b == [request[r] EXCEPT !.queued = @ + 1]
<1>2. /\ request[r].pc = "insert" /\ request' = [request EXCEPT ![r] = b]
      /\ UNCHANGED <<worker, replicas, person, dead, retries, crashes>>
  BY DEF BulkChild
<1>3. new \in Row /\ new.status = "PENDING"
  BY DEF NewRow, Row, Statuses, Inv, Shape, Bulk
<1>4. b \in Bulk /\ b.pc = "insert" /\ b.row = request[r].row
  BY <1>2 DEF Inv, Shape, Bulk
<1>5. rows' = Append(rows, new)
  BY <1>1
<1> HIDE DEF new, b
<1>6. Shape'
  BY <1>2, <1>4 DEF Inv, Shape
<1>7. request'[r] = b /\ \A q \in Requests \ {r} : request'[q] = request[q]
  BY <1>2 DEF Inv, Shape
<1>8. Grown
  BY <1>3, <1>5, AddRow DEF Inv
<1>9. RequestKnows(r)'
  BY <1>2, <1>4, <1>7, <1>8 DEF Inv, Known, RequestKnows, Grown
<1> QED
  BY <1>2, <1>3, <1>4, <1>5, <1>6, <1>7, <1>9, InsertStep

-----------------------------------------------------------------------------
(* Updates of a row *)

(* A row gets another status, which is RUNNING only if somebody holds the   *)
(* row and DONE only if the task has its charge; who lets a row go has      *)
(* given it another status or dies with it.                                 *)
LEMMA UpdateStep ==
    ASSUME Inv, Shape', NEW i \in DOMAIN rows, NEW new \in Row,
           new.type = rows[i].type, rows[i].charged > 0 => new.charged > 0,
           new.status \in {"ESCALATED", "DONE"} =>
               new.type = "other" \/ (new.status = "DONE" /\ new.charged > 0),
           rows' = [rows EXCEPT ![i] = new],
           new.status = "RUNNING" => \E w \in Workers : worker'[w].row = i,
           dead' = dead,
           \A w \in Workers : \/ worker'[w] = worker[w]
                              \/ WorkerKnows(w)' /\ worker[w].row = i,
           \A p \in People : person'[p] = person[p] \/ PersonKnows(p)',
           \A r \in Requests : \/ request'[r] = request[r]
                               \/ RequestKnows(r)' /\ request[r].row = i
    PROVE  Inv'
<1>1. /\ Grown /\ DOMAIN rows' = DOMAIN rows /\ rows'[i] = new
      /\ \A j \in DOMAIN rows \ {i} : rows'[j] = rows[j]
  BY UpdateRow DEF Inv
<1>2. Table'
  BY <1>1 DEF Inv, Table, Grown, EscalatedIsOther, DoneMeansCharged
<1>3. Known'
  BY <1>1, StillKnown DEF Known
<1>4. RunningIsHeld'
  <2> SUFFICES ASSUME NEW j \in DOMAIN rows, rows'[j].status = "RUNNING"
               PROVE  \/ \E w \in Workers : worker'[w].row = j
                      \/ \E r \in Requests : request'[r].pc = "insert" /\ request'[r].row = j
                      \/ j \in dead'
    BY <1>1 DEF RunningIsHeld
  <2>1. CASE j = i
    BY <1>1, <2>1
  <2>2. CASE j # i
    BY <1>1, <2>2 DEF Inv, RunningIsHeld
  <2> QED
    BY <2>1, <2>2
<1> QED
  BY <1>2, <1>3, <1>4 DEF Inv

(* Only the status of the row changes. *)
LEMMA StatusStep ==
    ASSUME Inv, Shape', NEW i \in DOMAIN rows, NEW status \in Statuses \ {"ESCALATED"},
           rows' = [rows EXCEPT ![i].status = status],
           status = "DONE" => rows[i].type = "other" \/ rows[i].charged > 0,
           status = "RUNNING" => \E w \in Workers : worker'[w].row = i,
           dead' = dead,
           \A w \in Workers : \/ worker'[w] = worker[w]
                              \/ (Grown => WorkerKnows(w)') /\ worker[w].row = i,
           \A p \in People : person'[p] = person[p] \/ (Grown => PersonKnows(p)'),
           \A r \in Requests : \/ request'[r] = request[r]
                               \/ (Grown => RequestKnows(r)') /\ request[r].row = i
    PROVE  Inv'
<1> DEFINE new == [rows[i] EXCEPT !.status = status]
<1>1. /\ new \in Row /\ new.type = rows[i].type /\ new.charged = rows[i].charged
      /\ new.status = status
  BY RowAt DEF Inv, Row
<1>2. rows' = [rows EXCEPT ![i] = new]
  OBVIOUS
<1> HIDE DEF new
<1>3. Grown
  BY <1>1, <1>2, UpdateRow DEF Inv
<1>4. new.status \in {"ESCALATED", "DONE"} =>
          new.type = "other" \/ (new.status = "DONE" /\ new.charged > 0)
  BY <1>1
<1>5. /\ rows[i].charged > 0 => new.charged > 0
      /\ new.status = "RUNNING" => \E w \in Workers : worker'[w].row = i
  BY <1>1
<1>6. /\ \A w \in Workers : worker'[w] = worker[w] \/ (WorkerKnows(w)' /\ worker[w].row = i)
      /\ \A p \in People : person'[p] = person[p] \/ PersonKnows(p)'
      /\ \A r \in Requests : request'[r] = request[r] \/ (RequestKnows(r)' /\ request[r].row = i)
  BY <1>3
<1> QED
  BY <1>1, <1>2, <1>4, <1>5, <1>6, UpdateStep

LEMMA BulkEndStep ==
    ASSUME Inv, NEW r \in Requests, BulkEnd(r)
    PROVE  Inv'
<1> DEFINE i == request[r].row
           b == [request[r] EXCEPT !.pc = "done"]
<1>1. /\ request[r].pc = "insert"
      /\ rows' = [rows EXCEPT ![i].status = "DONE"]
      /\ request' = [request EXCEPT ![r] = b]
      /\ UNCHANGED <<worker, replicas, person, dead, retries, crashes>>
  BY DEF BulkEnd
<1>2. i \in DOMAIN rows /\ rows[i].type = "other"
  BY <1>1 DEF Inv, Known, RequestKnows
<1>3. b \in Bulk /\ b.pc = "done"
  BY DEF Inv, Shape, Bulk
<1> HIDE DEF b
<1>4. Shape'
  BY <1>1, <1>3 DEF Inv, Shape
<1>5. request'[r] = b /\ \A q \in Requests \ {r} : request'[q] = request[q]
  BY <1>1 DEF Inv, Shape
<1>6. RequestKnows(r)'
  BY <1>3, <1>5 DEF RequestKnows
<1>7. /\ \A w \in Workers : worker'[w] = worker[w]
      /\ \A p \in People : person'[p] = person[p]
      /\ \A q \in Requests : request'[q] = request[q] \/ (RequestKnows(q)' /\ request[q].row = i)
  BY <1>1, <1>5, <1>6
<1> HIDE DEF i
<1>8. "DONE" \in Statuses \ {"ESCALATED"}
  BY DEF Statuses
<1> QED
  BY <1>1, <1>2, <1>4, <1>7, <1>8, StatusStep

-----------------------------------------------------------------------------
(* The worker *)

(* A worker that moves on and leaves the table alone. *)
LEMMA WorkerStep ==
    ASSUME Inv, NEW w \in Workers, NEW job \in Job,
           worker' = [worker EXCEPT ![w] = job], WorkerKnows(w)',
           worker[w].row # 0 => job.row = worker[w].row,
           UNCHANGED <<rows, replicas, person, request, dead, retries, crashes>>
    PROVE  Inv'
<1>1. worker'[w] = job /\ \A v \in Workers \ {w} : worker'[v] = worker[v]
  BY DEF Inv, Shape
<1>2. Shape'
  BY DEF Inv, Shape
<1>3. Table'
  BY DEF Inv, Table, EscalatedIsOther, DoneMeansCharged
<1>4. Known'
  <2>1. Grown
    BY DEF Grown, Inv, Table
  <2> QED
    BY <1>1, <2>1, StillKnown DEF Known
<1>5. RunningIsHeld'
  <2>1. \A i \in DOMAIN rows : i # 0
    BY LenProperties DEF Inv, Table
  <2> QED
    BY <1>1, <2>1 DEF Inv, RunningIsHeld
<1> QED
  BY <1>2, <1>3, <1>4, <1>5 DEF Inv

LEMMA ClaimStep ==
    ASSUME Inv, NEW w \in Workers, Claim(w)
    PROVE  Inv'
<1>1. PICK i \in DOMAIN rows :
          worker' = [worker EXCEPT ![w] = [pc |-> "claimed", row |-> i, ok |-> TRUE]]
  BY DEF Claim
<1> DEFINE job == [pc |-> "claimed", row |-> i, ok |-> TRUE]
<1>2. /\ worker[w].pc = "idle"
      /\ UNCHANGED <<rows, replicas, person, request, dead, retries, crashes>>
  BY DEF Claim
<1>3. job \in Job /\ job.pc = "claimed" /\ job.row = i /\ i # 0
  BY LenProperties DEF Job, Inv, Table
<1> HIDE DEF job
<1>4. worker' = [worker EXCEPT ![w] = job]
  BY <1>1 DEF job
<1>5. worker'[w] = job
  BY <1>4 DEF Inv, Shape
<1>6. WorkerKnows(w)'
  BY <1>2, <1>3, <1>5 DEF WorkerKnows
<1>7. worker[w].row = 0
  BY <1>2 DEF Inv, Known, WorkerKnows
<1> QED
  BY <1>2, <1>3, <1>4, <1>6, <1>7, WorkerStep

LEMMA MarkRunningStep ==
    ASSUME Inv, NEW w \in Workers, MarkRunning(w)
    PROVE  Inv'
<1> DEFINE i == worker[w].row
           job == [worker[w] EXCEPT !.pc = IF rows[i].keyed THEN "charge" ELSE "finish",
                                    !.ok = rows[i].keyed]
<1>1. /\ worker[w].pc = "claimed"
      /\ rows' = [rows EXCEPT ![i].status = "RUNNING"]
      /\ worker' = [worker EXCEPT ![w] = job]
      /\ UNCHANGED <<replicas, person, request, dead, retries, crashes>>
  BY DEF MarkRunning
<1>2. i \in DOMAIN rows /\ i # 0 /\ rows[i].keyed \in BOOLEAN
  BY <1>1, RowAt DEF Inv, Known, WorkerKnows, Row
<1>3. /\ job \in Job /\ job.row = i
      /\ job.pc = "charge" \/ (job.pc = "finish" /\ ~job.ok)
  BY <1>2 DEF Inv, Shape, Job
<1> HIDE DEF job
<1>4. Shape'
  BY <1>1, <1>3 DEF Inv, Shape
<1>5. worker'[w] = job /\ \A v \in Workers \ {w} : worker'[v] = worker[v]
  BY <1>1 DEF Inv, Shape
<1>6. Grown => WorkerKnows(w)'
  BY <1>2, <1>3, <1>5 DEF WorkerKnows, Grown
<1> QED
  BY <1>1, <1>2, <1>3, <1>4, <1>5, <1>6, StatusStep DEF Statuses

LEMMA ChargeStep ==
    ASSUME Inv, NEW w \in Workers, Charge(w)
    PROVE  Inv'
<1> DEFINE i == worker[w].row
           new == [rows[i] EXCEPT !.charged = @ + 1]
           job == [worker[w] EXCEPT !.pc = "finish"]
<1>1. /\ worker[w].pc = "charge"
      /\ rows' = [rows EXCEPT ![i] = new]
      /\ worker' = [worker EXCEPT ![w] = job]
      /\ UNCHANGED <<replicas, person, request, dead, retries, crashes>>
  BY DEF Charge
<1>2. i \in DOMAIN rows /\ i # 0 /\ rows[i] \in Row
  BY <1>1, RowAt DEF Inv, Known, WorkerKnows
<1>3. /\ new \in Row /\ new.type = rows[i].type /\ new.status = rows[i].status
      /\ new.charged > 0
  BY <1>2 DEF Row
<1>4. job \in Job /\ job.row = i /\ job.pc = "finish"
  BY DEF Inv, Shape, Job
<1> HIDE DEF job, new
<1>5. Shape'
  BY <1>1, <1>4 DEF Inv, Shape
<1>6. worker'[w] = job /\ \A v \in Workers \ {w} : worker'[v] = worker[v]
  BY <1>1 DEF Inv, Shape
<1>7. rows'[i] = new /\ DOMAIN rows' = DOMAIN rows
  BY <1>1, <1>2, <1>3, UpdateRow DEF Inv
<1>8. WorkerKnows(w)'
  BY <1>2, <1>3, <1>4, <1>6, <1>7 DEF WorkerKnows
<1>9. new.status = "ESCALATED" => new.type = "other"
  BY <1>2, <1>3 DEF Inv, Table, EscalatedIsOther
<1> QED
  BY <1>1, <1>2, <1>3, <1>4, <1>5, <1>6, <1>8, <1>9, UpdateStep

LEMMA ChargeFailsStep ==
    ASSUME Inv, NEW w \in Workers, ChargeFails(w)
    PROVE  Inv'
<1> DEFINE job == [worker[w] EXCEPT !.pc = "audit", !.ok = FALSE]
<1>1. /\ worker[w].pc = "charge"
      /\ worker' = [worker EXCEPT ![w] = job]
      /\ UNCHANGED <<rows, replicas, person, request, dead, retries, crashes>>
  BY DEF ChargeFails
<1>2. job \in Job /\ job.row = worker[w].row /\ job.pc = "audit" /\ ~job.ok
  BY DEF Inv, Shape, Job
<1> HIDE DEF job
<1>3. worker'[w] = job
  BY <1>1 DEF Inv, Shape
<1>4. WorkerKnows(w)'
  BY <1>1, <1>2, <1>3 DEF Inv, Known, WorkerKnows
<1> QED
  BY <1>1, <1>2, <1>4, WorkerStep

LEMMA AuditFailedStep ==
    ASSUME Inv, NEW w \in Workers, AuditFailed(w)
    PROVE  Inv'
<1> DEFINE new == [NewRow("generate", "FAILED") EXCEPT !.keyed = FALSE]
           job == [worker[w] EXCEPT !.pc = "finish"]
<1>1. /\ worker[w].pc = "audit"
      /\ rows' = Append(rows, new)
      /\ worker' = [worker EXCEPT ![w] = job]
      /\ UNCHANGED <<replicas, person, request, dead, retries, crashes>>
  BY DEF AuditFailed
<1>2. new \in Row /\ new.status = "FAILED"
  BY DEF NewRow, Row, Statuses
<1>3. job \in Job /\ job.row = worker[w].row /\ job.pc = "finish" /\ job.ok = worker[w].ok
  BY DEF Inv, Shape, Job
<1> HIDE DEF job, new
<1>4. Shape'
  BY <1>1, <1>3 DEF Inv, Shape
<1>5. worker'[w] = job /\ \A v \in Workers \ {w} : worker'[v] = worker[v]
  BY <1>1 DEF Inv, Shape
<1>6. DOMAIN rows \subseteq DOMAIN rows'
  BY <1>1, <1>2, AddRow DEF Inv
<1>7. WorkerKnows(w)'
  BY <1>1, <1>3, <1>5, <1>6 DEF Inv, Known, WorkerKnows
<1> QED
  BY <1>1, <1>2, <1>3, <1>4, <1>5, <1>7, InsertStep

LEMMA IdleJobType == IdleJob \in Job /\ IdleJob.pc = "idle" /\ IdleJob.row = 0
BY DEF IdleJob, Job

LEMMA FinishStep ==
    ASSUME Inv, NEW w \in Workers, Finish(w)
    PROVE  Inv'
<1> DEFINE i == worker[w].row
           status == IF worker[w].ok THEN "DONE" ELSE "FAILED"
<1>1. /\ worker[w].pc = "finish"
      /\ rows' = [rows EXCEPT ![i].status = status]
      /\ worker' = [worker EXCEPT ![w] = IdleJob]
      /\ UNCHANGED <<replicas, person, request, dead, retries, crashes>>
  BY DEF Finish
<1>2. i \in DOMAIN rows /\ status \in {"DONE", "FAILED"}
  BY <1>1 DEF Inv, Known, WorkerKnows
<1>3. status = "DONE" => rows[i].charged > 0
  BY <1>1 DEF Inv, Known, WorkerKnows
<1> HIDE DEF status
<1>4. Shape'
  BY <1>1, IdleJobType DEF Inv, Shape
<1>5. worker'[w] = IdleJob /\ \A v \in Workers \ {w} : worker'[v] = worker[v]
  BY <1>1 DEF Inv, Shape
<1>6. WorkerKnows(w)'
  BY <1>5, IdleJobType DEF WorkerKnows
<1> QED
  BY <1>1, <1>2, <1>3, <1>4, <1>5, <1>6, StatusStep DEF Statuses

-----------------------------------------------------------------------------
(* People and deaths *)

LEMMA UnreadType == Unread \in Reading /\ Unread.status = "FAILED"
BY DEF Unread, Reading

LEMMA ReadStep ==
    ASSUME Inv, NEW p \in People, Read(p)
    PROVE  Inv'
<1>1. PICK i \in DOMAIN rows :
          /\ rows[i].status \in {"FAILED", "ESCALATED"}
          /\ person' = [person EXCEPT ![p] = [row |-> i, status |-> rows[i].status]]
  BY DEF Read
<1>2. UNCHANGED <<rows, worker, replicas, request, dead, retries, crashes>>
  BY DEF Read
<1> DEFINE r == [row |-> i, status |-> rows[i].status]
<1>3. r \in Reading /\ r.row = i /\ r.status = rows[i].status
  BY <1>1, LenProperties DEF Reading, Inv, Table
<1> HIDE DEF r
<1>4. person' = [person EXCEPT ![p] = r]
  BY <1>1 DEF r
<1>5. Shape'
  BY <1>2, <1>3, <1>4 DEF Inv, Shape
<1>6. Table' /\ RunningIsHeld'
  BY <1>2 DEF Inv, Table, EscalatedIsOther, DoneMeansCharged, RunningIsHeld
<1>7. Known'
  <2>1. Grown
    BY <1>2 DEF Grown, Inv, Table
  <2>2. person'[p] = r /\ \A q \in People \ {p} : person'[q] = person[q]
    BY <1>4 DEF Inv, Shape
  <2>3. PersonKnows(p)'
    BY <1>2, <1>3, <2>2 DEF PersonKnows, Inv, Table, EscalatedIsOther
  <2> QED
    BY <1>2, <2>1, <2>2, <2>3, StillKnown DEF Known
<1> QED
  BY <1>5, <1>6, <1>7 DEF Inv

LEMMA RetryStep ==
    ASSUME Inv, NEW p \in People, Retry(p)
    PROVE  Inv'
<1> DEFINE i == person[p].row
           new == [rows[i] EXCEPT !.status = "PENDING", !.retried = @ + 1]
<1>1. /\ person[p] # Unread /\ retries < MaxRetries /\ retries' = retries + 1
      /\ rows' = [rows EXCEPT ![i].status = "PENDING", ![i].retried = @ + 1]
      /\ person' = [person EXCEPT ![p] = Unread]
      /\ UNCHANGED <<worker, replicas, request, dead, crashes>>
  BY DEF Retry
<1>2. i \in DOMAIN rows /\ rows[i] \in Row
  BY <1>1, RowAt DEF Inv, Known, PersonKnows
<1>3. /\ new \in Row /\ new.type = rows[i].type /\ new.charged = rows[i].charged
      /\ new.status = "PENDING"
  <2>1. rows[i].retried + 1 \in Nat /\ "PENDING" \in Statuses
    BY <1>2 DEF Row, Statuses
  <2> QED
    BY <1>2, <2>1 DEF Row
<1>4. rows' = [rows EXCEPT ![i] = new]
  BY <1>1, <1>2 DEF Inv, Table
<1> HIDE DEF new
<1>5. Shape'
  <2>1. retries' \in 0 .. MaxRetries
    BY <1>1, PyTasksAssumption DEF Inv, Shape
  <2> QED
    BY <1>1, <2>1, UnreadType DEF Inv, Shape
<1>6. person'[p] = Unread /\ \A q \in People \ {p} : person'[q] = person[q]
  BY <1>1 DEF Inv, Shape
<1>7. PersonKnows(p)'
  BY <1>6, UnreadType DEF PersonKnows, Unread
<1>8. /\ \A w \in Workers : worker'[w] = worker[w]
      /\ \A q \in People : person'[q] = person[q] \/ PersonKnows(q)'
      /\ \A r \in Requests : request'[r] = request[r]
  BY <1>1, <1>6, <1>7
<1> QED
  BY <1>1, <1>2, <1>3, <1>4, <1>5, <1>8, UpdateStep

LEMMA ResolveStep ==
    ASSUME Inv, NEW p \in People, Resolve(p)
    PROVE  Inv'
<1> DEFINE i == person[p].row
<1>1. PICK status \in {"DONE", "FAILED"} : rows' = [rows EXCEPT ![i].status = status]
  BY DEF Resolve
<1>2. /\ person[p].status = "ESCALATED"
      /\ person' = [person EXCEPT ![p] = Unread]
      /\ UNCHANGED <<worker, replicas, request, dead, retries, crashes>>
  BY DEF Resolve
<1>3. i \in DOMAIN rows /\ rows[i].type = "other"
  BY <1>2, UnreadType DEF Inv, Known, PersonKnows
<1>4. Shape'
  BY <1>2, UnreadType DEF Inv, Shape
<1>5. person'[p] = Unread /\ \A q \in People \ {p} : person'[q] = person[q]
  BY <1>2 DEF Inv, Shape
<1>6. PersonKnows(p)'
  BY <1>5, UnreadType DEF PersonKnows, Unread
<1>7. /\ \A w \in Workers : worker'[w] = worker[w]
      /\ \A q \in People : person'[q] = person[q] \/ PersonKnows(q)'
      /\ \A r \in Requests : request'[r] = request[r]
  BY <1>2, <1>5, <1>6
<1> HIDE DEF i
<1>8. status \in Statuses \ {"ESCALATED"} /\ status # "RUNNING"
  BY DEF Statuses
<1> QED
  BY <1>1, <1>2, <1>3, <1>4, <1>7, <1>8, StatusStep

LEMMA CrashWorkerStep ==
    ASSUME Inv, NEW w \in Workers, CrashWorker(w)
    PROVE  Inv'
<1>1. /\ crashes < MaxCrashes /\ crashes' = crashes + 1
      /\ dead' = dead \cup ({worker[w].row} \ {0})
      /\ worker' = [worker EXCEPT ![w] = IdleJob]
      /\ UNCHANGED <<rows, replicas, person, request, retries>>
  BY DEF CrashWorker
<1>2. Shape'
  <2>1. crashes' \in 0 .. MaxCrashes
    BY <1>1, PyTasksAssumption DEF Inv, Shape
  <2>2. worker[w].row \in Nat
    BY DEF Inv, Shape, Job
  <2> QED
    BY <1>1, <2>1, <2>2, IdleJobType DEF Inv, Shape
<1>3. worker'[w] = IdleJob /\ \A v \in Workers \ {w} : worker'[v] = worker[v]
  BY <1>1 DEF Inv, Shape
<1>4. Table' /\ RunningIsHeld'
  <2>1. \A i \in DOMAIN rows : i # 0
    BY LenProperties DEF Inv, Table
  <2> QED
    BY <1>1, <1>3, <2>1 DEF Inv, Table, EscalatedIsOther, DoneMeansCharged, RunningIsHeld
<1>5. Known'
  <2>1. Grown
    BY <1>1 DEF Grown, Inv, Table
  <2>2. WorkerKnows(w)'
    BY <1>3, IdleJobType DEF WorkerKnows
  <2> QED
    BY <1>1, <1>3, <2>1, <2>2, StillKnown DEF Known
<1> QED
  BY <1>2, <1>4, <1>5 DEF Inv

(* A step that leaves the table and everybody who works on it alone.        *)
LEMMA QuietStep ==
    ASSUME Inv, UNCHANGED <<rows, worker, replicas, person, request, dead, retries, crashes>>
    PROVE  Inv'
BY DEF Inv, Shape, Table, Known, WorkerKnows, PersonKnows, RequestKnows,
       EscalatedIsOther, DoneMeansCharged, RunningIsHeld

LEMMA CrashRequestStep ==
    ASSUME Inv, NEW r \in Requests, CrashRequest(r)
    PROVE  Inv'
<1> DEFINE b == [request[r] EXCEPT !.pc = "done"]
<1>1. /\ request[r].pc = "insert" /\ crashes < MaxCrashes /\ crashes' = crashes + 1
      /\ dead' = dead \cup {request[r].row}
      /\ request' = [request EXCEPT ![r] = b]
      /\ UNCHANGED <<rows, worker, replicas, person, retries>>
  BY DEF CrashRequest
<1>2. b \in Bulk /\ b.pc = "done" /\ request[r].row \in Nat
  BY DEF Inv, Shape, Bulk
<1> HIDE DEF b
<1>3. Shape'
  <2>1. crashes' \in 0 .. MaxCrashes
    BY <1>1, PyTasksAssumption DEF Inv, Shape
  <2> QED
    BY <1>1, <1>2, <2>1 DEF Inv, Shape
<1>4. request'[r] = b /\ \A q \in Requests \ {r} : request'[q] = request[q]
  BY <1>1 DEF Inv, Shape
<1>5. Table' /\ RunningIsHeld'
  BY <1>1, <1>4 DEF Inv, Table, EscalatedIsOther, DoneMeansCharged, RunningIsHeld
<1>6. Known'
  <2>1. Grown
    BY <1>1 DEF Grown, Inv, Table
  <2>2. RequestKnows(r)'
    BY <1>2, <1>4 DEF RequestKnows
  <2> QED
    BY <1>1, <1>4, <2>1, <2>2, StillKnown DEF Known
<1> QED
  BY <1>3, <1>5, <1>6 DEF Inv

(* Every step keeps the invariant. *)
LEMMA InvStep == Inv /\ [Next]_vars => Inv'
<1> SUFFICES ASSUME Inv, [Next]_vars PROVE Inv'
  OBVIOUS
<1>1. CASE Schedule
  BY <1>1, ScheduleStep
<1>2. ASSUME NEW r \in Requests, Trigger(r) \/ CrashRequest(r) PROVE Inv'
  BY <1>2, BulkStartStep, BulkChildStep, BulkEndStep, CrashRequestStep DEF Trigger
<1>3. ASSUME NEW w \in Workers, Work(w) \/ CrashWorker(w) \/ StartWorker(w) PROVE Inv'
  BY <1>3, ClaimStep, MarkRunningStep, ChargeStep, ChargeFailsStep, AuditFailedStep,
     FinishStep, CrashWorkerStep, QuietStep DEF Work, StartWorker
<1>4. ASSUME NEW p \in People, Read(p) \/ Retry(p) \/ Resolve(p) PROVE Inv'
  BY <1>4, ReadStep, RetryStep, ResolveStep
<1>5. CASE UNCHANGED vars
  BY <1>5, QuietStep DEF vars
<1> QED
  BY <1>1, <1>2, <1>3, <1>4, <1>5 DEF Next

(* Only deployed workers have a thread. *)
LEMMA UpStep == up \subseteq replicas /\ [Next]_vars => (up \subseteq replicas)'
BY DEF Next, Schedule, Trigger, BulkStart, BulkChild, BulkEnd, CrashRequest, Work, Claim,
       MarkRunning, Charge, ChargeFails, AuditFailed, Finish, CrashWorker, StartWorker,
       Read, Retry, Resolve, vars

-----------------------------------------------------------------------------
(* Theorems *)

(* Every variable has its type, and whoever works on a row has one. *)
THEOREM TypeCorrect == Spec => []TypeOK
<1>1. Inv /\ up \subseteq replicas => TypeOK
  BY DEF Inv, Shape, Table, Known, WorkerKnows, PersonKnows, RequestKnows, TypeOK
<1>2. Init => up \subseteq replicas
  BY DEF Init
<1> QED
  BY <1>1, <1>2, UpStep, InvInit, InvStep, PTL DEF Spec

(* A task that says DONE has its charge, though any number of workers run   *)
(* it without a lock and people retry and resolve meanwhile.                *)
THEOREM DoneIsCharged == Spec => []DoneMeansCharged
<1>1. Inv => DoneMeansCharged
  BY DEF Inv, Table
<1> QED
  BY <1>1, InvInit, InvStep, PTL DEF Spec

(* A row that says RUNNING is held by a worker or a request, or one of them *)
(* died with it.                                                            *)
THEOREM RunningHeld == Spec => []RunningIsHeld
<1>1. Inv => RunningIsHeld
  BY DEF Inv
<1> QED
  BY <1>1, InvInit, InvStep, PTL DEF Spec
=============================================================================
