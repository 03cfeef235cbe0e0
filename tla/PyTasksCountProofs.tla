-------------------------- MODULE PyTasksCountProofs --------------------------
(* Theorems about PyTasks that count: the tasks of a bulk request, and the  *)
(* charges of a task, for any number of workers, people, requests, rows,    *)
(* retries and deaths.                                                      *)
EXTENDS PyTasksProofs, FiniteSetTheorems

-----------------------------------------------------------------------------
(* What a statement does to the table *)

LEMMA StatusWritten ==
    ASSUME Inv, NEW i \in DOMAIN rows, NEW status \in Statuses,
           rows' = [rows EXCEPT ![i].status = status]
    PROVE  /\ DOMAIN rows' = DOMAIN rows
           /\ rows'[i].status = status
           /\ \A j \in DOMAIN rows \ {i} : rows'[j].status = rows[j].status
           /\ \A j \in DOMAIN rows :
                 /\ rows'[j].type = rows[j].type /\ rows'[j].batch = rows[j].batch
                 /\ rows'[j].charged = rows[j].charged /\ rows'[j].retried = rows[j].retried
<1> DEFINE new == [rows[i] EXCEPT !.status = status]
<1>1. /\ new \in Row /\ new.type = rows[i].type /\ new.charged = rows[i].charged
      /\ new.status = status /\ new.batch = rows[i].batch /\ new.retried = rows[i].retried
  BY RowAt DEF Inv, Row
<1>2. rows' = [rows EXCEPT ![i] = new]
  OBVIOUS
<1> HIDE DEF new
<1>3. /\ DOMAIN rows' = DOMAIN rows /\ rows'[i] = new
      /\ \A j \in DOMAIN rows \ {i} : rows'[j] = rows[j]
  BY <1>1, <1>2, UpdateRow DEF Inv
<1> QED
  BY <1>1, <1>3

LEMMA ChargeWritten ==
    ASSUME Inv, NEW i \in DOMAIN rows, rows' = [rows EXCEPT ![i].charged = @ + 1]
    PROVE  /\ DOMAIN rows' = DOMAIN rows
           /\ rows[i].charged \in Nat /\ rows'[i].charged = rows[i].charged + 1
           /\ \A j \in DOMAIN rows \ {i} : rows'[j].charged = rows[j].charged
           /\ \A j \in DOMAIN rows :
                 /\ rows'[j].type = rows[j].type /\ rows'[j].batch = rows[j].batch
                 /\ rows'[j].status = rows[j].status /\ rows'[j].retried = rows[j].retried
<1> DEFINE new == [rows[i] EXCEPT !.charged = @ + 1]
<1>1. /\ new \in Row /\ new.type = rows[i].type /\ new.charged = rows[i].charged + 1
      /\ new.status = rows[i].status /\ new.batch = rows[i].batch
      /\ new.retried = rows[i].retried /\ rows[i].charged \in Nat
  BY RowAt DEF Inv, Row
<1>2. rows' = [rows EXCEPT ![i] = new]
  OBVIOUS
<1> HIDE DEF new
<1>3. /\ DOMAIN rows' = DOMAIN rows /\ rows'[i] = new
      /\ \A j \in DOMAIN rows \ {i} : rows'[j] = rows[j]
  BY <1>1, <1>2, UpdateRow DEF Inv
<1> QED
  BY <1>1, <1>3

LEMMA RetryWritten ==
    ASSUME Inv, NEW i \in DOMAIN rows,
           rows' = [rows EXCEPT ![i].status = "PENDING", ![i].retried = @ + 1]
    PROVE  /\ DOMAIN rows' = DOMAIN rows
           /\ rows'[i].status = "PENDING"
           /\ rows[i].retried \in Nat /\ rows'[i].retried = rows[i].retried + 1
           /\ \A j \in DOMAIN rows \ {i} :
                 rows'[j].status = rows[j].status /\ rows'[j].retried = rows[j].retried
           /\ \A j \in DOMAIN rows :
                 /\ rows'[j].type = rows[j].type /\ rows'[j].batch = rows[j].batch
                 /\ rows'[j].charged = rows[j].charged
<1> DEFINE new == [rows[i] EXCEPT !.status = "PENDING", !.retried = @ + 1]
<1>1. rows[i] \in Row /\ rows[i].retried \in Nat
  BY RowAt DEF Inv, Row
<1>2. /\ new \in Row /\ new.type = rows[i].type /\ new.charged = rows[i].charged
      /\ new.status = "PENDING" /\ new.batch = rows[i].batch
      /\ new.retried = rows[i].retried + 1
  <2>1. rows[i].retried + 1 \in Nat /\ "PENDING" \in Statuses
    BY <1>1 DEF Statuses
  <2> QED
    BY <1>1, <2>1 DEF Row
<1>3. rows' = [rows EXCEPT ![i] = new]
  BY DEF Inv, Table
<1> HIDE DEF new
<1>4. /\ DOMAIN rows' = DOMAIN rows /\ rows'[i] = new
      /\ \A j \in DOMAIN rows \ {i} : rows'[j] = rows[j]
  BY <1>2, <1>3, UpdateRow DEF Inv
<1> QED
  BY <1>1, <1>2, <1>4

LEMMA RowNumbers ==
    ASSUME Inv
    PROVE  /\ DOMAIN rows = 1 .. Len(rows) /\ Len(rows) \in Nat
           /\ 0 \notin DOMAIN rows /\ DOMAIN rows \subseteq Nat
BY LenProperties DEF Inv, Table

-----------------------------------------------------------------------------
(* Bulk requests *)

BatchOf(b) == {i \in DOMAIN rows : rows[i].batch = b}

(* The row of a request is its own: no worker takes it, for its type, and   *)
(* no person reads it, for its status.                                      *)
BatchKnows(r) ==
    LET b == request[r].row IN
    IF request[r].pc = "new" THEN request[r].queued = 0
    ELSE
        /\ b \in DOMAIN rows /\ rows[b].type = "other"
        /\ rows[b].status = IF request[r].pc = "insert" \/ b \in dead THEN "RUNNING" ELSE "DONE"
        /\ request[r].pc = "insert" => b \notin dead
        /\ \A p \in People : person[p].row # b
        /\ \A q \in Requests \ {r} : request[q].pc # "new" => request[q].row # b
        /\ Cardinality(BatchOf(b)) = request[r].queued
        /\ request[r].pc = "done" /\ b \notin dead => request[r].queued = Batch

WorksOnMonth(w) == worker[w].pc # "idle" => rows[worker[w].row].type = "generate"

BatchInv ==
    /\ \A w \in Workers : WorksOnMonth(w)
    /\ \A r \in Requests : BatchKnows(r)
    /\ \A i \in DOMAIN rows : rows[i].batch = 0 \/ rows[i].batch \in DOMAIN rows
    /\ dead \subseteq DOMAIN rows

LEMMA BatchInit == Init => BatchInv
BY DEF Init, BatchInv, WorksOnMonth, BatchKnows, IdleJob

(* A statement, or a death of a worker, that leaves the rows of the requests alone.     *)
LEMMA BatchesUntouched ==
    ASSUME Inv, BatchInv, DOMAIN rows' = DOMAIN rows, request' = request,
           \A i \in DOMAIN rows :
               rows'[i].batch = rows[i].batch /\ rows'[i].type = rows[i].type,
           \A r \in Requests : request[r].pc # "new" =>
               rows'[request[r].row].status = rows[request[r].row].status,
           dead \subseteq dead',
           \A i \in dead' \ dead : i \in DOMAIN rows /\ rows[i].type = "generate",
           \A w \in Workers : worker'[w] = worker[w] \/ WorksOnMonth(w)',
           \A p \in People : \/ person'[p] = person[p]
                             \/ person'[p].row = 0
                             \/ /\ person'[p].row \in DOMAIN rows
                                /\ rows[person'[p].row].status \in {"FAILED", "ESCALATED"}
    PROVE  BatchInv'
<1>1. \A w \in Workers : WorksOnMonth(w)'
  BY DEF BatchInv, WorksOnMonth, Inv, Known, WorkerKnows
<1>2. ASSUME NEW r \in Requests PROVE BatchKnows(r)'
  <2> DEFINE b == request[r].row
  <2> SUFFICES ASSUME request[r].pc # "new" PROVE BatchKnows(r)'
    BY DEF BatchInv, BatchKnows
  <2>1. b \in DOMAIN rows /\ rows[b].type = "other" /\ b # 0
    BY RowNumbers DEF BatchInv, BatchKnows
  <2>2. b \in dead' <=> b \in dead
    BY <2>1
  <2>3. \A p \in People : person'[p].row # b
    BY <2>1 DEF BatchInv, BatchKnows
  <2>4. BatchOf(b)' = BatchOf(b)
    BY DEF BatchOf
  <2>5. \A q \in Requests \ {r} : request[q].pc # "new" => request[q].row # b
    BY DEF BatchInv, BatchKnows
  <2> QED
    BY <2>1, <2>2, <2>3, <2>4, <2>5 DEF BatchInv, BatchKnows
<1>3. \A i \in DOMAIN rows : rows'[i].batch = 0 \/ rows'[i].batch \in DOMAIN rows
  BY DEF BatchInv
<1>4. dead' \subseteq DOMAIN rows
  BY DEF BatchInv
<1> QED
  BY <1>1, <1>2, <1>3, <1>4 DEF BatchInv

(* The row a worker has in hand, and the one a person has read, are none of *)
(* the requests'.                                                           *)
LEMMA NotABatch ==
    ASSUME Inv, BatchInv, NEW i \in DOMAIN rows,
           \/ \E w \in Workers : worker[w].pc # "idle" /\ worker[w].row = i
           \/ \E p \in People : person[p].row = i
    PROVE  \A r \in Requests : request[r].pc # "new" => request[r].row # i
BY DEF BatchInv, BatchKnows, WorksOnMonth

(* An INSERT whose row is counted for its batch. *)
LEMMA BatchGrows ==
    ASSUME Inv, BatchInv, NEW new \in Row, rows' = Append(rows, new)
    PROVE  /\ \A b \in DOMAIN rows : b # new.batch => BatchOf(b)' = BatchOf(b)
           /\ \A b \in DOMAIN rows : b = new.batch =>
                 Cardinality(BatchOf(b)') = Cardinality(BatchOf(b)) + 1
<1>1. /\ DOMAIN rows' = DOMAIN rows \cup {Len(rows) + 1}
      /\ Len(rows) + 1 \notin DOMAIN rows
      /\ rows'[Len(rows) + 1] = new
      /\ \A j \in DOMAIN rows : rows'[j] = rows[j]
  BY AddRow DEF Inv
<1>2. ASSUME NEW b \in DOMAIN rows, b # new.batch PROVE BatchOf(b)' = BatchOf(b)
  BY <1>1, <1>2 DEF BatchOf
<1>3. ASSUME NEW b \in DOMAIN rows, b = new.batch
      PROVE  Cardinality(BatchOf(b)') = Cardinality(BatchOf(b)) + 1
  <2>1. BatchOf(b)' = BatchOf(b) \cup {Len(rows) + 1} /\ Len(rows) + 1 \notin BatchOf(b)
    BY <1>1, <1>3 DEF BatchOf
  <2>2. IsFiniteSet(BatchOf(b))
    <3>1. IsFiniteSet(DOMAIN rows)
      BY RowNumbers, FS_Interval
    <3>2. BatchOf(b) \subseteq DOMAIN rows
      BY DEF BatchOf
    <3> QED
      BY <3>1, <3>2, FS_Subset
  <2> QED
    BY <2>1, <2>2, FS_AddElement
<1> QED
  BY <1>2, <1>3

(* An INSERT that is counted for the request r it belongs to, or for none:  *)
(* what the other requests know is still so.                                *)
LEMMA OtherBatches ==
    ASSUME Inv, BatchInv, NEW new \in Row, rows' = Append(rows, new),
           UNCHANGED <<person, dead>>,
           NEW r \in Requests, request'[r] = request[r],
           new.batch # 0 => \/ request[r].pc = "new"
                            \/ new.batch # request[r].row,
           \A q \in Requests \ {r} : \/ request'[q] = request[q]
                                     \/ request'[q].row = Len(rows) + 1
                                     \/ request'[q].row = request[q].row /\ request[q].pc # "new"
    PROVE  BatchKnows(r)'
<1> DEFINE b == request[r].row
<1> SUFFICES ASSUME request[r].pc # "new" PROVE BatchKnows(r)'
  BY DEF BatchInv, BatchKnows
<1>1. /\ DOMAIN rows' = DOMAIN rows \cup {Len(rows) + 1}
      /\ Len(rows) + 1 \notin DOMAIN rows
      /\ \A j \in DOMAIN rows : rows'[j] = rows[j]
  BY AddRow DEF Inv
<1>2. b \in DOMAIN rows /\ b # 0
  BY RowNumbers DEF BatchInv, BatchKnows
<1>3. BatchOf(b)' = BatchOf(b)
  BY <1>2, BatchGrows
<1>4. \A q \in Requests \ {r} : request'[q].pc # "new" => request'[q].row # b
  BY <1>1, <1>2 DEF BatchInv, BatchKnows
<1> QED
  BY <1>1, <1>2, <1>3, <1>4 DEF BatchInv, BatchKnows

(* The rest of BatchInv after an INSERT. *)
LEMMA AfterInsert ==
    ASSUME Inv, BatchInv, NEW new \in Row, rows' = Append(rows, new),
           new.batch = 0 \/ new.batch \in DOMAIN rows, dead' = dead,
           \A w \in Workers : \/ worker'[w] = worker[w]
                              \/ worker[w].pc # "idle" /\ worker'[w].row = worker[w].row,
           \A r \in Requests : BatchKnows(r)'
    PROVE  BatchInv'
<1>1. /\ DOMAIN rows' = DOMAIN rows \cup {Len(rows) + 1}
      /\ Len(rows) + 1 \notin DOMAIN rows
      /\ rows'[Len(rows) + 1] = new
      /\ \A j \in DOMAIN rows : rows'[j] = rows[j]
  BY AddRow DEF Inv
<1>2. \A w \in Workers : WorksOnMonth(w)'
  BY <1>1 DEF BatchInv, WorksOnMonth, Inv, Known, WorkerKnows
<1>3. \A i \in DOMAIN rows' : rows'[i].batch = 0 \/ rows'[i].batch \in DOMAIN rows'
  BY <1>1 DEF BatchInv
<1> QED
  BY <1>1, <1>2, <1>3 DEF BatchInv

LEMMA BatchStart ==
    ASSUME Inv, BatchInv, NEW r \in Requests, BulkStart(r)
    PROVE  BatchInv'
<1> DEFINE new == NewRow("other", "RUNNING")
           b == [request[r] EXCEPT !.pc = "insert", !.row = Len(rows) + 1]
<1>1. /\ request[r].pc = "new" /\ rows' = Append(rows, new)
      /\ request' = [request EXCEPT ![r] = [@ EXCEPT !.pc = "insert", !.row = Len(rows) + 1]]
      /\ UNCHANGED <<worker, replicas, person, dead, retries, crashes>>
  BY DEF BulkStart, Insert
<1>2. /\ new \in Row /\ new.type = "other" /\ new.status = "RUNNING" /\ new.batch = 0
  BY DEF NewRow, Row, Statuses
<1>3. b.pc = "insert" /\ b.row = Len(rows) + 1 /\ b.queued = request[r].queued
  BY DEF Inv, Shape, Bulk
<1> HIDE DEF new, b
<1>4. request'[r] = b /\ \A q \in Requests \ {r} : request'[q] = request[q]
  BY <1>1 DEF Inv, Shape, b
<1>5. ASSUME NEW q \in Requests, q # r PROVE BatchKnows(q)'
  BY <1>1, <1>2, <1>3, <1>4, <1>5, OtherBatches
<1>6. BatchKnows(r)'
  <2>1. /\ DOMAIN rows' = DOMAIN rows \cup {Len(rows) + 1}
        /\ Len(rows) + 1 \notin DOMAIN rows /\ Len(rows) + 1 # 0
        /\ rows'[Len(rows) + 1] = new
        /\ \A j \in DOMAIN rows : rows'[j] = rows[j]
    BY <1>1, <1>2, AddRow, RowNumbers DEF Inv
  <2>2. Len(rows) + 1 \notin dead
    BY <2>1 DEF BatchInv
  <2>3. \A p \in People : person[p].row # Len(rows) + 1
    BY <2>1 DEF Inv, Known, PersonKnows, Unread
  <2>4. \A q \in Requests \ {r} : request[q].pc # "new" => request[q].row # Len(rows) + 1
    BY <2>1 DEF BatchInv, BatchKnows
  <2>5. \A n : n = Len(rows) + 1 => BatchOf(n)' = {}
    BY <1>2, <2>1 DEF BatchOf, BatchInv
  <2>6. request[r].queued = 0
    BY <1>1 DEF BatchInv, BatchKnows
  <2>7. Cardinality(BatchOf(request[r].row)') = 0
    BY <1>3, <1>4, <2>5, FS_EmptySet
  <2> QED
    BY <1>1, <1>2, <1>3, <1>4, <2>1, <2>2, <2>3, <2>4, <2>6, <2>7 DEF BatchKnows
<1> QED
  BY <1>1, <1>2, <1>5, <1>6, AfterInsert

LEMMA BatchChild ==
    ASSUME Inv, BatchInv, NEW r \in Requests, BulkChild(r)
    PROVE  BatchInv'
<1>1. PICK type \in {"generate", "other"}, keyed \in BOOLEAN :
          rows' = Append(rows, [NewRow(type, "PENDING") EXCEPT !.keyed = keyed,
                                                               !.batch = request[r].row])
  BY DEF BulkChild, Insert
<1> DEFINE new == [NewRow(type, "PENDING") EXCEPT !.keyed = keyed, !.batch = request[r].row]
           b == [request[r] EXCEPT !.queued = @ + 1]
           home == request[r].row
<1>2. /\ request[r].pc = "insert" /\ request' = [request EXCEPT ![r] = b]
      /\ UNCHANGED <<worker, replicas, person, dead, retries, crashes>>
  BY DEF BulkChild
<1>3. new \in Row /\ new.batch = home
  BY DEF NewRow, Row, Statuses, Inv, Shape, Bulk
<1>4. b.pc = "insert" /\ b.row = home /\ b.queued = request[r].queued + 1
  BY <1>2 DEF Inv, Shape, Bulk
<1>5. rows' = Append(rows, new)
  BY <1>1
<1> HIDE DEF new, b
<1>6. request'[r] = b /\ \A q \in Requests \ {r} : request'[q] = request[q]
  BY <1>2 DEF Inv, Shape
<1>7. home \in DOMAIN rows
  BY <1>2 DEF BatchInv, BatchKnows
<1>8. ASSUME NEW q \in Requests, q # r PROVE BatchKnows(q)'
  <2>1. request[q].pc # "new" => new.batch # request[q].row
    BY <1>2, <1>3, <1>8 DEF BatchInv, BatchKnows
  <2> QED
    BY <1>2, <1>3, <1>4, <1>5, <1>6, <1>8, <2>1, OtherBatches
<1>9. BatchKnows(r)'
  <2>1. /\ DOMAIN rows' = DOMAIN rows \cup {Len(rows) + 1}
        /\ \A j \in DOMAIN rows : rows'[j] = rows[j]
    BY <1>3, <1>5, AddRow DEF Inv
  <2>2. \A h : h = home => Cardinality(BatchOf(h)') = Cardinality(BatchOf(h)) + 1
    BY <1>3, <1>5, <1>7, BatchGrows
  <2>3. Cardinality(BatchOf(request[r].row)') = Cardinality(BatchOf(request[r].row)) + 1
    BY <1>4, <1>6, <2>2
  <2> QED
    BY <1>2, <1>4, <1>6, <2>1, <2>3 DEF BatchInv, BatchKnows
<1> QED
  BY <1>2, <1>3, <1>5, <1>7, <1>8, <1>9, AfterInsert

LEMMA BatchEnd ==
    ASSUME Inv, BatchInv, NEW r \in Requests, BulkEnd(r)
    PROVE  BatchInv'
<1> DEFINE home == request[r].row
           b == [request[r] EXCEPT !.pc = "done"]
<1>1. /\ request[r].pc = "insert" /\ request[r].queued = Batch
      /\ rows' = [rows EXCEPT ![home].status = "DONE"]
      /\ request' = [request EXCEPT ![r] = b]
      /\ UNCHANGED <<worker, replicas, person, dead, retries, crashes>>
  BY DEF BulkEnd
<1>2. b.pc = "done" /\ b.row = home /\ b.queued = Batch
  BY <1>1 DEF Inv, Shape, Bulk
<1> HIDE DEF b
<1>3. request'[r] = b /\ \A q \in Requests \ {r} : request'[q] = request[q]
  BY <1>1 DEF Inv, Shape
<1>4. home \in DOMAIN rows
  BY <1>1 DEF BatchInv, BatchKnows
<1> HIDE DEF home
<1>5. /\ DOMAIN rows' = DOMAIN rows /\ rows'[home].status = "DONE"
      /\ \A j \in DOMAIN rows \ {home} : rows'[j].status = rows[j].status
      /\ \A j \in DOMAIN rows : rows'[j].type = rows[j].type /\ rows'[j].batch = rows[j].batch
  BY <1>1, <1>4, StatusWritten DEF Statuses
<1>6. \A h \in DOMAIN rows : BatchOf(h)' = BatchOf(h)
  BY <1>5 DEF BatchOf
<1>7. ASSUME NEW q \in Requests PROVE BatchKnows(q)'
  <2>1. CASE q = r
    <3>1. Cardinality(BatchOf(request[r].row)') = Batch
      BY <1>1, <1>2, <1>3, <1>4, <1>6 DEF BatchInv, BatchKnows, home
    <3>2. home \notin dead
      BY <1>1 DEF BatchInv, BatchKnows, home
    <3> QED
      BY <1>1, <1>2, <1>3, <1>4, <1>5, <2>1, <3>1, <3>2 DEF BatchInv, BatchKnows, home
  <2>2. CASE q # r /\ request[q].pc # "new"
    <3>1. request[q].row \in DOMAIN rows \ {home}
      BY <1>1, <2>2 DEF BatchInv, BatchKnows, home
    <3>2. BatchOf(request[q].row)' = BatchOf(request[q].row)
      BY <1>3, <1>6, <2>2, <3>1
    <3> QED
      BY <1>1, <1>2, <1>3, <1>5, <2>2, <3>1, <3>2 DEF BatchInv, BatchKnows, home
  <2>3. CASE q # r /\ request[q].pc = "new"
    BY <1>3, <2>3 DEF BatchInv, BatchKnows
  <2> QED
    BY <2>1, <2>2, <2>3
<1> QED
  BY <1>1, <1>5, <1>7 DEF BatchInv, WorksOnMonth, Inv, Known, WorkerKnows

LEMMA BatchDies ==
    ASSUME Inv, BatchInv, NEW r \in Requests, CrashRequest(r)
    PROVE  BatchInv'
<1> DEFINE b == [request[r] EXCEPT !.pc = "done"]
<1>1. /\ request[r].pc = "insert"
      /\ dead' = dead \cup {request[r].row}
      /\ request' = [request EXCEPT ![r] = b]
      /\ UNCHANGED <<rows, worker, replicas, person, retries>>
  BY DEF CrashRequest
<1>2. b.pc = "done" /\ b.row = request[r].row /\ b.queued = request[r].queued
  BY DEF Inv, Shape, Bulk
<1> HIDE DEF b
<1>3. request'[r] = b /\ \A q \in Requests \ {r} : request'[q] = request[q]
  BY <1>1 DEF Inv, Shape
<1>4. BatchOf(request[r].row)' = BatchOf(request[r].row)
  BY <1>1, <1>2, <1>3 DEF BatchOf
<1>5. BatchKnows(r)'
  BY <1>1, <1>2, <1>3, <1>4 DEF BatchInv, BatchKnows
<1>6. ASSUME NEW q \in Requests, q # r PROVE BatchKnows(q)'
  <2>1. BatchOf(request[q].row)' = BatchOf(request[q].row)
    BY <1>1, <1>3, <1>6 DEF BatchOf
  <2> QED
    BY <1>1, <1>2, <1>3, <1>6, <2>1 DEF BatchInv, BatchKnows
<1>7. request[r].row \in DOMAIN rows
  BY <1>1 DEF BatchInv, BatchKnows
<1> QED
  BY <1>1, <1>5, <1>6, <1>7 DEF BatchInv, WorksOnMonth

(* The worker takes a row of its type and writes no other.                  *)
LEMMA BatchWork ==
    ASSUME Inv, BatchInv, NEW w \in Workers, Work(w) \/ CrashWorker(w)
    PROVE  BatchInv'
<1> DEFINE i == worker[w].row
<1>1. worker[w].pc # "idle" =>
          /\ i \in DOMAIN rows /\ rows[i].type = "generate"
          /\ \A r \in Requests : request[r].pc # "new" => request[r].row # i
  BY NotABatch DEF Inv, Known, WorkerKnows, BatchInv, WorksOnMonth
<1>2. \A v \in Workers \ {w} : (\E job : worker' = [worker EXCEPT ![w] = job]) => worker'[v] = worker[v]
  BY DEF Inv, Shape
<1>3. \A job : worker' = [worker EXCEPT ![w] = job] => worker'[w] = job
  BY DEF Inv, Shape
<1>4. CASE Claim(w)
  <2>1. PICK k \in DOMAIN rows :
            /\ Claimable(k)
            /\ worker' = [worker EXCEPT ![w] = [pc |-> "claimed", row |-> k, ok |-> TRUE]]
    BY <1>4 DEF Claim
  <2>2. WorksOnMonth(w)'
    BY <1>3, <1>4, <2>1 DEF Claim, Claimable, Supported, WorksOnMonth
  <2> QED
    BY <1>2, <1>4, <2>1, <2>2, BatchesUntouched DEF Claim
<1>5. ASSUME NEW status \in Statuses, rows' = [rows EXCEPT ![i].status = status],
             worker[w].pc # "idle", UNCHANGED <<person, request, dead>>,
             \A v \in Workers : worker'[v] = worker[v] \/ (v = w /\ worker'[v].pc = "idle")
                                \/ (v = w /\ worker'[v].row = i)
      PROVE  BatchInv'
  <2>1. /\ DOMAIN rows' = DOMAIN rows
        /\ \A j \in DOMAIN rows \ {i} : rows'[j].status = rows[j].status
        /\ \A j \in DOMAIN rows : rows'[j].type = rows[j].type /\ rows'[j].batch = rows[j].batch
    BY <1>1, <1>5, StatusWritten
  <2>2. \A v \in Workers : worker'[v] = worker[v] \/ WorksOnMonth(v)'
    BY <1>1, <1>5, <2>1 DEF WorksOnMonth
  <2>3. \A r \in Requests : request[r].pc # "new" =>
            rows'[request[r].row].status = rows[request[r].row].status
    BY <1>1, <1>5, <2>1 DEF BatchInv, BatchKnows
  <2> QED
    BY <1>5, <2>1, <2>2, <2>3, BatchesUntouched
<1>6. CASE MarkRunning(w)
  <2>1. worker'[w].row = i
    BY <1>6 DEF MarkRunning, Inv, Shape, Job
  <2>2. \A v \in Workers \ {w} : worker'[v] = worker[v]
    BY <1>6 DEF MarkRunning, Inv, Shape
  <2> QED
    BY <1>5, <1>6, <2>1, <2>2 DEF MarkRunning, Statuses
<1>7. CASE Finish(w)
  <2>1. worker'[w].pc = "idle"
    BY <1>3, <1>7 DEF Finish, IdleJob
  <2>2. \A v \in Workers \ {w} : worker'[v] = worker[v]
    BY <1>7 DEF Finish, Inv, Shape
  <2> QED
    BY <1>5, <1>7, <2>1, <2>2 DEF Finish, Statuses
<1>8. CASE Charge(w)
  <2>1. worker'[w].row = i /\ \A v \in Workers \ {w} : worker'[v] = worker[v]
    BY <1>8 DEF Charge, Inv, Shape, Job
  <2>2. /\ DOMAIN rows' = DOMAIN rows
        /\ \A j \in DOMAIN rows :
              /\ rows'[j].type = rows[j].type /\ rows'[j].batch = rows[j].batch
              /\ rows'[j].status = rows[j].status
    BY <1>1, <1>8, ChargeWritten DEF Charge
  <2>3. WorksOnMonth(w)'
    BY <1>1, <1>8, <2>1, <2>2 DEF WorksOnMonth, Charge
  <2>4. \A r \in Requests : request[r].pc # "new" => request[r].row \in DOMAIN rows
    BY DEF BatchInv, BatchKnows
  <2> QED
    BY <1>8, <2>1, <2>2, <2>3, <2>4, BatchesUntouched DEF Charge
<1>9. CASE ChargeFails(w)
  <2>1. worker'[w].row = i /\ \A v \in Workers \ {w} : worker'[v] = worker[v]
    BY <1>9 DEF ChargeFails, Inv, Shape, Job
  <2>2. WorksOnMonth(w)'
    BY <1>1, <1>9, <2>1 DEF WorksOnMonth, ChargeFails
  <2> QED
    BY <1>9, <2>1, <2>2, BatchesUntouched DEF ChargeFails
<1>10. CASE AuditFailed(w)
  <2> DEFINE new == [NewRow("generate", "FAILED") EXCEPT !.keyed = FALSE]
  <2>1. /\ worker[w].pc = "audit" /\ rows' = Append(rows, new)
        /\ UNCHANGED <<replicas, person, request, dead, retries, crashes>>
    BY <1>10 DEF AuditFailed
  <2>2. new \in Row /\ new.batch = 0
    BY DEF NewRow, Row, Statuses
  <2> HIDE DEF new
  <2>3. worker'[w].row = i /\ \A v \in Workers \ {w} : worker'[v] = worker[v]
    BY <1>10 DEF AuditFailed, Inv, Shape, Job
  <2>4. \A r \in Requests : BatchKnows(r)'
    BY <2>1, <2>2, OtherBatches
  <2> QED
    BY <2>1, <2>2, <2>3, <2>4, AfterInsert
<1>11. CASE CrashWorker(w)
  <2>1. /\ dead' = dead \cup ({i} \ {0})
        /\ worker' = [worker EXCEPT ![w] = IdleJob]
        /\ UNCHANGED <<rows, replicas, person, request, retries>>
    BY <1>11 DEF CrashWorker
  <2>2. WorksOnMonth(w)'
    BY <1>3, <2>1 DEF WorksOnMonth, IdleJob
  <2>3. \A j \in dead' \ dead : j \in DOMAIN rows /\ rows[j].type = "generate"
    BY <1>1, <2>1 DEF Inv, Known, WorkerKnows
  <2>4. \A r \in Requests : request[r].pc # "new" =>
            rows'[request[r].row].status = rows[request[r].row].status
    BY <2>1
  <2>5. \A v \in Workers : worker'[v] = worker[v] \/ WorksOnMonth(v)'
    BY <1>2, <2>1, <2>2
  <2> QED
    BY <2>1, <2>3, <2>4, <2>5, BatchesUntouched
<1> QED
  BY <1>4, <1>6, <1>7, <1>8, <1>9, <1>10, <1>11 DEF Work

(* People read, retry and resolve rows that no request waits for.           *)
LEMMA BatchPerson ==
    ASSUME Inv, BatchInv, NEW p \in People, Read(p) \/ Retry(p) \/ Resolve(p)
    PROVE  BatchInv'
<1> DEFINE i == person[p].row
<1>1. person[p] # Unread =>
          /\ i \in DOMAIN rows
          /\ \A r \in Requests : request[r].pc # "new" => request[r].row # i
  BY NotABatch DEF Inv, Known, PersonKnows
<1>2. \A q \in People \ {p} : (\E x : person' = [person EXCEPT ![p] = x]) => person'[q] = person[q]
  BY DEF Inv, Shape
<1>3. \A x : person' = [person EXCEPT ![p] = x] => person'[p] = x
  BY DEF Inv, Shape
<1>4. \A r \in Requests : request[r].pc # "new" => request[r].row \in DOMAIN rows
  BY DEF BatchInv, BatchKnows
<1>5. CASE Read(p)
  <2>1. PICK k \in DOMAIN rows :
            /\ rows[k].status \in {"FAILED", "ESCALATED"}
            /\ person' = [person EXCEPT ![p] = [row |-> k, status |-> rows[k].status]]
    BY <1>5 DEF Read
  <2>2. person'[p].row = k
    BY <1>3, <2>1
  <2> QED
    BY <1>2, <1>5, <2>1, <2>2, BatchesUntouched DEF Read
<1>6. CASE Retry(p)
  <2>1. /\ DOMAIN rows' = DOMAIN rows
        /\ \A j \in DOMAIN rows \ {i} : rows'[j].status = rows[j].status
        /\ \A j \in DOMAIN rows : rows'[j].type = rows[j].type /\ rows'[j].batch = rows[j].batch
    BY <1>1, <1>6, RetryWritten DEF Retry
  <2>2. person'[p].row = 0
    BY <1>3, <1>6 DEF Retry, Unread
  <2>3. \A r \in Requests : request[r].pc # "new" =>
            rows'[request[r].row].status = rows[request[r].row].status
    BY <1>1, <1>4, <1>6, <2>1 DEF Retry
  <2> QED
    BY <1>2, <1>6, <2>1, <2>2, <2>3, BatchesUntouched DEF Retry
<1>7. CASE Resolve(p)
  <2>1. PICK status \in {"DONE", "FAILED"} : rows' = [rows EXCEPT ![i].status = status]
    BY <1>7 DEF Resolve
  <2>2. person[p] # Unread
    BY <1>7, UnreadType DEF Resolve
  <2>3. /\ DOMAIN rows' = DOMAIN rows
        /\ \A j \in DOMAIN rows \ {i} : rows'[j].status = rows[j].status
        /\ \A j \in DOMAIN rows : rows'[j].type = rows[j].type /\ rows'[j].batch = rows[j].batch
    BY <1>1, <2>1, <2>2, StatusWritten DEF Statuses
  <2>4. person'[p].row = 0
    BY <1>3, <1>7 DEF Resolve, Unread
  <2>5. \A r \in Requests : request[r].pc # "new" =>
            rows'[request[r].row].status = rows[request[r].row].status
    BY <1>1, <1>4, <2>2, <2>3
  <2> QED
    BY <1>2, <1>7, <2>3, <2>4, <2>5, BatchesUntouched DEF Resolve
<1> QED
  BY <1>5, <1>6, <1>7

LEMMA BatchStep == Inv /\ BatchInv /\ [Next]_vars => BatchInv'
<1> SUFFICES ASSUME Inv, BatchInv, [Next]_vars PROVE BatchInv'
  OBVIOUS
<1>1. CASE Schedule
  <2>1. PICK status \in {"PENDING", "ESCALATED"} : rows' = Append(rows, NewRow("other", status))
    BY <1>1 DEF Schedule, Insert
  <2>2. NewRow("other", status) \in Row /\ NewRow("other", status).batch = 0
    BY DEF NewRow, Row, Statuses
  <2>3. UNCHANGED <<worker, replicas, person, request, dead, retries, crashes>>
    BY <1>1 DEF Schedule
  <2>4. \A r \in Requests : BatchKnows(r)'
    BY <2>1, <2>2, <2>3, OtherBatches
  <2> QED
    BY <2>1, <2>2, <2>3, <2>4, AfterInsert
<1>2. ASSUME NEW r \in Requests, Trigger(r) \/ CrashRequest(r) PROVE BatchInv'
  BY <1>2, BatchStart, BatchChild, BatchEnd, BatchDies DEF Trigger
<1>3. ASSUME NEW w \in Workers, Work(w) \/ CrashWorker(w) PROVE BatchInv'
  BY <1>3, BatchWork
<1>4. ASSUME NEW p \in People, Read(p) \/ Retry(p) \/ Resolve(p) PROVE BatchInv'
  BY <1>4, BatchPerson
<1>5. CASE UNCHANGED vars
  BY <1>5, BatchesUntouched DEF vars
<1>6. ASSUME NEW w \in Workers, StartWorker(w) PROVE BatchInv'
  BY <1>6, BatchesUntouched DEF StartWorker
<1> QED
  BY <1>1, <1>2, <1>3, <1>4, <1>5, <1>6 DEF Next

(* The row of a bulk request says DONE only if each of its contracts has    *)
(* its task, and stays RUNNING if the request died (routes/bulk.py), for    *)
(* batches of any size and any number of overlapping requests and workers.  *)
THEOREM BatchesAreAccounted == Spec => []BatchIsAccounted
<1>1. Init => Inv /\ BatchInv
  BY InvInit, BatchInit
<1>2. Inv /\ BatchInv /\ [Next]_vars => (Inv /\ BatchInv)'
  BY InvStep, BatchStep
<1>3. Inv /\ BatchInv => BatchIsAccounted
  BY DEF Inv, Shape, Bulk, BatchInv, BatchKnows, BatchOf, BatchIsAccounted
<1> QED
  BY <1>1, <1>2, <1>3, PTL DEF Spec

-----------------------------------------------------------------------------
(* How often a task may charge *)

(* The workers that are about to charge for a row, and those that still may. *)
Charging(i) == {w \in Workers : worker[w].pc = "charge" /\ worker[w].row = i}
Holding(i) == {w \in Workers : worker[w].pc \in {"claimed", "charge"} /\ worker[w].row = i}

(* Every worker may charge once for each time a row was made pending; while *)
(* it is pending, those that claim it now are not counted yet.              *)
Bounded(i) ==
    IF rows[i].status = "PENDING"
    THEN rows[i].charged + Cardinality(Charging(i)) <= Cardinality(replicas) * rows[i].retried
    ELSE rows[i].charged + Cardinality(Holding(i)) <= Cardinality(replicas) * (1 + rows[i].retried)

Staffed == \A w \in Workers : worker[w].pc # "idle" => w \in replicas

BoundInv == Staffed /\ \A i \in DOMAIN rows : Bounded(i)

LEMMA HoldersCount ==
    ASSUME Inv, Staffed, NEW i
    PROVE  /\ Charging(i) \subseteq Holding(i) /\ Holding(i) \subseteq replicas
           /\ IsFiniteSet(Holding(i)) /\ IsFiniteSet(Charging(i))
           /\ Cardinality(Charging(i)) \in Nat /\ Cardinality(Holding(i)) \in Nat
           /\ Cardinality(replicas) \in Nat
           /\ Cardinality(Charging(i)) <= Cardinality(Holding(i))
           /\ Cardinality(Holding(i)) <= Cardinality(replicas)
<1>1. replicas \subseteq Workers /\ IsFiniteSet(Workers)
  BY PyTasksAssumption DEF Inv, Shape
<1>2. IsFiniteSet(replicas)
  BY <1>1, FS_Subset
<1>3. Charging(i) \subseteq Holding(i) /\ Holding(i) \subseteq replicas
  BY DEF Charging, Holding, Staffed
<1>4. IsFiniteSet(Holding(i)) /\ Cardinality(Holding(i)) <= Cardinality(replicas)
  BY <1>2, <1>3, FS_Subset
<1>5. IsFiniteSet(Charging(i)) /\ Cardinality(Charging(i)) <= Cardinality(Holding(i))
  BY <1>3, <1>4, FS_Subset
<1> QED
  BY <1>2, <1>3, <1>4, <1>5, FS_CardinalityType

LEMMA OneMoreRound ==
    ASSUME NEW n \in Nat, NEW k \in Nat
    PROVE  n * k \in Nat /\ n * (1 + k) = n * k + n
OBVIOUS

(* A row that is not made pending again and that nobody new may charge for. *)
LEMMA BoundKept ==
    ASSUME Inv, Staffed, Inv', Staffed', replicas' = replicas,
           NEW i \in DOMAIN rows, Bounded(i),
           rows'[i].charged = rows[i].charged, rows'[i].retried = rows[i].retried,
           rows'[i].status = rows[i].status \/ rows'[i].status # "PENDING",
           Charging(i)' \subseteq Charging(i),
           rows[i].status # "PENDING" => Holding(i)' \subseteq Holding(i)
    PROVE  Bounded(i)'
<1> DEFINE N == Cardinality(replicas)
           k == rows[i].retried
<1>1. N \in Nat /\ k \in Nat /\ rows[i].charged \in Nat
  BY HoldersCount, RowAt DEF Inv, Row
<1>2. N * k \in Nat /\ N * (1 + k) = N * k + N
  BY <1>1, OneMoreRound
<1>3. /\ Cardinality(Charging(i)) \in Nat /\ Cardinality(Holding(i)) \in Nat
      /\ Cardinality(Charging(i)') \in Nat /\ Cardinality(Holding(i)') \in Nat
      /\ Cardinality(Holding(i)') <= N
  <2>1. /\ Holding(i)' \subseteq replicas' /\ IsFiniteSet(Holding(i)')
        /\ IsFiniteSet(Charging(i)')
        /\ Cardinality(Holding(i)') <= Cardinality(replicas')
    <3>1. /\ Charging(i) \subseteq Holding(i) /\ Holding(i) \subseteq replicas
          /\ IsFiniteSet(Holding(i)) /\ IsFiniteSet(Charging(i))
          /\ IsFiniteSet(replicas)
      BY HoldersCount, PyTasksAssumption, FS_Subset DEF Inv, Shape
    <3>2. Holding(i)' \subseteq replicas'
      BY DEF Holding, Staffed
    <3>3. Charging(i)' \subseteq Holding(i)'
      BY DEF Charging, Holding
    <3>4. IsFiniteSet(Holding(i)') /\ Cardinality(Holding(i)') <= Cardinality(replicas)
      BY <3>1, <3>2, FS_Subset
    <3> QED
      BY <3>2, <3>3, <3>4, FS_Subset
  <2> QED
    BY <2>1, HoldersCount, FS_CardinalityType
<1>4. Cardinality(Charging(i)') <= Cardinality(Charging(i))
  BY HoldersCount, FS_Subset
<1>5. rows[i].status # "PENDING" => Cardinality(Holding(i)') <= Cardinality(Holding(i))
  BY HoldersCount, FS_Subset
<1> DEFINE h == Cardinality(Holding(i))
           g == Cardinality(Holding(i)')
           c == Cardinality(Charging(i))
           d == Cardinality(Charging(i)')
           m == rows[i].charged
<1>6. /\ rows[i].status = "PENDING" => m + c <= N * k
      /\ rows[i].status # "PENDING" => m + h <= N * (1 + k)
  BY DEF Bounded
<1>7. /\ rows[i].status = "PENDING" => m + d <= N * k /\ m + g <= N * (1 + k)
      /\ rows[i].status # "PENDING" => m + g <= N * (1 + k)
  <2> HIDE DEF N, k, h, g, c, d, m
  <2>1. /\ m \in Nat /\ h \in Nat /\ g \in Nat /\ c \in Nat /\ d \in Nat
        /\ g <= N /\ d <= c /\ (rows[i].status # "PENDING" => g <= h)
    BY <1>1, <1>3, <1>4, <1>5 DEF m, h, g, c, d, N
  <2> DEFINE nk == N * k
             nl == N * (1 + k)
  <2>2. /\ nk \in Nat /\ nl = nk + N /\ N \in Nat
        /\ rows[i].status = "PENDING" => m + c <= nk
        /\ rows[i].status # "PENDING" => m + h <= nl
    BY <1>1, <1>2, <1>6
  <2> HIDE DEF nk, nl
  <2>3. /\ rows[i].status = "PENDING" => m + d <= nk /\ m + g <= nl
        /\ rows[i].status # "PENDING" => m + g <= nl
    BY <2>1, <2>2
  <2> QED
    BY <2>3 DEF nk, nl
<1> QED
  BY <1>7 DEF Bounded

LEMMA BoundInit == Init => BoundInv
BY DEF Init, BoundInv, Staffed, IdleJob

(* A new row, or one that only now gets workers. *)
LEMMA BoundInsert ==
    ASSUME Inv, BoundInv, Staffed', NEW new \in Row, rows' = Append(rows, new),
           new.charged = 0, replicas' = replicas,
           \A w \in Workers : \/ worker'[w] = worker[w]
                              \/ worker[w].pc = "audit" /\ worker'[w].pc = "finish",
           Inv'
    PROVE  BoundInv'
<1>1. /\ DOMAIN rows' = DOMAIN rows \cup {Len(rows) + 1}
      /\ Len(rows) + 1 \notin DOMAIN rows
      /\ rows'[Len(rows) + 1] = new
      /\ \A j \in DOMAIN rows : rows'[j] = rows[j]
  BY AddRow DEF Inv
<1>2. \A i : Charging(i)' = Charging(i) /\ Holding(i)' = Holding(i)
  BY DEF Charging, Holding
<1>3. ASSUME NEW i \in DOMAIN rows PROVE Bounded(i)'
  BY <1>1, <1>2, BoundKept DEF BoundInv
<1>4. ASSUME NEW i, i = Len(rows) + 1 PROVE Bounded(i)'
  <2>1. Holding(i)' = {} /\ Charging(i)' = {}
    BY <1>1, <1>2, <1>4 DEF Holding, Charging, Inv, Known, WorkerKnows
  <2>2. /\ new.retried \in Nat /\ Cardinality(replicas) \in Nat
        /\ Cardinality(replicas) * new.retried \in Nat
        /\ Cardinality(replicas) * (1 + new.retried) \in Nat
    <3>1. new.retried \in Nat
      BY DEF Row
    <3>2. Cardinality(replicas) \in Nat
      BY HoldersCount DEF BoundInv
    <3> QED
      BY <3>1, <3>2, OneMoreRound
  <2>3. rows'[i] = new
    BY <1>1, <1>4
  <2> QED
    BY <2>1, <2>2, <2>3, FS_EmptySet DEF Bounded
<1> QED
  BY <1>1, <1>3, <1>4 DEF BoundInv

(* A row gets a status that is not PENDING, and workers only let go.        *)
LEMMA BoundStatus ==
    ASSUME Inv, BoundInv, Inv', NEW i \in DOMAIN rows, NEW status \in Statuses \ {"PENDING"},
           rows' = [rows EXCEPT ![i].status = status], replicas' = replicas,
           \A w \in Workers :
               \/ worker'[w] = worker[w]
               \/ /\ worker[w].pc # "idle" /\ worker'[w].row \in {0, worker[w].row}
                  /\ worker'[w].pc \in {"charge", "finish", "idle"} /\ worker[w].row = i
                  /\ worker'[w].pc = "charge" => worker[w].pc = "claimed"
    PROVE  BoundInv'
<1>1. /\ DOMAIN rows' = DOMAIN rows /\ rows'[i].status = status
      /\ \A j \in DOMAIN rows \ {i} : rows'[j].status = rows[j].status
      /\ \A j \in DOMAIN rows :
            rows'[j].charged = rows[j].charged /\ rows'[j].retried = rows[j].retried
  BY StatusWritten
<1>2. Staffed'
  BY DEF BoundInv, Staffed
<1>3. 0 \notin DOMAIN rows
  BY RowNumbers
<1>4. ASSUME NEW j \in DOMAIN rows, j # i PROVE Bounded(j)'
  <2>1. Charging(j)' \subseteq Charging(j) /\ Holding(j)' \subseteq Holding(j)
    BY <1>3, <1>4 DEF Charging, Holding
  <2> QED
    BY <1>1, <1>2, <1>4, <2>1, BoundKept DEF BoundInv
<1>5. Bounded(i)'
  <2>1. Holding(i)' \subseteq Holding(i)
    BY <1>3 DEF Holding
  <2>2. /\ rows'[i].status # "PENDING" /\ rows'[i].charged = rows[i].charged
        /\ rows'[i].retried = rows[i].retried
    BY <1>1
  <2>3. Cardinality(Holding(i)') <= Cardinality(Holding(i)) /\ Cardinality(Holding(i)') \in Nat
    BY <2>1, HoldersCount, FS_Subset, FS_CardinalityType DEF BoundInv
  <2> DEFINE N == Cardinality(replicas)
             k == rows[i].retried
             m == rows[i].charged
             h == Cardinality(Holding(i))
             g == Cardinality(Holding(i)')
             c == Cardinality(Charging(i))
  <2>4. /\ N \in Nat /\ k \in Nat /\ m \in Nat /\ h \in Nat /\ g \in Nat /\ c \in Nat
        /\ N * k \in Nat /\ N * (1 + k) = N * k + N
        /\ g <= h /\ h <= N
    <3>1. N \in Nat /\ k \in Nat /\ m \in Nat
      BY HoldersCount, RowAt DEF Inv, Row, BoundInv
    <3> QED
      BY <2>3, <3>1, HoldersCount, OneMoreRound DEF BoundInv
  <2>5. \/ m + c <= N * k
        \/ m + h <= N * (1 + k)
    BY DEF BoundInv, Bounded
  <2>6. m + g <= N * (1 + k)
    <3> DEFINE nk == N * k
               nl == N * (1 + k)
    <3>1. nk \in Nat /\ nl = nk + N /\ (m + c <= nk \/ m + h <= nl)
      BY <2>4, <2>5
    <3> HIDE DEF N, k, m, h, g, c, nk, nl
    <3>2. m + g <= nl
      BY <2>4, <3>1
    <3> QED
      BY <3>2 DEF nl
  <2> QED
    BY <2>2, <2>6 DEF Bounded
<1> QED
  BY <1>1, <1>2, <1>4, <1>5 DEF BoundInv

LEMMA BoundWork ==
    ASSUME Inv, Inv', BoundInv, up \subseteq replicas,
           NEW w \in Workers, Work(w) \/ CrashWorker(w)
    PROVE  BoundInv'
<1> DEFINE i == worker[w].row
<1>1. /\ \A v \in Workers \ {w} : (\E job : worker' = [worker EXCEPT ![w] = job]) => worker'[v] = worker[v]
      /\ \A job : worker' = [worker EXCEPT ![w] = job] => worker'[w] = job
  BY DEF Inv, Shape
<1>2. worker[w].pc # "idle" => i \in DOMAIN rows /\ i # 0
  BY RowNumbers DEF Inv, Known, WorkerKnows
<1>3. CASE Claim(w)
  <2>1. PICK k \in DOMAIN rows :
            /\ rows[k].status = "PENDING"
            /\ worker' = [worker EXCEPT ![w] = [pc |-> "claimed", row |-> k, ok |-> TRUE]]
    BY <1>3 DEF Claim, Claimable
  <2>2. /\ worker'[w].pc = "claimed" /\ worker'[w].row = k
        /\ \A v \in Workers \ {w} : worker'[v] = worker[v]
    BY <1>1, <2>1
  <2>3. w \in replicas /\ UNCHANGED <<rows, replicas>>
    BY <1>3 DEF Claim
  <2>4. Staffed'
    BY <2>2, <2>3 DEF BoundInv, Staffed
  <2>5. ASSUME NEW j \in DOMAIN rows PROVE Bounded(j)'
    <3>1. Charging(j)' \subseteq Charging(j)
      BY <2>2 DEF Charging
    <3>2. rows[j].status # "PENDING" => Holding(j)' \subseteq Holding(j)
      BY <2>1, <2>2 DEF Holding
    <3> QED
      BY <2>3, <2>4, <3>1, <3>2, BoundKept DEF BoundInv
  <2> QED
    BY <2>3, <2>4, <2>5 DEF BoundInv
<1>4. CASE MarkRunning(w)
  <2>1. /\ worker[w].pc = "claimed" /\ rows' = [rows EXCEPT ![i].status = "RUNNING"]
        /\ replicas' = replicas
    BY <1>4 DEF MarkRunning
  <2>2. worker'[w].pc \in {"charge", "finish"} /\ worker'[w].row = i
    BY <1>4 DEF MarkRunning, Inv, Shape, Job
  <2>3. \A v \in Workers \ {w} : worker'[v] = worker[v]
    BY <1>4 DEF MarkRunning, Inv, Shape
  <2>4. "RUNNING" \in Statuses \ {"PENDING"}
    BY DEF Statuses
  <2> QED
    BY <1>2, <2>1, <2>2, <2>3, <2>4, BoundStatus
<1>5. CASE Finish(w)
  <2>1. PICK status \in {"DONE", "FAILED"} : rows' = [rows EXCEPT ![i].status = status]
    BY <1>5 DEF Finish
  <2>2. worker[w].pc = "finish" /\ replicas' = replicas
    BY <1>5 DEF Finish
  <2>3. worker'[w] = IdleJob /\ \A v \in Workers \ {w} : worker'[v] = worker[v]
    BY <1>5 DEF Finish, Inv, Shape
  <2>4. status \in Statuses \ {"PENDING"}
    BY DEF Statuses
  <2> QED
    BY <1>2, <2>1, <2>2, <2>3, <2>4, IdleJobType, BoundStatus
<1>6. CASE Charge(w)
  <2>1. /\ worker[w].pc = "charge" /\ rows' = [rows EXCEPT ![i].charged = @ + 1]
        /\ replicas' = replicas
    BY <1>6 DEF Charge
  <2>2. /\ worker'[w].pc = "finish" /\ worker'[w].row = i
        /\ \A v \in Workers \ {w} : worker'[v] = worker[v]
    BY <1>6 DEF Charge, Inv, Shape, Job
  <2>3. /\ DOMAIN rows' = DOMAIN rows
        /\ rows[i].charged \in Nat /\ rows'[i].charged = rows[i].charged + 1
        /\ \A j \in DOMAIN rows \ {i} : rows'[j].charged = rows[j].charged
        /\ \A j \in DOMAIN rows :
              rows'[j].status = rows[j].status /\ rows'[j].retried = rows[j].retried
    BY <1>2, <2>1, ChargeWritten
  <2>4. Staffed'
    BY <2>1, <2>2 DEF BoundInv, Staffed
  <2>5. ASSUME NEW j \in DOMAIN rows, j # i PROVE Bounded(j)'
    <3>1. Charging(j)' \subseteq Charging(j) /\ Holding(j)' \subseteq Holding(j)
      BY <2>2, <2>5 DEF Charging, Holding
    <3> QED
      BY <2>1, <2>3, <2>4, <2>5, <3>1, BoundKept DEF BoundInv
  <2>6. ASSUME NEW j \in DOMAIN rows, j = i PROVE Bounded(j)'
    <3>1. Charging(j)' = Charging(j) \ {w} /\ w \in Charging(j)
      BY <2>1, <2>2, <2>6 DEF Charging
    <3>2. Holding(j)' = Holding(j) \ {w} /\ w \in Holding(j)
      BY <2>1, <2>2, <2>6 DEF Holding
    <3>3. /\ Cardinality(Charging(j)') = Cardinality(Charging(j)) - 1
          /\ Cardinality(Holding(j)') = Cardinality(Holding(j)) - 1
          /\ Cardinality(Charging(j)) \in Nat /\ Cardinality(Holding(j)) \in Nat
      BY <3>1, <3>2, HoldersCount, FS_RemoveElement DEF BoundInv
    <3>4. /\ rows'[j].charged + Cardinality(Charging(j)')
                = rows[j].charged + Cardinality(Charging(j))
          /\ rows'[j].charged + Cardinality(Holding(j)')
                = rows[j].charged + Cardinality(Holding(j))
      BY <2>3, <2>6, <3>3
    <3>5. rows'[j].status = rows[j].status /\ rows'[j].retried = rows[j].retried
      BY <2>3
    <3> QED
      BY <2>1, <3>4, <3>5 DEF BoundInv, Bounded
  <2> QED
    BY <2>3, <2>4, <2>5, <2>6 DEF BoundInv
<1>7. CASE AuditFailed(w)
  <2> DEFINE new == [NewRow("generate", "FAILED") EXCEPT !.keyed = FALSE]
  <2>1. /\ worker[w].pc = "audit" /\ rows' = Append(rows, new) /\ replicas' = replicas
    BY <1>7 DEF AuditFailed
  <2>2. new \in Row /\ new.charged = 0
    BY DEF NewRow, Row, Statuses
  <2> HIDE DEF new
  <2>3. worker'[w].pc = "finish" /\ \A v \in Workers \ {w} : worker'[v] = worker[v]
    BY <1>7 DEF AuditFailed, Inv, Shape, Job
  <2>4. Staffed'
    BY <2>1, <2>3 DEF BoundInv, Staffed
  <2> QED
    BY <2>1, <2>2, <2>3, <2>4, BoundInsert
<1>8. CASE ChargeFails(w) \/ CrashWorker(w)
  <2>1. UNCHANGED <<rows, replicas>>
    BY <1>8 DEF ChargeFails, CrashWorker
  <2>2. /\ worker'[w].pc \in {"audit", "idle"}
        /\ worker'[w].pc = "audit" => worker[w].pc # "idle"
        /\ \A v \in Workers \ {w} : worker'[v] = worker[v]
    BY <1>8 DEF ChargeFails, CrashWorker, IdleJob, Inv, Shape, Job
  <2>3. Staffed'
    BY <2>1, <2>2 DEF BoundInv, Staffed
  <2>4. \A j : Charging(j)' \subseteq Charging(j) /\ Holding(j)' \subseteq Holding(j)
    BY <2>2 DEF Charging, Holding
  <2> QED
    BY <2>1, <2>3, <2>4, BoundKept DEF BoundInv
<1> QED
  BY <1>3, <1>4, <1>5, <1>6, <1>7, <1>8 DEF Work

(* A retry starts another round. *)
LEMMA BoundRetry ==
    ASSUME Inv, Inv', BoundInv, NEW p \in People, Retry(p)
    PROVE  BoundInv'
<1> DEFINE i == person[p].row
<1>1. /\ person[p] # Unread /\ UNCHANGED <<worker, replicas>>
      /\ rows' = [rows EXCEPT ![i].status = "PENDING", ![i].retried = @ + 1]
  BY DEF Retry
<1>2. i \in DOMAIN rows
  BY <1>1 DEF Inv, Known, PersonKnows
<1> HIDE DEF i
<1>3. /\ DOMAIN rows' = DOMAIN rows /\ rows'[i].status = "PENDING"
      /\ rows[i].retried \in Nat /\ rows'[i].retried = rows[i].retried + 1
      /\ \A j \in DOMAIN rows \ {i} :
            rows'[j].status = rows[j].status /\ rows'[j].retried = rows[j].retried
      /\ \A j \in DOMAIN rows : rows'[j].charged = rows[j].charged
  BY <1>1, <1>2, RetryWritten
<1>4. Staffed' /\ \A j : Charging(j)' = Charging(j) /\ Holding(j)' = Holding(j)
  BY <1>1 DEF BoundInv, Staffed, Charging, Holding
<1>5. ASSUME NEW j \in DOMAIN rows, j # i PROVE Bounded(j)'
  BY <1>1, <1>3, <1>4, <1>5, BoundKept DEF BoundInv
<1>6. ASSUME NEW j \in DOMAIN rows, j = i PROVE Bounded(j)'
  <2> DEFINE N == Cardinality(replicas)
             k == rows[j].retried
             m == rows[j].charged
             h == Cardinality(Holding(j))
             c == Cardinality(Charging(j))
  <2>1. /\ N \in Nat /\ m \in Nat /\ h \in Nat /\ c \in Nat /\ c <= h
    BY HoldersCount, RowAt DEF Inv, Row, BoundInv
  <2>2. N * k \in Nat /\ N * (1 + k) = N * k + N
    BY <1>3, <1>6, <2>1, OneMoreRound
  <2>3. m + c <= N * k \/ m + h <= N * (1 + k)
    BY DEF BoundInv, Bounded
  <2>4. m + c <= N * (1 + k)
    <3> DEFINE nk == N * k
               nl == N * (1 + k)
    <3>1. nk \in Nat /\ nl = nk + N /\ (m + c <= nk \/ m + h <= nl)
      BY <2>2, <2>3
    <3> HIDE DEF N, k, m, h, c, nk, nl
    <3>2. m + c <= nl
      BY <2>1, <3>1
    <3> QED
      BY <3>2 DEF nl
  <2>5. /\ rows'[j].status = "PENDING" /\ rows'[j].charged = m
        /\ rows[j].retried \in Nat /\ rows'[j].retried = rows[j].retried + 1
    BY <1>3, <1>6
  <2>6. rows'[j].retried = 1 + k
    BY <2>5
  <2>7. Charging(j)' = Charging(j) /\ replicas' = replicas
    BY <1>1, <1>4
  <2> QED
    BY <2>4, <2>5, <2>6, <2>7 DEF Bounded
<1> QED
  BY <1>3, <1>4, <1>5, <1>6 DEF BoundInv

LEMMA BoundStep == Inv /\ Inv' /\ BoundInv /\ up \subseteq replicas /\ [Next]_vars => BoundInv'
<1> SUFFICES ASSUME Inv, Inv', BoundInv, up \subseteq replicas, [Next]_vars PROVE BoundInv'
  OBVIOUS
<1>1. ASSUME NEW new \in Row, new.charged = 0, rows' = Append(rows, new),
             UNCHANGED <<worker, replicas>>
      PROVE  BoundInv'
  <2>1. Staffed'
    BY <1>1 DEF BoundInv, Staffed
  <2> QED
    BY <1>1, <2>1, BoundInsert
<1>2. CASE Schedule
  <2>1. PICK status \in {"PENDING", "ESCALATED"} : rows' = Append(rows, NewRow("other", status))
    BY <1>2 DEF Schedule, Insert
  <2>2. NewRow("other", status) \in Row /\ NewRow("other", status).charged = 0
    BY DEF NewRow, Row, Statuses
  <2> QED
    BY <1>1, <1>2, <2>1, <2>2 DEF Schedule
<1>3. ASSUME NEW r \in Requests, BulkStart(r) PROVE BoundInv'
  <2>1. NewRow("other", "RUNNING") \in Row /\ NewRow("other", "RUNNING").charged = 0
    BY DEF NewRow, Row, Statuses
  <2> QED
    BY <1>1, <1>3, <2>1 DEF BulkStart, Insert
<1>4. ASSUME NEW r \in Requests, BulkChild(r) PROVE BoundInv'
  <2>1. PICK type \in {"generate", "other"}, keyed \in BOOLEAN :
            rows' = Append(rows, [NewRow(type, "PENDING") EXCEPT !.keyed = keyed,
                                                                 !.batch = request[r].row])
    BY <1>4 DEF BulkChild, Insert
  <2> DEFINE new == [NewRow(type, "PENDING") EXCEPT !.keyed = keyed, !.batch = request[r].row]
  <2>2. new \in Row /\ new.charged = 0
    BY DEF NewRow, Row, Statuses, Inv, Shape, Bulk
  <2>3. rows' = Append(rows, new)
    BY <2>1
  <2> HIDE DEF new
  <2> QED
    BY <1>1, <1>4, <2>2, <2>3 DEF BulkChild
<1>5. ASSUME NEW r \in Requests, BulkEnd(r) PROVE BoundInv'
  <2>1. request[r].row \in DOMAIN rows /\ "DONE" \in Statuses \ {"PENDING"}
    BY <1>5 DEF BulkEnd, Inv, Known, RequestKnows, Statuses
  <2> QED
    BY <1>5, <2>1, BoundStatus DEF BulkEnd
<1>6. ASSUME NEW w \in Workers, Work(w) \/ CrashWorker(w) PROVE BoundInv'
  BY <1>6, BoundWork
<1>7. ASSUME NEW p \in People, Resolve(p) PROVE BoundInv'
  <2>1. PICK status \in {"DONE", "FAILED"} :
            rows' = [rows EXCEPT ![person[p].row].status = status]
    BY <1>7 DEF Resolve
  <2>2. person[p].row \in DOMAIN rows /\ status \in Statuses \ {"PENDING"}
    BY <1>7, UnreadType DEF Resolve, Inv, Known, PersonKnows, Statuses
  <2> QED
    BY <1>7, <2>1, <2>2, BoundStatus DEF Resolve
<1>8. ASSUME NEW p \in People, Retry(p) PROVE BoundInv'
  BY <1>8, BoundRetry
<1>9. ASSUME UNCHANGED <<rows, worker, replicas>> PROVE BoundInv'
  BY <1>9 DEF BoundInv, Staffed, Bounded, Charging, Holding
<1>10. ASSUME NEW r \in Requests, CrashRequest(r) PROVE BoundInv'
  BY <1>9, <1>10 DEF CrashRequest
<1>11. ASSUME NEW p \in People, Read(p) PROVE BoundInv'
  BY <1>9, <1>11 DEF Read
<1>12. ASSUME NEW w \in Workers, StartWorker(w) PROVE BoundInv'
  BY <1>9, <1>12 DEF StartWorker
<1> QED
  BY <1>2, <1>3, <1>4, <1>5, <1>6, <1>7, <1>8, <1>9, <1>10, <1>11, <1>12 DEF Next, Trigger, vars

(* Without a lock a task charges at most once for each worker process and   *)
(* each time somebody made it pending, whatever the interleaving.           *)
THEOREM ChargesAreBounded == Spec => []ChargesBounded
<1>1. Init => Inv /\ BoundInv /\ up \subseteq replicas
  BY InvInit, BoundInit DEF Init
<1>2. Inv /\ BoundInv /\ up \subseteq replicas /\ [Next]_vars
        => (Inv /\ BoundInv /\ up \subseteq replicas)'
  BY InvStep, BoundStep, UpStep
<1>3. Inv /\ BoundInv => ChargesBounded
  <2> SUFFICES ASSUME Inv, BoundInv, NEW i \in DOMAIN rows
               PROVE  rows[i].charged <= Cardinality(replicas) * (1 + rows[i].retried)
    BY DEF ChargesBounded
  <2> DEFINE N == Cardinality(replicas)
             k == rows[i].retried
             m == rows[i].charged
             h == Cardinality(Holding(i))
             c == Cardinality(Charging(i))
             nk == N * k
             nl == N * (1 + k)
  <2>1. N \in Nat /\ k \in Nat /\ m \in Nat /\ h \in Nat /\ c \in Nat
    BY HoldersCount, RowAt DEF Inv, Row, BoundInv
  <2>2. nk \in Nat /\ nl = nk + N
    BY <2>1, OneMoreRound
  <2>3. m + c <= nk \/ m + h <= nl
    BY DEF BoundInv, Bounded
  <2> HIDE DEF N, k, m, h, c, nk, nl
  <2>4. m <= nl
    BY <2>1, <2>2, <2>3
  <2> QED
    BY <2>4 DEF nl, N, k, m
<1> QED
  BY <1>1, <1>2, <1>3, PTL DEF Spec

-----------------------------------------------------------------------------
(* One worker and one person *)

(* What the only worker and the only person have read is still so when they *)
(* write it back.                                                           *)
WorkerHolds(w) ==
    worker[w].pc # "idle" =>
        /\ rows[worker[w].row].status = IF worker[w].pc = "claimed" THEN "PENDING" ELSE "RUNNING"
        /\ rows[worker[w].row].charged = IF worker[w].pc = "finish" /\ worker[w].ok THEN 1 ELSE 0
        /\ worker[w].pc = "charge" => worker[w].ok

PersonHolds(p) ==
    person[p] # Unread => rows[person[p].row].status = person[p].status

(* So a row that may be started again has charged nothing. *)
Charged(i) ==
    /\ rows[i].charged \in {0, 1}
    /\ rows[i].status \in {"PENDING", "FAILED", "ESCALATED"} => rows[i].charged = 0

Held ==
    /\ \A w \in Workers : WorkerHolds(w)
    /\ \A p \in People : PersonHolds(p)
    /\ \A i \in DOMAIN rows : Charged(i)

AloneInv ==
    Inv /\ BatchInv /\ Staffed /\ up \subseteq replicas /\ (OneAtWork => Held)

LEMMA HeldInit == Init => Held
BY DEF Init, Held, WorkerHolds, PersonHolds, IdleJob

LEMMA OnlyOne ==
    ASSUME Inv, Staffed, OneAtWork
    PROVE  /\ \A v, w \in Workers : worker[v].pc # "idle" /\ worker[w].pc # "idle" => v = w
           /\ \A p, q \in People : p = q
<1>1. IsFiniteSet(replicas)
  BY PyTasksAssumption, FS_Subset DEF Inv, Shape
<1>2. (\E x : replicas = {x}) /\ (\E x : People = {x})
  BY <1>1, PyTasksAssumption, FS_Singleton DEF OneAtWork
<1> QED
  BY <1>2 DEF Staffed

(* A row that nobody else has in hand gets another status. *)
LEMMA HeldStatus ==
    ASSUME Inv, Held, NEW i \in DOMAIN rows, NEW status \in Statuses,
           rows' = [rows EXCEPT ![i].status = status],
           status \in {"PENDING", "FAILED", "ESCALATED"} => rows[i].charged = 0,
           \A w \in Workers : \/ /\ worker'[w] = worker[w]
                                 /\ worker[w].pc # "idle" => worker[w].row # i
                              \/ WorkerHolds(w)',
           \A p \in People : \/ /\ person'[p] = person[p]
                                /\ person[p] # Unread => person[p].row # i
                             \/ PersonHolds(p)'
    PROVE  Held'
<1>1. /\ DOMAIN rows' = DOMAIN rows /\ rows'[i].status = status
      /\ \A j \in DOMAIN rows \ {i} : rows'[j].status = rows[j].status
      /\ \A j \in DOMAIN rows : rows'[j].charged = rows[j].charged
  BY StatusWritten
<1>2. \A w \in Workers : WorkerHolds(w)'
  BY <1>1 DEF Held, WorkerHolds, Inv, Known, WorkerKnows
<1>3. \A p \in People : PersonHolds(p)'
  BY <1>1 DEF Held, PersonHolds, Inv, Known, PersonKnows, Unread
<1>4. \A j \in DOMAIN rows : Charged(j)'
  BY <1>1 DEF Held, Charged
<1> QED
  BY <1>1, <1>2, <1>3, <1>4 DEF Held

LEMMA HeldInsert ==
    ASSUME Inv, Held, NEW new \in Row, rows' = Append(rows, new), new.charged = 0,
           person' = person, \A w \in Workers : worker'[w] = worker[w] \/ WorkerHolds(w)'
    PROVE  Held'
<1>1. /\ DOMAIN rows' = DOMAIN rows \cup {Len(rows) + 1}
      /\ Len(rows) + 1 \notin DOMAIN rows
      /\ rows'[Len(rows) + 1] = new
      /\ \A j \in DOMAIN rows : rows'[j] = rows[j]
  BY AddRow DEF Inv
<1>2. ASSUME NEW w \in Workers, worker'[w] = worker[w] PROVE WorkerHolds(w)'
  <2>1. worker[w].pc # "idle" => rows'[worker[w].row] = rows[worker[w].row]
    BY <1>1 DEF Inv, Known, WorkerKnows
  <2>2. WorkerHolds(w)
    BY DEF Held
  <2> QED
    BY <1>2, <2>1, <2>2 DEF WorkerHolds
<1>3. \A p \in People : PersonHolds(p)'
  BY <1>1 DEF Held, PersonHolds, Inv, Known, PersonKnows, Unread
<1>4. \A j \in DOMAIN rows' : Charged(j)'
  BY <1>1 DEF Held, Charged
<1> QED
  BY <1>2, <1>3, <1>4 DEF Held

LEMMA HeldWork ==
    ASSUME AloneInv, OneAtWork, NEW w \in Workers, Work(w) \/ CrashWorker(w)
    PROVE  Held'
<1> DEFINE i == worker[w].row
<1>1. Inv /\ BatchInv /\ Staffed /\ Held
  BY DEF AloneInv
<1>2. WorkerHolds(w) /\ (worker[w].pc # "idle" => i \in DOMAIN rows)
  BY <1>1 DEF Held, Inv, Known, WorkerKnows
<1>3. worker[w].pc # "idle" => \A v \in Workers \ {w} : worker[v].pc = "idle"
  BY <1>1, OnlyOne
<1>4. worker[w].pc # "idle" => \A p \in People : person[p] # Unread => person[p].row # i
  BY <1>1, <1>2 DEF Held, PersonHolds, WorkerHolds, Inv, Shape, Reading
<1>5. ASSUME UNCHANGED <<rows, person>>, WorkerHolds(w)',
             \A v \in Workers \ {w} : worker'[v] = worker[v]
      PROVE  Held'
  BY <1>1, <1>5 DEF Held, WorkerHolds, PersonHolds, Charged
<1>6. CASE Claim(w)
  <2>1. PICK k \in DOMAIN rows :
            /\ rows[k].status = "PENDING"
            /\ worker' = [worker EXCEPT ![w] = [pc |-> "claimed", row |-> k, ok |-> TRUE]]
    BY <1>6 DEF Claim, Claimable
  <2>2. /\ worker'[w] = [pc |-> "claimed", row |-> k, ok |-> TRUE]
        /\ \A v \in Workers \ {w} : worker'[v] = worker[v]
    BY <1>1, <2>1 DEF Inv, Shape
  <2>3. UNCHANGED <<rows, person>>
    BY <1>6 DEF Claim
  <2>4. WorkerHolds(w)'
    BY <1>1, <2>1, <2>2, <2>3 DEF WorkerHolds, Held, Charged
  <2> QED
    BY <1>5, <2>2, <2>3, <2>4
<1>7. CASE MarkRunning(w)
  <2>1. /\ worker[w].pc = "claimed" /\ rows' = [rows EXCEPT ![i].status = "RUNNING"]
        /\ person' = person
    BY <1>7 DEF MarkRunning
  <2>2. /\ worker'[w].row = i /\ worker'[w].ok = rows[i].keyed
        /\ worker'[w].pc = IF rows[i].keyed THEN "charge" ELSE "finish"
        /\ \A v \in Workers \ {w} : worker'[v] = worker[v]
    BY <1>1, <1>7 DEF MarkRunning, Inv, Shape, Job
  <2>3. rows'[i].status = "RUNNING" /\ rows'[i].charged = rows[i].charged
    BY <1>1, <1>2, <2>1, StatusWritten DEF Statuses
  <2>4. WorkerHolds(w)'
    BY <1>2, <2>1, <2>2, <2>3 DEF WorkerHolds
  <2>5. "RUNNING" \in Statuses \ {"PENDING", "FAILED", "ESCALATED"}
    BY DEF Statuses
  <2> QED
    BY <1>1, <1>2, <1>3, <1>4, <2>1, <2>2, <2>4, <2>5, HeldStatus
<1>8. CASE Charge(w)
  <2>1. /\ worker[w].pc = "charge" /\ rows' = [rows EXCEPT ![i].charged = @ + 1]
        /\ person' = person
    BY <1>8 DEF Charge
  <2>2. /\ worker'[w].pc = "finish" /\ worker'[w].row = i /\ worker'[w].ok = worker[w].ok
        /\ \A v \in Workers \ {w} : worker'[v] = worker[v]
    BY <1>1, <1>8 DEF Charge, Inv, Shape, Job
  <2>3. /\ DOMAIN rows' = DOMAIN rows
        /\ rows'[i].charged = rows[i].charged + 1
        /\ \A j \in DOMAIN rows \ {i} : rows'[j].charged = rows[j].charged
        /\ \A j \in DOMAIN rows : rows'[j].status = rows[j].status
    BY <1>1, <1>2, <2>1, ChargeWritten
  <2>4. rows[i].charged = 0 /\ rows[i].status = "RUNNING" /\ worker[w].ok
    BY <1>2, <2>1 DEF WorkerHolds
  <2>5. \A v \in Workers : WorkerHolds(v)'
    <3>1. \A v \in Workers \ {w} : WorkerHolds(v)'
      BY <1>3, <2>1, <2>2 DEF WorkerHolds
    <3>2. rows'[i].charged = 1 /\ rows'[i].status = "RUNNING"
      BY <1>2, <2>1, <2>3, <2>4
    <3>3. WorkerHolds(w)'
      BY <2>2, <2>4, <3>2 DEF WorkerHolds
    <3> QED
      BY <3>1, <3>3
  <2>6. \A p \in People : PersonHolds(p)'
    BY <1>1, <2>1, <2>3 DEF Held, PersonHolds, Inv, Known, PersonKnows
  <2>7. \A j \in DOMAIN rows : Charged(j)'
    BY <1>1, <1>2, <2>3, <2>4 DEF Held, Charged
  <2> QED
    BY <2>3, <2>5, <2>6, <2>7 DEF Held
<1>9. CASE ChargeFails(w)
  <2>1. worker[w].pc = "charge" /\ UNCHANGED <<rows, person>>
    BY <1>9 DEF ChargeFails
  <2>2. /\ worker'[w].pc = "audit" /\ worker'[w].row = i
        /\ \A v \in Workers \ {w} : worker'[v] = worker[v]
    BY <1>1, <1>9 DEF ChargeFails, Inv, Shape, Job
  <2>3. WorkerHolds(w)'
    BY <1>2, <2>1, <2>2 DEF WorkerHolds
  <2> QED
    BY <1>5, <2>1, <2>2, <2>3
<1>10. CASE AuditFailed(w)
  <2> DEFINE new == [NewRow("generate", "FAILED") EXCEPT !.keyed = FALSE]
  <2>1. /\ worker[w].pc = "audit" /\ rows' = Append(rows, new) /\ person' = person
    BY <1>10 DEF AuditFailed
  <2>2. new \in Row /\ new.charged = 0
    BY DEF NewRow, Row, Statuses
  <2> HIDE DEF new
  <2>3. /\ worker'[w].pc = "finish" /\ worker'[w].row = i /\ worker'[w].ok = worker[w].ok
        /\ \A v \in Workers \ {w} : worker'[v] = worker[v]
    BY <1>1, <1>10 DEF AuditFailed, Inv, Shape, Job
  <2>4. rows'[i] = rows[i]
    BY <1>1, <1>2, <2>1, <2>2, AddRow DEF Inv
  <2>5. WorkerHolds(w)'
    BY <1>1, <1>2, <2>1, <2>3, <2>4 DEF WorkerHolds, Inv, Known, WorkerKnows
  <2> QED
    BY <1>1, <2>1, <2>2, <2>3, <2>5, HeldInsert
<1>11. CASE Finish(w)
  <2> DEFINE status == IF worker[w].ok THEN "DONE" ELSE "FAILED"
  <2>1. /\ worker[w].pc = "finish" /\ rows' = [rows EXCEPT ![i].status = status]
        /\ person' = person
    BY <1>11 DEF Finish
  <2>2. worker'[w] = IdleJob /\ \A v \in Workers \ {w} : worker'[v] = worker[v]
    BY <1>1, <1>11 DEF Finish, Inv, Shape
  <2>3. /\ status \in Statuses
        /\ status \in {"PENDING", "FAILED", "ESCALATED"} => rows[i].charged = 0
    BY <1>2, <2>1 DEF WorkerHolds, Statuses
  <2> HIDE DEF status
  <2>4. WorkerHolds(w)'
    BY <2>2, IdleJobType DEF WorkerHolds
  <2> QED
    BY <1>1, <1>2, <1>3, <1>4, <2>1, <2>2, <2>3, <2>4, HeldStatus
<1>12. CASE CrashWorker(w)
  <2>1. UNCHANGED <<rows, person>> /\ worker'[w] = IdleJob
        /\ \A v \in Workers \ {w} : worker'[v] = worker[v]
    BY <1>1, <1>12 DEF CrashWorker, Inv, Shape
  <2>2. WorkerHolds(w)'
    BY <2>1, IdleJobType DEF WorkerHolds
  <2> QED
    BY <1>5, <2>1, <2>2
<1> QED
  BY <1>6, <1>7, <1>8, <1>9, <1>10, <1>11, <1>12 DEF Work

LEMMA HeldPerson ==
    ASSUME AloneInv, OneAtWork, NEW p \in People, Read(p) \/ Retry(p) \/ Resolve(p)
    PROVE  Held'
<1> DEFINE i == person[p].row
<1>1. Inv /\ Held /\ Staffed
  BY DEF AloneInv
<1>2. \A q \in People : q = p
  BY <1>1, OnlyOne
<1>3. person[p] # Unread =>
          /\ i \in DOMAIN rows /\ rows[i].status = person[p].status
          /\ rows[i].status \in {"FAILED", "ESCALATED"} /\ rows[i].charged = 0
  BY <1>1 DEF Held, PersonHolds, Charged, Inv, Known, PersonKnows, Shape, Reading
<1>4. person[p] # Unread =>
          \A w \in Workers : worker[w].pc # "idle" => worker[w].row # i
  BY <1>1, <1>3 DEF Held, WorkerHolds
<1>5. CASE Read(p)
  <2>1. PICK k \in DOMAIN rows :
            person' = [person EXCEPT ![p] = [row |-> k, status |-> rows[k].status]]
    BY <1>5 DEF Read
  <2>2. person'[p] = [row |-> k, status |-> rows[k].status] /\ UNCHANGED <<rows, worker>>
    BY <1>1, <1>5, <2>1 DEF Read, Inv, Shape
  <2>3. PersonHolds(p)'
    BY <2>2 DEF PersonHolds
  <2> QED
    BY <1>1, <1>2, <2>2, <2>3 DEF Held, WorkerHolds, Charged
<1>6. ASSUME person'[p] = Unread PROVE PersonHolds(p)'
  BY <1>6 DEF PersonHolds, Unread
<1>7. CASE Retry(p)
  <2>1. /\ person[p] # Unread /\ worker' = worker /\ person'[p] = Unread
        /\ rows' = [rows EXCEPT ![i].status = "PENDING", ![i].retried = @ + 1]
    BY <1>1, <1>7 DEF Retry, Inv, Shape
  <2>2. i \in DOMAIN rows
    BY <1>3, <2>1
  <2> HIDE DEF i
  <2>3. /\ DOMAIN rows' = DOMAIN rows
        /\ \A j \in DOMAIN rows \ {i} : rows'[j].status = rows[j].status
        /\ \A j \in DOMAIN rows : rows'[j].charged = rows[j].charged
    BY <1>1, <2>1, <2>2, RetryWritten DEF i
  <2>4. \A w \in Workers : WorkerHolds(w)'
    BY <1>1, <1>4, <2>1, <2>3 DEF Held, WorkerHolds, Inv, Known, WorkerKnows
  <2>5. \A j \in DOMAIN rows : Charged(j)'
    BY <1>1, <1>3, <2>1, <2>3 DEF Held, Charged, i
  <2> QED
    BY <1>2, <1>6, <2>1, <2>3, <2>4, <2>5 DEF Held
<1>8. CASE Resolve(p)
  <2>1. PICK status \in {"DONE", "FAILED"} : rows' = [rows EXCEPT ![i].status = status]
    BY <1>8 DEF Resolve
  <2>2. person[p] # Unread /\ worker' = worker /\ person'[p] = Unread
    BY <1>1, <1>8, UnreadType DEF Resolve, Inv, Shape
  <2>3. status \in Statuses
    BY DEF Statuses
  <2> QED
    BY <1>1, <1>2, <1>3, <1>4, <1>6, <2>1, <2>2, <2>3, HeldStatus
<1> QED
  BY <1>5, <1>7, <1>8

LEMMA HeldStep == AloneInv /\ OneAtWork /\ [Next]_vars => Held'
<1> SUFFICES ASSUME AloneInv, OneAtWork, [Next]_vars PROVE Held'
  OBVIOUS
<1>1. Inv /\ BatchInv /\ Held
  BY DEF AloneInv
<1>2. CASE Schedule
  <2>1. PICK status \in {"PENDING", "ESCALATED"} : rows' = Append(rows, NewRow("other", status))
    BY <1>2 DEF Schedule, Insert
  <2>2. NewRow("other", status) \in Row /\ NewRow("other", status).charged = 0
    BY DEF NewRow, Row, Statuses
  <2> QED
    BY <1>1, <1>2, <2>1, <2>2, HeldInsert DEF Schedule
<1>3. ASSUME NEW r \in Requests, BulkStart(r) PROVE Held'
  <2>1. NewRow("other", "RUNNING") \in Row /\ NewRow("other", "RUNNING").charged = 0
    BY DEF NewRow, Row, Statuses
  <2> QED
    BY <1>1, <1>3, <2>1, HeldInsert DEF BulkStart, Insert
<1>4. ASSUME NEW r \in Requests, BulkChild(r) PROVE Held'
  <2>1. PICK type \in {"generate", "other"}, keyed \in BOOLEAN :
            rows' = Append(rows, [NewRow(type, "PENDING") EXCEPT !.keyed = keyed,
                                                                 !.batch = request[r].row])
    BY <1>4 DEF BulkChild, Insert
  <2> DEFINE new == [NewRow(type, "PENDING") EXCEPT !.keyed = keyed, !.batch = request[r].row]
  <2>2. new \in Row /\ new.charged = 0
    BY <1>1 DEF NewRow, Row, Statuses, Inv, Shape, Bulk
  <2>3. rows' = Append(rows, new) /\ UNCHANGED <<worker, person>>
    BY <1>4, <2>1 DEF BulkChild
  <2> HIDE DEF new
  <2> QED
    BY <1>1, <2>2, <2>3, HeldInsert
<1>5. ASSUME NEW r \in Requests, BulkEnd(r) PROVE Held'
  <2> DEFINE b == request[r].row
  <2>1. request[r].pc = "insert" /\ rows' = [rows EXCEPT ![b].status = "DONE"]
        /\ UNCHANGED <<worker, person>>
    BY <1>5 DEF BulkEnd
  <2>2. /\ b \in DOMAIN rows /\ rows[b].type = "other"
        /\ \A p \in People : person[p].row # b
    BY <1>1, <2>1 DEF BatchInv, BatchKnows
  <2>3. \A w \in Workers : worker[w].pc # "idle" => worker[w].row # b
    BY <1>1, <2>2 DEF BatchInv, WorksOnMonth
  <2>4. "DONE" \in Statuses
    BY DEF Statuses
  <2> QED
    BY <1>1, <2>1, <2>2, <2>3, <2>4, HeldStatus
<1>6. ASSUME NEW w \in Workers, Work(w) \/ CrashWorker(w) PROVE Held'
  BY <1>6, HeldWork
<1>7. ASSUME NEW p \in People, Read(p) \/ Retry(p) \/ Resolve(p) PROVE Held'
  BY <1>7, HeldPerson
<1>8. ASSUME UNCHANGED <<rows, worker, person>> PROVE Held'
  BY <1>1, <1>8 DEF Held, WorkerHolds, PersonHolds, Charged
<1>9. ASSUME NEW r \in Requests, CrashRequest(r) PROVE Held'
  BY <1>8, <1>9 DEF CrashRequest
<1>10. ASSUME NEW w \in Workers, StartWorker(w) PROVE Held'
  BY <1>8, <1>10 DEF StartWorker
<1> QED
  BY <1>2, <1>3, <1>4, <1>5, <1>6, <1>7, <1>8, <1>9, <1>10 DEF Next, Trigger, vars

LEMMA ReplicasStay == [Next]_vars => replicas' = replicas
BY DEF Next, Schedule, Trigger, BulkStart, BulkChild, BulkEnd, CrashRequest, Work, Claim,
       MarkRunning, Charge, ChargeFails, AuditFailed, Finish, CrashWorker, StartWorker,
       Read, Retry, Resolve, vars

LEMMA AloneStep == AloneInv /\ BoundInv /\ [Next]_vars => (AloneInv /\ BoundInv)'
<1> SUFFICES ASSUME AloneInv, BoundInv, [Next]_vars PROVE (AloneInv /\ BoundInv)'
  OBVIOUS
<1>1. Inv' /\ BatchInv' /\ BoundInv'
  BY InvStep, BatchStep, BoundStep DEF AloneInv
<1>3. (up \subseteq replicas)'
  BY UpStep DEF AloneInv
<1>2. OneAtWork' => Held'
  BY ReplicasStay, HeldStep DEF OneAtWork
<1> QED
  BY <1>1, <1>2, <1>3 DEF AloneInv, BoundInv

(* With one worker and one person a task charges the tenant at most once,   *)
(* although the claim, the run and the outcome are separate statements, the *)
(* worker dies between any two of them, and failed tasks are retried.       *)
THEOREM ChargesAreSingle == Spec => []ChargedOnce
<1>1. Init => AloneInv /\ BoundInv
  BY InvInit, BatchInit, BoundInit, HeldInit DEF AloneInv, BoundInv, Init
<1>2. AloneInv /\ BoundInv /\ [Next]_vars => (AloneInv /\ BoundInv)'
  BY AloneStep
<1>3. AloneInv => ChargedOnce
  BY DEF AloneInv, OneAtWork, Held, Charged, ChargedOnce
<1> QED
  BY <1>1, <1>2, <1>3, PTL DEF Spec

-----------------------------------------------------------------------------
(* What the page shows of the table *)

ShownRow(row) == [type |-> row.type, status |-> row.status, charged |-> row.charged]

shown == [i \in DOMAIN rows |-> ShownRow(rows[i])]

LEMMA BookStep ==
    ASSUME NEW i \in DOMAIN rows,
           \/ Book!Start(i) \/ Book!ChargeTenant(i) \/ Book!Done(i)
           \/ Book!Failed(i) \/ Book!Retry(i) \/ Book!Resolve(i)
    PROVE  Book!Next
BY DEF Book!Next

(* A statement that writes the status of a row. *)
LEMMA ShownMoves ==
    ASSUME Inv, NEW i \in DOMAIN rows, NEW old, rows[i].status = old, NEW new,
           DOMAIN rows' = DOMAIN rows, rows'[i].status = new,
           \A j \in DOMAIN rows \ {i} : rows'[j].status = rows[j].status,
           \A j \in DOMAIN rows :
               rows'[j].type = rows[j].type /\ rows'[j].charged = rows[j].charged
    PROVE  Book!Moves(i, old, new)
<1>1. shown' = [shown EXCEPT ![i].status = new]
  <2> DEFINE end == [shown[i] EXCEPT !.status = new]
  <2>1. end = ShownRow(rows'[i])
    BY DEF shown, ShownRow
  <2> HIDE DEF end
  <2>2. \A j \in DOMAIN rows \ {i} : ShownRow(rows'[j]) = ShownRow(rows[j])
    BY DEF ShownRow
  <2>3. shown' = [shown EXCEPT ![i] = end]
    BY <2>1, <2>2 DEF shown, ShownRow
  <2> QED
    BY <2>3 DEF end
<1>2. shown[i].status = old
  BY DEF shown, ShownRow
<1> QED
  BY <1>1, <1>2 DEF Book!Moves, shown, ShownRow

LEMMA ShownInsert ==
    ASSUME Inv, NEW new \in Row, rows' = Append(rows, new), new.charged = 0,
           \/ new.type = "generate" /\ new.status \in {"PENDING", "FAILED"}
           \/ new.type = "other" /\ new.status \in {"PENDING", "RUNNING", "ESCALATED"}
    PROVE  Book!Insert
<1> DEFINE end == ShownRow(new)
           Shown == [type : {"generate", "other"}, status : Statuses, charged : Nat]
<1>1. /\ shown \in Seq(Shown) /\ Len(shown) = Len(rows) /\ DOMAIN shown = 1 .. Len(rows)
  <2>1. \A i \in 1 .. Len(rows) : ShownRow(rows[i]) \in Shown
    BY RowNumbers, RowAt DEF Inv, Row, ShownRow
  <2> HIDE DEF Shown
  <2>2. shown = [i \in 1 .. Len(rows) |-> ShownRow(rows[i])]
    BY RowNumbers DEF shown
  <2> QED
    BY <2>1, <2>2, RowNumbers, SeqDef, LenProperties
<1>2. end \in Shown
  BY DEF ShownRow, Row
<1>3. shown' = Append(shown, end)
  <2>1. /\ DOMAIN rows' = 1 .. Len(rows) + 1 /\ rows'[Len(rows) + 1] = new
        /\ \A j \in DOMAIN rows : rows'[j] = rows[j]
    BY AddRow, RowNumbers DEF Inv
  <2> HIDE DEF Shown
  <2>2. Append(shown, end) =
          [j \in 1 .. Len(rows) + 1 |-> IF j = Len(rows) + 1 THEN end ELSE shown[j]]
    <3> DEFINE longer == Append(shown, end)
    <3>1. /\ longer \in Seq(Shown) /\ Len(longer) = Len(rows) + 1
          /\ \A j \in 1 .. Len(rows) : longer[j] = shown[j]
          /\ longer[Len(rows) + 1] = end
      BY <1>1, <1>2, AppendProperties
    <3> HIDE DEF longer
    <3>2. longer = [j \in 1 .. Len(rows) + 1 |-> longer[j]]
      BY <3>1, LenProperties
    <3>3. \A j \in 1 .. Len(rows) + 1 :
              longer[j] = IF j = Len(rows) + 1 THEN end ELSE shown[j]
      BY <3>1, RowNumbers
    <3> QED
      BY <3>2, <3>3 DEF longer
  <2>3. \A j \in 1 .. Len(rows) + 1 : ShownRow(rows'[j]) = IF j = Len(rows) + 1 THEN end ELSE shown[j]
    BY <2>1, RowNumbers DEF shown
  <2>4. shown' = [j \in 1 .. Len(rows) + 1 |-> ShownRow(rows'[j])]
    BY <2>1 DEF shown, ShownRow
  <2> QED
    BY <2>2, <2>3, <2>4
<1>4. end \in [type : {"generate"}, status : {"PENDING", "FAILED"}, charged : {0}]
              \cup [type : {"other"}, status : {"PENDING", "RUNNING", "ESCALATED"}, charged : {0}]
  BY DEF ShownRow
<1> HIDE DEF end
<1> QED
  BY <1>3, <1>4 DEF Book!Insert, shown, ShownRow

LEMMA WorkKeepsBook ==
    ASSUME AloneInv, OneAtWork, NEW w \in Workers, Work(w),
           NEW i, i = worker[w].row
    PROVE  rows' = rows \/ Book!Next
<1>1. Inv /\ BatchInv /\ WorkerHolds(w)
  BY DEF AloneInv, Held
<1>2. worker[w].pc # "idle" => i \in DOMAIN rows /\ rows[i].type = "generate"
  BY <1>1 DEF Inv, Known, WorkerKnows, BatchInv, WorksOnMonth
<1>3. CASE MarkRunning(w)
  <2>1. worker[w].pc = "claimed" /\ rows' = [rows EXCEPT ![i].status = "RUNNING"]
    BY <1>3 DEF MarkRunning
  <2>2. Book!Moves(i, "PENDING", "RUNNING")
    <3>1. rows[i].status = "PENDING" /\ "RUNNING" \in Statuses
      BY <1>1, <2>1 DEF WorkerHolds, Statuses
    <3> QED
      BY <1>1, <1>2, <2>1, <3>1, StatusWritten, ShownMoves
  <2>3. Book!Start(i)
    BY <1>2, <2>1, <2>2 DEF Book!Start
  <2> QED
    BY <1>2, <2>1, <2>3, BookStep
<1>4. CASE Charge(w)
  <2>1. worker[w].pc = "charge" /\ rows' = [rows EXCEPT ![i].charged = @ + 1]
    BY <1>4 DEF Charge
  <2>2. rows[i].status = "RUNNING" /\ rows[i].charged = 0
    BY <1>1, <2>1 DEF WorkerHolds
  <2> DEFINE end == [shown[i] EXCEPT !.charged = 1]
  <2>3. end = ShownRow(rows'[i])
    BY <1>1, <1>2, <2>1, <2>2, ChargeWritten DEF shown, ShownRow
  <2> HIDE DEF end
  <2>4. /\ DOMAIN rows' = DOMAIN rows
        /\ \A j \in DOMAIN rows \ {i} : ShownRow(rows'[j]) = ShownRow(rows[j])
    BY <1>1, <1>2, <2>1, ChargeWritten DEF ShownRow
  <2>5. shown' = [shown EXCEPT ![i] = end]
    BY <1>2, <2>1, <2>3, <2>4 DEF shown, ShownRow
  <2>6. shown' = [shown EXCEPT ![i].charged = 1]
    BY <2>5 DEF end
  <2>7. Book!ChargeTenant(i)
    BY <1>2, <2>1, <2>2, <2>6 DEF Book!ChargeTenant, shown, ShownRow
  <2> QED
    BY <1>2, <2>1, <2>7, BookStep
<1>5. CASE AuditFailed(w)
  <2> DEFINE new == [NewRow("generate", "FAILED") EXCEPT !.keyed = FALSE]
  <2>1. rows' = Append(rows, new)
    BY <1>5 DEF AuditFailed
  <2>2. new \in Row /\ new.charged = 0 /\ new.type = "generate" /\ new.status = "FAILED"
    BY DEF NewRow, Row, Statuses
  <2> HIDE DEF new
  <2>3. Book!Insert
    BY <1>1, <2>1, <2>2, ShownInsert
  <2> QED
    BY <2>3 DEF Book!Next
<1>6. CASE Finish(w)
  <2>1. worker[w].pc = "finish" /\ rows[i].status = "RUNNING"
    BY <1>1, <1>6 DEF Finish, WorkerHolds
  <2>2. CASE worker[w].ok
    <3>1. rows' = [rows EXCEPT ![i].status = "DONE"] /\ rows[i].charged = 1
      BY <1>1, <1>6, <2>1, <2>2 DEF Finish, WorkerHolds
    <3>2. "DONE" \in Statuses
      BY DEF Statuses
    <3>3. Book!Moves(i, "RUNNING", "DONE")
      BY <1>1, <1>2, <2>1, <3>1, <3>2, StatusWritten, ShownMoves
    <3>4. Book!Done(i)
      BY <1>2, <2>1, <3>1, <3>3 DEF Book!Done
    <3> QED
      BY <1>2, <2>1, <3>4, BookStep
  <2>3. CASE ~worker[w].ok
    <3>1. rows' = [rows EXCEPT ![i].status = "FAILED"] /\ rows[i].charged = 0
      BY <1>1, <1>6, <2>1, <2>3 DEF Finish, WorkerHolds
    <3>2. "FAILED" \in Statuses
      BY DEF Statuses
    <3>3. Book!Moves(i, "RUNNING", "FAILED")
      BY <1>1, <1>2, <2>1, <3>1, <3>2, StatusWritten, ShownMoves
    <3>4. Book!Failed(i)
      BY <1>2, <2>1, <3>1, <3>3 DEF Book!Failed
    <3> QED
      BY <1>2, <2>1, <3>4, BookStep
  <2> QED
    BY <2>2, <2>3
<1>7. CASE UNCHANGED rows
  BY <1>7
<1> QED
  BY <1>3, <1>4, <1>5, <1>6, <1>7 DEF Work, Claim, ChargeFails

LEMMA PersonKeepsBook ==
    ASSUME AloneInv, OneAtWork, NEW p \in People, Retry(p) \/ Resolve(p),
           NEW i, i = person[p].row
    PROVE  Book!Next
<1>1. /\ Inv /\ i \in DOMAIN rows /\ rows[i].status = person[p].status
      /\ person[p].status \in {"FAILED", "ESCALATED"}
  BY UnreadType DEF AloneInv, Held, PersonHolds, Inv, Known, PersonKnows, Shape, Reading,
                    Retry, Resolve
<1>2. CASE Retry(p)
  <2>1. rows' = [rows EXCEPT ![i].status = "PENDING", ![i].retried = @ + 1]
    BY <1>2 DEF Retry
  <2>2. Book!Moves(i, rows[i].status, "PENDING")
    BY <1>1, <2>1, RetryWritten, ShownMoves
  <2>3. Book!Retry(i)
    BY <1>1, <2>2 DEF Book!Retry
  <2> QED
    BY <1>1, <2>3, BookStep
<1>3. CASE Resolve(p)
  <2>1. person[p].status = "ESCALATED" /\ rows[i].type = "other"
    BY <1>1, <1>3 DEF Resolve, Inv, Known, PersonKnows
  <2>2. PICK status \in {"DONE", "FAILED"} : rows' = [rows EXCEPT ![i].status = status]
    BY <1>3 DEF Resolve
  <2>3. status \in Statuses
    BY DEF Statuses
  <2>4. Book!Moves(i, "ESCALATED", status)
    BY <1>1, <2>1, <2>2, <2>3, StatusWritten, ShownMoves
  <2>5. Book!Resolve(i)
    BY <1>1, <2>1, <2>4 DEF Book!Resolve
  <2> QED
    BY <1>1, <2>5, BookStep
<1> QED
  BY <1>2, <1>3

LEMMA RequestKeepsBook ==
    ASSUME AloneInv, OneAtWork, NEW r \in Requests, Trigger(r), NEW i, i = request[r].row
    PROVE  Book!Next
<1>1. Inv /\ BatchInv
  BY DEF AloneInv
<1>2. CASE BulkStart(r)
  <2> DEFINE new == NewRow("other", "RUNNING")
  <2>1. rows' = Append(rows, new)
    BY <1>2 DEF BulkStart, Insert
  <2>2. new \in Row /\ new.charged = 0 /\ new.type = "other" /\ new.status = "RUNNING"
    BY DEF NewRow, Row, Statuses
  <2> HIDE DEF new
  <2>3. Book!Insert
    BY <1>1, <2>1, <2>2, ShownInsert
  <2> QED
    BY <2>3 DEF Book!Next
<1>3. CASE BulkChild(r)
  <2>1. PICK type \in {"generate", "other"}, keyed \in BOOLEAN :
            rows' = Append(rows, [NewRow(type, "PENDING") EXCEPT !.keyed = keyed, !.batch = i])
    BY <1>3 DEF BulkChild, Insert
  <2> DEFINE new == [NewRow(type, "PENDING") EXCEPT !.keyed = keyed, !.batch = i]
  <2>2. new \in Row /\ new.charged = 0 /\ new.type = type /\ new.status = "PENDING"
    BY <1>1 DEF NewRow, Row, Statuses, Inv, Shape, Bulk
  <2>3. rows' = Append(rows, new)
    BY <2>1
  <2> HIDE DEF new
  <2>4. Book!Insert
    BY <1>1, <2>2, <2>3, ShownInsert
  <2> QED
    BY <2>4 DEF Book!Next
<1>4. CASE BulkEnd(r)
  <2>1. request[r].pc = "insert" /\ rows' = [rows EXCEPT ![i].status = "DONE"]
    BY <1>4 DEF BulkEnd
  <2>2. i \in DOMAIN rows /\ rows[i].type = "other" /\ rows[i].status = "RUNNING"
    BY <1>1, <2>1 DEF BatchInv, BatchKnows
  <2>3. Book!Moves(i, "RUNNING", "DONE")
    <3>1. "DONE" \in Statuses
      BY DEF Statuses
    <3> QED
      BY <1>1, <2>1, <2>2, <3>1, StatusWritten, ShownMoves
  <2>4. Book!Done(i)
    BY <2>2, <2>3 DEF Book!Done
  <2> QED
    BY <2>2, <2>4, BookStep
<1> QED
  BY <1>2, <1>3, <1>4 DEF Trigger

LEMMA ScheduleKeepsBook ==
    ASSUME AloneInv, Schedule
    PROVE  Book!Next
<1>1. PICK status \in {"PENDING", "ESCALATED"} : rows' = Append(rows, NewRow("other", status))
  BY DEF Schedule, Insert
<1> DEFINE new == NewRow("other", status)
<1>2. new \in Row /\ new.charged = 0 /\ new.type = "other" /\ new.status = status
  BY DEF NewRow, Row, Statuses
<1> HIDE DEF new
<1>3. Book!Insert
  BY <1>1, <1>2, ShownInsert DEF AloneInv, new
<1> QED
  BY <1>3 DEF Book!Next

(* The table of one worker and one person takes only the steps of the book, *)
(* whatever dies and however many requests fill it: every row is changed    *)
(* from the status it shows.                                                *)
THEOREM TableImplementsBook == Spec => ImplementsBook
<1>1. Init => Book!Init
  BY DEF Init, Book!Init
<1>2. Init => AloneInv /\ BoundInv
  BY InvInit, BatchInit, BoundInit, HeldInit DEF AloneInv, BoundInv, Init
<1>3. AloneInv /\ BoundInv /\ [Next]_vars => (AloneInv /\ BoundInv)'
  BY AloneStep
<1>4. AloneInv /\ [Next]_vars => [OneAtWork => Book!Next]_rows
  <2> SUFFICES ASSUME AloneInv, OneAtWork, [Next]_vars
               PROVE  rows' = rows \/ Book!Next
    OBVIOUS
  <2>1. CASE Schedule
    BY <2>1, ScheduleKeepsBook
  <2>2. CASE \E r \in Requests : Trigger(r)
    <3>1. PICK r \in Requests : Trigger(r)
      BY <2>2
    <3>2. PICK i : i = request[r].row
      OBVIOUS
    <3> QED
      BY <3>1, <3>2, RequestKeepsBook
  <2>3. CASE \E w \in Workers : Work(w)
    <3>1. PICK w \in Workers : Work(w)
      BY <2>3
    <3>2. PICK i : i = worker[w].row
      OBVIOUS
    <3> QED
      BY <3>1, <3>2, WorkKeepsBook
  <2>4. CASE \E p \in People : Retry(p) \/ Resolve(p)
    <3>1. PICK p \in People : Retry(p) \/ Resolve(p)
      BY <2>4
    <3>2. PICK i : i = person[p].row
      OBVIOUS
    <3> QED
      BY <3>1, <3>2, PersonKeepsBook
  <2>5. CASE UNCHANGED rows
    BY <2>5
  <2> QED
    BY <2>1, <2>2, <2>3, <2>4, <2>5 DEF Next, vars, CrashRequest, CrashWorker, StartWorker, Read
<1> QED
  BY <1>1, <1>2, <1>3, <1>4, PTL DEF Spec, ImplementsBook
=============================================================================
