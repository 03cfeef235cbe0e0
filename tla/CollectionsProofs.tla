-------------------------- MODULE CollectionsProofs --------------------------
(* Theorems about Collections for any number of charges, tasks, reminders,  *)
(* stalled-job recoveries and faults.                                       *)
EXTENDS Collections, SequenceTheorems, FiniteSetTheorems, TLAPS

-----------------------------------------------------------------------------
(* The inductive invariant *)

Kinds == {"none", "cobrador", "sentinela"}
Places == {"absent", "adding", "lost", "waiting", "issue", "email", "whatsapp", "add",
           "remind", "overdue", "mark", "assign", "queue", "done", "gone"}
Slip == Id \cup {<<>>}
Selected == SUBSET (Charges \X {"open", "overdue"})

Run == [kind : Kinds, charge : Charges \cup {None}, pc : Places, msg : Slip,
        child : Tasks \cup {None}, next : Nat \ {0}, rows : Selected, stalls : Nat]

(* A Cobrador knows its charge, and so does a Sentinela about to hand one   *)
(* over.                                                                    *)
ChargeKnown(t) ==
    \/ task[t].kind = "cobrador"
    \/ task[t].pc \in {"issue", "email", "whatsapp", "add", "remind", "assign"}
    => task[t].charge \in Charges

Shape ==
    /\ day \in Nat
    /\ task \in [Tasks -> Run]
    /\ \A t \in Tasks : ChargeKnown(t)

(* What holds of a message by itself: RowTellsDelivery, and what makes it   *)
(* last.  A provider is called at most once between two recoveries; an      *)
(* answer that is about to be stored is right, or a channel has misled; and *)
(* a row is decided before its job is over only if the job runs again.      *)
(* Reminders, which are never rendered, have no row.                        *)
Good(purpose, m) ==
    /\ purpose = "reminder" => m.row = "none"
    /\ m.row = "sent" => m.sends > 0 \/ m.misled
    /\ m.row = "failed" => m.sends = 0 \/ m.misled \/ m.stalls > 0
    /\ m.row = "queued" => /\ m.state \notin {"stored", "done"}
                           /\ m.state = "given_up" => m.stalls = MaxStalled
    /\ m.state = "sent" => m.sends > 0 \/ m.misled
    /\ m.state = "refused" => m.sends = 0 \/ m.misled \/ m.stalls > 0
    /\ m.row \in {"sent", "failed"} /\ m.state \in {"adding", "lost", "waiting", "sent", "refused"}
          => m.stalls > 0
    /\ m.sends <= m.stalls + IF m.state \in {"adding", "lost", "waiting"} THEN 0 ELSE 1
    /\ m.stalls <= MaxStalled

Box ==
    /\ outbox \in [Purposes -> [Charges -> Seq(Message)]]
    /\ \A p \in Purposes, c \in Charges :
          \A n \in DOMAIN outbox[p][c] : Good(p, outbox[p][c][n])

(* A message that a task is adding is in the outbox, waits for its job and  *)
(* is no other task's.                                                      *)
Held ==
    /\ \A t \in Tasks :
          /\ task[t].pc = "add" => task[t].msg # <<>>
          /\ task[t].msg # <<>> => task[t].msg \in Ids /\ At(task[t].msg).state = "adding"
    /\ \A t, u \in Tasks :
          task[t].msg # <<>> /\ task[t].msg = task[u].msg => t = u

Inv == Shape /\ Box /\ Held

LEMMA IdParts ==
    ASSUME NEW id \in Ids
    PROVE  \E p \in Purposes, c \in Charges :
               \E n \in DOMAIN outbox[p][c] : id = <<p, c, n>> /\ At(id) = outbox[p][c][n]
<1>1. PICK p \in Purposes, c \in Charges : id \in {<<p, c, n>> : n \in DOMAIN outbox[p][c]}
  BY DEF Ids
<1>2. PICK n \in DOMAIN outbox[p][c] : id = <<p, c, n>>
  BY <1>1
<1>3. id[1] = p /\ id[2] = c /\ id[3] = n
  BY <1>2
<1>4. At(id) = outbox[p][c][n]
  BY <1>3 DEF At
<1> QED
  BY <1>2, <1>4

LEMMA PartsId ==
    ASSUME NEW p \in Purposes, NEW c \in Charges, NEW n \in DOMAIN outbox[p][c]
    PROVE  <<p, c, n>> \in Ids /\ At(<<p, c, n>>) = outbox[p][c][n]
<1>1. <<p, c, n>> \in Ids
  <2> DEFINE Of(q, d) == {<<q, d, i>> : i \in DOMAIN outbox[q][d]}
             All == {Of(q, d) : q \in Purposes, d \in Charges}
  <2>1. <<p, c, n>> \in Of(p, c) /\ Ids = UNION All
    BY DEF Ids
  <2> HIDE DEF Of
  <2>2. Of(p, c) \in All
    OBVIOUS
  <2> HIDE DEF All
  <2> QED
    BY <2>1, <2>2
<1>3. At(<<p, c, n>>) = outbox[p][c][n]
  BY DEF At
<1> QED
  BY <1>1, <1>3

(* A message of the outbox has a type and is good.                          *)
LEMMA MessageIsGood ==
    ASSUME Box, NEW id \in Ids
    PROVE  At(id) \in Message /\ Good(id[1], At(id)) /\ id[1] \in Purposes
<1>1. PICK p \in Purposes, c \in Charges :
          \E n \in DOMAIN outbox[p][c] : id = <<p, c, n>> /\ At(id) = outbox[p][c][n]
  BY IdParts
<1>2. PICK n \in DOMAIN outbox[p][c] : id = <<p, c, n>> /\ At(id) = outbox[p][c][n]
  BY <1>1
<1>3. outbox[p][c] \in Seq(Message) /\ Good(p, outbox[p][c][n])
  BY DEF Box
<1>4. outbox[p][c][n] \in Message
  BY <1>3, ElementOfSeq
<1>5. id[1] = p
  BY <1>2
<1> QED
  BY <1>2, <1>3, <1>4, <1>5

-----------------------------------------------------------------------------
(* How the outbox changes *)

(* A message is posted: it is new, and the others stay.                     *)
LEMMA PostOne ==
    ASSUME Box, NEW p \in Purposes, NEW c \in Charges, NEW m \in Message, Good(p, m),
           outbox' = [outbox EXCEPT ![p][c] = Append(@, m)]
    PROVE  /\ Box'
           /\ \E k \in Nat : /\ k = Len(outbox'[p][c])
                             /\ <<p, c, k>> \notin Ids
                             /\ <<p, c, k>> \in Ids' /\ At(<<p, c, k>>)' = m
           /\ \A id \in Ids : id \in Ids' /\ At(id)' = At(id)
<1> DEFINE s == outbox[p][c]
<1>1. s \in Seq(Message) /\ outbox'[p][c] = Append(s, m)
  BY DEF Box
<1>2. /\ Append(s, m) \in Seq(Message) /\ Len(Append(s, m)) = Len(s) + 1
      /\ \A n \in 1 .. Len(s) : Append(s, m)[n] = s[n]
      /\ Append(s, m)[Len(s) + 1] = m
  BY <1>1, AppendProperties
<1>3. /\ DOMAIN s = 1 .. Len(s) /\ Len(s) \in Nat
      /\ DOMAIN Append(s, m) = 1 .. Len(s) + 1
  BY <1>1, <1>2, LenProperties
<1>4. \A q \in Purposes, d \in Charges : <<q, d>> # <<p, c>> => outbox'[q][d] = outbox[q][d]
  BY DEF Box
<1>5. \A q \in Purposes, d \in Charges : \A n \in DOMAIN outbox[q][d] :
          n \in DOMAIN outbox'[q][d] /\ outbox'[q][d][n] = outbox[q][d][n]
  BY <1>1, <1>2, <1>3, <1>4
<1>6. Box'
  <2>1. outbox' \in [Purposes -> [Charges -> Seq(Message)]]
    BY <1>1, <1>2 DEF Box
  <2>2. ASSUME NEW q \in Purposes, NEW d \in Charges, NEW n \in DOMAIN outbox'[q][d]
        PROVE  Good(q, outbox'[q][d][n])
    <3>1. CASE <<q, d>> = <<p, c>>
      BY <1>1, <1>2, <1>3, <2>2, <3>1 DEF Box
    <3>2. CASE <<q, d>> # <<p, c>>
      BY <1>4, <2>2, <3>2 DEF Box
    <3> QED
      BY <3>1, <3>2
  <2> QED
    BY <2>1, <2>2 DEF Box, Good
<1>7. PICK k \in Nat : k = Len(s) + 1
  BY <1>3
<1>8. k = Len(outbox'[p][c]) /\ k \in DOMAIN outbox'[p][c] /\ outbox'[p][c][k] = m
  BY <1>1, <1>2, <1>3, <1>7
<1>10. <<p, c, k>> \notin Ids
  <2> SUFFICES ASSUME <<p, c, k>> \in Ids PROVE FALSE
    OBVIOUS
  <2>1. PICK q \in Purposes, d \in Charges :
            \E n \in DOMAIN outbox[q][d] : <<p, c, k>> = <<q, d, n>>
    BY IdParts
  <2>2. k \in 1 .. Len(s)
    BY <1>3, <2>1
  <2> QED
    BY <1>3, <1>7, <2>2
<1>11. <<p, c, k>> \in Ids' /\ At(<<p, c, k>>)' = m
  <2> DEFINE Of(q, d) == {<<q, d, i>> : i \in DOMAIN outbox'[q][d]}
             All == {Of(q, d) : q \in Purposes, d \in Charges}
  <2>1. <<p, c, k>> \in Of(p, c) /\ Ids' = UNION All
    BY <1>8 DEF Ids
  <2>2. <<p, c, k>> \in Ids'
    <3> HIDE DEF Of
    <3>1. Of(p, c) \in All
      OBVIOUS
    <3> HIDE DEF All
    <3> QED
      BY <2>1, <3>1
  <2>3. At(<<p, c, k>>)' = outbox'[p][c][k]
    BY DEF At
  <2> QED
    BY <1>8, <2>2, <2>3
<1>9. ASSUME NEW id \in Ids PROVE id \in Ids' /\ At(id)' = At(id)
  <2>1. PICK q \in Purposes, d \in Charges :
            \E n \in DOMAIN outbox[q][d] : id = <<q, d, n>> /\ At(id) = outbox[q][d][n]
    BY <1>9, IdParts
  <2>2. PICK n \in DOMAIN outbox[q][d] : id = <<q, d, n>> /\ At(id) = outbox[q][d][n]
    BY <2>1
  <2>3. n \in DOMAIN outbox'[q][d] /\ outbox'[q][d][n] = outbox[q][d][n]
    BY <1>5
  <2> DEFINE Of(x, y) == {<<x, y, i>> : i \in DOMAIN outbox'[x][y]}
             All == {Of(x, y) : x \in Purposes, y \in Charges}
  <2>4. id \in Of(q, d) /\ Ids' = UNION All
    BY <2>2, <2>3 DEF Ids
  <2>5. id \in Ids'
    <3> HIDE DEF Of
    <3>1. Of(q, d) \in All
      OBVIOUS
    <3> HIDE DEF All
    <3> QED
      BY <2>4, <3>1
  <2>6. At(id)' = outbox'[q][d][n]
    BY <2>2 DEF At
  <2> QED
    BY <2>2, <2>3, <2>5, <2>6
<1> QED
  BY <1>6, <1>8, <1>9, <1>10, <1>11

(* A message changes, and the others stay.                                  *)
LEMMA ChangeOne ==
    ASSUME Box, NEW id \in Ids, NEW m \in Message, Good(id[1], m), outbox' = With(id, m)
    PROVE  /\ Box'
           /\ Ids' = Ids
           /\ At(id)' = m
           /\ \A j \in Ids \ {id} : At(j)' = At(j)
<1>1. PICK p \in Purposes, c \in Charges :
          \E n \in DOMAIN outbox[p][c] : id = <<p, c, n>> /\ At(id) = outbox[p][c][n]
  BY IdParts
<1>2. PICK k \in DOMAIN outbox[p][c] : id = <<p, c, k>>
  BY <1>1
<1>3. id[1] = p /\ id[2] = c /\ id[3] = k
  BY <1>2
<1> DEFINE s == outbox[p][c]
<1>4. outbox' = [outbox EXCEPT ![p][c][k] = m]
  BY <1>3 DEF With
<1>5. s \in Seq(Message) /\ outbox'[p][c] = [s EXCEPT ![k] = m]
  BY <1>4 DEF Box
<1>6. k \in 1 .. Len(s)
  BY <1>5, LenProperties
<1>7. /\ [s EXCEPT ![k] = m] \in Seq(Message) /\ Len([s EXCEPT ![k] = m]) = Len(s)
      /\ \A n \in 1 .. Len(s) : [s EXCEPT ![k] = m][n] = IF n = k THEN m ELSE s[n]
  BY <1>5, <1>6, ExceptSeq
<1>8. DOMAIN outbox'[p][c] = DOMAIN s /\ DOMAIN s = 1 .. Len(s)
  BY <1>5, <1>7, LenProperties
<1>9. \A q \in Purposes, d \in Charges : <<q, d>> # <<p, c>> => outbox'[q][d] = outbox[q][d]
  BY <1>4 DEF Box
<1>10. Box'
  <2>1. outbox' \in [Purposes -> [Charges -> Seq(Message)]]
    BY <1>4, <1>5, <1>7 DEF Box
  <2>2. ASSUME NEW q \in Purposes, NEW d \in Charges, NEW n \in DOMAIN outbox'[q][d]
        PROVE  Good(q, outbox'[q][d][n])
    <3>1. CASE <<q, d>> = <<p, c>>
      <4>1. q = p /\ d = c
        BY <3>1
      <4>2. n \in 1 .. Len(s) /\ n \in DOMAIN s
        BY <1>8, <2>2, <4>1
      <4>3. outbox'[q][d][n] = IF n = k THEN m ELSE s[n]
        BY <1>5, <1>7, <4>1, <4>2
      <4>4. Good(p, m) /\ Good(p, s[n])
        BY <1>3, <4>2 DEF Box
      <4> QED
        BY <4>1, <4>3, <4>4
    <3>2. CASE <<q, d>> # <<p, c>>
      BY <1>9, <2>2, <3>2 DEF Box
    <3> QED
      BY <3>1, <3>2
  <2> QED
    BY <2>1, <2>2 DEF Box, Good
<1>11. \A q \in Purposes, d \in Charges : DOMAIN outbox'[q][d] = DOMAIN outbox[q][d]
  BY <1>8, <1>9
<1>12. Ids' = Ids
  <2>1. \A q \in Purposes, d \in Charges :
            {<<q, d, n>> : n \in DOMAIN outbox'[q][d]} = {<<q, d, n>> : n \in DOMAIN outbox[q][d]}
    BY <1>11
  <2> QED
    BY <2>1 DEF Ids
<1>13. At(id)' = m
  <2>1. At(id)' = outbox'[p][c][k]
    BY <1>3 DEF At
  <2> QED
    BY <1>5, <1>6, <1>7, <2>1
<1>14. ASSUME NEW j \in Ids \ {id} PROVE At(j)' = At(j)
  <2>1. PICK q \in Purposes, d \in Charges :
            \E n \in DOMAIN outbox[q][d] : j = <<q, d, n>> /\ At(j) = outbox[q][d][n]
    BY <1>14, IdParts
  <2>2. PICK n \in DOMAIN outbox[q][d] : j = <<q, d, n>> /\ At(j) = outbox[q][d][n]
    BY <2>1
  <2>3. At(j)' = outbox'[q][d][n]
    BY <2>2 DEF At
  <2>4. CASE <<q, d>> = <<p, c>>
    <3>1. q = p /\ d = c
      BY <2>4
    <3>2. n # k /\ n \in 1 .. Len(s)
      BY <1>2, <1>8, <1>14, <2>2, <3>1
    <3> QED
      BY <1>5, <1>7, <2>2, <2>3, <3>1, <3>2
  <2>5. CASE <<q, d>> # <<p, c>>
    BY <1>9, <2>2, <2>3, <2>5
  <2> QED
    BY <2>4, <2>5
<1> QED
  BY <1>10, <1>12, <1>13, <1>14

-----------------------------------------------------------------------------
(* Where tasks are *)

LEMMA EmptyIsNoId == \A a, b, c : <<a, b, c>> # <<>>
OBVIOUS

LEMMA Values ==
    /\ {"absent", "adding", "lost", "waiting", "issue", "email", "whatsapp", "add", "remind",
        "overdue", "mark", "assign", "queue", "done", "gone"} \subseteq Places
    /\ {"none", "cobrador", "sentinela"} \subseteq Kinds
    /\ <<>> \in Slip /\ {} \in Selected
BY DEF Places, Kinds, Slip, Selected

LEMMA ShapeInit == Init => Shape
<1> SUFFICES ASSUME Init PROVE Shape
  OBVIOUS
<1>1. IdleRun \in Run
  BY Values DEF IdleRun, Run
<1> QED
  BY <1>1, CollectionsAssumption DEF Init, Shape, ChargeKnown, IdleRun

(* Nobody but t and its child moves, and t moves as it may.                 *)
LEMMA ShapeMoves ==
    ASSUME Shape, day' \in Nat, task' \in [Tasks -> Run],
           \A s \in Tasks : ChargeKnown(s)' \/ task'[s] = task[s]
    PROVE  Shape'
BY DEF Shape, ChargeKnown

(* t alone moves, to a place where it needs no charge or has one.           *)
LEMMA OneMoves ==
    ASSUME Shape, NEW t \in Tasks, NEW r \in Run, day' = day, task' = [task EXCEPT ![t] = r],
           \/ r.charge \in Charges
           \/ /\ r.kind # "cobrador"
              /\ r.pc \notin {"issue", "email", "whatsapp", "add", "remind", "assign"}
    PROVE  Shape'
<1>1. task'[t] = r /\ \A s \in Tasks \ {t} : task'[s] = task[s]
  BY DEF Shape
<1>2. task' \in [Tasks -> Run]
  BY DEF Shape
<1>3. ChargeKnown(t)'
  BY <1>1 DEF ChargeKnown
<1> QED
  BY <1>1, <1>2, <1>3, ShapeMoves DEF Shape

LEMMA ShapeAsk ==
    ASSUME Shape, NEW t \in Tasks
    PROVE  /\ AskSentinela(t) => Shape'
           /\ \A c \in Charges : AskCobrador(t, c) => Shape'
<1>1. ASSUME AskSentinela(t) PROVE Shape'
  BY <1>1, Values DEF AskSentinela, Shape, ChargeKnown, Run
<1>2. ASSUME NEW c \in Charges, AskCobrador(t, c) PROVE Shape'
  BY <1>2, Values DEF AskCobrador, Shape, ChargeKnown, Run
<1> QED
  BY <1>1, <1>2

LEMMA ShapeCobrador ==
    ASSUME Inv, NEW t \in Tasks,
           \/ CobradorRead(t) \/ CobradorIssue(t) \/ AddMessage(t)
           \/ ScheduleReminder(t) \/ CobradorEnd(t) \/ CobradorRefused(t)
    PROVE  Shape'
<1> USE Values DEF Inv
<1>1. CASE CobradorRead(t)
  BY <1>1 DEF CobradorRead, Shape, ChargeKnown, Run
<1>2. CASE CobradorIssue(t)
  <2>1. AfterIssue(task[t].charge) \in {"email", "whatsapp", "done"}
    BY DEF AfterIssue
  <2> QED
    BY <1>2, <2>1 DEF CobradorIssue, Shape, ChargeKnown, Run
<1>3. CASE AddMessage(t)
  <2>1. AfterPost(t) \in {"whatsapp", "done", "remind"}
    BY DEF AfterPost, AfterEmail
  <2> QED
    BY <1>3, <2>1 DEF AddMessage, Shape, ChargeKnown, Run
<1>4. CASE ScheduleReminder(t)
  <2> DEFINE r == [task[t] EXCEPT !.next = @ + 1]
  <2>1. task' = [task EXCEPT ![t] = r] /\ task[t] \in Run /\ task[t].charge \in Charges
    BY <1>4 DEF ScheduleReminder, Shape, ChargeKnown
  <2>2. task[t].next + 1 \in Nat \ {0}
    BY <2>1 DEF Run
  <2>3. r \in Run /\ r.charge = task[t].charge
    BY <2>1, <2>2 DEF Run
  <2> HIDE DEF r
  <2> QED
    BY <1>4, <2>1, <2>3, OneMoves DEF ScheduleReminder
<1>5. CASE CobradorEnd(t)
  <2> DEFINE w == [task[t] EXCEPT !.pc = "done"]
             r == [w EXCEPT !.next = 1]
  <2>1. task' = [task EXCEPT ![t] = r] /\ task[t] \in Run /\ task[t].charge \in Charges
    BY <1>5 DEF CobradorEnd, Shape, ChargeKnown
  <2>2. w \in Run /\ w.charge = task[t].charge
    BY <2>1 DEF Run
  <2>3. r \in Run /\ r.charge = w.charge
    <3> HIDE DEF w
    <3> QED
      BY <2>2 DEF Run
  <2> HIDE DEF r
  <2> QED
    BY <1>5, <2>1, <2>2, <2>3, OneMoves DEF CobradorEnd
<1>6. CASE CobradorRefused(t)
  <2>1. PICK pc \in {"done", "whatsapp", "remind"} : task' = [task EXCEPT ![t].pc = pc]
    BY <1>6 DEF CobradorRefused, AfterRefusal, AfterEmail, Recorded
  <2> QED
    BY <1>6, <2>1 DEF CobradorRefused, Recorded, Shape, ChargeKnown, Run
<1> QED
  BY <1>1, <1>2, <1>3, <1>4, <1>5, <1>6

LEMMA ShapeSentinela ==
    ASSUME Inv, NEW t \in Tasks,
           \/ SentinelaOpen(t) \/ SentinelaOverdue(t) \/ SentinelaMark(t)
           \/ SentinelaAssign(t) \/ SentinelaQueue(t) \/ SentinelaEnd(t)
    PROVE  Shape'
<1> USE Values DEF Inv
<1>1. CASE SentinelaOpen(t)
  <2> DEFINE rows == {<<c, "open">> : c \in {d \in Charges : Late(d, "open") /\ DueDay < day}}
             r == [task[t] EXCEPT !.pc = "overdue", !.rows = rows]
  <2>1. rows \in Selected
    BY DEF Selected
  <2>2. task' = [task EXCEPT ![t] = r] /\ task[t] \in Run /\ task[t].kind = "sentinela"
    BY <1>1 DEF SentinelaOpen, Shape
  <2> HIDE DEF rows
  <2>3. r \in Run /\ r.pc = "overdue" /\ r.kind = "sentinela"
    BY <2>1, <2>2 DEF Run
  <2> HIDE DEF r
  <2> QED
    BY <1>1, <2>2, <2>3, OneMoves DEF SentinelaOpen
<1>2. CASE SentinelaOverdue(t)
  <2>1. task[t].rows \in Selected
    BY DEF Shape, Run
  <2> DEFINE rows == task[t].rows \cup
                        {<<c, "overdue">> : c \in {d \in Charges :
                            Late(d, "overdue") /\ <<d, "open">> \notin task[t].rows}}
             r == [task[t] EXCEPT !.pc = "mark", !.rows = rows]
  <2>2. rows \in Selected
    <3>1. \A x \in task[t].rows : x \in Charges \X {"open", "overdue"}
      BY <2>1 DEF Selected
    <3>2. \A c \in Charges : <<c, "overdue">> \in Charges \X {"open", "overdue"}
      OBVIOUS
    <3>3. \A x \in rows : x \in Charges \X {"open", "overdue"}
      BY <3>1, <3>2
    <3> QED
      BY <3>3 DEF Selected
  <2>3. task' = [task EXCEPT ![t] = r] /\ task[t] \in Run
    BY <1>2 DEF SentinelaOverdue, Shape
  <2> HIDE DEF rows
  <2>4. r \in Run /\ r.pc = "mark" /\ r.kind = task[t].kind /\ r.charge = task[t].charge
    BY <2>2, <2>3 DEF Run
  <2>5. r.kind # "cobrador" \/ r.charge \in Charges
    BY <2>4 DEF Shape, ChargeKnown
  <2> HIDE DEF r
  <2> QED
    BY <1>2, <2>3, <2>4, <2>5, OneMoves DEF SentinelaOverdue
<1>3. CASE SentinelaMark(t)
  <2>1. PICK row \in task[t].rows :
            task' = [task EXCEPT ![t].pc = "assign", ![t].charge = row[1],
                                 ![t].rows = @ \ {row}]
    BY <1>3 DEF SentinelaMark
  <2>2. row[1] \in Charges
    BY <2>1 DEF Shape, Run, Selected
  <2>3. task[t].rows \ {row} \in Selected
    BY DEF Shape, Run, Selected
  <2> DEFINE rest == task[t].rows \ {row}
             w == [task[t] EXCEPT !.pc = "assign", !.rows = rest]
             r == [w EXCEPT !.charge = row[1]]
  <2>4. w \in Run
    BY <2>3 DEF Run, Shape
  <2>5. r \in Run /\ r.charge = row[1]
    <3> HIDE DEF w
    <3> QED
      BY <2>2, <2>4 DEF Run
  <2>6. task' = [task EXCEPT ![t] = r]
    BY <2>1 DEF Shape, Run
  <2> HIDE DEF r
  <2> QED
    BY <1>3, <2>2, <2>5, <2>6, OneMoves DEF SentinelaMark
<1>4. CASE SentinelaAssign(t)
  <2>1. PICK child \in Tasks :
            /\ task[child].pc = "absent"
            /\ task' = [task EXCEPT ![t].pc = "queue", ![t].child = child,
                                    ![child].kind = "cobrador", ![child].charge = task[t].charge,
                                    ![child].pc = "adding"]
    BY <1>4 DEF SentinelaAssign
  <2>2. child # t /\ task[t].charge \in Charges
    BY <1>4, <2>1 DEF SentinelaAssign, Shape, ChargeKnown
  <2>3. /\ task'[t] = [task[t] EXCEPT !.pc = "queue", !.child = child]
        /\ task'[child] = [task[child] EXCEPT !.kind = "cobrador", !.charge = task[t].charge,
                                              !.pc = "adding"]
        /\ \A s \in Tasks \ {t, child} : task'[s] = task[s]
    BY <2>1, <2>2 DEF Shape, Run
  <2>4. task'[t] \in Run /\ ChargeKnown(t)'
    <3>1. child \in Tasks \cup {None} /\ task[t] \in Run
      BY DEF Shape
    <3>2. task'[t] \in Run
      BY <2>3, <3>1 DEF Run
    <3>3. task'[t].charge = task[t].charge
      BY <2>3, <3>1 DEF Run
    <3> QED
      BY <2>2, <3>2, <3>3 DEF ChargeKnown
  <2>5. task'[child] \in Run /\ ChargeKnown(child)'
    <3> DEFINE r == [[task[child] EXCEPT !.kind = "cobrador"] EXCEPT !.charge = task[t].charge]
    <3>1. task[child] \in Run /\ task[t].charge \in Charges \cup {None}
      BY <2>2 DEF Shape
    <3>2. r \in Run /\ r.charge = task[t].charge
      BY <3>1 DEF Run
    <3>3. task'[child] = [r EXCEPT !.pc = "adding"]
      BY <2>3
    <3> HIDE DEF r
    <3>4. task'[child] \in Run /\ task'[child].charge = r.charge
      BY <3>2, <3>3 DEF Run
    <3> QED
      BY <2>2, <3>2, <3>4 DEF ChargeKnown
  <2>6. task' \in [Tasks -> Run]
    BY <2>1, <2>3, <2>4, <2>5 DEF Shape
  <2> QED
    BY <1>4, <2>3, <2>4, <2>5, <2>6, ShapeMoves DEF SentinelaAssign, Shape
<1>5. CASE SentinelaQueue(t)
  <2> DEFINE child == task[t].child
  <2>1. PICK pc \in {"waiting", "lost"}, rows \in {task[t].rows, {}}, own \in {"mark", "done"} :
            task' = [task EXCEPT ![t].pc = own, ![t].child = None, ![t].rows = rows,
                                 ![child].pc = pc]
    <3>1. CASE task' = [task EXCEPT ![t].pc = "mark", ![t].child = None, ![child].pc = "waiting"]
      <4>1. task' = [task EXCEPT ![t].pc = "mark", ![t].child = None,
                                 ![t].rows = task[t].rows, ![child].pc = "waiting"]
        BY <3>1 DEF Shape, Run
      <4> QED
        BY <4>1
    <3>2. CASE task' = [task EXCEPT ![t].pc = "done", ![t].child = None, ![t].rows = {},
                                    ![child].pc = "lost"]
      BY <3>2
    <3> QED
      BY <1>5, <3>1, <3>2 DEF SentinelaQueue
  <2>2. ASSUME NEW s \in Tasks PROVE task'[s] \in Run /\ ChargeKnown(s)'
    BY <2>1, <2>2 DEF Shape, Run, ChargeKnown
  <2>3. task' \in [Tasks -> Run]
    BY <2>1, <2>2 DEF Shape
  <2> QED
    BY <1>5, <2>2, <2>3 DEF SentinelaQueue, Shape
<1>6. CASE SentinelaEnd(t)
  BY <1>6 DEF SentinelaEnd, Shape, ChargeKnown, Run
<1> QED
  BY <1>1, <1>2, <1>3, <1>4, <1>5, <1>6

LEMMA ShapeCrash ==
    ASSUME Inv, NEW t \in Tasks, Crash(t)
    PROVE  Shape' /\ \A s \in Tasks : task'[s].pc # "add" \/ task'[s] = task[s]
<1> USE Values DEF Inv
<1> DEFINE run == task[t]
           again == [IdleRun EXCEPT !.kind = run.kind, !.stalls = run.stalls,
                                    !.charge = IF run.kind = "cobrador" THEN run.charge ELSE None]
<1>1. run \in Run /\ (run.kind = "cobrador" => run.charge \in Charges)
  BY DEF Shape, ChargeKnown
<1>2. again \in Run /\ again.pc = "absent" /\ again.kind = run.kind
      /\ (again.kind = "cobrador" => again.charge \in Charges)
  <2> DEFINE r == [[IdleRun EXCEPT !.kind = run.kind] EXCEPT !.stalls = run.stalls]
             c == IF run.kind = "cobrador" THEN run.charge ELSE None
  <2>1. IdleRun \in Run /\ IdleRun.pc = "absent"
    BY DEF Run, IdleRun
  <2>2. run.kind \in Kinds /\ run.stalls \in Nat /\ c \in Charges \cup {None}
    BY <1>1 DEF Run
  <2>3. r \in Run /\ r.pc = "absent" /\ r.kind = run.kind
    BY <2>1, <2>2 DEF Run
  <2>4. again = [r EXCEPT !.charge = c]
    OBVIOUS
  <2>5. c \in Charges \/ run.kind # "cobrador"
    BY <1>1
  <2> HIDE DEF r, c, again
  <2> QED
    BY <2>2, <2>3, <2>4, <2>5 DEF Run
<1> HIDE DEF again
<1>3. /\ task' = [s \in Tasks |-> task'[s]]
      /\ \A s \in Tasks :
            \/ s = t /\ task'[s] = [again EXCEPT !.pc = "waiting", !.stalls = @ + 1]
            \/ s = t /\ task'[s] = [again EXCEPT !.pc = "gone"]
            \/ task'[s] = [task[s] EXCEPT !.pc = "lost"]
            \/ task'[s] = task[s]
  BY DEF Crash, again
<1>4. ASSUME NEW s \in Tasks
      PROVE  /\ task'[s] \in Run /\ ChargeKnown(s)'
             /\ task'[s].pc # "add" \/ task'[s] = task[s]
  <2>1. CASE s = t /\ task'[s] = [again EXCEPT !.pc = "waiting", !.stalls = @ + 1]
    <3> DEFINE r == [again EXCEPT !.pc = "waiting"]
    <3>1. r \in Run /\ r.charge = again.charge /\ r.kind = again.kind /\ r.pc = "waiting"
      BY <1>2 DEF Run
    <3>2. task'[s] = [r EXCEPT !.stalls = again.stalls + 1]
      BY <2>1
    <3>3. again.stalls + 1 \in Nat
      BY <1>2 DEF Run
    <3> HIDE DEF r
    <3>4. /\ task'[s] \in Run /\ task'[s].charge = r.charge /\ task'[s].kind = r.kind
          /\ task'[s].pc = r.pc
      BY <3>1, <3>2, <3>3 DEF Run
    <3> QED
      BY <1>2, <3>1, <3>4 DEF ChargeKnown
  <2>2. CASE s = t /\ task'[s] = [again EXCEPT !.pc = "gone"]
    BY <1>2, <2>2 DEF Run, ChargeKnown
  <2>3. CASE task'[s] = [task[s] EXCEPT !.pc = "lost"]
    BY <2>3 DEF Shape, Run, ChargeKnown
  <2>4. CASE task'[s] = task[s]
    BY <2>4 DEF Shape, ChargeKnown
  <2> QED
    BY <1>3, <2>1, <2>2, <2>3, <2>4
<1>5. task' \in [Tasks -> Run]
  BY <1>3, <1>4
<1>6. Shape'
  BY <1>4, <1>5 DEF Crash, Shape
<1> QED
  BY <1>4, <1>6

-----------------------------------------------------------------------------
(* Who holds which message *)

LEMMA HeldInit == Init => Held
<1> SUFFICES ASSUME Init PROVE Held
  OBVIOUS
<1>1. \A t \in Tasks : task[t].pc = "absent" /\ task[t].msg = <<>>
  BY DEF Init, IdleRun
<1> QED
  BY <1>1 DEF Held

LEMMA BoxInit == Init => Box
<1> SUFFICES ASSUME Init PROVE Box
  OBVIOUS
<1>1. /\ outbox \in [Purposes -> [Charges -> Seq(Message)]]
      /\ \A p \in Purposes, c \in Charges : outbox[p][c] = <<>>
  BY EmptySeq DEF Init
<1>2. DOMAIN <<>> = {}
  BY EmptySeq, LenProperties
<1> QED
  BY <1>1, <1>2 DEF Box

(* Tasks keep the messages they hold and none goes to add one; messages     *)
(* that are being added go on being added.                                  *)
TasksKeep ==
    \A t \in Tasks :
        /\ task'[t].msg = task[t].msg
        /\ task'[t].pc = "add" => task[t].pc = "add"

AddingStays ==
    \A id \in Ids : id \in Ids' /\ (At(id).state = "adding" => At(id)'.state = "adding")

LEMMA HeldStays ==
    ASSUME Held, TasksKeep, AddingStays
    PROVE  Held'
<1>1. ASSUME NEW t \in Tasks, task'[t].msg # <<>>
      PROVE  task'[t].msg \in Ids' /\ At(task[t].msg)'.state = "adding"
  <2>1. PICK id : id = task[t].msg /\ id = task'[t].msg
    BY DEF TasksKeep
  <2>2. id \in Ids /\ At(id).state = "adding"
    BY <1>1, <2>1 DEF Held
  <2>3. id \in Ids' /\ At(id)'.state = "adding"
    BY <2>2 DEF AddingStays
  <2>4. At(task[t].msg)' = At(id)'
    BY <2>1 DEF At
  <2> QED
    BY <2>1, <2>3, <2>4
<1> QED
  BY <1>1 DEF Held, TasksKeep

LEMMA SameBox ==
    ASSUME Box, outbox' = outbox
    PROVE  Box' /\ AddingStays
<1>1. Box' /\ Ids' = Ids
  BY DEF Box, Ids, Good
<1>2. \A id \in Ids : At(id)' = At(id)
  BY DEF At
<1> QED
  BY <1>1, <1>2 DEF AddingStays

(* A message that nobody is adding changes.                                 *)
LEMMA ChangeKeeps ==
    ASSUME Box, NEW id \in Ids, NEW m \in Message, Good(id[1], m), outbox' = With(id, m),
           At(id).state # "adding"
    PROVE  Box' /\ AddingStays
<1>1. Box' /\ Ids' = Ids /\ \A j \in Ids \ {id} : At(j)' = At(j)
  BY ChangeOne
<1> QED
  BY <1>1 DEF AddingStays

(* t lets go of its message, whatever becomes of it.                        *)
LEMMA HeldReleased ==
    ASSUME Held, NEW t \in Tasks, task'[t].msg = <<>>, task'[t].pc # "add",
           \A s \in Tasks \ {t} : /\ task'[s].msg = task[s].msg
                                  /\ task'[s].pc = "add" => task[s].pc = "add",
           \A id \in Ids : id # task[t].msg =>
               id \in Ids' /\ (At(id).state = "adding" => At(id)'.state = "adding")
    PROVE  Held'
<1>1. ASSUME NEW s \in Tasks, task'[s].msg # <<>>
      PROVE  task'[s].msg \in Ids' /\ At(task[s].msg)'.state = "adding"
  <2>1. s # t
    BY <1>1
  <2>2. PICK id : id = task[s].msg /\ id = task'[s].msg
    BY <2>1
  <2>3. id \in Ids /\ At(id).state = "adding" /\ id # task[t].msg
    BY <1>1, <2>1, <2>2 DEF Held
  <2>4. id \in Ids' /\ At(id)'.state = "adding"
    BY <2>3
  <2>5. At(task[s].msg)' = At(id)'
    BY <2>2 DEF At
  <2> QED
    BY <2>2, <2>4, <2>5
<1> QED
  BY <1>1 DEF Held

-----------------------------------------------------------------------------
(* The message worker *)

LEMMA RenderFailsStep ==
    ASSUME Inv, NEW id \in Ids, RenderFails(id)
    PROVE  Box' /\ AddingStays
<1> DEFINE m == [At(id) EXCEPT !.state = "failed"]
<1>1. At(id) \in Message /\ Good(id[1], At(id)) /\ id[1] \in Purposes
  BY MessageIsGood DEF Inv
<1>2. id[1] = "reminder" /\ At(id).state = "waiting"
  BY <1>1 DEF RenderFails, Rendered, MayRun, Template, Templates
<1>3. m \in Message /\ Good(id[1], m)
  BY <1>1, <1>2 DEF Message, Good
<1> QED
  BY <1>2, <1>3, ChangeKeeps DEF Inv, RenderFails

LEMMA SendStep ==
    ASSUME Inv, NEW id \in Ids, Send(id)
    PROVE  Box' /\ AddingStays
<1>1. At(id) \in Message /\ Good(id[1], At(id)) /\ At(id).state = "waiting"
  BY MessageIsGood DEF Inv, Send, MayRun
<1>2. PICK answer \in {"sent", "refused"}, taken \in {0, 1} :
          outbox' = With(id, [At(id) EXCEPT !.state = answer, !.sends = @ + taken,
                                            !.misled = @ \/ (answer = "sent") # (taken = 1)])
  BY DEF Send
<1> DEFINE sends == At(id).sends + taken
           misled == At(id).misled \/ (answer = "sent") # (taken = 1)
           m == [At(id) EXCEPT !.state = answer, !.sends = sends, !.misled = misled]
<1>3. outbox' = With(id, m)
  BY <1>2
<1>4. At(id).sends \in Nat /\ At(id).stalls \in Nat /\ sends \in Nat /\ misled \in BOOLEAN
  BY <1>1 DEF Message
<1>5. /\ At(id).state # "adding"
      /\ At(id).sends <= At(id).stalls /\ At(id).stalls <= MaxStalled
      /\ At(id).row \in {"sent", "failed"} => At(id).stalls > 0
      /\ id[1] = "reminder" => At(id).row = "none"
  BY <1>1, <1>4 DEF Good
<1>6. sends <= At(id).stalls + 1 /\ sends >= At(id).sends
  BY <1>4, <1>5
<1>7. answer = "sent" => sends > 0 \/ misled
  <2>1. CASE taken = 1
    BY <1>4, <2>1
  <2>2. CASE taken = 0
    BY <2>2
  <2> QED
    BY <2>1, <2>2
<1>8. answer = "refused" => sends = 0 \/ misled \/ At(id).stalls > 0
  <2>1. CASE taken = 1
    BY <2>1
  <2>2. CASE taken = 0
    BY <1>4, <1>5, <2>2
  <2> QED
    BY <2>1, <2>2
<1>9. At(id).row = "sent" => sends > 0 \/ misled
  <2>1. At(id).row = "sent" => At(id).sends > 0 \/ At(id).misled
    BY <1>1 DEF Good
  <2> QED
    BY <1>4, <1>6, <2>1
<1> HIDE DEF sends, misled
<1>10. m \in Message
  BY <1>1, <1>4 DEF Message
<1>11. /\ m.state = answer /\ m.row = At(id).row /\ m.stalls = At(id).stalls
       /\ m.sends = sends /\ m.misled = misled
  BY <1>1 DEF Message
<1> HIDE DEF m
<1>12. Good(id[1], m)
  BY <1>5, <1>6, <1>7, <1>8, <1>9, <1>11 DEF Good
<1> QED
  BY <1>3, <1>5, <1>10, <1>12, ChangeKeeps DEF Inv

LEMMA StoreStep ==
    ASSUME Inv, NEW id \in Ids, StoreMessage(id)
    PROVE  Box' /\ AddingStays
<1>1. At(id) \in Message /\ Good(id[1], At(id)) /\ At(id).state \in {"sent", "refused"}
  BY MessageIsGood DEF Inv, StoreMessage
<1>2. CASE outbox' = With(id, [At(id) EXCEPT !.state = "stored", !.row = Outcome(At(id))])
  <2> DEFINE out == Outcome(At(id))
             m == [At(id) EXCEPT !.state = "stored", !.row = out]
  <2>1. /\ out \in {"none", "sent", "failed"}
        /\ out = "sent" => At(id).state = "sent"
        /\ out = "failed" => At(id).state = "refused"
        /\ At(id).row = "none" => out = "none"
    BY <1>1 DEF Outcome
  <2>2. outbox' = With(id, m)
    BY <1>2
  <2> HIDE DEF out
  <2>3. m \in Message
    BY <1>1, <2>1 DEF Message
  <2>4. /\ m.state = "stored" /\ m.row = out /\ m.stalls = At(id).stalls
        /\ m.sends = At(id).sends /\ m.misled = At(id).misled
    BY <1>1 DEF Message
  <2> HIDE DEF m
  <2>5. Good(id[1], m)
    BY <1>1, <2>1, <2>4 DEF Good
  <2> QED
    BY <1>1, <2>2, <2>3, <2>5, ChangeKeeps DEF Inv
<1>3. CASE outbox' = With(id, [At(id) EXCEPT !.state = "failed"])
  <2> DEFINE m == [At(id) EXCEPT !.state = "failed"]
  <2>1. /\ m \in Message /\ m.state = "failed" /\ m.row = At(id).row /\ m.stalls = At(id).stalls
        /\ m.sends = At(id).sends /\ m.misled = At(id).misled
    BY <1>1 DEF Message
  <2>2. outbox' = With(id, m)
    BY <1>3
  <2> HIDE DEF m
  <2>3. Good(id[1], m)
    BY <1>1, <2>1 DEF Good
  <2> QED
    BY <1>1, <2>1, <2>2, <2>3, ChangeKeeps DEF Inv
<1> QED
  BY <1>2, <1>3 DEF StoreMessage

LEMMA CompleteStep ==
    ASSUME Inv, NEW id \in Ids, CompleteMessage(id)
    PROVE  Box' /\ AddingStays
<1>1. At(id) \in Message /\ Good(id[1], At(id)) /\ At(id).state = "stored"
  BY MessageIsGood DEF Inv, CompleteMessage
<1> DEFINE m == [At(id) EXCEPT !.state = "done"]
<1>2. /\ m \in Message /\ m.state = "done" /\ m.row = At(id).row /\ m.stalls = At(id).stalls
      /\ m.sends = At(id).sends /\ m.misled = At(id).misled
  BY <1>1 DEF Message
<1>3. outbox' = With(id, m)
  BY DEF CompleteMessage
<1> HIDE DEF m
<1>4. Good(id[1], m)
  BY <1>1, <1>2 DEF Good
<1> QED
  BY <1>1, <1>2, <1>3, <1>4, ChangeKeeps DEF Inv

LEMMA MessageCrashStep ==
    ASSUME Inv, NEW id \in Ids, MessageCrash(id)
    PROVE  Box' /\ AddingStays
<1>1. /\ At(id) \in Message /\ Good(id[1], At(id))
      /\ At(id).state \in {"waiting", "sent", "refused", "stored"}
  BY MessageIsGood DEF Inv, MessageCrash, MayRun
<1>2. At(id).sends \in Nat /\ At(id).stalls \in Nat /\ MaxStalled \in Nat
  BY <1>1, CollectionsAssumption DEF Message
<1>3. CASE At(id).stalls < MaxStalled
  <2> DEFINE stalls == At(id).stalls + 1
             m == [At(id) EXCEPT !.state = "waiting", !.stalls = stalls]
  <2>1. outbox' = With(id, m)
    BY <1>3 DEF MessageCrash
  <2>2. stalls \in Nat /\ stalls > 0 /\ stalls <= MaxStalled /\ At(id).sends <= stalls
    BY <1>1, <1>2, <1>3 DEF Good
  <2> HIDE DEF stalls
  <2>3. m \in Message
    BY <1>1, <2>2 DEF Message
  <2>4. /\ m.state = "waiting" /\ m.row = At(id).row /\ m.stalls = stalls
        /\ m.sends = At(id).sends /\ m.misled = At(id).misled
    BY <1>1 DEF Message
  <2> HIDE DEF m
  <2>5. Good(id[1], m)
    BY <1>1, <1>2, <2>2, <2>4 DEF Good
  <2> QED
    BY <1>1, <2>1, <2>3, <2>5, ChangeKeeps DEF Inv
<1>4. CASE ~(At(id).stalls < MaxStalled)
  <2> DEFINE m == [At(id) EXCEPT !.state = "given_up"]
  <2>1. /\ m \in Message /\ m.state = "given_up" /\ m.row = At(id).row
        /\ m.stalls = At(id).stalls /\ m.sends = At(id).sends /\ m.misled = At(id).misled
    BY <1>1 DEF Message
  <2>2. outbox' = With(id, m)
    BY <1>4 DEF MessageCrash
  <2> HIDE DEF m
  <2>3. Good(id[1], m)
    BY <1>1, <1>2, <1>4, <2>1 DEF Good
  <2> QED
    BY <1>1, <2>1, <2>2, <2>3, ChangeKeeps DEF Inv
<1> QED
  BY <1>3, <1>4

-----------------------------------------------------------------------------
(* Those who post *)

(* A new message of which nobody is told.                                   *)
LEMMA PostKeeps ==
    ASSUME Inv, NEW p \in Purposes, NEW c \in Charges, NEW ready \in Int,
           outbox' = Posted(p, c, ready, "waiting")
    PROVE  Box' /\ AddingStays
<1> DEFINE row == IF p \in Recorded THEN "queued" ELSE "none"
           m == [ready |-> ready, state |-> "waiting", sends |-> 0, misled |-> FALSE,
                 stalls |-> 0, row |-> row]
<1>1. m \in Message
  BY DEF Message
<1>2. Good(p, m)
  BY CollectionsAssumption DEF Good, Recorded
<1>3. outbox' = [outbox EXCEPT ![p][c] = Append(@, m)]
  BY DEF Posted
<1> HIDE DEF m
<1>4. Box' /\ \A id \in Ids : id \in Ids' /\ At(id)' = At(id)
  BY <1>1, <1>2, <1>3, PostOne DEF Inv
<1> QED
  BY <1>4 DEF AddingStays

LEMMA ScheduleStep ==
    ASSUME Inv, NEW t \in Tasks, ScheduleReminder(t)
    PROVE  Box' /\ AddingStays /\ TasksKeep
<1> DEFINE ready == DueDay + Offsets[task[t].next]
<1>1. ready \in Int
  <2>1. task[t].next \in 1 .. Len(Offsets)
    BY CollectionsAssumption, LenProperties DEF ScheduleReminder, RemindersLeft, Inv, Shape, Run
  <2>2. Offsets[task[t].next] \in Int
    BY <2>1, CollectionsAssumption, ElementOfSeq, LenProperties
  <2> QED
    BY <2>2, CollectionsAssumption
<1>2. task[t].charge \in Charges /\ "reminder" \in Purposes
  BY DEF ScheduleReminder, Inv, Shape, ChargeKnown, Purposes
<1>3. outbox' = Posted("reminder", task[t].charge, ready, "waiting") \/ outbox' = outbox
  BY DEF ScheduleReminder
<1> HIDE DEF ready
<1>4. Box' /\ AddingStays
  <2>1. PICK c \in Charges : c = task[t].charge
    BY <1>2
  <2> QED
    BY <1>1, <1>2, <1>3, <2>1, PostKeeps, SameBox DEF Inv
<1>5. TasksKeep
  BY DEF ScheduleReminder, TasksKeep, Inv, Shape, Run
<1> QED
  BY <1>4, <1>5

LEMMA UpcomingStep ==
    ASSUME Inv, NEW c \in Charges, UpcomingSend(c)
    PROVE  Box' /\ AddingStays
<1>1. outbox' = Posted("upcoming", c, day, "waiting") \/ outbox' = outbox
  BY DEF UpcomingSend
<1>2. "upcoming" \in Purposes /\ day \in Int
  BY DEF Purposes, Inv, Shape
<1> QED
  BY <1>1, <1>2, PostKeeps, SameBox DEF Inv

(* sendMessage: the poster, and nobody else, holds the new message.         *)
LEMMA PostStep ==
    ASSUME Inv, NEW t \in Tasks, PostMessage(t)
    PROVE  Inv'
<1> DEFINE m == [ready |-> day, state |-> "adding", sends |-> 0, misled |-> FALSE,
                 stalls |-> 0, row |-> "queued"]
<1>1. PICK p \in Recorded, c \in Charges : p = task[t].pc /\ c = task[t].charge
  BY DEF PostMessage, Recorded, Inv, Shape, ChargeKnown
<1>2. p \in Purposes /\ p # "reminder" /\ day \in Nat
  BY DEF Recorded, Purposes, Inv, Shape
<1>3. m \in Message
  BY <1>2 DEF Message
<1>4. Good(p, m)
  BY <1>2, CollectionsAssumption DEF Good
<1>5. outbox' = [outbox EXCEPT ![p][c] = Append(@, m)]
  BY <1>1 DEF PostMessage, Posted
<1> HIDE DEF m
<1>6. /\ Box'
      /\ \E k \in Nat : /\ k = Len(outbox'[p][c])
                        /\ <<p, c, k>> \notin Ids
                        /\ <<p, c, k>> \in Ids' /\ At(<<p, c, k>>)' = m
      /\ \A id \in Ids : id \in Ids' /\ At(id)' = At(id)
  BY <1>2, <1>3, <1>4, <1>5, PostOne DEF Inv
<1>7. PICK k \in Nat : /\ k = Len(outbox'[p][c])
                       /\ <<p, c, k>> \notin Ids
                       /\ <<p, c, k>> \in Ids' /\ At(<<p, c, k>>)' = m
  BY <1>6
<1>8. PICK new : new = <<p, c, k>>
  OBVIOUS
<1>9. new # <<>> /\ new \in Slip
  <2>1. new \in Id
    BY <1>2, <1>8 DEF Id
  <2> QED
    BY <1>8, <2>1, EmptyIsNoId DEF Slip
<1>10. new \notin Ids /\ new \in Ids' /\ At(new)'.state = "adding"
  BY <1>7, <1>8 DEF m
<1>11. task' = [task EXCEPT ![t].pc = "add", ![t].msg = new]
  BY <1>1, <1>7, <1>8 DEF PostMessage
<1> DEFINE r == [task[t] EXCEPT !.pc = "add", !.msg = new]
<1>12. task' = [task EXCEPT ![t] = r]
  BY <1>11
<1>13. task[t] \in Run /\ "add" \in Places
  BY Values DEF Inv, Shape
<1>14. r \in Run /\ r.pc = "add" /\ r.msg = new /\ r.charge = task[t].charge
  BY <1>9, <1>13 DEF Run
<1> HIDE DEF r
<1>15. task'[t] = r /\ \A s \in Tasks \ {t} : task'[s] = task[s]
  BY <1>12 DEF Inv, Shape
<1>16. Shape'
  BY <1>1, <1>12, <1>14, OneMoves DEF Inv, PostMessage
<1>17. Held'
  <2>1. ASSUME NEW s \in Tasks, task'[s].msg # <<>>
        PROVE  task'[s].msg \in Ids' /\ At(task[s].msg)'.state = "adding"
    <3>1. CASE s = t
      <4>1. At(task[s].msg)' = At(new)'
        BY <1>14, <1>15, <3>1 DEF At
      <4> QED
        BY <1>10, <1>14, <1>15, <3>1, <4>1
    <3>2. CASE s # t
      <4>1. PICK id : id = task[s].msg /\ id = task'[s].msg
        BY <1>15, <3>2
      <4>2. id \in Ids /\ At(id).state = "adding"
        BY <2>1, <4>1 DEF Inv, Held
      <4>3. id \in Ids' /\ At(id)'.state = "adding"
        BY <1>6, <4>2
      <4>4. At(task[s].msg)' = At(id)'
        BY <4>1 DEF At
      <4> QED
        BY <4>1, <4>3, <4>4
    <3> QED
      BY <3>1, <3>2
  <2>2. ASSUME NEW s \in Tasks, task'[s].pc = "add"
        PROVE  task'[s].msg # <<>>
    BY <1>9, <1>14, <1>15, <2>2 DEF Inv, Held
  <2>3. \A s \in Tasks : task[s].msg # new
    BY <1>9, <1>10 DEF Inv, Held
  <2>4. ASSUME NEW s \in Tasks, NEW u \in Tasks,
               task'[s].msg # <<>>, task'[s].msg = task'[u].msg
        PROVE  s = u
    BY <1>14, <1>15, <2>3, <2>4 DEF Inv, Held
  <2> QED
    BY <2>1, <2>2, <2>4 DEF Held
<1> QED
  BY <1>6, <1>16, <1>17 DEF Inv

(* The message is queued or lost, and its poster lets go of it.             *)
LEMMA AddStep ==
    ASSUME Inv, NEW t \in Tasks, AddMessage(t)
    PROVE  Inv'
<1>1. PICK id \in Ids : id = task[t].msg /\ At(id).state = "adding"
  BY DEF AddMessage, Inv, Held
<1>2. PICK state \in {"waiting", "lost"} : outbox' = With(id, [At(id) EXCEPT !.state = state])
  BY <1>1 DEF AddMessage
<1> DEFINE m == [At(id) EXCEPT !.state = state]
<1>3. At(id) \in Message /\ Good(id[1], At(id))
  BY MessageIsGood DEF Inv
<1>4. m \in Message /\ Good(id[1], m)
  BY <1>1, <1>3 DEF Message, Good
<1>5. Box' /\ Ids' = Ids /\ \A j \in Ids \ {id} : At(j)' = At(j)
  <2> HIDE DEF m
  <2> QED
    BY <1>2, <1>4, ChangeOne DEF Inv, m
<1>6. task'[t].msg = <<>> /\ task'[t].pc # "add" /\ \A s \in Tasks \ {t} : task'[s] = task[s]
  <2>1. AfterPost(t) # "add"
    BY DEF AfterPost, AfterEmail
  <2> QED
    BY <2>1 DEF AddMessage, Inv, Shape, Run
<1>7. Held'
  BY <1>1, <1>5, <1>6, HeldReleased DEF Inv
<1> QED
  BY <1>5, <1>7, ShapeCobrador DEF Inv

(* So does one whose worker dies; the job will never be added.              *)
LEMMA CrashStep ==
    ASSUME Inv, NEW t \in Tasks, Crash(t)
    PROVE  Inv'
<1>1. Shape' /\ \A s \in Tasks : task'[s].pc # "add" \/ task'[s] = task[s]
  BY ShapeCrash
<1>2. /\ task'[t].msg = <<>> /\ task'[t].pc # "add"
      /\ \A s \in Tasks \ {t} : task'[s].msg = task[s].msg
  <2> DEFINE again == [IdleRun EXCEPT !.kind = task[t].kind, !.stalls = task[t].stalls,
                           !.charge = IF task[t].kind = "cobrador" THEN task[t].charge ELSE None]
  <2>1. again.msg = <<>>
    BY DEF IdleRun
  <2>2. [again EXCEPT !.pc = "gone"].msg = <<>> /\ [again EXCEPT !.pc = "gone"].pc = "gone"
    BY DEF IdleRun
  <2>3. /\ [again EXCEPT !.pc = "waiting", !.stalls = @ + 1].msg = <<>>
        /\ [again EXCEPT !.pc = "waiting", !.stalls = @ + 1].pc = "waiting"
    BY DEF IdleRun
  <2> HIDE DEF again
  <2>4. \/ task'[t] = [again EXCEPT !.pc = "waiting", !.stalls = @ + 1]
        \/ task'[t] = [again EXCEPT !.pc = "gone"]
    <3>1. task[t].stalls < MaxStalled \/ task[t].stalls >= MaxStalled
      BY CollectionsAssumption DEF Inv, Shape, Run
    <3> QED
      BY <3>1 DEF Crash, again
  <2>5. \A s \in Tasks \ {t} : task'[s] = [task[s] EXCEPT !.pc = "lost"] \/ task'[s] = task[s]
    BY DEF Crash
  <2>6. ASSUME NEW s \in Tasks \ {t} PROVE task'[s].msg = task[s].msg
    BY <2>5 DEF Inv, Shape, Run
  <2> QED
    BY <2>2, <2>3, <2>4, <2>6
<1>3. CASE outbox' = outbox
  <2>1. Box' /\ AddingStays
    BY <1>3, SameBox DEF Inv
  <2>2. Held'
    BY <1>1, <1>2, <2>1, HeldReleased DEF Inv, AddingStays
  <2> QED
    BY <1>1, <2>1, <2>2 DEF Inv
<1>4. CASE outbox' # outbox
  <2>1. PICK id \in Ids : id = task[t].msg /\ At(id).state = "adding"
    BY <1>4 DEF Crash, Inv, Held
  <2> DEFINE m == [At(id) EXCEPT !.state = "lost"]
  <2>2. outbox' = With(id, m)
    BY <1>4, <2>1 DEF Crash
  <2>3. At(id) \in Message /\ Good(id[1], At(id))
    BY MessageIsGood DEF Inv
  <2>4. m \in Message /\ Good(id[1], m)
    BY <2>1, <2>3 DEF Message, Good
  <2> HIDE DEF m
  <2>5. Box' /\ Ids' = Ids /\ \A j \in Ids \ {id} : At(j)' = At(j)
    BY <2>2, <2>4, ChangeOne DEF Inv
  <2>6. Held'
    BY <1>1, <1>2, <2>1, <2>5, HeldReleased DEF Inv
  <2> QED
    BY <1>1, <2>5, <2>6 DEF Inv
<1> QED
  BY <1>3, <1>4

-----------------------------------------------------------------------------
(* The theorem *)

LEMMA SentinelaKeeps ==
    ASSUME Inv, NEW t \in Tasks,
           \/ SentinelaOpen(t) \/ SentinelaOverdue(t) \/ SentinelaMark(t)
           \/ SentinelaAssign(t) \/ SentinelaQueue(t) \/ SentinelaEnd(t)
    PROVE  TasksKeep /\ outbox' = outbox
<1> USE DEF Inv, Shape, Run, TasksKeep
<1>1. CASE SentinelaOpen(t)
  BY <1>1 DEF SentinelaOpen
<1>2. CASE SentinelaOverdue(t)
  BY <1>2 DEF SentinelaOverdue
<1>3. CASE SentinelaMark(t)
  <2>1. PICK row \in task[t].rows :
            task' = [task EXCEPT ![t].pc = "assign", ![t].charge = row[1],
                                 ![t].rows = @ \ {row}]
    BY <1>3 DEF SentinelaMark
  <2>2. \A s \in Tasks : task'[s].msg = task[s].msg /\ (s # t => task'[s] = task[s])
    BY <2>1
  <2>3. task'[t].pc = "assign"
    BY <2>1
  <2> QED
    BY <1>3, <2>2, <2>3 DEF SentinelaMark
<1>4. CASE SentinelaAssign(t)
  <2>1. PICK child \in Tasks :
            /\ task[child].pc = "absent"
            /\ task' = [task EXCEPT ![t].pc = "queue", ![t].child = child,
                                    ![child].kind = "cobrador", ![child].charge = task[t].charge,
                                    ![child].pc = "adding"]
    BY <1>4 DEF SentinelaAssign
  <2>2. child # t
    BY <1>4, <2>1 DEF SentinelaAssign
  <2>3. task'[t] = [task[t] EXCEPT !.pc = "queue", !.child = child]
    BY <2>1, <2>2
  <2>4. task'[child] = [task[child] EXCEPT !.kind = "cobrador", !.charge = task[t].charge,
                                          !.pc = "adding"]
    BY <2>1, <2>2
  <2>5. \A s \in Tasks \ {t, child} : task'[s] = task[s]
    BY <2>1
  <2>6. task'[t].msg = task[t].msg /\ task'[t].pc = "queue"
    BY <2>3
  <2>7. task'[child].msg = task[child].msg /\ task'[child].pc = "adding"
    BY <2>4
  <2>8. ASSUME NEW s \in Tasks
        PROVE  task'[s].msg = task[s].msg /\ (task'[s].pc = "add" => task[s].pc = "add")
    <3> HIDE DEF Shape, Run
    <3>1. CASE s \in {t, child}
      BY <2>6, <2>7, <3>1
    <3>2. CASE s \notin {t, child}
      BY <2>5, <3>2
    <3> QED
      BY <3>1, <3>2
  <2> QED
    BY <1>4, <2>8 DEF SentinelaAssign
<1>5. CASE SentinelaQueue(t)
  BY <1>5 DEF SentinelaQueue
<1>6. CASE SentinelaEnd(t)
  BY <1>6 DEF SentinelaEnd
<1> QED
  BY <1>1, <1>2, <1>3, <1>4, <1>5, <1>6

LEMMA CobradorKeeps ==
    ASSUME Inv, NEW t \in Tasks,
           CobradorRead(t) \/ CobradorIssue(t) \/ CobradorRefused(t) \/ CobradorEnd(t)
    PROVE  TasksKeep /\ outbox' = outbox
<1> USE DEF Inv, Shape, Run, TasksKeep
<1>1. CASE CobradorRead(t)
  BY <1>1 DEF CobradorRead
<1>2. CASE CobradorIssue(t)
  <2>1. AfterIssue(task[t].charge) # "add"
    BY DEF AfterIssue
  <2> QED
    BY <1>2, <2>1 DEF CobradorIssue
<1>3. CASE CobradorEnd(t)
  BY <1>3 DEF CobradorEnd
<1>4. CASE CobradorRefused(t)
  <2>1. PICK pc \in {"done", "whatsapp", "remind"} : task' = [task EXCEPT ![t].pc = pc]
    BY <1>4 DEF CobradorRefused, AfterRefusal, AfterEmail, Recorded
  <2> QED
    BY <1>4, <2>1 DEF CobradorRefused
<1> QED
  BY <1>1, <1>2, <1>3, <1>4

LEMMA AskKeeps ==
    ASSUME Inv, NEW t \in Tasks, AskSentinela(t) \/ \E c \in Charges : AskCobrador(t, c)
    PROVE  Shape' /\ TasksKeep /\ outbox' = outbox
<1>1. CASE AskSentinela(t)
  BY <1>1, ShapeAsk DEF AskSentinela, Inv, Shape, Run, TasksKeep
<1>2. ASSUME NEW c \in Charges, AskCobrador(t, c) PROVE Shape' /\ TasksKeep /\ outbox' = outbox
  BY <1>2, ShapeAsk DEF AskCobrador, Inv, Shape, Run, TasksKeep
<1> QED
  BY <1>1, <1>2

(* A step in which nobody posts and tasks keep what they hold.              *)
LEMMA InvKept ==
    ASSUME Inv, Shape', Box', AddingStays, TasksKeep
    PROVE  Inv'
BY HeldStays DEF Inv

LEMMA TaskStep ==
    ASSUME Inv, NEW t \in Tasks, RunTask(t)
    PROVE  Inv'
<1>1. CASE PostMessage(t)
  BY <1>1, PostStep
<1>2. CASE AddMessage(t)
  BY <1>2, AddStep
<1>3. CASE ScheduleReminder(t)
  BY <1>3, ScheduleStep, ShapeCobrador, InvKept
<1>4. CASE CobradorRead(t) \/ CobradorIssue(t) \/ CobradorRefused(t) \/ CobradorEnd(t)
  BY <1>4, CobradorKeeps, ShapeCobrador, SameBox, InvKept DEF Inv
<1>5. CASE \/ SentinelaOpen(t) \/ SentinelaOverdue(t) \/ SentinelaMark(t)
           \/ SentinelaAssign(t) \/ SentinelaQueue(t) \/ SentinelaEnd(t)
  BY <1>5, SentinelaKeeps, ShapeSentinela, SameBox, InvKept DEF Inv
<1> QED
  BY <1>1, <1>2, <1>3, <1>4, <1>5 DEF RunTask

(* Nobody else touches tasks.                                               *)
LEMMA OthersStep ==
    ASSUME Inv, UNCHANGED task, day' \in Nat, Box', AddingStays
    PROVE  Inv'
<1>1. Shape'
  BY DEF Inv, Shape, ChargeKnown
<1>2. TasksKeep
  BY DEF TasksKeep
<1> QED
  BY <1>1, <1>2, InvKept

LEMMA InvStep == Inv /\ [Next]_vars => Inv'
<1> SUFFICES ASSUME Inv, [Next]_vars PROVE Inv'
  OBVIOUS
<1>0. day \in Nat
  BY DEF Inv, Shape
<1>1. CASE Tomorrow
  BY <1>0, <1>1, SameBox, OthersStep DEF Tomorrow, Inv
<1>2. ASSUME NEW c \in Charges, Settle(c) PROVE Inv'
  BY <1>0, <1>2, SameBox, OthersStep DEF Settle, Inv
<1>3. ASSUME NEW t \in Tasks, AskSentinela(t) \/ \E c \in Charges : AskCobrador(t, c)
      PROVE  Inv'
  BY <1>3, AskKeeps, SameBox, InvKept DEF Inv
<1>4. ASSUME NEW t \in Tasks, RunTask(t) PROVE Inv'
  BY <1>4, TaskStep
<1>5. ASSUME NEW t \in Tasks, Crash(t) PROVE Inv'
  BY <1>5, CrashStep
<1>6. CASE RunScheduler
  <2>1. CASE UpcomingScan
    BY <1>0, <2>1, SameBox, OthersStep DEF UpcomingScan, Inv
  <2>2. ASSUME NEW c \in Charges, UpcomingSend(c) PROVE Inv'
    BY <1>0, <2>2, UpcomingStep, OthersStep DEF UpcomingSend
  <2>3. ASSUME NEW c \in Charges, OverdueMark(c) PROVE Inv'
    BY <1>0, <2>3, SameBox, OthersStep DEF OverdueMark, Inv
  <2> QED
    BY <1>6, <2>1, <2>2, <2>3 DEF RunScheduler
<1>7. CASE OverdueScan \/ SchedulerCrash
  BY <1>0, <1>7, SameBox, OthersStep DEF OverdueScan, SchedulerCrash, Inv
<1>8. ASSUME NEW id \in Ids, RunMessage(id) \/ MessageCrash(id) PROVE Inv'
  <2>1. Box' /\ AddingStays
    BY <1>8, RenderFailsStep, SendStep, StoreStep, CompleteStep, MessageCrashStep DEF RunMessage
  <2>2. task' = task /\ day' = day
    BY <1>8 DEF RunMessage, RenderFails, Send, StoreMessage, CompleteMessage, MessageCrash
  <2> QED
    BY <1>0, <2>1, <2>2, OthersStep
<1>9. CASE UNCHANGED vars
  BY <1>0, <1>9, SameBox, OthersStep DEF vars, Inv
<1> QED
  BY <1>1, <1>2, <1>3, <1>4, <1>5, <1>6, <1>7, <1>8, <1>9 DEF Next

LEMMA InvTold == Inv => RowTellsDelivery
<1> SUFFICES ASSUME Inv, NEW id \in Ids
             PROVE  LET m == At(id) IN
                    /\ m.row = "sent" => m.sends > 0 \/ m.misled
                    /\ m.row = "failed" => m.sends = 0 \/ m.misled \/ m.stalls > 0
                    /\ m.row = "queued" => /\ m.state \notin {"stored", "done"}
                                           /\ m.state = "given_up" => m.stalls = MaxStalled
  BY DEF RowTellsDelivery
<1> QED
  BY MessageIsGood DEF Inv, Good

(* RowTellsDelivery holds whatever dies and whatever the database, Redis    *)
(* and the channels refuse or lose: a decided row is right about the        *)
(* provider unless a channel misled (a stub in the provider's place, a lost *)
(* answer) or the message was sent again after a death, and a row whose job *)
(* is complete is decided (sendMessage and message-processor.ts).           *)
THEOREM RowsTellDelivery == Spec => []RowTellsDelivery
<1>1. Init => Inv
  BY ShapeInit, BoxInit, HeldInit DEF Inv
<1> QED
  BY <1>1, InvStep, InvTold, PTL DEF Spec

-----------------------------------------------------------------------------
(* How many notices                                                         *)

(* What a run still has to do for charge c: post the e-mail, post the       *)
(* message by phone, schedule the reminder of the day ready.                *)
Mails(r, c) == r.charge = c /\ r.pc = "email"
Calls(r, c) ==
    /\ r.charge = c
    /\ \/ r.pc \in {"email", "whatsapp"}
       \/ r.pc = "add" /\ r.msg[1] = "email"
Reminds(r, c, ready) ==
    /\ r.charge = c /\ r.pc \in {"email", "whatsapp", "add", "remind"}
    /\ \E i \in DOMAIN Offsets : i >= r.next /\ DueDay + Offsets[i] = ready

WillMail(c) == {t \in Tasks : Mails(task[t], c)}
WillCall(c) == {t \in Tasks : Calls(task[t], c)}
WillRemind(c, ready) == {t \in Tasks : Reminds(task[t], c, ready)}

Row == [issues : Nat, pay : {"open", "paid", "overdue"}]

(* Each time a charge is issued, one run gets the right to announce it: the *)
(* notices there are and the runs that will still post one are no more than *)
(* the times the charge was issued.                                         *)
Tally ==
    /\ charge \in [Charges -> Row]
    /\ \A c \in Charges :
          /\ Len(outbox["email"][c]) + Cardinality(WillMail(c)) <= charge[c].issues
          /\ Len(outbox["whatsapp"][c]) + Cardinality(WillCall(c)) <= charge[c].issues
          /\ \A ready \in Int :
                Cardinality(Reminders(c, ready)) + Cardinality(WillRemind(c, ready))
                    <= charge[c].issues

LEMMA Subset ==
    ASSUME NEW S, IsFiniteSet(S), NEW T, T \subseteq S
    PROVE  Cardinality(T) \in Nat /\ Cardinality(S) \in Nat /\ Cardinality(T) <= Cardinality(S)
BY FS_Subset, FS_CardinalityType

LEMMA OneJoins ==
    ASSUME NEW S, IsFiniteSet(S), NEW x, NEW T, T \subseteq S \cup {x}
    PROVE  /\ Cardinality(T) \in Nat /\ Cardinality(S) \in Nat
           /\ Cardinality(T) <= Cardinality(S) + 1
<1>1. /\ IsFiniteSet(S \cup {x}) /\ Cardinality(S) \in Nat
      /\ Cardinality(S \cup {x}) = IF x \in S THEN Cardinality(S) ELSE Cardinality(S) + 1
  BY FS_AddElement, FS_CardinalityType
<1>2. Cardinality(T) \in Nat /\ Cardinality(T) <= Cardinality(S \cup {x})
  BY <1>1, Subset
<1> QED
  BY <1>1, <1>2

LEMMA OneLeaves ==
    ASSUME NEW S, IsFiniteSet(S), NEW x \in S, NEW T, T \subseteq S \ {x}
    PROVE  /\ Cardinality(T) \in Nat /\ Cardinality(S) \in Nat
           /\ Cardinality(T) + 1 <= Cardinality(S)
<1>1. /\ IsFiniteSet(S \ {x}) /\ Cardinality(S) \in Nat
      /\ Cardinality(S \ {x}) = Cardinality(S) - 1
  BY FS_RemoveElement, FS_CardinalityType
<1>2. Cardinality(T) \in Nat /\ Cardinality(T) <= Cardinality(S \ {x})
  BY <1>1, Subset
<1> QED
  BY <1>1, <1>2

(* Of n notices, a set S of runs that will post one more and k issues: S    *)
(* shrinks, or the charge is issued and x joins, or x posts and leaves.     *)
LEMMA NoneJoins ==
    ASSUME NEW n \in Nat, NEW k \in Nat, NEW S, IsFiniteSet(S), n + Cardinality(S) <= k,
           NEW T, T \subseteq S
    PROVE  n + Cardinality(T) <= k
BY Subset

LEMMA IssuerJoins ==
    ASSUME NEW n \in Nat, NEW k \in Nat, NEW S, IsFiniteSet(S), n + Cardinality(S) <= k,
           NEW x, NEW T, T \subseteq S \cup {x}
    PROVE  n + Cardinality(T) <= k + 1
<1>1. /\ Cardinality(T) \in Nat /\ Cardinality(S) \in Nat
      /\ Cardinality(T) <= Cardinality(S) + 1
  BY OneJoins
<1> QED
  BY <1>1

LEMMA PosterLeaves ==
    ASSUME NEW n \in Nat, NEW k \in Nat, NEW S, IsFiniteSet(S), n + Cardinality(S) <= k,
           NEW x \in S, NEW T, T \subseteq S \ {x}
    PROVE  n + 1 + Cardinality(T) <= k
BY OneLeaves

LEMMA FewTasks ==
    ASSUME NEW c
    PROVE  /\ IsFiniteSet(WillMail(c)) /\ IsFiniteSet(WillCall(c))
           /\ \A ready : IsFiniteSet(WillRemind(c, ready))
<1>1. /\ WillMail(c) \subseteq Tasks /\ WillCall(c) \subseteq Tasks
      /\ \A ready : WillRemind(c, ready) \subseteq Tasks
  BY DEF WillMail, WillCall, WillRemind
<1> QED
  BY <1>1, FS_Subset, CollectionsAssumption

LEMMA FewReminders ==
    ASSUME Box, NEW c \in Charges, NEW ready
    PROVE  IsFiniteSet(Reminders(c, ready))
<1>1. outbox["reminder"][c] \in Seq(Message)
  BY DEF Box, Purposes
<1>2. Len(outbox["reminder"][c]) \in Nat
      /\ DOMAIN outbox["reminder"][c] = 1 .. Len(outbox["reminder"][c])
  BY <1>1, LenProperties
<1>3. IsFiniteSet(1 .. Len(outbox["reminder"][c]))
  BY <1>2, FS_Interval
<1>4. Reminders(c, ready) \subseteq 1 .. Len(outbox["reminder"][c])
  BY <1>2 DEF Reminders
<1> QED
  BY <1>3, <1>4, FS_Subset

(* A run that owes no more than it did.                                     *)
OwesNoMore(r, s) ==
    \A c \in Charges :
        /\ Mails(s, c) => Mails(r, c)
        /\ Calls(s, c) => Calls(r, c)
        /\ \A ready \in Int : Reminds(s, c, ready) => Reminds(r, c, ready)

(* The notices there are.                                                   *)
SameNotices ==
    \A c \in Charges :
        /\ Len(outbox'["email"][c]) = Len(outbox["email"][c])
        /\ Len(outbox'["whatsapp"][c]) = Len(outbox["whatsapp"][c])
        /\ \A ready \in Int : Reminders(c, ready)' = Reminders(c, ready)

SameIssues ==
    charge' \in [Charges -> Row] /\ \A c \in Charges : charge'[c].issues = charge[c].issues

(* All the numbers of one charge are numbers.                               *)
LEMMA Numbers ==
    ASSUME Box, charge \in [Charges -> Row], NEW c \in Charges
    PROVE  /\ Len(outbox["email"][c]) \in Nat /\ Len(outbox["whatsapp"][c]) \in Nat
           /\ charge[c].issues \in Nat
           /\ \A ready \in Int : Cardinality(Reminders(c, ready)) \in Nat
<1>1. outbox["email"][c] \in Seq(Message) /\ outbox["whatsapp"][c] \in Seq(Message)
  BY DEF Box, Purposes
<1>2. charge[c].issues \in Nat
  BY DEF Row
<1>3. \A ready \in Int : Cardinality(Reminders(c, ready)) \in Nat
  BY FewReminders, FS_CardinalityType
<1> QED
  BY <1>1, <1>2, <1>3, LenProperties

LEMMA Quiet ==
    ASSUME Box, Tally, SameNotices, SameIssues,
           \A t \in Tasks : OwesNoMore(task[t], task'[t])
    PROVE  Tally'
<1> SUFFICES ASSUME NEW c \in Charges
             PROVE  /\ Len(outbox'["email"][c]) + Cardinality(WillMail(c)') <= charge'[c].issues
                    /\ Len(outbox'["whatsapp"][c]) + Cardinality(WillCall(c)') <= charge'[c].issues
                    /\ \A ready \in Int :
                          Cardinality(Reminders(c, ready)') + Cardinality(WillRemind(c, ready)')
                              <= charge'[c].issues
  BY DEF Tally, SameIssues
<1>1. /\ WillMail(c)' \subseteq WillMail(c)
      /\ WillCall(c)' \subseteq WillCall(c)
      /\ \A ready \in Int : WillRemind(c, ready)' \subseteq WillRemind(c, ready)
  BY DEF WillMail, WillCall, WillRemind, OwesNoMore
<1>2. /\ Len(outbox["email"][c]) \in Nat /\ Len(outbox["whatsapp"][c]) \in Nat
      /\ charge[c].issues \in Nat
      /\ \A ready \in Int : Cardinality(Reminders(c, ready)) \in Nat
  BY Numbers DEF Tally
<1>3. /\ IsFiniteSet(WillMail(c)) /\ IsFiniteSet(WillCall(c))
      /\ \A ready : IsFiniteSet(WillRemind(c, ready))
  BY FewTasks
<1>4. charge'[c].issues = charge[c].issues
  BY DEF SameIssues
<1>6. Len(outbox'["email"][c]) + Cardinality(WillMail(c)') <= charge'[c].issues
  <2>1. Len(outbox["email"][c]) + Cardinality(WillMail(c)) <= charge[c].issues
    BY DEF Tally
  <2>2. Len(outbox["email"][c]) + Cardinality(WillMail(c)') <= charge[c].issues
    BY <1>1, <1>2, <1>3, <2>1, NoneJoins
  <2> QED
    BY <1>4, <2>2 DEF SameNotices
<1>7. Len(outbox'["whatsapp"][c]) + Cardinality(WillCall(c)') <= charge'[c].issues
  <2>1. Len(outbox["whatsapp"][c]) + Cardinality(WillCall(c)) <= charge[c].issues
    BY DEF Tally
  <2>2. Len(outbox["whatsapp"][c]) + Cardinality(WillCall(c)') <= charge[c].issues
    BY <1>1, <1>2, <1>3, <2>1, NoneJoins
  <2> QED
    BY <1>4, <2>2 DEF SameNotices
<1>8. ASSUME NEW ready \in Int
      PROVE  Cardinality(Reminders(c, ready)') + Cardinality(WillRemind(c, ready)')
                 <= charge'[c].issues
  <2>1. Cardinality(Reminders(c, ready)) + Cardinality(WillRemind(c, ready)) <= charge[c].issues
    BY DEF Tally
  <2>2. Cardinality(Reminders(c, ready)) + Cardinality(WillRemind(c, ready)') <= charge[c].issues
    BY <1>1, <1>2, <1>3, <2>1, NoneJoins
  <2> QED
    BY <1>4, <2>2 DEF SameNotices
<1> QED
  BY <1>6, <1>7, <1>8

(* A message changes, but not the day it is for.                            *)
LEMMA ChangedNotices ==
    ASSUME Box, NEW id \in Ids, NEW m, m.ready = At(id).ready, outbox' = With(id, m)
    PROVE  SameNotices
<1>1. PICK p \in Purposes, d \in Charges :
          \E n \in DOMAIN outbox[p][d] : id = <<p, d, n>> /\ At(id) = outbox[p][d][n]
  BY IdParts
<1>2. PICK k \in DOMAIN outbox[p][d] : id = <<p, d, k>> /\ At(id) = outbox[p][d][k]
  BY <1>1
<1>3. id[1] = p /\ id[2] = d /\ id[3] = k
  BY <1>2
<1>4. outbox' = [outbox EXCEPT ![p][d][k] = m]
  BY <1>3 DEF With
<1>5. outbox[p][d] \in Seq(Message) /\ outbox'[p][d] = [outbox[p][d] EXCEPT ![k] = m]
  BY <1>4 DEF Box
<1>6. \A q \in Purposes, c \in Charges : <<q, c>> # <<p, d>> => outbox'[q][c] = outbox[q][c]
  BY <1>4 DEF Box
<1>7. /\ Len(outbox'[p][d]) = Len(outbox[p][d])
      /\ DOMAIN outbox'[p][d] = DOMAIN outbox[p][d]
      /\ \A n \in DOMAIN outbox[p][d] : outbox'[p][d][n].ready = outbox[p][d][n].ready
  <2>1. DOMAIN outbox'[p][d] = DOMAIN outbox[p][d]
    BY <1>5
  <2>2. \A n \in DOMAIN outbox[p][d] : outbox'[p][d][n] = IF n = k THEN m ELSE outbox[p][d][n]
    BY <1>5
  <2>3. m.ready = outbox[p][d][k].ready
    BY <1>2
  <2>4. Len(outbox'[p][d]) = Len(outbox[p][d])
    <3>1. Len(outbox[p][d]) \in Nat /\ DOMAIN outbox[p][d] = 1 .. Len(outbox[p][d])
      BY <1>5, LenProperties
    <3>2. outbox'[p][d] \in [1 .. Len(outbox[p][d]) ->
                             Message \cup {m}]
      BY <1>5, <2>1, <2>2, <3>1, ElementOfSeq
    <3>3. outbox'[p][d] \in Seq(Message \cup {m})
      BY <3>1, <3>2, SeqDef
    <3>4. Len(outbox'[p][d]) \in Nat /\ DOMAIN outbox'[p][d] = 1 .. Len(outbox'[p][d])
      BY <3>3, LenProperties
    <3> QED
      BY <2>1, <3>1, <3>4
  <2> QED
    BY <2>1, <2>2, <2>3, <2>4
<1>8. ASSUME NEW q \in Purposes, NEW c \in Charges
      PROVE  /\ Len(outbox'[q][c]) = Len(outbox[q][c])
             /\ DOMAIN outbox'[q][c] = DOMAIN outbox[q][c]
             /\ \A n \in DOMAIN outbox[q][c] : outbox'[q][c][n].ready = outbox[q][c][n].ready
  BY <1>6, <1>7
<1>9. {"email", "whatsapp", "reminder"} \subseteq Purposes
  BY DEF Purposes
<1> QED
  BY <1>8, <1>9 DEF SameNotices, Reminders

(* A message is posted.                                                     *)
LEMMA PostedNotices ==
    ASSUME Box, NEW p \in Purposes, NEW d \in Charges, NEW ready \in Int, NEW state,
           outbox' = Posted(p, d, ready, state)
    PROVE  /\ \A q \in Purposes, c \in Charges :
                 <<q, c>> # <<p, d>> => outbox'[q][c] = outbox[q][c]
           /\ Len(outbox'[p][d]) = Len(outbox[p][d]) + 1
           /\ Len(outbox[p][d]) \in Nat
           /\ DOMAIN outbox[p][d] = 1 .. Len(outbox[p][d])
           /\ DOMAIN outbox'[p][d] = 1 .. Len(outbox[p][d]) + 1
           /\ \A n \in DOMAIN outbox[p][d] : outbox'[p][d][n] = outbox[p][d][n]
           /\ outbox'[p][d][Len(outbox[p][d]) + 1].ready = ready
<1> DEFINE m == [ready |-> ready, state |-> state, sends |-> 0, misled |-> FALSE, stalls |-> 0,
                 row |-> IF p \in Recorded THEN "queued" ELSE "none"]
           s == outbox[p][d]
<1>1. m.ready = ready
  OBVIOUS
<1>2. outbox' = [outbox EXCEPT ![p][d] = Append(@, m)]
  BY DEF Posted
<1> HIDE DEF m
<1>3. s \in Seq(Message) /\ outbox'[p][d] = Append(s, m)
  BY <1>2 DEF Box
<1>4. s \in Seq(Message \cup {m}) /\ Len(s) \in Nat /\ DOMAIN s = 1 .. Len(s)
  <2>1. Len(s) \in Nat /\ DOMAIN s = 1 .. Len(s) /\ s \in [1 .. Len(s) -> Message]
    BY <1>3, LenProperties
  <2>2. s \in [1 .. Len(s) -> Message \cup {m}]
    BY <2>1
  <2> QED
    BY <2>1, <2>2, SeqDef
<1>5. /\ Append(s, m) \in Seq(Message \cup {m}) /\ Len(Append(s, m)) = Len(s) + 1
      /\ \A n \in 1 .. Len(s) : Append(s, m)[n] = s[n]
      /\ Append(s, m)[Len(s) + 1] = m
  BY <1>4, AppendProperties
<1>6. DOMAIN Append(s, m) = 1 .. Len(s) + 1
  BY <1>4, <1>5, LenProperties
<1>7. \A q \in Purposes, c \in Charges : <<q, c>> # <<p, d>> => outbox'[q][c] = outbox[q][c]
  BY <1>2 DEF Box
<1> QED
  BY <1>1, <1>3, <1>4, <1>5, <1>6, <1>7

(* t alone moves: what it owes after the step decides who owes.             *)
LEMMA OneOwes ==
    ASSUME NEW t \in Tasks, \A s \in Tasks \ {t} : task'[s] = task[s], NEW c
    PROVE  /\ WillMail(c)' \subseteq WillMail(c) \cup {t}
           /\ WillCall(c)' \subseteq WillCall(c) \cup {t}
           /\ \A ready : WillRemind(c, ready)' \subseteq WillRemind(c, ready) \cup {t}
           /\ ~Mails(task'[t], c) => WillMail(c)' \subseteq WillMail(c) \ {t}
           /\ ~Calls(task'[t], c) => WillCall(c)' \subseteq WillCall(c) \ {t}
           /\ \A ready : ~Reminds(task'[t], c, ready) =>
                 WillRemind(c, ready)' \subseteq WillRemind(c, ready) \ {t}
           /\ Mails(task[t], c) => WillMail(c)' \subseteq WillMail(c)
           /\ Calls(task[t], c) => WillCall(c)' \subseteq WillCall(c)
           /\ \A ready : Reminds(task[t], c, ready) =>
                 WillRemind(c, ready)' \subseteq WillRemind(c, ready)
BY DEF WillMail, WillCall, WillRemind

LEMMA SameBoxNotices ==
    ASSUME outbox' = outbox
    PROVE  SameNotices
BY DEF SameNotices, Reminders

(* A Cobrador issues its charge and from now on owes the notices.           *)
LEMMA IssueTally ==
    ASSUME Inv, Tally, NEW t \in Tasks, CobradorIssue(t)
    PROVE  Tally'
<1>1. PICK c \in Charges : c = task[t].charge
  BY DEF CobradorIssue, Inv, Shape, ChargeKnown
<1>2. charge' = [charge EXCEPT ![c].issues = @ + 1]
  BY <1>1 DEF CobradorIssue
<1>3. charge[c] \in Row /\ charge[c].issues \in Nat
  BY DEF Tally, Row
<1>4. /\ charge'[c].issues = charge[c].issues + 1
      /\ \A d \in Charges \ {c} : charge'[d] = charge[d]
      /\ charge' \in [Charges -> Row]
  BY <1>2, <1>3 DEF Tally, Row
<1>5. SameNotices /\ task'[t].charge = c /\ \A s \in Tasks \ {t} : task'[s] = task[s]
  BY <1>1, SameBoxNotices DEF CobradorIssue, Inv, Shape, Run
<1>6. \A d : /\ WillMail(d)' \subseteq WillMail(d) \cup {t}
             /\ WillCall(d)' \subseteq WillCall(d) \cup {t}
             /\ \A ready : WillRemind(d, ready)' \subseteq WillRemind(d, ready) \cup {t}
  BY <1>5, OneOwes
<1>7. \A d \in Charges \ {c} :
          /\ WillMail(d)' \subseteq WillMail(d)
          /\ WillCall(d)' \subseteq WillCall(d)
          /\ \A ready : WillRemind(d, ready)' \subseteq WillRemind(d, ready)
  BY <1>5, OneOwes DEF Mails, Calls, Reminds
<1>8. SUFFICES ASSUME NEW d \in Charges
               PROVE  /\ Len(outbox'["email"][d]) + Cardinality(WillMail(d)') <= charge'[d].issues
                      /\ Len(outbox'["whatsapp"][d]) + Cardinality(WillCall(d)') <= charge'[d].issues
                      /\ \A ready \in Int :
                            Cardinality(Reminders(d, ready)') + Cardinality(WillRemind(d, ready)')
                                <= charge'[d].issues
  BY <1>4 DEF Tally
<1>9. /\ Len(outbox["email"][d]) \in Nat /\ Len(outbox["whatsapp"][d]) \in Nat
      /\ charge[d].issues \in Nat
      /\ \A ready \in Int : Cardinality(Reminders(d, ready)) \in Nat
  BY Numbers DEF Inv, Tally
<1>10. /\ IsFiniteSet(WillMail(d)) /\ IsFiniteSet(WillCall(d))
       /\ \A ready : IsFiniteSet(WillRemind(d, ready))
  BY FewTasks
<1>11. ASSUME NEW n \in Nat, NEW S, IsFiniteSet(S), n + Cardinality(S) <= charge[d].issues,
              NEW T, T \subseteq S \cup {t}, d # c => T \subseteq S
       PROVE  n + Cardinality(T) <= charge'[d].issues
  <2>1. CASE d = c
    <3>1. n + Cardinality(T) <= charge[d].issues + 1
      BY <1>9, <1>11, IssuerJoins
    <3> QED
      BY <1>4, <2>1, <3>1
  <2>2. CASE d # c
    <3>1. n + Cardinality(T) <= charge[d].issues
      BY <1>9, <1>11, <2>2, NoneJoins
    <3> QED
      BY <1>4, <2>2, <3>1
  <2> QED
    BY <2>1, <2>2
<1>12. Len(outbox'["email"][d]) + Cardinality(WillMail(d)') <= charge'[d].issues
  <2>1. Len(outbox["email"][d]) + Cardinality(WillMail(d)) <= charge[d].issues
    BY DEF Tally
  <2>2. Len(outbox["email"][d]) + Cardinality(WillMail(d)') <= charge'[d].issues
    BY <1>6, <1>7, <1>9, <1>10, <1>11, <2>1
  <2> QED
    BY <1>5, <2>2 DEF SameNotices
<1>13. Len(outbox'["whatsapp"][d]) + Cardinality(WillCall(d)') <= charge'[d].issues
  <2>1. Len(outbox["whatsapp"][d]) + Cardinality(WillCall(d)) <= charge[d].issues
    BY DEF Tally
  <2>2. Len(outbox["whatsapp"][d]) + Cardinality(WillCall(d)') <= charge'[d].issues
    BY <1>6, <1>7, <1>9, <1>10, <1>11, <2>1
  <2> QED
    BY <1>5, <2>2 DEF SameNotices
<1>14. ASSUME NEW ready \in Int
       PROVE  Cardinality(Reminders(d, ready)') + Cardinality(WillRemind(d, ready)')
                  <= charge'[d].issues
  <2>1. Cardinality(Reminders(d, ready)) + Cardinality(WillRemind(d, ready)) <= charge[d].issues
    BY DEF Tally
  <2>2. Cardinality(Reminders(d, ready)) + Cardinality(WillRemind(d, ready)') <= charge'[d].issues
    BY <1>6, <1>7, <1>9, <1>10, <1>11, <2>1
  <2> QED
    BY <1>5, <2>2 DEF SameNotices
<1> QED
  BY <1>12, <1>13, <1>14


(* A Cobrador posts a notice and no longer owes it.                         *)
LEMMA PostTally ==
    ASSUME Inv, Tally, NEW t \in Tasks, PostMessage(t)
    PROVE  Tally'
<1>1. PICK p \in Recorded, c \in Charges : p = task[t].pc /\ c = task[t].charge
  BY DEF PostMessage, Recorded, Inv, Shape, ChargeKnown
<1>2. /\ {"email", "whatsapp", "reminder"} \subseteq Purposes /\ p \in {"email", "whatsapp"}
      /\ p \in Purposes /\ day \in Int
  BY <1>1 DEF Recorded, Purposes, Inv, Shape
<1>3. outbox' = Posted(p, c, day, "adding")
  BY <1>1 DEF PostMessage
<1>4. /\ \A q \in Purposes, d \in Charges : <<q, d>> # <<p, c>> => outbox'[q][d] = outbox[q][d]
      /\ Len(outbox'[p][c]) = Len(outbox[p][c]) + 1
  BY <1>2, <1>3, PostedNotices DEF Inv
<1>5. PICK k : k = Len(outbox'[p][c])
  OBVIOUS
<1> DEFINE msg == <<p, c, k>>
           r == [task[t] EXCEPT !.pc = "add", !.msg = msg]
<1>6. task' = [task EXCEPT ![t] = r]
  BY <1>1, <1>5 DEF PostMessage
<1>7. task[t] \in Run /\ msg[1] = p
  BY DEF Inv, Shape
<1> HIDE DEF msg
<1>8. r.pc = "add" /\ r.msg = msg /\ r.charge = c /\ r.next = task[t].next
  BY <1>1, <1>7 DEF Run
<1> HIDE DEF r
<1>9. task'[t] = r /\ \A s \in Tasks \ {t} : task'[s] = task[s]
  BY <1>6 DEF Inv, Shape
<1>10. /\ ~Mails(r, c) /\ \A d \in Charges \ {c} : ~Mails(r, d) /\ ~Calls(r, d)
       /\ p = "email" => Calls(task[t], c) /\ Mails(task[t], c)
       /\ p = "whatsapp" => Calls(task[t], c) /\ ~Calls(r, c)
  <2>1. ~Mails(r, c) /\ \A d \in Charges \ {c} : ~Mails(r, d) /\ ~Calls(r, d)
    BY <1>8 DEF Mails, Calls
  <2>2. p = "email" => Calls(task[t], c) /\ Mails(task[t], c)
    BY <1>1 DEF Mails, Calls
  <2>3. p = "whatsapp" => Calls(task[t], c)
    BY <1>1 DEF Calls
  <2>4. r.msg[1] = p
    BY <1>7, <1>8
  <2>5. p = "whatsapp" => ~Calls(r, c)
    BY <1>8, <2>4 DEF Calls
  <2> QED
    BY <2>1, <2>2, <2>3, <2>5
<1>11. ASSUME NEW d \in Charges, NEW ready
       PROVE  WillRemind(d, ready)' \subseteq WillRemind(d, ready)
  <2>1. Reminds(r, d, ready) => Reminds(task[t], d, ready)
    BY <1>1, <1>2, <1>8 DEF Reminds
  <2> QED
    BY <1>9, <2>1, OneOwes
<1>12. /\ charge' = charge
       /\ \A d \in Charges, ready \in Int : Reminders(d, ready)' = Reminders(d, ready)
  BY <1>2, <1>4 DEF PostMessage, Reminders
<1>13. SUFFICES ASSUME NEW d \in Charges
                PROVE  /\ Len(outbox'["email"][d]) + Cardinality(WillMail(d)') <= charge[d].issues
                       /\ Len(outbox'["whatsapp"][d]) + Cardinality(WillCall(d)') <= charge[d].issues
                       /\ \A ready \in Int :
                             Cardinality(Reminders(d, ready)) + Cardinality(WillRemind(d, ready)')
                                 <= charge[d].issues
  BY <1>12 DEF Tally
<1>14. /\ Len(outbox["email"][d]) \in Nat /\ Len(outbox["whatsapp"][d]) \in Nat
       /\ charge[d].issues \in Nat
       /\ \A ready \in Int : Cardinality(Reminders(d, ready)) \in Nat
  BY Numbers DEF Inv, Tally
<1>15. /\ IsFiniteSet(WillMail(d)) /\ IsFiniteSet(WillCall(d))
       /\ \A ready : IsFiniteSet(WillRemind(d, ready))
  BY FewTasks
<1>16. /\ Len(outbox["email"][d]) + Cardinality(WillMail(d)) <= charge[d].issues
       /\ Len(outbox["whatsapp"][d]) + Cardinality(WillCall(d)) <= charge[d].issues
  BY DEF Tally
<1>17. Len(outbox'["email"][d]) + Cardinality(WillMail(d)') <= charge[d].issues
  <2>1. WillMail(d)' \subseteq WillMail(d) \ {t}
    BY <1>9, <1>10, OneOwes
  <2>2. CASE p = "email" /\ d = c
    <3>1. t \in WillMail(d)
      BY <1>10, <2>2 DEF WillMail
    <3>2. Len(outbox["email"][d]) + 1 + Cardinality(WillMail(d)') <= charge[d].issues
      BY <1>14, <1>15, <1>16, <2>1, <3>1, PosterLeaves
    <3> QED
      BY <1>4, <2>2, <3>2
  <2>3. CASE ~(p = "email" /\ d = c)
    <3>1. outbox'["email"][d] = outbox["email"][d]
      BY <1>2, <1>4, <2>3
    <3>2. Len(outbox["email"][d]) + Cardinality(WillMail(d)') <= charge[d].issues
      BY <1>14, <1>15, <1>16, <2>1, NoneJoins
    <3> QED
      BY <3>1, <3>2
  <2> QED
    BY <2>2, <2>3
<1>18. Len(outbox'["whatsapp"][d]) + Cardinality(WillCall(d)') <= charge[d].issues
  <2>1. WillCall(d)' \subseteq WillCall(d)
    BY <1>2, <1>9, <1>10, OneOwes
  <2>2. CASE p = "whatsapp" /\ d = c
    <3>1. t \in WillCall(d) /\ WillCall(d)' \subseteq WillCall(d) \ {t}
      BY <1>9, <1>10, <2>2, OneOwes DEF WillCall
    <3>2. Len(outbox["whatsapp"][d]) + 1 + Cardinality(WillCall(d)') <= charge[d].issues
      BY <1>14, <1>15, <1>16, <3>1, PosterLeaves
    <3> QED
      BY <1>4, <2>2, <3>2
  <2>3. CASE ~(p = "whatsapp" /\ d = c)
    <3>1. outbox'["whatsapp"][d] = outbox["whatsapp"][d]
      BY <1>2, <1>4, <2>3
    <3>2. Len(outbox["whatsapp"][d]) + Cardinality(WillCall(d)') <= charge[d].issues
      BY <1>14, <1>15, <1>16, <2>1, NoneJoins
    <3> QED
      BY <3>1, <3>2
  <2> QED
    BY <2>2, <2>3
<1>19. ASSUME NEW ready \in Int
       PROVE  Cardinality(Reminders(d, ready)) + Cardinality(WillRemind(d, ready)')
                  <= charge[d].issues
  <2>1. Cardinality(Reminders(d, ready)) + Cardinality(WillRemind(d, ready)) <= charge[d].issues
    BY DEF Tally
  <2> QED
    BY <1>11, <1>14, <1>15, <2>1, NoneJoins
<1> QED
  BY <1>17, <1>18, <1>19

(* A Cobrador schedules the reminder of one day, or finds it past, and goes *)
(* on to the next day; no two reminders are for the same day.               *)
LEMMA ScheduleTally ==
    ASSUME Inv, Tally, NEW t \in Tasks, ScheduleReminder(t)
    PROVE  Tally'
<1>0. PICK i, due : i = task[t].next /\ due = DueDay + Offsets[i]
  OBVIOUS
<1>1. PICK c \in Charges : c = task[t].charge
  BY DEF ScheduleReminder, Inv, Shape, ChargeKnown
<1>2. i \in DOMAIN Offsets /\ i \in Nat /\ due \in Int
  <2>1. i \in 1 .. Len(Offsets) /\ i \in Nat
    BY <1>0, CollectionsAssumption, LenProperties DEF ScheduleReminder, RemindersLeft, Inv, Shape, Run
  <2>2. Offsets[i] \in Int /\ i \in DOMAIN Offsets
    BY <2>1, CollectionsAssumption, ElementOfSeq, LenProperties
  <2> QED
    BY <1>0, <2>1, <2>2, CollectionsAssumption
<1>3. /\ \A j \in DOMAIN Offsets : j \in Nat /\ Offsets[j] \in Int
      /\ \A j \in DOMAIN Offsets : DueDay + Offsets[j] = due => j = i
  <2>1. \A j \in DOMAIN Offsets : j \in Nat /\ Offsets[j] \in Int
    BY CollectionsAssumption, ElementOfSeq, LenProperties
  <2>2. ASSUME NEW j \in DOMAIN Offsets, DueDay + Offsets[j] = due PROVE j = i
    <3>1. Offsets[j] = Offsets[i]
      BY <1>0, <1>2, <2>1, <2>2, CollectionsAssumption
    <3> QED
      BY <1>2, <3>1, CollectionsAssumption
  <2> QED
    BY <2>1, <2>2
<1>4. \/ outbox' = Posted("reminder", c, due, "waiting")
      \/ outbox' = outbox
  BY <1>0, <1>1 DEF ScheduleReminder
<1> DEFINE r == [task[t] EXCEPT !.next = i + 1]
<1>5. task' = [task EXCEPT ![t] = r] /\ task[t] \in Run /\ task[t].pc = "remind"
  BY <1>0 DEF ScheduleReminder, Inv, Shape
<1>6. r.pc = "remind" /\ r.charge = c /\ r.next = i + 1
  BY <1>1, <1>5 DEF Run
<1> HIDE DEF r
<1>7. task'[t] = r /\ \A s \in Tasks \ {t} : task'[s] = task[s]
  BY <1>5 DEF Inv, Shape
<1>8. \A d \in Charges : ~Mails(r, d) /\ ~Calls(r, d)
  BY <1>6 DEF Mails, Calls
<1>9. ASSUME NEW d \in Charges, NEW ready \in Int
      PROVE  /\ WillRemind(d, ready)' \subseteq WillRemind(d, ready)
             /\ ready = due => WillRemind(d, ready)' \subseteq WillRemind(d, ready) \ {t}
  <2>1. ASSUME Reminds(r, d, ready) PROVE Reminds(task[t], d, ready) /\ ready # due
    <3>1. PICK j \in DOMAIN Offsets : j >= i + 1 /\ DueDay + Offsets[j] = ready
      BY <1>6, <2>1 DEF Reminds
    <3>2. j >= i /\ j # i
      BY <1>2, <1>3, <3>1
    <3>3. d = c
      BY <1>6, <2>1 DEF Reminds
    <3> QED
      BY <1>0, <1>1, <1>3, <1>5, <3>1, <3>2, <3>3 DEF Reminds
  <2> QED
    BY <1>7, <2>1, OneOwes
<1>10. Reminds(task[t], c, due)
  BY <1>0, <1>1, <1>2, <1>5 DEF Reminds
<1>11. /\ charge' = charge
       /\ \A d \in Charges : /\ outbox'["email"][d] = outbox["email"][d]
                             /\ outbox'["whatsapp"][d] = outbox["whatsapp"][d]
       /\ \A d \in Charges, ready \in Int :
             \/ Reminders(d, ready)' = Reminders(d, ready)
             \/ /\ d = c /\ ready = due
                /\ Cardinality(Reminders(d, ready)') = Cardinality(Reminders(d, ready)) + 1
  <2>1. charge' = charge
    BY DEF ScheduleReminder
  <2>2. CASE outbox' = outbox
    BY <2>1, <2>2 DEF Reminders
  <2>3. CASE outbox' = Posted("reminder", c, due, "waiting")
    <3> DEFINE s == outbox["reminder"][c]
    <3>1. {"email", "whatsapp", "reminder"} \subseteq Purposes
      BY DEF Purposes
    <3>2. /\ \A q \in Purposes, d \in Charges :
                 <<q, d>> # <<"reminder", c>> => outbox'[q][d] = outbox[q][d]
          /\ Len(s) \in Nat
          /\ DOMAIN s = 1 .. Len(s)
          /\ DOMAIN outbox'["reminder"][c] = 1 .. Len(s) + 1
          /\ \A n \in DOMAIN s : outbox'["reminder"][c][n] = s[n]
          /\ outbox'["reminder"][c][Len(s) + 1].ready = due
      BY <1>2, <2>3, <3>1, PostedNotices DEF Inv
    <3>3. \A d \in Charges \ {c} : outbox'["reminder"][d] = outbox["reminder"][d]
      BY <3>1, <3>2
    <3>4. \A d \in Charges \ {c}, ready \in Int : Reminders(d, ready)' = Reminders(d, ready)
      BY <3>3 DEF Reminders
    <3>5. ASSUME NEW ready \in Int, ready # due
          PROVE  Reminders(c, ready)' = Reminders(c, ready)
      BY <3>2, <3>5 DEF Reminders
    <3>6. Cardinality(Reminders(c, due)') = Cardinality(Reminders(c, due)) + 1
      <4>1. Reminders(c, due)' = Reminders(c, due) \cup {Len(s) + 1}
        <5>1. Reminders(c, due)' = {n \in 1 .. Len(s) + 1 : outbox'["reminder"][c][n].ready = due}
          BY <3>2 DEF Reminders
        <5>2. Reminders(c, due) = {n \in 1 .. Len(s) : s[n].ready = due}
          BY <3>2 DEF Reminders
        <5>3. \A n \in 1 .. Len(s) : outbox'["reminder"][c][n] = s[n]
          BY <3>2
        <5>4. 1 .. Len(s) + 1 = 1 .. Len(s) \cup {Len(s) + 1}
          BY <3>2
        <5>5. outbox'["reminder"][c][Len(s) + 1].ready = due
          BY <3>2
        <5> HIDE DEF s
        <5> QED
          BY <5>1, <5>2, <5>3, <5>4, <5>5
      <4>2. Len(s) + 1 \notin Reminders(c, due)
        BY <3>2 DEF Reminders
      <4>3. IsFiniteSet(Reminders(c, due))
        BY FewReminders DEF Inv
      <4> QED
        BY <4>1, <4>2, <4>3, FS_AddElement
    <3>7. \A d \in Charges : /\ outbox'["email"][d] = outbox["email"][d]
                              /\ outbox'["whatsapp"][d] = outbox["whatsapp"][d]
      BY <3>1, <3>2
    <3>8. ASSUME NEW d \in Charges, NEW ready \in Int
          PROVE  \/ Reminders(d, ready)' = Reminders(d, ready)
                 \/ /\ d = c /\ ready = due
                    /\ Cardinality(Reminders(d, ready)') = Cardinality(Reminders(d, ready)) + 1
      <4>1. CASE d # c
        BY <3>4, <4>1
      <4>2. CASE d = c /\ ready # due
        BY <3>5, <4>2
      <4>3. CASE d = c /\ ready = due
        BY <3>6, <4>3
      <4> QED
        BY <4>1, <4>2, <4>3
    <3> QED
      BY <2>1, <3>7, <3>8
  <2> QED
    BY <1>4, <2>2, <2>3
<1>12. SUFFICES ASSUME NEW d \in Charges
                PROVE  /\ Len(outbox["email"][d]) + Cardinality(WillMail(d)') <= charge[d].issues
                       /\ Len(outbox["whatsapp"][d]) + Cardinality(WillCall(d)') <= charge[d].issues
                       /\ \A ready \in Int :
                             Cardinality(Reminders(d, ready)') + Cardinality(WillRemind(d, ready)')
                                 <= charge[d].issues
  BY <1>11 DEF Tally
<1>14. /\ Len(outbox["email"][d]) \in Nat /\ Len(outbox["whatsapp"][d]) \in Nat
       /\ charge[d].issues \in Nat
       /\ \A ready \in Int : Cardinality(Reminders(d, ready)) \in Nat
  BY Numbers DEF Inv, Tally
<1>15. /\ IsFiniteSet(WillMail(d)) /\ IsFiniteSet(WillCall(d))
       /\ \A ready : IsFiniteSet(WillRemind(d, ready))
  BY FewTasks
<1>16. WillMail(d)' \subseteq WillMail(d) /\ WillCall(d)' \subseteq WillCall(d)
  BY <1>7, <1>8, OneOwes
<1>17. /\ Len(outbox["email"][d]) + Cardinality(WillMail(d)) <= charge[d].issues
       /\ Len(outbox["whatsapp"][d]) + Cardinality(WillCall(d)) <= charge[d].issues
  BY DEF Tally
<1>18. Len(outbox["email"][d]) + Cardinality(WillMail(d)') <= charge[d].issues
  BY <1>14, <1>15, <1>16, <1>17, NoneJoins
<1>19. Len(outbox["whatsapp"][d]) + Cardinality(WillCall(d)') <= charge[d].issues
  BY <1>14, <1>15, <1>16, <1>17, NoneJoins
<1>20. ASSUME NEW ready \in Int
       PROVE  Cardinality(Reminders(d, ready)') + Cardinality(WillRemind(d, ready)')
                  <= charge[d].issues
  <2>1. Cardinality(Reminders(d, ready)) + Cardinality(WillRemind(d, ready)) <= charge[d].issues
    BY DEF Tally
  <2>2. CASE Reminders(d, ready)' = Reminders(d, ready)
    <3>1. Cardinality(Reminders(d, ready)) + Cardinality(WillRemind(d, ready)') <= charge[d].issues
      BY <1>9, <1>14, <1>15, <2>1, NoneJoins
    <3> QED
      BY <2>2, <3>1
  <2>3. CASE /\ d = c /\ ready = due
             /\ Cardinality(Reminders(d, ready)') = Cardinality(Reminders(d, ready)) + 1
    <3>1. t \in WillRemind(d, ready)
      BY <1>10, <2>3 DEF WillRemind
    <3>2. WillRemind(d, ready)' \subseteq WillRemind(d, ready) \ {t}
      BY <1>9, <2>3
    <3>3. Cardinality(Reminders(d, ready)) + 1 + Cardinality(WillRemind(d, ready)')
              <= charge[d].issues
      BY <1>14, <1>15, <2>1, <3>1, <3>2, PosterLeaves
    <3> QED
      BY <2>3, <3>3
  <2> QED
    BY <1>11, <2>2, <2>3
<1> QED
  BY <1>18, <1>19, <1>20


(* The second notice of a charge is a message of its own purpose.           *)
LEMMA UpcomingTally ==
    ASSUME Inv, Tally, NEW c \in Charges, UpcomingSend(c)
    PROVE  Tally'
<1>1. outbox' = Posted("upcoming", c, day, "waiting") \/ outbox' = outbox
  BY DEF UpcomingSend
<1>2. {"upcoming", "email", "whatsapp", "reminder"} \subseteq Purposes /\ day \in Int
  BY DEF Purposes, Inv, Shape
<1>3. SameNotices
  <2>1. CASE outbox' = Posted("upcoming", c, day, "waiting")
    <3>1. \A q \in Purposes, d \in Charges :
              <<q, d>> # <<"upcoming", c>> => outbox'[q][d] = outbox[q][d]
      BY <1>2, <2>1, PostedNotices DEF Inv
    <3>2. \A d \in Charges : /\ outbox'["email"][d] = outbox["email"][d]
                             /\ outbox'["whatsapp"][d] = outbox["whatsapp"][d]
                             /\ outbox'["reminder"][d] = outbox["reminder"][d]
      BY <1>2, <3>1
    <3> QED
      BY <3>2 DEF SameNotices, Reminders
  <2> QED
    BY <1>1, <2>1, SameBoxNotices
<1>4. SameIssues /\ \A t \in Tasks : OwesNoMore(task[t], task'[t])
  BY DEF UpcomingSend, SameIssues, Tally, OwesNoMore
<1> QED
  BY <1>3, <1>4, Quiet DEF Inv

(* A run at any other place owes nothing.                                   *)
Rests(r) == r.pc \notin {"email", "whatsapp", "add", "remind"}

LEMMA RestingOwesNothing ==
    ASSUME \A t \in Tasks : task'[t] = task[t] \/ Rests(task'[t])
    PROVE  \A t \in Tasks : OwesNoMore(task[t], task'[t])
BY DEF OwesNoMore, Rests, Mails, Calls, Reminds

LEMMA CrashRests ==
    ASSUME Inv, NEW t \in Tasks, Crash(t)
    PROVE  \A s \in Tasks : task'[s] = task[s] \/ Rests(task'[s])
<1> DEFINE again == [IdleRun EXCEPT !.kind = task[t].kind, !.stalls = task[t].stalls,
                         !.charge = IF task[t].kind = "cobrador" THEN task[t].charge ELSE None]
<1>1. /\ [again EXCEPT !.pc = "gone"].pc = "gone"
      /\ [again EXCEPT !.pc = "waiting", !.stalls = @ + 1].pc = "waiting"
  BY DEF IdleRun
<1> HIDE DEF again
<1>2. \A s \in Tasks :
         \/ task'[s] = [again EXCEPT !.pc = "waiting", !.stalls = @ + 1]
         \/ task'[s] = [again EXCEPT !.pc = "gone"]
         \/ task'[s] = [task[s] EXCEPT !.pc = "lost"]
         \/ task'[s] = task[s]
  BY DEF Crash, again
<1>3. \A s \in Tasks : [task[s] EXCEPT !.pc = "lost"].pc = "lost"
  BY DEF Inv, Shape, Run
<1> QED
  BY <1>1, <1>2, <1>3 DEF Rests

LEMMA SentinelaRests ==
    ASSUME Inv, NEW t \in Tasks,
           \/ SentinelaOpen(t) \/ SentinelaOverdue(t) \/ SentinelaMark(t)
           \/ SentinelaAssign(t) \/ SentinelaQueue(t) \/ SentinelaEnd(t)
    PROVE  \A s \in Tasks : task'[s] = task[s] \/ Rests(task'[s])
<1> USE DEF Inv, Shape, Run, Rests
<1>1. CASE SentinelaOpen(t)
  BY <1>1 DEF SentinelaOpen
<1>2. CASE SentinelaOverdue(t)
  BY <1>2 DEF SentinelaOverdue
<1>3. CASE SentinelaMark(t)
  <2>1. PICK row \in task[t].rows :
            task' = [task EXCEPT ![t].pc = "assign", ![t].charge = row[1],
                                 ![t].rows = @ \ {row}]
    BY <1>3 DEF SentinelaMark
  <2>2. task'[t].pc = "assign" /\ \A s \in Tasks \ {t} : task'[s] = task[s]
    BY <2>1
  <2> QED
    BY <2>2
<1>4. CASE SentinelaAssign(t)
  <2>1. PICK child \in Tasks :
            /\ task[child].pc = "absent"
            /\ task' = [task EXCEPT ![t].pc = "queue", ![t].child = child,
                                    ![child].kind = "cobrador", ![child].charge = task[t].charge,
                                    ![child].pc = "adding"]
    BY <1>4 DEF SentinelaAssign
  <2>2. child # t
    BY <1>4, <2>1 DEF SentinelaAssign
  <2>3. task'[t] = [task[t] EXCEPT !.pc = "queue", !.child = child]
    BY <2>1, <2>2
  <2>4. task'[child] = [task[child] EXCEPT !.kind = "cobrador", !.charge = task[t].charge,
                                          !.pc = "adding"]
    BY <2>1, <2>2
  <2>5. \A s \in Tasks \ {t, child} : task'[s] = task[s]
    BY <2>1
  <2>6. task'[t].pc = "queue"
    BY <2>3
  <2>7. task'[child].pc = "adding"
    BY <2>4
  <2> QED
    BY <2>5, <2>6, <2>7
<1>5. CASE SentinelaQueue(t)
  BY <1>5 DEF SentinelaQueue
<1>6. CASE SentinelaEnd(t)
  BY <1>6 DEF SentinelaEnd
<1> QED
  BY <1>1, <1>2, <1>3, <1>4, <1>5, <1>6

(* A run adds the job of its notice and goes on with the next, which it     *)
(* owed before.                                                             *)
LEMMA AddOwes ==
    ASSUME Inv, NEW t \in Tasks, AddMessage(t)
    PROVE  \A s \in Tasks : OwesNoMore(task[s], task'[s])
<1> DEFINE r == [task[t] EXCEPT !.pc = AfterPost(t), !.msg = <<>>]
<1>1. task' = [task EXCEPT ![t] = r] /\ task[t] \in Run /\ task[t].pc = "add"
  BY DEF AddMessage, Inv, Shape
<1>2. r.pc = AfterPost(t) /\ r.charge = task[t].charge /\ r.next = task[t].next
  BY <1>1 DEF Run
<1>3. /\ r.pc \in {"whatsapp", "done", "remind"}
      /\ r.pc = "whatsapp" => task[t].msg[1] = "email"
  BY <1>2 DEF AfterPost, AfterEmail
<1> HIDE DEF r
<1>4. OwesNoMore(task[t], r)
  <2>1. \A c : ~Mails(r, c) /\ (Calls(r, c) => Calls(task[t], c))
    BY <1>1, <1>2, <1>3 DEF Mails, Calls
  <2>2. \A c, ready : Reminds(r, c, ready) => Reminds(task[t], c, ready)
    BY <1>1, <1>2 DEF Reminds
  <2> QED
    BY <2>1, <2>2 DEF OwesNoMore
<1>5. task'[t] = r /\ \A s \in Tasks \ {t} : task'[s] = task[s]
  BY <1>1 DEF Inv, Shape
<1>6. \A s \in Tasks \ {t} : OwesNoMore(task[s], task'[s])
  BY <1>5 DEF OwesNoMore
<1> QED
  BY <1>4, <1>5, <1>6

LEMMA AddNotices ==
    ASSUME Inv, NEW t \in Tasks, AddMessage(t)
    PROVE  SameNotices
<1>1. PICK id \in Ids : id = task[t].msg /\ At(id).state = "adding"
  BY DEF AddMessage, Inv, Held
<1>2. PICK state \in {"waiting", "lost"} : outbox' = With(id, [At(id) EXCEPT !.state = state])
  BY <1>1 DEF AddMessage
<1>3. At(id) \in Message
  BY MessageIsGood DEF Inv
<1>4. [At(id) EXCEPT !.state = state].ready = At(id).ready
  BY <1>3 DEF Message
<1> QED
  BY <1>2, <1>4, ChangedNotices DEF Inv

LEMMA CrashNotices ==
    ASSUME Inv, NEW t \in Tasks, Crash(t)
    PROVE  SameNotices
<1>1. CASE outbox' = outbox
  BY <1>1, SameBoxNotices
<1>2. CASE outbox' # outbox
  <2>1. PICK id \in Ids : id = task[t].msg
    BY <1>2 DEF Crash, Inv, Held
  <2>2. outbox' = With(id, [At(id) EXCEPT !.state = "lost"])
    BY <1>2, <2>1 DEF Crash
  <2>3. At(id) \in Message
    BY MessageIsGood DEF Inv
  <2>4. [At(id) EXCEPT !.state = "lost"].ready = At(id).ready
    BY <2>3 DEF Message
  <2> QED
    BY <2>2, <2>4, ChangedNotices DEF Inv
<1> QED
  BY <1>1, <1>2

LEMMA WorkerNotices ==
    ASSUME Inv, NEW id \in Ids, RunMessage(id) \/ MessageCrash(id)
    PROVE  SameNotices
<1>1. At(id) \in Message
  BY MessageIsGood DEF Inv
<1>2. PICK m : outbox' = With(id, m) /\ m.ready = At(id).ready
  <2>1. CASE RenderFails(id)
    BY <1>1, <2>1 DEF RenderFails, Message
  <2>2. CASE Send(id)
    <3>1. PICK answer \in {"sent", "refused"}, taken \in {0, 1} :
              outbox' = With(id, [At(id) EXCEPT !.state = answer, !.sends = @ + taken,
                                      !.misled = @ \/ (answer = "sent") # (taken = 1)])
      BY <2>2 DEF Send
    <3>2. [At(id) EXCEPT !.state = answer, !.sends = @ + taken,
                         !.misled = @ \/ (answer = "sent") # (taken = 1)].ready = At(id).ready
      BY <1>1 DEF Message
    <3> QED
      BY <3>1, <3>2
  <2>3. CASE StoreMessage(id)
    <3>1. /\ [At(id) EXCEPT !.state = "stored", !.row = Outcome(At(id))].ready = At(id).ready
          /\ [At(id) EXCEPT !.state = "failed"].ready = At(id).ready
      BY <1>1 DEF Message
    <3> QED
      BY <2>3, <3>1 DEF StoreMessage
  <2>5. CASE CompleteMessage(id)
    BY <1>1, <2>5 DEF CompleteMessage, Message
  <2>4. CASE MessageCrash(id)
    <3>1. CASE At(id).stalls < MaxStalled
      <4>1. [At(id) EXCEPT !.state = "waiting", !.stalls = @ + 1].ready = At(id).ready
        BY <1>1 DEF Message
      <4> QED
        BY <2>4, <3>1, <4>1 DEF MessageCrash
    <3>2. CASE ~(At(id).stalls < MaxStalled)
      BY <1>1, <2>4, <3>2 DEF MessageCrash, Message
    <3> QED
      BY <3>1, <3>2
  <2> QED
    BY <2>1, <2>2, <2>3, <2>4, <2>5 DEF RunMessage
<1> QED
  BY <1>2, ChangedNotices DEF Inv

(* A run that a refused write takes further owes what it owed, but for the  *)
(* notice it gives up.                                                      *)
LEMMA RefusedOwes ==
    ASSUME Inv, NEW t \in Tasks, CobradorRefused(t)
    PROVE  \A s \in Tasks : OwesNoMore(task[s], task'[s])
<1>1. PICK pc \in {"done", "whatsapp", "remind"} :
          /\ task' = [task EXCEPT ![t].pc = pc]
          /\ (pc = "whatsapp") => (task[t].pc = "email")
          /\ (pc = "remind") => (task[t].pc \in Recorded)
  BY DEF CobradorRefused, AfterRefusal, AfterEmail, Recorded
<1> DEFINE r == [task[t] EXCEPT !.pc = pc]
<1>2. task' = [task EXCEPT ![t] = r] /\ task[t] \in Run
  <2>1. task[t] \in Run
    BY DEF Inv, Shape
  <2> QED
    BY <1>1, <2>1
<1>3. r.pc = pc /\ r.charge = task[t].charge /\ r.next = task[t].next
  BY <1>2 DEF Run
<1> HIDE DEF r
<1>4. OwesNoMore(task[t], r)
  <2>1. \A c : ~Mails(r, c) /\ (Calls(r, c) => Calls(task[t], c))
    BY <1>1, <1>3 DEF Mails, Calls
  <2>2. r.pc \in {"email", "whatsapp", "add", "remind"} => task[t].pc \in {"email", "whatsapp"}
    BY <1>1, <1>3 DEF Recorded
  <2>3. \A c, ready : Reminds(r, c, ready) => Reminds(task[t], c, ready)
    BY <1>3, <2>2 DEF Reminds
  <2> QED
    BY <2>1, <2>3 DEF OwesNoMore
<1>5. task'[t] = r /\ \A s \in Tasks \ {t} : task'[s] = task[s]
  BY <1>2 DEF Inv, Shape
<1>6. \A s \in Tasks \ {t} : OwesNoMore(task[s], task'[s])
  BY <1>5 DEF OwesNoMore
<1> QED
  BY <1>4, <1>5, <1>6

(* A payment status is no issue.                                            *)
LEMMA PayIssues ==
    ASSUME Tally, NEW c \in Charges, NEW pay \in {"open", "paid", "overdue"},
           charge' = [charge EXCEPT ![c].pay = pay]
    PROVE  SameIssues
<1>1. charge[c] \in Row /\ charge' = [charge EXCEPT ![c] = [charge[c] EXCEPT !.pay = pay]]
  BY DEF Tally
<1>2. /\ [charge[c] EXCEPT !.pay = pay] \in Row
      /\ [charge[c] EXCEPT !.pay = pay].issues = charge[c].issues
  BY <1>1 DEF Row
<1>3. charge' \in [Charges -> Row]
  BY <1>1, <1>2 DEF Tally
<1>4. \A d \in Charges : charge'[d].issues = charge[d].issues
  BY <1>1, <1>2 DEF Tally
<1> QED
  BY <1>3, <1>4 DEF SameIssues

LEMMA UnpaidIssues ==
    ASSUME Tally, charge' = charge
    PROVE  SameIssues
BY DEF SameIssues, Tally

(* Nobody else touches tasks.                                               *)
LEMMA OthersTally ==
    ASSUME Inv, Tally, UNCHANGED task, SameNotices, SameIssues
    PROVE  Tally'
<1>1. \A t \in Tasks : OwesNoMore(task[t], task'[t])
  BY DEF OwesNoMore
<1> QED
  BY <1>1, Quiet DEF Inv

LEMMA TaskTally ==
    ASSUME Inv, Tally, NEW t \in Tasks, RunTask(t)
    PROVE  Tally'
<1>1. CASE CobradorIssue(t)
  BY <1>1, IssueTally
<1>2. CASE PostMessage(t)
  BY <1>2, PostTally
<1>3. CASE ScheduleReminder(t)
  BY <1>3, ScheduleTally
<1>4. CASE AddMessage(t)
  BY <1>4, AddOwes, AddNotices, UnpaidIssues, Quiet DEF AddMessage, Inv
<1>5. CASE CobradorRead(t) \/ CobradorEnd(t)
  <2>1. \A s \in Tasks : task'[s] = task[s] \/ Rests(task'[s])
    BY <1>5 DEF CobradorRead, CobradorEnd, Rests, Inv, Shape, Run
  <2>2. charge' = charge /\ outbox' = outbox
    BY <1>5 DEF CobradorRead, CobradorEnd
  <2> QED
    BY <2>1, <2>2, RestingOwesNothing, SameBoxNotices, UnpaidIssues, Quiet DEF Inv
<1>6. CASE \/ SentinelaOpen(t) \/ SentinelaOverdue(t) \/ SentinelaMark(t)
           \/ SentinelaAssign(t) \/ SentinelaQueue(t) \/ SentinelaEnd(t)
  <2>1. outbox' = outbox
    BY <1>6, SentinelaKeeps
  <2>2. SameIssues
    <3>1. CASE SentinelaMark(t)
      <4>1. PICK row \in task[t].rows :
                charge' = IF row[2] = "open" THEN [charge EXCEPT ![row[1]].pay = "overdue"]
                                             ELSE charge
        BY <3>1 DEF SentinelaMark
      <4>2. PICK c \in Charges : c = row[1]
        BY <4>1 DEF Inv, Shape, Run, Selected
      <4>3. charge' = [charge EXCEPT ![c].pay = "overdue"] \/ charge' = charge
        BY <4>1, <4>2
      <4> QED
        BY <4>3, PayIssues, UnpaidIssues
    <3>2. CASE ~SentinelaMark(t)
      <4>1. charge' = charge
        BY <1>6, <3>2 DEF SentinelaOpen, SentinelaOverdue, SentinelaAssign, SentinelaQueue,
                          SentinelaEnd
      <4> QED
        BY <4>1, UnpaidIssues
    <3> QED
      BY <3>1, <3>2
  <2> QED
    BY <1>6, <2>1, <2>2, SentinelaRests, RestingOwesNothing, SameBoxNotices, Quiet DEF Inv
<1>7. CASE CobradorRefused(t)
  <2>1. charge' = charge /\ outbox' = outbox
    BY <1>7 DEF CobradorRefused
  <2> QED
    BY <1>7, <2>1, RefusedOwes, SameBoxNotices, UnpaidIssues, Quiet DEF Inv
<1> QED
  BY <1>1, <1>2, <1>3, <1>4, <1>5, <1>6, <1>7 DEF RunTask

LEMMA TallyStep == Inv /\ Tally /\ [Next]_vars => Tally'
<1> SUFFICES ASSUME Inv, Tally, [Next]_vars PROVE Tally'
  OBVIOUS
<1>1. CASE Tomorrow
  BY <1>1, SameBoxNotices, UnpaidIssues, OthersTally DEF Tomorrow
<1>2. ASSUME NEW c \in Charges, Settle(c) PROVE Tally'
  <2>1. SameIssues
    BY <1>2, PayIssues DEF Settle
  <2> QED
    BY <1>2, <2>1, SameBoxNotices, OthersTally DEF Settle
<1>3. ASSUME NEW t \in Tasks, AskSentinela(t) \/ \E c \in Charges : AskCobrador(t, c)
      PROVE  Tally'
  <2>1. task'[t].pc = "waiting" /\ \A s \in Tasks \ {t} : task'[s] = task[s]
    <3>1. CASE AskSentinela(t)
      BY <3>1 DEF AskSentinela, Inv, Shape, Run
    <3>2. ASSUME NEW c \in Charges, AskCobrador(t, c)
          PROVE  task'[t].pc = "waiting" /\ \A s \in Tasks \ {t} : task'[s] = task[s]
      BY <3>2 DEF AskCobrador, Inv, Shape, Run
    <3> QED
      BY <1>3, <3>1, <3>2
  <2>3. \A s \in Tasks : task'[s] = task[s] \/ Rests(task'[s])
    BY <2>1 DEF Rests
  <2>2. charge' = charge /\ outbox' = outbox
    BY <1>3 DEF AskSentinela, AskCobrador
  <2> QED
    BY <2>2, <2>3, RestingOwesNothing, SameBoxNotices, UnpaidIssues, Quiet DEF Inv
<1>4. ASSUME NEW t \in Tasks, RunTask(t) PROVE Tally'
  BY <1>4, TaskTally
<1>5. ASSUME NEW t \in Tasks, Crash(t) PROVE Tally'
  <2>1. charge' = charge
    BY <1>5 DEF Crash
  <2> QED
    BY <1>5, <2>1, CrashRests, CrashNotices, RestingOwesNothing, UnpaidIssues, Quiet DEF Inv
<1>6. CASE RunScheduler
  <2>1. CASE UpcomingScan
    BY <2>1, SameBoxNotices, UnpaidIssues, OthersTally DEF UpcomingScan
  <2>2. ASSUME NEW c \in Charges, UpcomingSend(c) PROVE Tally'
    BY <2>2, UpcomingTally
  <2>3. ASSUME NEW c \in Charges, OverdueMark(c) PROVE Tally'
    <3>1. SameIssues
      BY <2>3, PayIssues DEF OverdueMark
    <3> QED
      BY <2>3, <3>1, SameBoxNotices, OthersTally DEF OverdueMark
  <2> QED
    BY <1>6, <2>1, <2>2, <2>3 DEF RunScheduler
<1>7. CASE OverdueScan \/ SchedulerCrash
  BY <1>7, SameBoxNotices, UnpaidIssues, OthersTally DEF OverdueScan, SchedulerCrash
<1>8. ASSUME NEW id \in Ids, RunMessage(id) \/ MessageCrash(id) PROVE Tally'
  <2>1. task' = task /\ charge' = charge
    BY <1>8 DEF RunMessage, RenderFails, Send, StoreMessage, CompleteMessage, MessageCrash
  <2> QED
    BY <1>8, <2>1, WorkerNotices, UnpaidIssues, OthersTally
<1>9. CASE UNCHANGED vars
  BY <1>9, SameBoxNotices, UnpaidIssues, OthersTally DEF vars
<1> QED
  BY <1>1, <1>2, <1>3, <1>4, <1>5, <1>6, <1>7, <1>8, <1>9 DEF Next

LEMMA FewerThanAll ==
    ASSUME NEW n \in Nat, NEW w \in Nat, NEW k \in Nat, n + w <= k
    PROVE  n <= k
OBVIOUS

LEMMA TallyInit == Init => Tally
<1> SUFFICES ASSUME Init PROVE Tally
  OBVIOUS
<1>1. PICK issues \in [Charges -> {0, 1}] :
          charge = [c \in Charges |-> [issues |-> issues[c], pay |-> "open"]]
  BY DEF Init
<1>2. \A c \in Charges : charge[c].issues = issues[c] /\ issues[c] \in {0, 1}
  BY <1>1
<1>3. charge \in [Charges -> Row]
  BY <1>1, <1>2 DEF Row
<1>4. \A t \in Tasks : task[t].pc = "absent"
  BY DEF Init, IdleRun
<1>5. \A c : /\ WillMail(c) = {} /\ WillCall(c) = {}
             /\ \A ready : WillRemind(c, ready) = {}
  BY <1>4 DEF WillMail, WillCall, WillRemind, Mails, Calls, Reminds
<1>6. ASSUME NEW c \in Charges
      PROVE  /\ outbox["email"][c] = <<>> /\ outbox["whatsapp"][c] = <<>>
             /\ outbox["reminder"][c] = <<>>
  BY DEF Init, Purposes
<1>7. ASSUME NEW c \in Charges, NEW ready PROVE Reminders(c, ready) = {}
  <2>1. DOMAIN outbox["reminder"][c] = {}
    BY <1>6, EmptySeq, LenProperties
  <2> QED
    BY <2>1 DEF Reminders
<1>8. Cardinality({}) = 0 /\ Len(<<>>) = 0
  BY FS_EmptySet, EmptySeq
<1>9. ASSUME NEW c \in Charges
      PROVE  /\ Len(outbox["email"][c]) + Cardinality(WillMail(c)) <= charge[c].issues
             /\ Len(outbox["whatsapp"][c]) + Cardinality(WillCall(c)) <= charge[c].issues
             /\ \A ready \in Int :
                   Cardinality(Reminders(c, ready)) + Cardinality(WillRemind(c, ready))
                       <= charge[c].issues
  <2>1. charge[c].issues \in Nat /\ 0 + 0 <= charge[c].issues
    BY <1>2
  <2>2. /\ Len(outbox["email"][c]) = 0 /\ Cardinality(WillMail(c)) = 0
        /\ Len(outbox["whatsapp"][c]) = 0 /\ Cardinality(WillCall(c)) = 0
    BY <1>5, <1>6, <1>8
  <2>3. \A ready \in Int :
            Cardinality(Reminders(c, ready)) = 0 /\ Cardinality(WillRemind(c, ready)) = 0
    BY <1>5, <1>7, <1>8
  <2> QED
    BY <2>1, <2>2, <2>3
<1> QED
  BY <1>3, <1>9 DEF Tally

-----------------------------------------------------------------------------
(* The notice the scheduler repeats *)

(* A charge that the scheduler has still to remind.                         *)
Due(c) == scheduler.upcoming = "due" \/ c \in scheduler.remind
Ahead(c) == IF Due(c) THEN 1 ELSE 0

(* Each run of charge-reminders posts one notice for a charge, and there    *)
(* are as many runs as recoveries and one.                                  *)
Repeats ==
    /\ scheduler \in [upcoming : {"due", "ran"}, remind : SUBSET Charges,
                      mark : SUBSET Charges, stalls : Nat]
    /\ scheduler.upcoming = "due" => scheduler.remind = {}
    /\ \A c \in Charges : Len(outbox["upcoming"][c]) + Ahead(c) <= scheduler.stalls + 1

LEMMA RepeatsInit == Init => Repeats
<1> SUFFICES ASSUME Init PROVE Repeats
  OBVIOUS
<1>1. \A c \in Charges : Len(outbox["upcoming"][c]) = 0
  BY EmptySeq DEF Init, Purposes
<1>2. scheduler = [upcoming |-> "due", remind |-> {}, mark |-> {}, stalls |-> 0]
  BY DEF Init
<1>3. \A c \in Charges : Ahead(c) = 1
  BY <1>2 DEF Ahead, Due
<1>4. \A c \in Charges : Len(outbox["upcoming"][c]) + Ahead(c) <= scheduler.stalls + 1
  BY <1>1, <1>2, <1>3
<1> QED
  BY <1>2, <1>4 DEF Repeats

(* The scheduler and what it has posted stay.                               *)
SameRepeats == \A c \in Charges : Len(outbox'["upcoming"][c]) = Len(outbox["upcoming"][c])

LEMMA RepeatsStay ==
    ASSUME Repeats, SameRepeats, scheduler' = scheduler
    PROVE  Repeats'
<1>1. \A c \in Charges : Ahead(c)' = Ahead(c)
  BY DEF Ahead, Due
<1> QED
  BY <1>1 DEF Repeats, SameRepeats

(* A message that changes, or one of another purpose, is none of these.     *)
LEMMA OtherMessage ==
    ASSUME Inv
    PROVE  /\ \A id \in Ids : \A m : outbox' = With(id, m) => SameRepeats
           /\ \A p \in Purposes \ {"upcoming"}, c \in Charges : \A ready, state :
                 outbox' = Posted(p, c, ready, state) => SameRepeats
           /\ outbox' = outbox => SameRepeats
<1>1. ASSUME NEW id \in Ids, NEW m, outbox' = With(id, m) PROVE SameRepeats
  <2>1. PICK p \in Purposes, d \in Charges :
            \E n \in DOMAIN outbox[p][d] : id = <<p, d, n>>
    BY IdParts
  <2>2. PICK k \in DOMAIN outbox[p][d] : id = <<p, d, k>>
    BY <2>1
  <2>3. outbox' = [outbox EXCEPT ![p][d][k] = m]
    BY <1>1, <2>2 DEF With
  <2>4. outbox[p][d] \in Seq(Message) /\ outbox'[p][d] = [outbox[p][d] EXCEPT ![k] = m]
    BY <2>3 DEF Inv, Box
  <2>5. Len(outbox'[p][d]) = Len(outbox[p][d])
    <3>1. Len(outbox[p][d]) \in Nat /\ DOMAIN outbox[p][d] = 1 .. Len(outbox[p][d])
      BY <2>4, LenProperties
    <3>2. outbox'[p][d] \in [1 .. Len(outbox[p][d]) -> Message \cup {m}]
      BY <2>4, <3>1, ElementOfSeq
    <3>3. outbox'[p][d] \in Seq(Message \cup {m})
      BY <3>1, <3>2, SeqDef
    <3>4. /\ Len(outbox'[p][d]) \in Nat /\ DOMAIN outbox'[p][d] = 1 .. Len(outbox'[p][d])
          /\ DOMAIN outbox'[p][d] = 1 .. Len(outbox[p][d])
      BY <3>2, <3>3, LenProperties
    <3> QED
      BY <3>1, <3>4
  <2>6. \A c \in Charges : \/ outbox'["upcoming"][c] = outbox["upcoming"][c]
                         \/ (p = "upcoming" /\ c = d)
    <3>1. "upcoming" \in Purposes /\ outbox \in [Purposes -> [Charges -> Seq(Message)]]
      BY DEF Inv, Box, Purposes
    <3>2. ASSUME NEW c \in Charges, ~(p = "upcoming" /\ c = d)
          PROVE  outbox'["upcoming"][c] = outbox["upcoming"][c]
      <4>1. CASE p # "upcoming"
        BY <2>3, <3>1, <4>1
      <4>2. CASE p = "upcoming"
        <5>1. c # d
          BY <3>2, <4>2
        <5>2. outbox'["upcoming"] = [outbox["upcoming"] EXCEPT ![d][k] = m]
          BY <2>3, <3>1, <4>2
        <5> QED
          BY <3>1, <5>1, <5>2
      <4> QED
        BY <4>1, <4>2
    <3> QED
      BY <3>2
  <2> QED
    BY <2>5, <2>6 DEF SameRepeats
<1>2. ASSUME NEW p \in Purposes \ {"upcoming"}, NEW c \in Charges, NEW ready, NEW state,
             outbox' = Posted(p, c, ready, state)
      PROVE  SameRepeats
  BY <1>2 DEF Posted, SameRepeats, Inv, Box, Purposes
<1>3. ASSUME outbox' = outbox PROVE SameRepeats
  BY <1>3 DEF SameRepeats
<1> QED
  BY <1>1, <1>2, <1>3

LEMMA UpcomingRepeats ==
    ASSUME Inv, Repeats, NEW c \in Charges, UpcomingSend(c)
    PROVE  Repeats'
<1>1. /\ c \in scheduler.remind
      /\ scheduler' = [scheduler EXCEPT !.remind = @ \ {c}]
      /\ outbox' = Posted("upcoming", c, day, "waiting") \/ outbox' = outbox
  BY DEF UpcomingSend
<1>2. "upcoming" \in Purposes /\ day \in Int
  BY DEF Purposes, Inv, Shape
<1>3. \A d \in Charges : /\ Len(outbox["upcoming"][d]) \in Nat
                         /\ Len(outbox'["upcoming"][d]) \in Nat
                         /\ Len(outbox'["upcoming"][d]) <= Len(outbox["upcoming"][d]) + 1
                         /\ d # c => Len(outbox'["upcoming"][d]) = Len(outbox["upcoming"][d])
  <2>1. \A d \in Charges : Len(outbox["upcoming"][d]) \in Nat
    BY <1>2, LenProperties DEF Inv, Box
  <2>2. CASE outbox' = Posted("upcoming", c, day, "waiting")
    <3>1. /\ \A q \in Purposes, d \in Charges :
                <<q, d>> # <<"upcoming", c>> => outbox'[q][d] = outbox[q][d]
          /\ Len(outbox'["upcoming"][c]) = Len(outbox["upcoming"][c]) + 1
      BY <1>2, <2>2, PostedNotices DEF Inv
    <3>2. ASSUME NEW d \in Charges, d # c
          PROVE  Len(outbox'["upcoming"][d]) = Len(outbox["upcoming"][d])
      BY <1>2, <3>1, <3>2
    <3>3. Len(outbox'["upcoming"][c]) \in Nat
          /\ Len(outbox'["upcoming"][c]) <= Len(outbox["upcoming"][c]) + 1
      BY <2>1, <3>1
    <3>4. ASSUME NEW d \in Charges
          PROVE  /\ Len(outbox'["upcoming"][d]) \in Nat
                 /\ Len(outbox'["upcoming"][d]) <= Len(outbox["upcoming"][d]) + 1
      <4>1. CASE d = c
        BY <3>3, <4>1
      <4>2. CASE d # c
        BY <2>1, <3>2, <4>2
      <4> QED
        BY <4>1, <4>2
    <3> QED
      BY <2>1, <3>2, <3>4
  <2>3. CASE outbox' = outbox
    <3>1. \A n \in Nat : n <= n + 1
      OBVIOUS
    <3> QED
      BY <2>1, <2>3, <3>1
  <2> QED
    BY <1>1, <2>2, <2>3
<1>4. /\ scheduler'.remind = scheduler.remind \ {c} /\ scheduler'.upcoming = scheduler.upcoming
      /\ scheduler'.stalls = scheduler.stalls /\ scheduler.stalls \in Nat
      /\ scheduler' \in [upcoming : {"due", "ran"}, remind : SUBSET Charges,
                          mark : SUBSET Charges, stalls : Nat]
  BY <1>1 DEF Repeats
<1>5. scheduler.upcoming = "ran"
  BY <1>1 DEF Repeats
<1>6. ASSUME NEW d \in Charges
      PROVE  Len(outbox'["upcoming"][d]) + Ahead(d)' <= scheduler'.stalls + 1
  <2>1. Len(outbox["upcoming"][d]) + Ahead(d) <= scheduler.stalls + 1
    BY DEF Repeats
  <2>2. Ahead(d) = (IF d \in scheduler.remind THEN 1 ELSE 0)
        /\ Ahead(d)' = (IF d \in scheduler.remind \ {c} THEN 1 ELSE 0)
    BY <1>4, <1>5 DEF Ahead, Due
  <2>3. CASE d = c
    <3>1. Ahead(d) = 1 /\ Ahead(d)' = 0
      BY <1>1, <2>2, <2>3
    <3>2. /\ Len(outbox["upcoming"][d]) \in Nat /\ Len(outbox'["upcoming"][d]) \in Nat
          /\ Len(outbox'["upcoming"][d]) <= Len(outbox["upcoming"][d]) + 1
      BY <1>3
    <3> QED
      BY <1>4, <2>1, <3>1, <3>2
  <2>4. CASE d # c
    <3>1. Ahead(d)' = Ahead(d)
      BY <2>2, <2>4
    <3>2. Len(outbox'["upcoming"][d]) = Len(outbox["upcoming"][d])
      BY <1>3, <2>4
    <3> QED
      BY <1>4, <2>1, <3>1, <3>2
  <2> QED
    BY <2>3, <2>4
<1> QED
  BY <1>4, <1>5, <1>6 DEF Repeats

(* The scheduler scans, marks or dies.                                      *)
LEMMA SchedulerRepeats ==
    ASSUME Inv, Repeats,
           UpcomingScan \/ OverdueScan \/ SchedulerCrash \/ \E c \in Charges : OverdueMark(c)
    PROVE  Repeats'
<1>1. \A c \in Charges : Len(outbox["upcoming"][c]) \in Nat
  BY LenProperties DEF Inv, Box, Purposes
<1>2. outbox' = outbox
  BY DEF UpcomingScan, OverdueScan, SchedulerCrash, OverdueMark
<1>3. CASE UpcomingScan
  <2>1. \A c \in Charges : Ahead(c) = 1 /\ Ahead(c)' \in {0, 1}
    BY <1>3 DEF UpcomingScan, Ahead, Due
  <2>2. /\ scheduler' \in [upcoming : {"due", "ran"}, remind : SUBSET Charges,
                            mark : SUBSET Charges, stalls : Nat]
        /\ scheduler'.upcoming = "ran" /\ scheduler'.stalls = scheduler.stalls
        /\ scheduler.stalls \in Nat
    BY <1>3 DEF UpcomingScan, Repeats
  <2>3. \A c \in Charges : Len(outbox["upcoming"][c]) + Ahead(c) <= scheduler.stalls + 1
    BY DEF Repeats
  <2>4. \A c \in Charges : Len(outbox'["upcoming"][c]) + Ahead(c)' <= scheduler'.stalls + 1
    BY <1>1, <1>2, <2>1, <2>2, <2>3
  <2> QED
    BY <2>2, <2>4 DEF Repeats
<1>4. CASE OverdueScan \/ \E c \in Charges : OverdueMark(c)
  <2>1. /\ scheduler' \in [upcoming : {"due", "ran"}, remind : SUBSET Charges,
                            mark : SUBSET Charges, stalls : Nat]
        /\ scheduler'.upcoming = scheduler.upcoming /\ scheduler'.stalls = scheduler.stalls
        /\ scheduler'.remind = scheduler.remind
    BY <1>4 DEF OverdueScan, OverdueMark, Repeats
  <2>2. \A c \in Charges : Ahead(c)' = Ahead(c)
    BY <2>1 DEF Ahead, Due
  <2> QED
    BY <1>2, <2>1, <2>2 DEF Repeats
<1>5. CASE SchedulerCrash
  <2>1. CASE scheduler.remind # {} /\ scheduler.stalls < MaxStalled
    <3>1. scheduler' = [upcoming |-> "due", remind |-> {}, mark |-> {},
                        stalls |-> scheduler.stalls + 1]
      BY <1>5, <2>1 DEF SchedulerCrash
    <3>2. /\ scheduler.stalls \in Nat
          /\ \A c \in Charges : Len(outbox["upcoming"][c]) + Ahead(c) <= scheduler.stalls + 1
          /\ \A c \in Charges : Ahead(c) \in {0, 1} /\ Ahead(c)' \in {0, 1}
      BY DEF Repeats, Ahead
    <3>3. \A c \in Charges : Len(outbox'["upcoming"][c]) + Ahead(c)' <= scheduler'.stalls + 1
      BY <1>1, <1>2, <3>1, <3>2
    <3> QED
      BY <3>1, <3>2, <3>3 DEF Repeats
  <2>2. CASE ~(scheduler.remind # {} /\ scheduler.stalls < MaxStalled)
    <3>1. /\ scheduler' = [scheduler EXCEPT !.remind = {}, !.mark = {}]
          /\ scheduler.stalls \in Nat
      BY <1>5, <2>2 DEF SchedulerCrash, Repeats
    <3>2. /\ scheduler' \in [upcoming : {"due", "ran"}, remind : SUBSET Charges,
                              mark : SUBSET Charges, stalls : Nat]
          /\ scheduler'.upcoming = scheduler.upcoming /\ scheduler'.stalls = scheduler.stalls
          /\ scheduler'.remind = {}
      BY <3>1 DEF Repeats
    <3>3. \A c \in Charges : Ahead(c)' <= Ahead(c) /\ Ahead(c) \in {0, 1} /\ Ahead(c)' \in {0, 1}
      BY <3>2 DEF Ahead, Due
    <3>4. \A c \in Charges : Len(outbox["upcoming"][c]) + Ahead(c) <= scheduler.stalls + 1
      BY DEF Repeats
    <3>5. \A c \in Charges : Len(outbox'["upcoming"][c]) + Ahead(c)' <= scheduler'.stalls + 1
      BY <1>1, <1>2, <3>1, <3>2, <3>3, <3>4
    <3> QED
      BY <3>2, <3>5 DEF Repeats
  <2> QED
    BY <2>1, <2>2
<1> QED
  BY <1>3, <1>4, <1>5

(* A task posts notices of its own purposes, or none.                       *)
LEMMA TaskRepeats ==
    ASSUME Inv, Repeats, NEW t \in Tasks, RunTask(t) \/ Crash(t)
    PROVE  Repeats'
<1>1. scheduler' = scheduler
  BY DEF RunTask, Crash, CobradorRead, CobradorIssue, PostMessage, AddMessage, CobradorRefused,
         ScheduleReminder, CobradorEnd, SentinelaOpen, SentinelaOverdue, SentinelaMark,
         SentinelaAssign, SentinelaQueue, SentinelaEnd
<1>2. SameRepeats
  <2>1. CASE PostMessage(t)
    <3>1. PICK p \in Recorded, c \in Charges : p = task[t].pc /\ c = task[t].charge
      BY <2>1 DEF PostMessage, Recorded, Inv, Shape, ChargeKnown
    <3>2. outbox' = Posted(p, c, day, "adding") /\ p \in Purposes \ {"upcoming"}
      BY <2>1, <3>1 DEF PostMessage, Recorded, Purposes
    <3> QED
      BY <3>2, OtherMessage
  <2>2. CASE AddMessage(t)
    <3>1. PICK id \in Ids : id = task[t].msg
      BY <2>2 DEF AddMessage, Inv, Held
    <3>2. \E m : outbox' = With(id, m)
      BY <2>2, <3>1 DEF AddMessage
    <3> QED
      BY <3>2, OtherMessage
  <2>3. CASE ScheduleReminder(t)
    <3>1. PICK c \in Charges : c = task[t].charge
      BY <2>3 DEF ScheduleReminder, Inv, Shape, ChargeKnown
    <3>2. "reminder" \in Purposes \ {"upcoming"}
      BY DEF Purposes
    <3>3. outbox' = outbox \/ \E ready : outbox' = Posted("reminder", c, ready, "waiting")
      BY <2>3, <3>1 DEF ScheduleReminder
    <3> QED
      BY <3>2, <3>3, OtherMessage
  <2>4. CASE Crash(t)
    <3>1. CASE outbox' = outbox
      BY <3>1, OtherMessage
    <3>2. CASE outbox' # outbox
      <4>1. PICK id \in Ids : id = task[t].msg
        BY <2>4, <3>2 DEF Crash, Inv, Held
      <4>2. outbox' = With(id, [At(id) EXCEPT !.state = "lost"])
        BY <2>4, <3>2, <4>1 DEF Crash
      <4> QED
        BY <4>2, OtherMessage
    <3> QED
      BY <3>1, <3>2
  <2>5. CASE CobradorRead(t) \/ CobradorIssue(t) \/ CobradorRefused(t) \/ CobradorEnd(t)
    BY <2>5, CobradorKeeps, OtherMessage
  <2>6. CASE \/ SentinelaOpen(t) \/ SentinelaOverdue(t) \/ SentinelaMark(t)
             \/ SentinelaAssign(t) \/ SentinelaQueue(t) \/ SentinelaEnd(t)
    BY <2>6, SentinelaKeeps, OtherMessage
  <2> QED
    BY <2>1, <2>2, <2>3, <2>4, <2>5, <2>6 DEF RunTask
<1> QED
  BY <1>1, <1>2, RepeatsStay

LEMMA RepeatsStep == Inv /\ Repeats /\ [Next]_vars => Repeats'
<1> SUFFICES ASSUME Inv, Repeats, [Next]_vars PROVE Repeats'
  OBVIOUS
<1>1. CASE Tomorrow \/ (\E c \in Charges : Settle(c)) \/ UNCHANGED vars
           \/ \E t \in Tasks : AskSentinela(t) \/ \E c \in Charges : AskCobrador(t, c)
  <2>1. outbox' = outbox /\ scheduler' = scheduler
    BY <1>1 DEF Tomorrow, Settle, AskSentinela, AskCobrador, vars
  <2> QED
    BY <2>1, OtherMessage, RepeatsStay
<1>2. ASSUME NEW t \in Tasks, RunTask(t) \/ Crash(t) PROVE Repeats'
  BY <1>2, TaskRepeats
<1>3. CASE RunScheduler \/ OverdueScan \/ SchedulerCrash
  BY <1>3, UpcomingRepeats, SchedulerRepeats DEF RunScheduler
<1>4. ASSUME NEW id \in Ids, RunMessage(id) \/ MessageCrash(id) PROVE Repeats'
  <2>1. scheduler' = scheduler /\ \E m : outbox' = With(id, m)
    BY <1>4 DEF RunMessage, RenderFails, Send, StoreMessage, CompleteMessage, MessageCrash
  <2> QED
    BY <2>1, OtherMessage, RepeatsStay
<1> QED
  BY <1>1, <1>2, <1>3, <1>4 DEF Next

-----------------------------------------------------------------------------
(* The theorem *)


LEMMA TallyMatches ==
    ASSUME Inv, Tally, NEW c \in Charges
    PROVE  /\ \A purpose \in Recorded : Len(outbox[purpose][c]) <= charge[c].issues
           /\ \A ready \in 0 .. LastDay : Cardinality(Reminders(c, ready)) <= charge[c].issues
<1>1. /\ Len(outbox["email"][c]) \in Nat /\ Len(outbox["whatsapp"][c]) \in Nat
      /\ charge[c].issues \in Nat
      /\ \A ready \in Int : Cardinality(Reminders(c, ready)) \in Nat
  BY Numbers DEF Inv, Tally
<1>2. /\ Cardinality(WillMail(c)) \in Nat /\ Cardinality(WillCall(c)) \in Nat
      /\ \A ready : Cardinality(WillRemind(c, ready)) \in Nat
  BY FewTasks, FS_CardinalityType
<1>3. /\ Len(outbox["email"][c]) <= charge[c].issues
      /\ Len(outbox["whatsapp"][c]) <= charge[c].issues
  <2>1. /\ Len(outbox["email"][c]) + Cardinality(WillMail(c)) <= charge[c].issues
        /\ Len(outbox["whatsapp"][c]) + Cardinality(WillCall(c)) <= charge[c].issues
    BY DEF Tally
  <2> QED
    BY <1>1, <1>2, <2>1, FewerThanAll
<1>4. ASSUME NEW ready \in 0 .. LastDay
      PROVE  Cardinality(Reminders(c, ready)) <= charge[c].issues
  <2>0. ready \in Int
    BY CollectionsAssumption
  <2>1. Cardinality(Reminders(c, ready)) + Cardinality(WillRemind(c, ready)) <= charge[c].issues
    BY <2>0 DEF Tally
  <2>2. Cardinality(Reminders(c, ready)) \in Nat /\ Cardinality(WillRemind(c, ready)) \in Nat
    BY <1>1, <1>2, <2>0
  <2> QED
    BY <1>1, <2>1, <2>2, FewerThanAll
<1> QED
  BY <1>3, <1>4 DEF Recorded

LEMMA Matches == Inv /\ Tally /\ Repeats => NoticesMatchIssues
<1> SUFFICES ASSUME Inv, Tally, Repeats PROVE NoticesMatchIssues
  OBVIOUS
<1>1. ASSUME NEW c \in Charges PROVE Len(outbox["upcoming"][c]) <= scheduler.stalls + 1
  <2>1. Len(outbox["upcoming"][c]) \in Nat
    BY LenProperties DEF Inv, Box, Purposes
  <2>2. scheduler.stalls \in Nat /\ Ahead(c) \in {0, 1}
        /\ Len(outbox["upcoming"][c]) + Ahead(c) <= scheduler.stalls + 1
    BY DEF Repeats, Ahead
  <2> QED
    BY <2>1, <2>2
<1>2. ASSUME NEW id \in Ids PROVE At(id).sends <= At(id).stalls + 1 /\ At(id).stalls <= MaxStalled
  <2>1. At(id) \in Message /\ Good(id[1], At(id))
    BY MessageIsGood DEF Inv
  <2>2. At(id).sends \in Nat /\ At(id).stalls \in Nat
    BY <2>1 DEF Message
  <2> QED
    BY <2>1, <2>2 DEF Good
<1> QED
  BY <1>1, <1>2, TallyMatches DEF NoticesMatchIssues

(* The notices of a charge that are posted, and the times each is           *)
(* delivered, are bounded by the issues of the charge and by the deaths of  *)
(* the workers that had them, for any number of Cobrador and Sentinela      *)
(* tasks, reruns and faults (cobrador-collect.ts, scheduler.ts and          *)
(* message-processor.ts), if no two reminders are for the same day.         *)
THEOREM NoticesAreMatched == Spec => []NoticesMatchIssues
<1>1. Init => Inv /\ Tally /\ Repeats
  BY ShapeInit, BoxInit, HeldInit, TallyInit, RepeatsInit DEF Inv
<1>2. Inv /\ Tally /\ Repeats /\ [Next]_vars => (Inv /\ Tally /\ Repeats)'
  BY InvStep, TallyStep, RepeatsStep
<1> QED
  BY <1>1, <1>2, Matches, PTL DEF Spec

=============================================================================
