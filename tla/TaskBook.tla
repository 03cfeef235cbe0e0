------------------------------- MODULE TaskBook -------------------------------
(***************************************************************************)
(* What the agent-tasks page of apps/api shows of the table "tasks": rows  *)
(* are inserted, run, and are closed with what they did; people start a    *)
(* failed or escalated row again or resolve an escalated one.  A step is   *)
(* one change of one row, and a row is only ever changed from the status   *)
(* the page shows.                                                         *)
(***************************************************************************)
EXTENDS Integers, Sequences

VARIABLE table   \* rows in the order of insertion: type, status, charges committed

Init == table = <<>>

\* A month to charge, or the message that tells of a failed one; reminders,
\* escalations and bulk requests.
Insert ==
    \E new \in [type : {"generate"}, status : {"PENDING", "FAILED"}, charged : {0}]
        \cup [type : {"other"}, status : {"PENDING", "RUNNING", "ESCALATED"}, charged : {0}] :
            table' = Append(table, new)

Moves(i, old, new) ==
    /\ table[i].status = old
    /\ table' = [table EXCEPT ![i].status = new]

Start(i) == table[i].type = "generate" /\ Moves(i, "PENDING", "RUNNING")

\* The rent of the month, once.
ChargeTenant(i) ==
    /\ table[i].type = "generate" /\ table[i].status = "RUNNING" /\ table[i].charged = 0
    /\ table' = [table EXCEPT ![i].charged = 1]

\* DONE tells that the tenant was charged, and FAILED that he was not.
Done(i) ==
    /\ table[i].type = "generate" => table[i].charged = 1
    /\ Moves(i, "RUNNING", "DONE")

Failed(i) ==
    /\ table[i].type = "generate" /\ table[i].charged = 0
    /\ Moves(i, "RUNNING", "FAILED")

Retry(i) == \E old \in {"FAILED", "ESCALATED"} : Moves(i, old, "PENDING")

Resolve(i) ==
    /\ table[i].type = "other"
    /\ \E new \in {"DONE", "FAILED"} : Moves(i, "ESCALATED", new)

Next ==
    \/ Insert
    \/ \E i \in DOMAIN table :
          Start(i) \/ ChargeTenant(i) \/ Done(i) \/ Failed(i) \/ Retry(i) \/ Resolve(i)

Spec == Init /\ [][Next]_table
=============================================================================
