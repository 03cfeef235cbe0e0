------------------------------ MODULE AgentBook ------------------------------
(***************************************************************************)
(* What the pages and the API of the agent tasks promise: a task is        *)
(* submitted, it runs, its row gets the result in one step, and people     *)
(* decide on the output the row shows, until it is rejected.  There are no *)
(* jobs, worker slots or open review pages here.                           *)
(***************************************************************************)
EXTENDS Integers

CONSTANT Tasks

VARIABLE row   \* per task: status, output shown, action on record, verdict

Init == row = [t \in Tasks |-> [status |-> "absent", output |-> 0, action |-> 0,
                                verdict |-> "none"]]

Submit(t) ==
    /\ row[t].status = "absent"
    /\ row' = [row EXCEPT ![t].status = "queued"]

Begin(t) ==
    /\ row[t].status = "queued"
    /\ row' = [row EXCEPT ![t].status = "running"]

\* A run ends with an output, which is put into action at most if the task is
\* not escalated to a person.
Finish(t) ==
    LET end == row'[t] IN
    /\ row[t].status = "running"
    /\ end.status \in {"completed", "failed", "escalated"}
    /\ end.output # 0 /\ end.action \in {0, end.output}
    /\ end.status = "escalated" => end.action = 0
    /\ row' = [row EXCEPT ![t] = [status |-> end.status, output |-> end.output,
                                  action |-> end.action, verdict |-> "none"]]

\* A run that raises an error leaves nothing behind.
Fail(t) ==
    /\ row[t].status = "running"
    /\ row' = [row EXCEPT ![t].status = "failed"]

Open(t) == row[t].status \in {"completed", "escalated"}

\* What is shown is put into action.
Approve(t) ==
    /\ Open(t)
    /\ row' = [row EXCEPT ![t] = [status |-> "completed", output |-> row[t].output,
                                  action |-> row[t].output, verdict |-> "approved"]]

\* Nothing, or what the person proposes (-1), takes the place of the action; the
\* task is closed.
Reject(t) ==
    /\ Open(t)
    /\ \E own \in {0, -1} :
        row' = [row EXCEPT ![t] = [status |-> "cancelled", output |-> row[t].output,
                                   action |-> own, verdict |-> "rejected"]]

Next == \E t \in Tasks : Submit(t) \/ Begin(t) \/ Finish(t) \/ Fail(t) \/ Approve(t) \/ Reject(t)

Spec == Init /\ [][Next]_row
=============================================================================
