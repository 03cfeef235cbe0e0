---------------------------- MODULE MCAgentTasks ----------------------------
(* Instances of AgentTasks for TLC: two thresholds configurations, one of   *)
(* them with the thresholds in the wrong order, which the API accepts.      *)
EXTENDS AgentTasks

MCConfigs == {[auto |-> 2, escalate |-> 1], [auto |-> 1, escalate |-> 3]}
OneConfig == {[auto |-> 2, escalate |-> 1]}
=============================================================================
