----------------------------- MODULE MCPyTasks -----------------------------
(* Instances of PyTasks for TLC.                                            *)
EXTENDS PyTasks, TLC
=============================================================================
