-------------------------- MODULE MCDataTransTasks --------------------------
(* Instance of DataTransTasks for TLC: its constants are numbers, which the *)
(* configurations give.                                                     *)
EXTENDS DataTransTasks
=============================================================================
