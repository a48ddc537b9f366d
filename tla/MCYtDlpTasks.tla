---------------------------- MODULE MCYtDlpTasks ----------------------------
(***************************************************************************)
(* Instances of YtDlpTasks for TLC.                                        *)
(***************************************************************************)
EXTENDS YtDlpTasks, TLC

CONSTANTS t1, t2

TaskTwins == Permutations(Tasks)
=============================================================================
