------------------------- MODULE MCTaskExecution -------------------------
(* Two tasks, one of them repeatable, on one worker and a one-record      *)
(* ledger, with one restart of the server and two Runner processes.       *)
EXTENDS TaskExecution

CONSTANTS write, read

MCRequests == {write, read}
MCRepeatable == {read}
==========================================================================
