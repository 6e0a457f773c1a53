---------------------------- MODULE MCWorkerQueue ----------------------------
(* Two tasks contending for one permit: every order of wakeups, recovery    *)
(* polls, completions, stops, failures and crashes.                         *)
EXTENDS WorkerQueue

CONSTANTS t1, t2
MCTasks == {t1, t2}
=============================================================================
