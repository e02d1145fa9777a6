--------------------------- MODULE MCJobScheduler ---------------------------
(* Small instances of JobScheduler: a development server (one process, two  *)
(* threads) and the production command line (two workers).                  *)
EXTENDS JobScheduler

CONSTANTS w1, w2, t1, t2, j1, j2

OneWorker == [t \in {t1, t2} |-> w1]
TwoWorkers == [t \in {t1, t2} |-> IF t = t1 THEN w1 ELSE w2]

(* j1 is the job that runs, j2 a bystander in the same file. *)
TwoTriggers == [j \in Jobs |-> IF j = j1 THEN 2 ELSE 0]
=============================================================================
