---------------------------- MODULE MCReportJobs ----------------------------
(* Two executions in one process, and an administrator there or elsewhere.   *)
EXTENDS ReportJobs, TLC

CONSTANTS
    w1, w2,       \* processes
    e1, e2, a1    \* two executions and an administrator

MCHome == e1 :> w1 @@ e2 :> w1 @@ a1 :> w2
MCHomeTogether == [t \in Executions \cup Admins |-> w1]
=============================================================================
