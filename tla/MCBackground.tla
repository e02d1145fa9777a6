---------------------------- MODULE MCBackground ----------------------------
(* That the work in the background comes to an end, part by part in one      *)
(* state graph: the dashboard's summary, the other six caches, the reports,  *)
(* the writes of a file.  A behaviour takes the steps of one part and leaves *)
(* the others at rest.                                                       *)
EXTENDS MCBackgroundCache, MCCaches, MCReportJobs, AtomicFile

VARIABLE part

(* The start-up thread has ended after a good run, and nothing is asked.     *)
SummaryAtRest ==
    /\ inventory = 1 /\ history = inventory
    /\ store = [status |-> "ok", totals |-> inventory]
    /\ thr = [t \in Threads |-> [pc |-> IF t = Startup THEN "done" ELSE "idle", got |-> 0]]
    /\ refreshing = FALSE /\ held = FALSE /\ raced = FALSE
    /\ failures = 0 /\ runs = 0

SomeText == CHOOSE v \in Texts : TRUE

Init ==
    /\ part \in {"summary", "caches", "reports", "writes"}
    /\ IF part = "summary" THEN SummaryInit ELSE SummaryAtRest
    /\ CachesInit /\ (part = "caches" \/ cache = "adoms")
    /\ ReportInit /\ (part = "reports" \/ kind = "nat")
    /\ AtomicInit /\ (part = "writes" \/ (~mounted /\ last = SomeText))

Next ==
    /\ UNCHANGED part
    /\ \/ part = "summary" /\ SummaryNext /\ UNCHANGED <<cacheVars, reportVars, atomicVars>>
       \/ part = "caches" /\ CachesNext /\ UNCHANGED <<summaryVars, reportVars, atomicVars>>
       \/ part = "reports" /\ ReportNext /\ UNCHANGED <<summaryVars, cacheVars, atomicVars>>
       \/ part = "writes" /\ AtomicNext /\ UNCHANGED <<summaryVars, cacheVars, reportVars>>

(* The fairness of SummarySpec, FairCachesSpec, FairReportSpec, AtomicSpec.  *)
Spec ==
    /\ Init /\ [][Next]_<<part, summaryVars, cacheVars, reportVars, atomicVars>>
    /\ \A t \in Threads : WF_summaryVars(part = "summary" /\ Step(t))
    /\ \A t \in Refreshers : WF_cacheVars(part = "caches" /\ RefreshStep(t))
    /\ \A e \in Executions : WF_reportVars(part = "reports" /\ ExecutionStep(e))
    /\ \A a \in Admins : WF_reportVars(part = "reports" /\ SaveEdit(a))
    /\ \A p \in Procs : WF_atomicVars(part = "writes" /\ WriterStep(p))
=============================================================================
