-------------------------- MODULE BackgroundCache --------------------------
(***************************************************************************)
(* The dashboard summary of summary_job.py: a store that a background job  *)
(* fills from FortiManager at start-up, by cron and on request, and that   *)
(* /api/summary serves.  map_cache.py, versions_cache.py and               *)
(* license_cache.py are built to the same plan (the last two without the   *)
(* start-up retry).  One process, all of whose threads share the module's  *)
(* _store, _lock and _running.                                             *)
(*                                                                         *)
(* The totals are reduced to the generation of the inventory they count;   *)
(* 0 stands for None.                                                      *)
(***************************************************************************)
EXTENDS Naturals, FiniteSets

CONSTANTS
    Threads,       \* scheduler, request and refresh threads, and Startup
    Startup,       \* the thread that init_scheduler starts
    MaxRuns,       \* bound: cron firings, refreshes and summary requests
    MaxChanges,    \* bound: changes of the inventory
    MaxLosses      \* bound: runs that lose FortiManager, history writes that fail

ASSUME StartupIsAThread == Startup \in Threads

VARIABLES
    store,      \* _store: its status and its totals
    history,    \* today's totals in summary_history.json
    refreshing, \* _running
    held,       \* _startup holds _lock while it sleeps and retries
    thr,        \* thr[t]: where t is, and the totals it has counted
    inventory,  \* generation of FortiManager's inventory
    raced,      \* two threads were between the test of _running and its set()
    failures, runs   \* spent of MaxLosses and MaxRuns

summaryVars ==
    <<store, history, refreshing, held, thr, inventory, raced, failures, runs>>

InJob == {"mark", "begin", "fetch", "publish", "record", "fail", "clear"}

(* The process that served before may have recorded today's totals.         *)
SummaryInit ==
    /\ inventory = 1
    /\ store = [status |-> "pending", totals |-> 0]
    /\ history \in {0, inventory}
    /\ refreshing = FALSE
    /\ held = FALSE
    /\ thr = [t \in Threads |->
                 [pc |-> IF t = Startup THEN "check" ELSE "idle", got |-> 0]]
    /\ raced = FALSE
    /\ failures = 0
    /\ runs = 0

At(t, pc) == thr[t].pc = pc
Goto(t, pc) == thr' = [thr EXCEPT ![t].pc = pc]

(* Where _run_job returns to: _startup once with and once without the lock, *)
(* the end of the thread or of the scheduler's call otherwise.              *)
Return(t) ==
    thr' = [thr EXCEPT ![t] =
               [pc |-> IF t # Startup THEN "idle"
                       ELSE IF held THEN "release" ELSE "inspect",
                got |-> 0]]

-----------------------------------------------------------------------------
(* Cron, /api/summary/refresh, /api/summary *)

Begin(t, pc) ==
    /\ At(t, "idle")
    /\ runs < MaxRuns
    /\ runs' = runs + 1
    /\ Goto(t, pc)
    /\ UNCHANGED <<store, history, refreshing, held, inventory, raced, failures>>

Trigger(t) == Begin(t, "check")
AskSummary(t) == Begin(t, "read")

(* get_summary *)
GetSummary(t) ==
    /\ At(t, "read")
    /\ ~held
    /\ Goto(t, "idle")
    /\ UNCHANGED <<store, history, refreshing, held, inventory, raced, failures,
                   runs>>

ChangeInventory ==
    /\ inventory <= MaxChanges
    /\ inventory' = inventory + 1
    /\ UNCHANGED <<store, history, refreshing, held, thr, raced, failures, runs>>

-----------------------------------------------------------------------------
(* _run_job *)

(* Mutants, here and below: what a plausible bug would make of the           *)
(* definition that follows.  No behaviour of SummarySpec uses them.                 *)

(* _running is not looked at. *)
PassCheckAlways(t) ==
    /\ At(t, "check")
    /\ raced' = (raced \/ \E u \in Threads \ {t} : At(u, "mark"))
    /\ Goto(t, "mark")
    /\ UNCHANGED <<store, history, refreshing, held, inventory, failures, runs>>

PassCheck(t) ==
    /\ At(t, "check")
    /\ ~refreshing
    /\ raced' = (raced \/ \E u \in Threads \ {t} : At(u, "mark"))
    /\ Goto(t, "mark")
    /\ UNCHANGED <<store, history, refreshing, held, inventory, failures, runs>>

SkipOverlap(t) ==
    /\ At(t, "check")
    /\ refreshing
    /\ Return(t)
    /\ UNCHANGED <<store, history, refreshing, held, inventory, raced, failures,
                   runs>>

Mark(t) ==
    /\ At(t, "mark")
    /\ refreshing' = TRUE
    /\ Goto(t, "begin")
    /\ UNCHANGED <<store, history, held, inventory, raced, failures, runs>>

(* "with _lock": a thread of its own waits for it, and so does _startup     *)
(* itself when it holds it (threading.Lock is not re-entrant).              *)
BeginRun(t) ==
    /\ At(t, "begin")
    /\ ~held
    /\ store' = [store EXCEPT !.status = "running"]
    /\ Goto(t, "fetch")
    /\ UNCHANGED <<history, refreshing, held, inventory, raced, failures, runs>>

(* ADOMs, devices, packages and rules are counted. *)
Fetch(t) ==
    /\ At(t, "fetch")
    /\ thr' = [thr EXCEPT ![t] = [pc |-> "publish", got |-> inventory]]
    /\ UNCHANGED <<store, history, refreshing, held, inventory, raced, failures,
                   runs>>

(* The exception is only logged. *)
FetchFailsSilently(t) ==
    /\ At(t, "fetch")
    /\ failures < MaxLosses
    /\ failures' = failures + 1
    /\ Goto(t, "clear")
    /\ UNCHANGED <<store, history, refreshing, held, inventory, raced, runs>>

(* Login or the ADOM list fails.  (What fails for one ADOM is logged, and   *)
(* that ADOM is not counted.)                                               *)
FetchFails(t) ==
    /\ At(t, "fetch")
    /\ failures < MaxLosses
    /\ failures' = failures + 1
    /\ Goto(t, "fail")
    /\ UNCHANGED <<store, history, refreshing, held, inventory, raced, runs>>

(* _running is cleared with the store already, before the history. *)
PublishCleared(t) ==
    /\ At(t, "publish")
    /\ ~held
    /\ store' = [status |-> "ok", totals |-> thr[t].got]
    /\ refreshing' = FALSE
    /\ Goto(t, "record")
    /\ UNCHANGED <<history, held, inventory, raced, failures, runs>>

Publish(t) ==
    /\ At(t, "publish")
    /\ ~held
    /\ store' = [status |-> "ok", totals |-> thr[t].got]
    /\ Goto(t, "record")
    /\ UNCHANGED <<history, refreshing, held, inventory, raced, failures, runs>>

(* record_today replaces today's entry. *)
Record(t) ==
    /\ At(t, "record")
    /\ history' = thr[t].got
    /\ Goto(t, "clear")
    /\ UNCHANGED <<store, refreshing, held, inventory, raced, failures, runs>>

(* Its failure is logged and forgotten. *)
RecordFails(t) ==
    /\ At(t, "record")
    /\ failures < MaxLosses
    /\ failures' = failures + 1
    /\ Goto(t, "clear")
    /\ UNCHANGED <<store, history, refreshing, held, inventory, raced, runs>>

(* The store of the last good run is thrown away. *)
FailEmptied(t) ==
    /\ At(t, "fail")
    /\ ~held
    /\ store' = [status |-> "error", totals |-> 0]
    /\ Goto(t, "clear")
    /\ UNCHANGED <<history, refreshing, held, inventory, raced, failures, runs>>

Fail(t) ==
    /\ At(t, "fail")
    /\ ~held
    /\ store' = [store EXCEPT !.status = "error"]
    /\ Goto(t, "clear")
    /\ UNCHANGED <<history, refreshing, held, inventory, raced, failures, runs>>

(* No finally block: the mark stays after an error. *)
ClearUnlessFailed(t) ==
    /\ At(t, "clear")
    /\ refreshing' = (refreshing /\ store.status = "error")
    /\ Return(t)
    /\ UNCHANGED <<store, history, held, inventory, raced, failures, runs>>

Clear(t) ==
    /\ At(t, "clear")
    /\ refreshing' = FALSE
    /\ Return(t)
    /\ UNCHANGED <<store, history, held, inventory, raced, failures, runs>>

-----------------------------------------------------------------------------
(* _startup, after its first run *)

(* The status is not looked at. *)
InspectAlwaysRetries(t) ==
    /\ At(t, "inspect")
    /\ held' = TRUE
    /\ Goto(t, "check")
    /\ UNCHANGED <<store, history, refreshing, inventory, raced, failures, runs>>

Inspect(t) ==
    /\ At(t, "inspect")
    /\ IF store.status = "ok"
       THEN Goto(t, "done") /\ UNCHANGED held
       ELSE Goto(t, "check") /\ held' = TRUE
    /\ UNCHANGED <<store, history, refreshing, inventory, raced, failures, runs>>

Release(t) ==
    /\ At(t, "release")
    /\ held' = FALSE
    /\ Goto(t, "done")
    /\ UNCHANGED <<store, history, refreshing, inventory, raced, failures, runs>>

-----------------------------------------------------------------------------

(* What a thread does by itself. *)
Step(t) ==
    \/ GetSummary(t)
    \/ PassCheck(t) \/ SkipOverlap(t) \/ Mark(t) \/ BeginRun(t)
    \/ Fetch(t) \/ FetchFails(t) \/ Publish(t) \/ Fail(t)
    \/ Record(t) \/ RecordFails(t) \/ Clear(t)
    \/ Inspect(t) \/ Release(t)

SummaryNext ==
    \/ \E t \in Threads : Step(t) \/ Trigger(t) \/ AskSummary(t)
    \/ ChangeInventory

(* The interpreter runs every thread that can run, and every FortiManager   *)
(* call ends with an answer, an error or a timeout.                         *)
SummarySpec ==
    /\ SummaryInit /\ [][SummaryNext]_summaryVars
    /\ \A t \in Threads : WF_summaryVars(Step(t))

-----------------------------------------------------------------------------
(* Properties *)

Jobs == {t \in Threads : thr[t].pc \in InJob \ {"mark"}}

(* A set _running belongs to a job in flight: no path out of _run_job leaves *)
(* it set, which would stop the refreshes for good.                          *)
MarkHasOwner == refreshing => Jobs # {}

(* _running does prevent overlaps, except that its test and its set() are    *)
(* two steps: jobs overlap only after two threads were between them.         *)
OverlapNeedsRace == ~raced => Cardinality(Jobs) <= 1

(* The status "running" that the dashboard shows is never left behind: a run *)
(* that has yet to report its end is under way.                              *)
StatusIsLive ==
    store.status = "running" =>
        \E t \in Threads : thr[t].pc \in {"fetch", "publish", "fail"}

(* Between runs that never raced, today's entry of the trend graph is what   *)
(* the dashboard shows, unless its write failed.                             *)
HistoryMatchesStore ==
    Jobs = {} /\ ~raced /\ failures = 0 /\ store.totals # 0
        => history = store.totals

(* Unless two runs raced, the dashboard's totals never go back to an older   *)
(* inventory, and a failed run leaves those of the last good one.            *)
TotalsNeverGoBack == [][~raced' => store'.totals >= store.totals]_summaryVars

(* As long as no run fails and none races another, every job, request and    *)
(* start-up thread ends.                                                     *)
EveryoneEnds ==
    [](failures = 0 /\ ~raced) =>
        \A t \in Threads : (thr[t].pc \notin {"idle", "done"}) ~>
                           (thr[t].pc \in {"idle", "done"})

(* The comment in init_scheduler: one retry handles a FortiManager that      *)
(* cannot be reached at start-up, so the thread that retries ends.           *)
StartupEnds == <>(thr[Startup].pc = "done")
=============================================================================
