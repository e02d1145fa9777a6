---------------------------- MODULE JobScheduler ----------------------------
(***************************************************************************)
(* The scheduled-job engine of config_diff_scheduler.py, as production     *)
(* runs it: every gunicorn worker process has the module's globals (_lock, *)
(* _scheduler, _running_jobs) to itself, and all of them share the job     *)
(* file and one lock file per job.  device_review_scheduler.py and         *)
(* backup_scheduler.py are built to the same plan.                         *)
(*                                                                         *)
(* A thread serves one admin request or one job execution at a time.       *)
(***************************************************************************)
EXTENDS Integers, Sequences, FiniteSets

CONSTANTS
    Workers,      \* gunicorn worker processes
    Threads,      \* request, scheduler-pool and run-now threads
    Home,         \* the worker each thread belongs to
    Jobs, Times, Runs, NoJob,   \* as in JobStore
    None,         \* no holder
    NoTime,       \* no cron entry
    InPlace,      \* the file is a bind mount: os.replace fails with EBUSY
    RetentionDays, \* what run_history_days is set to, from one pruning to the next
    MaxTriggers,  \* bound: times each job is triggered
    MaxRequests,  \* bound: admin requests
    MaxFaults     \* bound: crashes, failed writes and failed lock files

ASSUME HomeAssumption == Home \in [Threads -> Workers]
ASSUME NoneAssumption == None \notin Threads
ASSUME RunsAssumption == 0 \in Runs /\ Runs \subseteq Nat
ASSUME RetentionAssumption == RetentionDays \subseteq Int /\ RetentionDays # {}

VARIABLES
    table,     \* the job file, last completely written
    torn,      \* its content is cut short and does not parse
    lock,      \* lock[w]: the thread holding w's _lock
    flock,     \* flock[j]: the thread holding job j's lock file
    running,   \* running[w]: _running_jobs of w
    sched,     \* sched[w][j]: the cron entry of j in w's _scheduler
    due,       \* due[w]: jobs w's _scheduler has submitted to its pool
    up,        \* workers that are serving
    thr,       \* thr[t]: what thread t is doing
    issued,    \* job ids drawn from uuid4
    triggers,  \* cron ticks and run-now requests seen for each job
    sent,      \* emails delivered for each job
    requests, faults   \* spent of MaxRequests and MaxFaults

file == <<table, torn>>
ledger == <<triggers, sent>>
vars == <<table, torn, lock, flock, running, sched, due, up, thr, issued,
          triggers, sent, requests, faults>>

-----------------------------------------------------------------------------
(* The job file *)

Job == [enabled : BOOLEAN, time : Times, runs : Seq(Runs)]
Table == [Jobs -> Job \cup {NoJob}]
EmptyTable == [j \in Jobs |-> NoJob]

(* A file that does not parse reads as no jobs at all. *)
Load == IF torn THEN EmptyTable ELSE table

(***************************************************************************)
(* thr[t].pc says where t is; thr[t].op which read-modify-write of the     *)
(* file it is in.  snap is the table that it loaded, enabled and time the  *)
(* request's fields, mail the ordinal of the email this execution sent.    *)
(***************************************************************************)
Crud == {"create", "update", "delete"}
History == {"append", "prune", "error"}
PCs == {"idle", "enter", "save", "saving", "unregister", "register",
        "flock", "load", "fetch", "send", "discard", "unlock"}

Thread == [pc : PCs, op : Crud \cup History \cup {"none"},
           job : Jobs \cup {NoJob}, enabled : BOOLEAN, time : Times \cup {NoTime},
           cron : BOOLEAN, mail : Runs, snap : Table]

Idle == [pc |-> "idle", op |-> "none", job |-> NoJob, enabled |-> FALSE,
         time |-> NoTime, cron |-> FALSE, mail |-> 0, snap |-> EmptyTable]

Request(op, j, enabled, time) ==
    [Idle EXCEPT !.pc = "enter", !.op = op, !.job = j,
                 !.enabled = enabled, !.time = time]

Execution(j, cron) == [Idle EXCEPT !.pc = "flock", !.job = j, !.cron = cron]

(* t is between taking its job's lock file and giving it back. *)
Executing(t) ==
    \/ thr[t].pc \in {"load", "fetch", "send", "discard", "unlock"}
    \/ thr[t].op \in History

TypeOK ==
    /\ table \in Table
    /\ torn \in BOOLEAN
    /\ lock \in [Workers -> Threads \cup {None}]
    /\ flock \in [Jobs -> Threads \cup {None}]
    /\ running \in [Workers -> SUBSET Jobs]
    /\ sched \in [Workers -> [Jobs -> Times \cup {NoTime}]]
    /\ due \in [Workers -> SUBSET Jobs]
    /\ up \in SUBSET Workers
    /\ thr \in [Threads -> Thread]
    /\ issued \in SUBSET Jobs
    /\ triggers \in [Jobs -> Nat]
    /\ sent \in [Jobs -> Nat]
    /\ requests \in Nat
    /\ faults \in Nat

Init ==
    /\ table = EmptyTable
    /\ torn = FALSE
    /\ lock = [w \in Workers |-> None]
    /\ flock = [j \in Jobs |-> None]
    /\ running = [w \in Workers |-> {}]
    /\ sched = [w \in Workers |-> [j \in Jobs |-> NoTime]]
    /\ due = [w \in Workers |-> {}]
    /\ up = {}
    /\ thr = [t \in Threads |-> Idle]
    /\ issued = {}
    /\ triggers = [j \in Jobs |-> 0]
    /\ sent = [j \in Jobs |-> 0]
    /\ requests = 0
    /\ faults = 0

Free(t) == thr[t].pc = "idle" /\ Home[t] \in up
At(t, pc) == thr[t].pc = pc
Goto(t, pc) == thr' = [thr EXCEPT ![t].pc = pc]
Finish(t) == thr' = [thr EXCEPT ![t] = Idle]

-----------------------------------------------------------------------------
(* The worker processes *)

(* init_scheduler: the file is read once and the enabled jobs registered,   *)
(* before the worker serves anything.                                       *)
Boot(w) ==
    /\ w \notin up
    /\ up' = up \cup {w}
    /\ sched' = [sched EXCEPT ![w] =
                    [j \in Jobs |-> IF Load[j] # NoJob /\ Load[j].enabled
                                    THEN Load[j].time ELSE NoTime]]
    /\ UNCHANGED <<file, lock, flock, running, due, thr, issued, ledger,
                   requests, faults>>

(* A worker dies with all its threads; the kernel drops its file locks.     *)
(* A write in place that it was in stays cut short.                         *)
Crash(w) ==
    /\ w \in up
    /\ faults < MaxFaults
    /\ faults' = faults + 1
    /\ up' = up \ {w}
    /\ thr' = [t \in Threads |-> IF Home[t] = w THEN Idle ELSE thr[t]]
    /\ lock' = [lock EXCEPT ![w] = None]
    /\ flock' = [j \in Jobs |-> IF \E t \in Threads : flock[j] = t /\ Home[t] = w
                                THEN None ELSE flock[j]]
    /\ running' = [running EXCEPT ![w] = {}]
    /\ due' = [due EXCEPT ![w] = {}]
    /\ sched' = [sched EXCEPT ![w] = [j \in Jobs |-> NoTime]]
    /\ UNCHANGED <<file, issued, ledger, requests>>

-----------------------------------------------------------------------------
(* Admin requests *)

Receive(t, r) ==
    /\ Free(t)
    /\ requests < MaxRequests
    /\ requests' = requests + 1
    /\ thr' = [thr EXCEPT ![t] = r]

CreateJob(t, j, enabled, time) ==
    /\ j \notin issued
    /\ issued' = issued \cup {j}
    /\ Receive(t, Request("create", j, enabled, time))
    /\ UNCHANGED <<file, lock, flock, running, sched, due, up, ledger, faults>>

UpdateJob(t, j, enabled, time) ==
    /\ j \in issued
    /\ Receive(t, Request("update", j, enabled, time))
    /\ UNCHANGED <<file, lock, flock, running, sched, due, up, issued, ledger,
                   faults>>

DeleteJob(t, j) ==
    /\ j \in issued
    /\ Receive(t, Request("delete", j, FALSE, NoTime))
    /\ UNCHANGED <<file, lock, flock, running, sched, due, up, issued, ledger,
                   faults>>

(* The route looks the job up under _lock, then starts a thread for it. *)
RunJobNow(t, j) ==
    /\ Free(t)
    /\ lock[Home[t]] = None
    /\ Load[j] # NoJob
    /\ triggers[j] < MaxTriggers[j]
    /\ triggers' = [triggers EXCEPT ![j] = @ + 1]
    /\ thr' = [thr EXCEPT ![t] = Execution(j, FALSE)]
    /\ UNCHANGED <<file, lock, flock, running, sched, due, up, issued, sent,
                   requests, faults>>

-----------------------------------------------------------------------------
(* Load, change and save the file under _lock *)

(* Mutants, here and below: what a plausible bug would make of the           *)
(* definition that follows.  No behaviour of Spec uses them.                 *)

(* The KeyError leaves without releasing _lock. *)
RejectUpdateHoldingLock(t) ==
    /\ At(t, "enter")
    /\ lock[Home[t]] = None
    /\ thr[t].op = "update"
    /\ Load[thr[t].job] = NoJob
    /\ lock' = [lock EXCEPT ![Home[t]] = t]
    /\ Finish(t)
    /\ UNCHANGED <<file, flock, running, sched, due, up, issued, ledger,
                   requests, faults>>

(* update_job finds no such job: KeyError, which leaves the with block.     *)
RejectUpdate(t) ==
    /\ At(t, "enter")
    /\ lock[Home[t]] = None
    /\ thr[t].op = "update"
    /\ Load[thr[t].job] = NoJob
    /\ Finish(t)
    /\ UNCHANGED <<file, lock, flock, running, sched, due, up, issued, ledger,
                   requests, faults>>

(* The file is loaded before _lock is taken. *)
EnterUnlocked(t) ==
    /\ At(t, "enter")
    /\ thr[t].op = "update" => Load[thr[t].job] # NoJob
    /\ lock' = [lock EXCEPT ![Home[t]] = t]
    /\ thr' = [thr EXCEPT ![t] = [@ EXCEPT !.pc = "save", !.snap = Load]]
    /\ UNCHANGED <<file, flock, running, sched, due, up, issued, ledger,
                   requests, faults>>

Enter(t) ==
    /\ At(t, "enter")
    /\ lock[Home[t]] = None
    /\ thr[t].op = "update" => Load[thr[t].job] # NoJob
    /\ lock' = [lock EXCEPT ![Home[t]] = t]
    /\ thr' = [thr EXCEPT ![t] = [@ EXCEPT !.pc = "save", !.snap = Load]]
    /\ UNCHANGED <<file, flock, running, sched, due, up, issued, ledger,
                   requests, faults>>

(* The runs that _prune_runs may keep.  What is out of retention is a       *)
(* suffix.  It spares the run just recorded when the setting, which nothing *)
(* validates, is a day or more; otherwise the cutoff is now or later, and   *)
(* every run is before it.                                                  *)
Retained(runs, mail) ==
    {k \in 0..Len(runs) : \E days \in RetentionDays :
        IF days >= 1 THEN k = 0 => runs = <<>> \/ Head(runs) # mail
                     ELSE k = 0}

(* update_job rebuilds the job from the request, without its run history. *)
RewrittenAfresh(job, r) == [enabled |-> r.enabled, time |-> r.time]

(* What update_job makes of a job: {**j, ...}. *)
Rewritten(job, r) ==
    [enabled |-> r.enabled, time |-> r.time, runs |-> job.runs]

(* The run is put after the others. *)
WithRunLast(run, runs) == runs \o <<run>>

(* _append_run: the run comes before the others.                            *)
WithRun(run, runs) == <<run>> \o runs

(* What the thread may write: its snapshot with its own change made to it.  *)
(* A history write for a job that has been deleted changes nothing.         *)
Edited(t) ==
    LET j == thr[t].job
        jobs == thr[t].snap
    IN CASE thr[t].op = "create" ->
              {[jobs EXCEPT ![j] = [enabled |-> thr[t].enabled,
                                    time |-> thr[t].time, runs |-> <<>>]]}
         [] thr[t].op = "update" ->
              {[jobs EXCEPT ![j] = Rewritten(@, thr[t])]}
         [] thr[t].op = "delete" -> {[jobs EXCEPT ![j] = NoJob]}
         [] thr[t].op \in History /\ jobs[j] = NoJob -> {jobs}
         [] thr[t].op = "append" /\ jobs[j] # NoJob ->
              {[jobs EXCEPT ![j].runs = WithRun(thr[t].mail, @)]}
         [] thr[t].op = "error" /\ jobs[j] # NoJob ->
              {[jobs EXCEPT ![j].runs = WithRun(0, @)]}
         [] thr[t].op = "prune" /\ jobs[j] # NoJob ->
              {[jobs EXCEPT ![j].runs = SubSeq(@, 1, k)] :
                  k \in Retained(jobs[j].runs, thr[t].mail)}

(* The write in place has truncated the file and not yet filled it.         *)
SaveBegin(t) ==
    /\ InPlace
    /\ At(t, "save")
    /\ torn' = TRUE
    /\ Goto(t, "saving")
    /\ UNCHANGED <<table, lock, flock, running, sched, due, up, issued, ledger,
                   requests, faults>>

Writing(t) == At(t, IF InPlace THEN "saving" ELSE "save")

(* Another process wrote the file in place while t did.                     *)
WriteCrossed(t) ==
    /\ InPlace
    /\ \/ ~torn
       \/ \E u \in Threads \ {t} : At(u, "saving")

(* Where a request or an execution goes on once _lock is released.          *)
AfterSave(t) ==
    LET r == thr[t]
    IN CASE r.op = "create" -> IF r.enabled THEN [r EXCEPT !.pc = "register"]
                                            ELSE Idle
         [] r.op \in {"update", "delete"} -> [r EXCEPT !.pc = "unregister"]
         [] r.op = "append" -> [r EXCEPT !.pc = "enter", !.op = "prune"]
         [] r.op \in {"prune", "error"} -> [r EXCEPT !.pc = "discard", !.op = "none"]

(* A failed record sends the email again. *)
AfterFailureResends(t) ==
    CASE thr[t].op \in Crud -> Idle
      [] thr[t].op \in {"append", "prune"} ->
            [thr[t] EXCEPT !.pc = "send", !.op = "none"]
      [] thr[t].op = "error" -> [thr[t] EXCEPT !.pc = "discard", !.op = "none"]

(* A failed pruning records the run again. *)
AfterFailureAppends(t) ==
    CASE thr[t].op \in Crud -> Idle
      [] thr[t].op \in {"append", "prune"} ->
            [thr[t] EXCEPT !.pc = "enter", !.op = "append"]
      [] thr[t].op = "error" -> [thr[t] EXCEPT !.pc = "discard", !.op = "none"]

(* Where an exception of the write takes it: a request fails with status    *)
(* 500, an execution records an error, and an error that cannot be recorded *)
(* leaves through the finally block.                                        *)
AfterFailure(t) ==
    LET r == thr[t]
    IN CASE r.op \in Crud -> Idle
         [] r.op \in {"append", "prune"} -> [r EXCEPT !.pc = "enter", !.op = "error"]
         [] r.op = "error" -> [r EXCEPT !.pc = "discard", !.op = "none"]

Leave(t, r) ==
    /\ lock' = [lock EXCEPT ![Home[t]] = None]
    /\ thr' = [thr EXCEPT ![t] = [r EXCEPT !.snap = EmptyTable]]

Save(t) ==
    /\ Writing(t)
    /\ table' \in Edited(t)
    /\ torn' \in IF WriteCrossed(t) THEN BOOLEAN ELSE {FALSE}
    /\ Leave(t, AfterSave(t))
    /\ UNCHANGED <<flock, running, sched, due, up, issued, ledger, requests,
                   faults>>

(* The write raises (a full disk, the temporary file gone): a write in      *)
(* place leaves the file cut short, a rename leaves it as it was.           *)
SaveFails(t) ==
    /\ Writing(t)
    /\ faults < MaxFaults
    /\ faults' = faults + 1
    /\ torn' \in IF InPlace THEN {TRUE} ELSE {torn}
    /\ Leave(t, AfterFailure(t))
    /\ UNCHANGED <<table, flock, running, sched, due, up, issued, ledger,
                   requests>>

-----------------------------------------------------------------------------
(* The cron entries, outside _lock *)

Unregister(t) ==
    /\ At(t, "unregister")
    /\ sched' = [sched EXCEPT ![Home[t]][thr[t].job] = NoTime]
    /\ IF thr[t].enabled THEN Goto(t, "register") ELSE Finish(t)
    /\ UNCHANGED <<file, lock, flock, running, due, up, issued, ledger,
                   requests, faults>>

Register(t) ==
    /\ At(t, "register")
    /\ sched' = [sched EXCEPT ![Home[t]][thr[t].job] = thr[t].time]
    /\ Finish(t)
    /\ UNCHANGED <<file, lock, flock, running, due, up, issued, ledger,
                   requests, faults>>

(* A cron instance of j in w that has not ended: max_instances is 1.        *)
CronBusy(w, j) ==
    \/ j \in due[w]
    \/ \E t \in Threads : Home[t] = w /\ thr[t].job = j /\ thr[t].cron

(* The clock reaches time s: every worker's scheduler submits the jobs it   *)
(* has registered for s.                                                    *)
Tick(s) ==
    LET hit == {j \in Jobs : \E w \in up : sched[w][j] = s}
    IN /\ hit # {}
       /\ \A j \in hit : triggers[j] < MaxTriggers[j]
       /\ triggers' = [j \in Jobs |-> triggers[j] + (IF j \in hit THEN 1 ELSE 0)]
       /\ due' = [w \in Workers |-> due[w] \cup
                    {j \in Jobs : /\ w \in up
                                  /\ sched[w][j] = s
                                  /\ ~CronBusy(w, j)}]
       /\ UNCHANGED <<file, lock, flock, running, sched, up, thr, issued, sent,
                      requests, faults>>

(* The scheduler wakes up later than misfire_grace_time and drops the run.  *)
Misfire(w, j) ==
    /\ j \in due[w]
    /\ due' = [due EXCEPT ![w] = @ \ {j}]
    /\ UNCHANGED <<file, lock, flock, running, sched, up, thr, issued, ledger,
                   requests, faults>>

-----------------------------------------------------------------------------
(* _execute_job *)

Fire(t, j) ==
    /\ Free(t)
    /\ j \in due[Home[t]]
    /\ due' = [due EXCEPT ![Home[t]] = @ \ {j}]
    /\ thr' = [thr EXCEPT ![t] = Execution(j, TRUE)]
    /\ UNCHANGED <<file, lock, flock, running, sched, up, issued, ledger,
                   requests, faults>>

(* Without the lock file. *)
AcquireJobLockAlways(t) ==
    /\ At(t, "flock")
    /\ flock' = [flock EXCEPT ![thr[t].job] = t]
    /\ running' = [running EXCEPT ![Home[t]] = @ \cup {thr[t].job}]
    /\ Goto(t, "load")
    /\ UNCHANGED <<file, lock, sched, due, up, issued, ledger, requests, faults>>

(* _try_acquire_job_lock succeeds, and the job is marked as running.        *)
AcquireJobLock(t) ==
    LET j == thr[t].job
    IN /\ At(t, "flock")
       /\ flock[j] = None
       /\ flock' = [flock EXCEPT ![j] = t]
       /\ running' = [running EXCEPT ![Home[t]] = @ \cup {j}]
       /\ Goto(t, "load")
       /\ UNCHANGED <<file, lock, sched, due, up, issued, ledger, requests,
                      faults>>

(* The early return goes through the finally block. *)
SkipBusyJobFinally(t) ==
    /\ At(t, "flock")
    /\ flock[thr[t].job] # None
    /\ running' = [running EXCEPT ![Home[t]] = @ \ {thr[t].job}]
    /\ Finish(t)
    /\ UNCHANGED <<file, lock, flock, sched, due, up, issued, ledger, requests,
                   faults>>

SkipBusyJob(t) ==
    /\ At(t, "flock")
    /\ flock[thr[t].job] # None
    /\ Finish(t)
    /\ UNCHANGED <<file, lock, flock, running, sched, due, up, issued, ledger,
                   requests, faults>>

(* The lock file cannot be opened: the same OSError branch, no execution.   *)
SkipUnlockable(t) ==
    /\ At(t, "flock")
    /\ faults < MaxFaults
    /\ faults' = faults + 1
    /\ Finish(t)
    /\ UNCHANGED <<file, lock, flock, running, sched, due, up, issued, ledger,
                   requests>>

LoadJob(t) ==
    /\ At(t, "load")
    /\ lock[Home[t]] = None
    /\ Goto(t, IF Load[thr[t].job] = NoJob THEN "discard" ELSE "fetch")
    /\ UNCHANGED <<file, lock, flock, running, sched, due, up, issued, ledger,
                   requests, faults>>

(* bulk_preview_adom returns, then the alerts are evaluated in a try block  *)
(* of their own that this module leaves out.                                *)
Fetch(t) ==
    /\ At(t, "fetch")
    /\ Goto(t, "send")
    /\ UNCHANGED <<file, lock, flock, running, sched, due, up, issued, ledger,
                   requests, faults>>

SendEmail(t) ==
    LET mail == sent[thr[t].job] + 1
    IN /\ At(t, "send")
       /\ mail \in Runs
       /\ sent' = [sent EXCEPT ![thr[t].job] = mail]
       /\ thr' = [thr EXCEPT ![t] =
                     [@ EXCEPT !.pc = "enter", !.op = "append", !.mail = mail]]
       /\ UNCHANGED <<file, lock, flock, running, sched, due, up, issued,
                      triggers, requests, faults>>

(* FortiManager or the SMTP server fails: record an error.  So does pruning *)
(* with a setting that is no number of days, before it takes _lock: the run *)
(* that was recorded as delivered gets an error in front of it.             *)
RunFails(t) ==
    /\ \/ thr[t].pc \in {"fetch", "send"}
       \/ At(t, "enter") /\ thr[t].op = "prune"
    /\ thr' = [thr EXCEPT ![t] = [@ EXCEPT !.pc = "enter", !.op = "error"]]
    /\ UNCHANGED <<file, lock, flock, running, sched, due, up, issued, ledger,
                   requests, faults>>

(* The finally block: first _running_jobs, then the lock file.              *)
DiscardRunning(t) ==
    /\ At(t, "discard")
    /\ running' = [running EXCEPT ![Home[t]] = @ \ {thr[t].job}]
    /\ Goto(t, "unlock")
    /\ UNCHANGED <<file, lock, flock, sched, due, up, issued, ledger, requests,
                   faults>>

ReleaseJobLock(t) ==
    /\ At(t, "unlock")
    /\ flock' = [flock EXCEPT ![thr[t].job] = None]
    /\ Finish(t)
    /\ UNCHANGED <<file, lock, running, sched, due, up, issued, ledger,
                   requests, faults>>

-----------------------------------------------------------------------------

(* What a thread does by itself once it has been given something to do.     *)
Step(t) ==
    \/ RejectUpdate(t) \/ Enter(t) \/ SaveBegin(t) \/ Save(t)
    \/ Unregister(t) \/ Register(t)
    \/ AcquireJobLock(t) \/ SkipBusyJob(t) \/ LoadJob(t)
    \/ Fetch(t) \/ SendEmail(t) \/ RunFails(t)
    \/ DiscardRunning(t) \/ ReleaseJobLock(t)

Admin(t) ==
    \/ \E j \in Jobs, enabled \in BOOLEAN, time \in Times :
          CreateJob(t, j, enabled, time) \/ UpdateJob(t, j, enabled, time)
    \/ \E j \in Jobs : DeleteJob(t, j) \/ RunJobNow(t, j)

Cron ==
    \/ \E s \in Times : Tick(s)
    \/ \E w \in Workers, j \in Jobs : Misfire(w, j)
    \/ \E t \in Threads, j \in Jobs : Fire(t, j)

Fault ==
    \/ \E w \in Workers : Crash(w)
    \/ \E t \in Threads : SaveFails(t) \/ SkipUnlockable(t)

Next ==
    \/ \E t \in Threads : Step(t) \/ Admin(t)
    \/ Cron
    \/ \E w \in Workers : Boot(w)
    \/ Fault

(* A thread that can run does: the interpreter and the kernel schedule      *)
(* every thread, and FortiManager and SMTP calls end with a timeout.        *)
Spec == Init /\ [][Next]_vars /\ \A t \in Threads : WF_vars(Step(t))

-----------------------------------------------------------------------------
(* Properties *)

(* However many workers fire a job at once, at most one of them is between   *)
(* taking its lock file and giving it back (_try_acquire_job_lock).          *)
OneRunPerJob ==
    \A t, u \in Threads :
        Executing(t) /\ Executing(u) /\ thr[t].job = thr[u].job => t = u

(* What is_job_running tells the status route of a worker is exactly what    *)
(* the worker's threads execute: a run never clears the mark of another, and *)
(* none is left behind.                                                      *)
RunningReported ==
    \A w \in Workers : running[w] =
        {thr[t].job : t \in {u \in Threads :
                                /\ Home[u] = w
                                /\ Executing(u)
                                /\ ~At(u, "unlock")}}

(* One email at most for each cron tick or run-now request of a job.         *)
NoDuplicateExecution == \A j \in Jobs : sent[j] <= triggers[j]

(* The runs of a job that report success name emails that were delivered,    *)
(* each of them once and the newest first, whatever was lost on the way.     *)
HistoryIsTrue ==
    \A j \in Jobs : table[j] # NoJob =>
        LET runs == table[j].runs
        IN \A i \in DOMAIN runs :
              /\ runs[i] <= sent[j]
              /\ \A k \in DOMAIN runs : i < k /\ runs[k] # 0 /\ runs[i] # 0
                                            => runs[k] < runs[i]

(* Runs are kept for a day at least.  Nothing in the code sees to it.        *)
LongRetention == \A days \in RetentionDays : days >= 1

(* The run history has that delivery, or, with a shorter retention, may have *)
(* none.                                                                     *)
Shown(runs, mail) ==
    \/ \E i \in DOMAIN runs : runs[i] = mail
    \/ ~LongRetention /\ \A i \in DOMAIN runs : runs[i] = 0

(* Without a crash or a failed write, once a job's execution has ended its   *)
(* latest delivery is in its history: pruning never takes it, unless runs    *)
(* are kept for less than a day, and no request overwrites it.  An older     *)
(* delivery is never what is left, and shown as the last run (_append_run,   *)
(* _prune_runs, update_job).                                                 *)
DeliveryRecorded ==
    \A j \in Jobs :
        faults = 0 /\ table[j] # NoJob /\ flock[j] = None /\ sent[j] > 0
            => Shown(table[j].runs, sent[j])

(* While no create, update or delete is under way in any worker, a serving   *)
(* worker has a cron entry for exactly the enabled jobs of the file, at      *)
(* their times.                                                              *)
ScheduleMatchesFile ==
    (\A t \in Threads : thr[t].op \notin Crud) =>
        \A w \in up, j \in Jobs :
            sched[w][j] = IF table[j] # NoJob /\ table[j].enabled
                          THEN table[j].time ELSE NoTime

(* A request or an execution that was begun ends: nobody waits for ever for  *)
(* _lock or for the lock file.                                               *)
RunsFinish == \A t \in Threads : (thr[t].pc # "idle") ~> (thr[t].pc = "idle")

(* The ids of create requests whose job is not in the file yet.              *)
Pending == {thr[t].job : t \in {u \in Threads :
                                   /\ thr[u].op = "create"
                                   /\ thr[u].pc \in {"enter", "save", "saving"}}}

(* One process serves the file as the atomic table of JobStore: no update is *)
(* lost, no deleted job comes back, no run record goes to another job.       *)
Store == INSTANCE JobStore WITH used <- issued \ Pending
RefinesJobStore == Store!Spec
=============================================================================
