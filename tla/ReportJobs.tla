----------------------------- MODULE ReportJobs -----------------------------
(***************************************************************************)
(* The four schedulers that mail reports: device reviews                   *)
(* (device_review_scheduler.py), hygiene, NAT and policy reports           *)
(* (rule_hygiene_scheduler.py, nat_report_scheduler.py and                 *)
(* rule_policy_scheduler.py).  They share their job table with             *)
(* config_diff_scheduler.py, which JobScheduler models in full; what       *)
(* differs is the execution: when the record is written, when it says      *)
(* "ok", and what is left undone when that write fails.                    *)
(*                                                                         *)
(* One job of one kind, several executions of it in several processes, an  *)
(* administrator who changes it.  A write is atomic here; that it can be   *)
(* torn is AtomicFile's subject.                                           *)
(***************************************************************************)
EXTENDS Naturals, FiniteSets

CONSTANTS
    Workers,      \* the worker processes
    Executions,   \* the executions that cron entries and run_job_now start
    Admins,       \* the administrators' requests
    Home,         \* Home[t]: the process of an execution or a request
    MaxParts,     \* the most emails that one report is sent in
    MaxFailures,  \* how many writes may fail
    MaxCrashes,   \* how many workers may die
    NoOne

ASSUME ReportAssumption ==
    /\ Home \in [Executions \cup Admins -> Workers]
    /\ Executions \cap Admins = {}
    /\ NoOne \notin Executions \cup Admins
    /\ MaxParts \in Nat

VARIABLES
    kind,      \* whose scheduler it is
    file,      \* the job in its JSON file: [exists, enabled, runs]
    lock,      \* lock[w]: who holds _lock in w
    jobLock,   \* who holds the job's lock file
    running,   \* the processes in whose _running_jobs the job is
    thread,    \* thread[t]: [pc, base, record, parts]
    mailed,    \* mailed[e]: the emails of e that were accepted
    faults     \* [failures, crashes] so far

reportVars == <<kind, file, lock, jobLock, running, thread, mailed, faults>>

Kinds == {"review", "hygiene", "nat", "policy"}
NoRecord == [status |-> "error", sent |-> 0]

(* What was loaded is of no use once it is written.                          *)
Written == [exists |-> FALSE, enabled |-> FALSE, runs |-> {}]

ReportInit ==
    /\ kind \in Kinds
    /\ file = [exists |-> TRUE, enabled |-> TRUE, runs |-> {}]
    /\ lock = [w \in Workers |-> NoOne]
    /\ jobLock = NoOne
    /\ running = {}
    /\ thread = [t \in Executions \cup Admins |->
                    [pc |-> "idle", base |-> Written, record |-> NoRecord, parts |-> 0]]
    /\ mailed = [e \in Executions |-> 0]
    /\ faults = [failures |-> 0, crashes |-> 0]

In(t, pc) == thread[t].pc = pc
Move(t, pc) == thread' = [thread EXCEPT ![t].pc = pc, ![t].base = Written]
LockFree(t) == lock[Home[t]] = NoOne

-----------------------------------------------------------------------------
(* _execute_job, up to the report *)

(* _try_acquire_job_lock *)
StartExecution(e) ==
    /\ In(e, "idle")
    /\ IF jobLock = NoOne
       THEN jobLock' = e /\ Move(e, "mark")
       ELSE Move(e, "done") /\ UNCHANGED jobLock
    /\ UNCHANGED <<kind, file, lock, running, mailed, faults>>

(* _running_jobs.add, under _lock except in device_review_scheduler.         *)
MarkRunning(e) ==
    /\ In(e, "mark")
    /\ kind = "review" \/ LockFree(e)
    /\ running' = running \cup {Home[e]}
    /\ Move(e, "find")
    /\ UNCHANGED <<kind, file, lock, jobLock, mailed, faults>>

(* A job that is gone, or a disabled one of the policy reports: the return   *)
(* runs the finally clause, which in three of the kinds writes a record.     *)
NotFound(e) == Move(e, IF kind = "review" THEN "discard" ELSE "append")

(* The policy reports read the file without _lock.                           *)
FindJob(e) ==
    /\ In(e, "find")
    /\ kind = "policy" \/ LockFree(e)
    /\ IF file.exists /\ (kind = "policy" => file.enabled)
       THEN Move(e, "collect") ELSE NotFound(e)
    /\ UNCHANGED <<kind, file, lock, jobLock, running, mailed, faults>>

(* The report is there, in this many emails.  The hygiene and the policy     *)
(* report are "ok" from here on.                                             *)
Ready(e, parts) ==
    /\ thread' = [thread EXCEPT ![e].pc = "mail", ![e].parts = parts,
           ![e].record.status = IF kind \in {"hygiene", "policy"} THEN "ok" ELSE @]
    /\ UNCHANGED <<kind, file, lock, jobLock, running, mailed, faults>>

(* Mutants, here and below: what a plausible bug would make of the           *)
(* definition that follows.  No behaviour of ReportSpec uses them.           *)

(* The record would keep the "ok" of the report. *)
FailsOk(e) ==
    /\ Move(e, "append")
    /\ UNCHANGED <<kind, file, lock, jobLock, running, mailed, faults>>

(* except: the record says "error".                                          *)
Fails(e) ==
    /\ thread' = [thread EXCEPT ![e].pc = "append", ![e].record.status = "error"]
    /\ UNCHANGED <<kind, file, lock, jobLock, running, mailed, faults>>

(* bulk_device_review_adom: devices that cannot be listed are no devices.    *)
CollectReview(e) == kind = "review" /\ Ready(e, 1)

(* bulk_hygiene_adom: packages that cannot be listed are no packages, for    *)
(* which a summary goes out; object tables that cannot be read fail.         *)
CollectHygiene(e) ==
    kind = "hygiene" /\ (Fails(e) \/ \E n \in 1..MaxParts : Ready(e, n))

(* collect_nat_data and build_nat_rows: no packages are a failure.           *)
CollectNat(e) == kind = "nat" /\ (Fails(e) \/ Ready(e, 1))

(* bulk_policy_adom, the same, in batches.                                   *)
CollectPolicy(e) ==
    kind = "policy" /\ (Fails(e) \/ \E n \in 1..MaxParts : Ready(e, n))

Collect(e) ==
    /\ In(e, "collect")
    /\ CollectReview(e) \/ CollectHygiene(e) \/ CollectNat(e) \/ CollectPolicy(e)

-----------------------------------------------------------------------------
(* The emails and the record *)

(* emails_sent is set, and a NAT report "ok", after the last part.           *)
SendPart(e) ==
    /\ In(e, "mail")
    /\ mailed' = [mailed EXCEPT ![e] = @ + 1]
    /\ thread' = IF mailed'[e] < thread[e].parts THEN thread
                 ELSE [thread EXCEPT ![e].pc = "append",
                          ![e].record = [status |-> "ok", sent |-> thread[e].parts]]
    /\ UNCHANGED <<kind, file, lock, jobLock, running, faults>>

SendFails(e) == In(e, "mail") /\ Fails(e)

(* with _lock: _load, in _append_run, _prune_runs and the requests.          *)
Load(t, from, to) ==
    /\ In(t, from)
    /\ LockFree(t)
    /\ lock' = [lock EXCEPT ![Home[t]] = t]
    /\ thread' = [thread EXCEPT ![t].pc = to, ![t].base = file]
    /\ UNCHANGED <<kind, file, jobLock, running, mailed, faults>>

Entry(e) == [run |-> e, status |-> thread[e].record.status, sent |-> thread[e].record.sent]

(* _append_run: _save.  A job that was deleted gets none.                    *)
SaveRun(e) ==
    /\ In(e, "appending")
    /\ file' = [thread[e].base EXCEPT
                  !.runs = IF thread[e].base.exists THEN @ \cup {Entry(e)} ELSE @]
    /\ lock' = [lock EXCEPT ![Home[e]] = NoOne]
    /\ Move(e, IF kind = "review" /\ thread[e].record.status = "error"
               THEN "discard" ELSE "prune")
    /\ UNCHANGED <<kind, jobLock, running, mailed, faults>>

(* _prune_runs: no run is old enough to go, but the table is written again.  *)
SavePruned(e) ==
    /\ In(e, "pruning")
    /\ file' = thread[e].base
    /\ lock' = [lock EXCEPT ![Home[e]] = NoOne]
    /\ Move(e, "discard")
    /\ UNCHANGED <<kind, jobLock, running, mailed, faults>>

(* The except clause of the reviews would not be there. *)
AfterFailedSaveRaises(e) == "raised"

(* What an exception of _save leads to: for a review, the except clause and  *)
(* a record of its own, or, there already, the finally clause; for the other *)
(* kinds, which are in the finally clause, the end.                          *)
AfterFailedSave(e) ==
    CASE kind # "review" -> "raised"
      [] kind = "review" /\ thread[e].record.status = "ok" -> "append"
      [] kind = "review" /\ thread[e].record.status = "error" -> "discard"

(* _lock would be kept. *)
SaveFailsHolding(e) ==
    /\ In(e, "appending") \/ In(e, "pruning")
    /\ faults.failures < MaxFailures
    /\ faults' = [faults EXCEPT !.failures = @ + 1]
    /\ thread' = [thread EXCEPT ![e].pc = AfterFailedSave(e), ![e].base = Written,
                                ![e].record = NoRecord]
    /\ UNCHANGED <<kind, file, lock, jobLock, running, mailed>>

SaveFails(e) ==
    /\ In(e, "appending") \/ In(e, "pruning")
    /\ faults.failures < MaxFailures
    /\ faults' = [faults EXCEPT !.failures = @ + 1]
    /\ lock' = [lock EXCEPT ![Home[e]] = NoOne]
    /\ thread' = [thread EXCEPT ![e].pc = AfterFailedSave(e), ![e].base = Written,
                                ![e].record = NoRecord]
    /\ UNCHANGED <<kind, file, jobLock, running, mailed>>

(* finally *)
DiscardMark(e) ==
    /\ In(e, "discard")
    /\ kind = "review" \/ LockFree(e)
    /\ running' = running \ {Home[e]}
    /\ Move(e, "unlock")
    /\ UNCHANGED <<kind, file, lock, jobLock, mailed, faults>>

(* The handle would stay open. *)
ReleaseLockFileKept(e) ==
    /\ In(e, "unlock")
    /\ Move(e, "done")
    /\ UNCHANGED <<kind, file, lock, jobLock, running, mailed, faults>>

ReleaseLockFile(e) ==
    /\ In(e, "unlock")
    /\ jobLock' = NoOne
    /\ Move(e, "done")
    /\ UNCHANGED <<kind, file, lock, running, mailed, faults>>

(* The frame of the execution that raised is collected, with the lock file.  *)
CollectFrame(e) ==
    /\ In(e, "raised")
    /\ jobLock' = NoOne
    /\ Move(e, "lost")
    /\ UNCHANGED <<kind, file, lock, running, mailed, faults>>

-----------------------------------------------------------------------------
(* update_job and delete_job; a KeyError leaves the file as it is.           *)

SaveEdit(a) ==
    /\ In(a, "editing")
    /\ file' \in IF thread[a].base.exists
                 THEN {[thread[a].base EXCEPT !.enabled = FALSE],
                       [thread[a].base EXCEPT !.exists = FALSE, !.runs = {}]}
                 ELSE {file}
    /\ lock' = [lock EXCEPT ![Home[a]] = NoOne]
    /\ Move(a, "done")
    /\ UNCHANGED <<kind, jobLock, running, mailed, faults>>

(* A worker dies and starts again: what it did is gone, and its lock file    *)
(* free.                                                                     *)
CrashWorker(w) ==
    LET its == {t \in Executions \cup Admins : Home[t] = w /\ ~In(t, "idle")}
    IN  /\ faults.crashes < MaxCrashes
        /\ faults' = [faults EXCEPT !.crashes = @ + 1]
        /\ lock' = [lock EXCEPT ![w] = NoOne]
        /\ jobLock' = IF jobLock \in its THEN NoOne ELSE jobLock
        /\ running' = running \ {w}
        /\ thread' = [t \in DOMAIN thread |->
                         IF t \in its THEN [thread[t] EXCEPT !.pc = "done"] ELSE thread[t]]
        /\ UNCHANGED <<kind, file, mailed>>

ExecutionStep(e) ==
    \/ MarkRunning(e) \/ FindJob(e) \/ Collect(e)
    \/ SendPart(e) \/ SendFails(e)
    \/ Load(e, "append", "appending") \/ SaveRun(e)
    \/ Load(e, "prune", "pruning") \/ SavePruned(e)
    \/ SaveFails(e)
    \/ DiscardMark(e) \/ ReleaseLockFile(e) \/ CollectFrame(e)

AdminStep(a) == Load(a, "idle", "editing") \/ SaveEdit(a)

ReportNext ==
    \/ \E e \in Executions : StartExecution(e) \/ ExecutionStep(e)
    \/ \E a \in Admins : AdminStep(a)
    \/ \E w \in Workers : CrashWorker(w)

ReportSpec == ReportInit /\ [][ReportNext]_reportVars

(* What has begun goes on; nothing says that an execution or a request does  *)
(* begin.                                                                    *)
FairReportSpec ==
    /\ ReportSpec
    /\ \A e \in Executions : WF_reportVars(ExecutionStep(e))
    /\ \A a \in Admins : WF_reportVars(SaveEdit(a))

-----------------------------------------------------------------------------
(* Properties *)

(* A record that says "ok" was written by an execution all of whose emails   *)
(* were accepted, and no record counts an email that was not, though three   *)
(* kinds say "ok" before they send (_execute_job).                           *)
OkMeansDelivered ==
    \A r \in file.runs :
        /\ r.status = "ok" => mailed[r.run] = thread[r.run].parts /\ r.sent = mailed[r.run]
        /\ r.sent <= mailed[r.run]

UnderWay == {"find", "collect", "mail", "append", "appending", "prune", "pruning",
             "discard"}

(* A job is shown as running by the process that executes it, as long as it  *)
(* does and whatever other executions of it end meanwhile; and not longer,   *)
(* unless the write of its record has failed in the finally clause: a        *)
(* review's failing write does not leave the mark behind (_running_jobs,     *)
(* is_job_running).                                                          *)
MarkIsOwned ==
    /\ \A w \in running : \E e \in Executions :
          /\ Home[e] = w
          /\ \/ thread[e].pc \in UnderWay
             \/ kind # "review" /\ thread[e].pc \in {"raised", "lost"}
    /\ \A e \in Executions : thread[e].pc \in UnderWay => Home[e] \in running

(* Whatever fails, an execution that has ended has given its lock file back, *)
(* so that the next one can run: also one that raised in its finally clause  *)
(* (_try_acquire_job_lock, _execute_job).                                    *)
LockFileComesBack ==
    \A e \in Executions : thread[e].pc \in {"done", "lost"} => jobLock # e

(* An execution that has begun ends, also one whose own write or another     *)
(* one's fails while it holds _lock; with LockFileComesBack, the job can be  *)
(* run again (_append_run, _prune_runs, _execute_job).                       *)
ExecutionsEnd ==
    \A e \in Executions : In(e, "mark") ~> thread[e].pc \in {"done", "lost"}
=============================================================================
