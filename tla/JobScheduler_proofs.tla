------------------------ MODULE JobScheduler_proofs ------------------------
(***************************************************************************)
(* Proofs about JobScheduler, for any number of workers, threads and jobs, *)
(* with the file renamed or written in place, and with any number of       *)
(* crashes and failing writes.                                             *)
(***************************************************************************)
EXTENDS JobScheduler, SequenceTheorems, TLAPS

(* What the place of a thread says about the rest of its record. *)
RecordOK(r) ==
    /\ r.pc # "idle" => r.job \in Jobs
    /\ r.pc \in {"enter", "save", "saving"} => r.op \in Crud \cup History
    /\ r.pc \in {"unregister", "register"} => r.op \in Crud
    /\ r.pc \in {"idle", "flock", "load", "fetch", "send", "discard", "unlock"}
          => r.op = "none"
    /\ r.op \in {"create", "update"} => r.time \in Times
    /\ r.pc \in {"save", "saving"} /\ r.op = "update" => r.snap[r.job] # NoJob

Coherent == \A t \in Threads : RecordOK(thr[t])

(* The thread holds the lock file of its job (Executing), and the job is    *)
(* marked in _running_jobs.                                                 *)
Owns(r) ==
    \/ r.pc \in {"load", "fetch", "send", "discard", "unlock"}
    \/ r.op \in History
Marked(r) == Owns(r) /\ r.pc # "unlock"

LockFileHeld == \A t \in Threads : Owns(thr[t]) => flock[thr[t].job] = t

MarksMatch ==
    \A w \in Workers, j \in Jobs :
        j \in running[w] <=>
            \E t \in Threads : Home[t] = w /\ Marked(thr[t]) /\ thr[t].job = j

ExecutionInv == LockFileHeld /\ MarksMatch

-----------------------------------------------------------------------------
(* What _load returns is a table of jobs, whether the file parses or not.   *)
LEMMA LoadType == ASSUME TypeOK PROVE Load \in Table
  BY DEF TypeOK, Load, Table, EmptyTable

(* A thread with nothing to do has a well-formed record.                    *)
LEMMA IdleType == Idle \in Thread
  BY RunsAssumption DEF Idle, Thread, PCs, Table, EmptyTable

(* So has a thread that begins an admin request ...                         *)
LEMMA RequestType ==
  ASSUME NEW op \in Crud, NEW j \in Jobs, NEW enabled \in BOOLEAN,
         NEW time \in Times \cup {NoTime}
  PROVE  Request(op, j, enabled, time) \in Thread
  BY IdleType DEF Request, Idle, Thread, PCs

(* ... and one that begins an execution.                                    *)
LEMMA ExecutionType ==
  ASSUME NEW j \in Jobs, NEW cron \in BOOLEAN
  PROVE  Execution(j, cron) \in Thread
  BY IdleType DEF Execution, Idle, Thread, PCs

(* Putting a run record in front of a job's history leaves a job.           *)
LEMMA RecordType ==
  ASSUME NEW job \in Job, NEW run \in Runs
  PROVE  [job EXCEPT !.runs = <<run>> \o @] \in Job
<1>1. <<run>> \in Seq(Runs) /\ job.runs \in Seq(Runs)
  BY DEF Job
<1>2. <<run>> \o job.runs \in Seq(Runs)
  BY <1>1, ConcatProperties, Zenon
<1> QED
  BY <1>2 DEF Job

(* So does cutting the history off after its first k records.               *)
LEMMA PruneType ==
  ASSUME NEW job \in Job, NEW k \in 0..Len(job.runs)
  PROVE  [job EXCEPT !.runs = SubSeq(@, 1, k)] \in Job
<1>1. job.runs \in Seq(Runs)
  BY DEF Job
<1>2. SubSeq(job.runs, 1, k) \in Seq(Runs)
  BY <1>1
<1> QED
  BY <1>2 DEF Job

(* Whatever a thread may write is a table of jobs. *)
LEMMA EditedType ==
  ASSUME TypeOK, Coherent, NEW t \in Threads, Writing(t)
  PROVE  Edited(t) \subseteq Table
<1> DEFINE r == thr[t]
           j == r.job
           jobs == r.snap
<1>1. /\ r \in Thread /\ jobs \in Table
      /\ j \in Jobs
      /\ r.op \in Crud \cup History
      /\ r.op \in {"create", "update"} => r.time \in Times
      /\ r.op = "update" => jobs[j] # NoJob
  BY DEF TypeOK, Coherent, RecordOK, Writing, At, Thread
<1>2. CASE r.op = "create"
  <2>1. [enabled |-> r.enabled, time |-> r.time, runs |-> <<>>] \in Job
    BY <1>1, <1>2 DEF Job, Thread
  <2>2. Edited(t) = {[jobs EXCEPT ![j] = [enabled |-> r.enabled, time |-> r.time,
                                         runs |-> <<>>]]}
    BY <1>2 DEF Edited, WithRun, History
  <2> QED
    BY <1>1, <2>1, <2>2 DEF Table
<1>3. CASE r.op = "update"
  <2>1. Rewritten(jobs[j], r) \in Job
    BY <1>1, <1>3 DEF Rewritten, Job, Table, Thread
  <2>2. Edited(t) = {[jobs EXCEPT ![j] = Rewritten(@, r)]}
    BY <1>3 DEF Edited, WithRun, History
  <2> QED
    BY <1>1, <2>1, <2>2 DEF Table
<1>4. CASE r.op = "delete"
  BY <1>1, <1>4 DEF Edited, WithRun, Table
<1>5. CASE r.op \in History /\ jobs[j] = NoJob
  BY <1>1, <1>5 DEF Edited, WithRun, Table, History
<1>6. CASE r.op = "append" /\ jobs[j] # NoJob
  <2>1. [jobs[j] EXCEPT !.runs = <<r.mail>> \o @] \in Job
    BY <1>1, <1>6, RecordType DEF Table, Thread
  <2>2. Edited(t) = {[jobs EXCEPT ![j].runs = <<r.mail>> \o @]}
    BY <1>6 DEF Edited, WithRun, History
  <2> QED
    BY <1>1, <2>1, <2>2 DEF Table
<1>7. CASE r.op = "error" /\ jobs[j] # NoJob
  <2>1. [jobs[j] EXCEPT !.runs = <<0>> \o @] \in Job
    BY <1>1, <1>7, RecordType, RunsAssumption DEF Table
  <2>2. Edited(t) = {[jobs EXCEPT ![j].runs = <<0>> \o @]}
    BY <1>7 DEF Edited, WithRun, History
  <2> QED
    BY <1>1, <2>1, <2>2 DEF Table
<1>8. CASE r.op = "prune" /\ jobs[j] # NoJob
  <2>1. \A k \in 0..Len(jobs[j].runs) :
           [jobs[j] EXCEPT !.runs = SubSeq(@, 1, k)] \in Job
    BY <1>1, <1>8, PruneType DEF Table
  <2>2. Edited(t) = {[jobs EXCEPT ![j].runs = SubSeq(@, 1, k)] :
                        k \in Retained(jobs[j].runs, r.mail)}
    BY <1>8 DEF Edited, WithRun, History
  <2> SUFFICES ASSUME NEW k \in Retained(jobs[j].runs, r.mail)
               PROVE  [jobs EXCEPT ![j].runs = SubSeq(@, 1, k)] \in Table
    BY <2>2
  <2>3. k \in 0..Len(jobs[j].runs)
    BY DEF Retained
  <2>4. [jobs[j] EXCEPT !.runs = SubSeq(@, 1, k)] \in Job
    BY <2>1, <2>3
  <2> QED
    BY <1>1, <2>4 DEF Table
<1> QED
  BY <1>1, <1>2, <1>3, <1>4, <1>5, <1>6, <1>7, <1>8 DEF Crud, History

-----------------------------------------------------------------------------
(* The records that the steps of a thread put in the place of its own.      *)

(* Replacing one thread's record by a good one keeps all of them good.      *)
LEMMA ThreadStep ==
  ASSUME TypeOK, Coherent, NEW t \in Threads, NEW r,
         thr' = [thr EXCEPT ![t] = r], r \in Thread, RecordOK(r)
  PROVE  thr' \in [Threads -> Thread] /\ Coherent'
  BY DEF TypeOK, Coherent

(* The records that threads are given fit the place they are in: idle,      *)
LEMMA IdleOK == RecordOK(Idle)
  BY DEF RecordOK, Idle

(* at the start of a request,                                               *)
LEMMA RequestOK ==
  ASSUME NEW op \in Crud, NEW j \in Jobs, NEW enabled \in BOOLEAN,
         NEW time, op # "delete" => time \in Times
  PROVE  RecordOK(Request(op, j, enabled, time))
  BY DEF RecordOK, Request, Idle, Crud

(* at the start of an execution,                                            *)
LEMMA ExecutionOK ==
  ASSUME NEW j \in Jobs, NEW cron \in BOOLEAN
  PROVE  RecordOK(Execution(j, cron))
  BY DEF RecordOK, Execution, Idle

(* Where a thread goes on after a write, whether it succeeded or not. *)
LEMMA AfterWriteShape ==
  ASSUME TypeOK, Coherent, NEW t \in Threads, Writing(t),
         NEW next \in {AfterSave(t), AfterFailure(t)}
  PROVE  \/ next = Idle
         \/ /\ thr[t].op \in Crud
            /\ \/ next = [thr[t] EXCEPT !.pc = "register"]
               \/ next = [thr[t] EXCEPT !.pc = "unregister"]
         \/ next = [thr[t] EXCEPT !.pc = "enter", !.op = "prune"]
         \/ next = [thr[t] EXCEPT !.pc = "enter", !.op = "error"]
         \/ next = [thr[t] EXCEPT !.pc = "discard", !.op = "none"]
<1> DEFINE r == thr[t]
<1>1. r.op \in Crud \cup History
  BY DEF Coherent, RecordOK, Writing, At
<1> QED
  BY <1>1 DEF AfterSave, AfterFailure, Crud, History

(* and after a write, once the loaded table is dropped.                     *)
LEMMA AfterWriteOK ==
  ASSUME TypeOK, Coherent, NEW t \in Threads, Writing(t),
         NEW next \in {AfterSave(t), AfterFailure(t)}
  PROVE  /\ [next EXCEPT !.snap = EmptyTable] \in Thread
         /\ RecordOK([next EXCEPT !.snap = EmptyTable])
<1> DEFINE r == thr[t]
           q == [next EXCEPT !.snap = EmptyTable]
<1>1. /\ r \in Thread
      /\ RecordOK(r)
      /\ r.pc \in {"save", "saving"}
      /\ r.op \in Crud \cup History
      /\ r.job \in Jobs
  BY DEF TypeOK, Coherent, RecordOK, Writing, At
<1>2. EmptyTable \in Table
  BY DEF EmptyTable, Table
<1>5. CASE next = Idle
  <2>1. q \in Thread
    BY <1>2, <1>5, IdleType DEF Thread
  <2>2. q.pc = "idle" /\ q.op = "none"
    BY <1>5 DEF Idle
  <2> QED
    BY <2>1, <2>2 DEF RecordOK
<1>6. ASSUME r.op \in Crud, NEW pc \in {"register", "unregister"},
             next = [r EXCEPT !.pc = pc]
      PROVE  q \in Thread /\ RecordOK(q)
  <2>1. q = [r EXCEPT !.pc = pc, !.snap = EmptyTable]
    BY <1>6
  <2> QED
    BY <1>1, <1>2, <1>6, <2>1 DEF RecordOK, Thread, PCs, Crud
<1>7. ASSUME NEW op \in {"prune", "error"},
             next = [r EXCEPT !.pc = "enter", !.op = op]
      PROVE  q \in Thread /\ RecordOK(q)
  <2>1. q = [r EXCEPT !.pc = "enter", !.op = op, !.snap = EmptyTable]
    BY <1>7
  <2> QED
    BY <1>1, <1>2, <2>1 DEF RecordOK, Thread, PCs, History
<1>8. CASE next = [r EXCEPT !.pc = "discard", !.op = "none"]
  <2>1. q = [r EXCEPT !.pc = "discard", !.op = "none", !.snap = EmptyTable]
    BY <1>8
  <2> QED
    BY <1>1, <1>2, <2>1 DEF RecordOK, Thread, PCs
<1> QED
  BY AfterWriteShape, <1>5, <1>6, <1>7, <1>8

(* Moving a thread to a place that its record fits.                         *)
LEMMA GotoStep ==
  ASSUME TypeOK, Coherent, NEW t \in Threads, NEW pc \in PCs, Goto(t, pc),
         RecordOK([thr[t] EXCEPT !.pc = pc])
  PROVE  thr' \in [Threads -> Thread] /\ Coherent'
<1> DEFINE r == [thr[t] EXCEPT !.pc = pc]
<1>1. r \in Thread
  BY ZenonT(40) DEF TypeOK, Thread
<1>2. thr' = [thr EXCEPT ![t] = r]
  BY DEF Goto
<1> QED
  BY <1>1, <1>2, ThreadStep

(* Ending what a thread does.                                               *)
LEMMA FinishStep ==
  ASSUME TypeOK, Coherent, NEW t \in Threads, Finish(t)
  PROVE  thr' \in [Threads -> Thread] /\ Coherent'
  BY IdleType, IdleOK, ThreadStep DEF Finish

-----------------------------------------------------------------------------
(* Types and coherence, action by action *)

(* init_scheduler and the death of a worker keep the types.                 *)
LEMMA WorkerTypes ==
  ASSUME TypeOK, Coherent, NEW w \in Workers, Boot(w) \/ Crash(w)
  PROVE  TypeOK' /\ Coherent'
<1>1. CASE Boot(w)
  <2>1. sched'[w] \in [Jobs -> Times \cup {NoTime}]
    <3>1. \A j \in Jobs : Load[j] \in Job \cup {NoJob}
      BY LoadType DEF Table
    <3> QED
      BY <1>1, <3>1 DEF Boot, TypeOK, Job
  <2>2. sched' \in [Workers -> [Jobs -> Times \cup {NoTime}]]
    BY <1>1, <2>1 DEF Boot, TypeOK
  <2>3. UNCHANGED <<table, torn, lock, flock, running, due, thr, issued,
                    triggers, sent, requests, faults>> /\ up' \in SUBSET Workers
    BY <1>1 DEF Boot, TypeOK, file, ledger
  <2> QED
    BY <2>2, <2>3 DEF TypeOK, Coherent
<1>2. CASE Crash(w)
  <2>1. thr' \in [Threads -> Thread] /\ Coherent'
    BY <1>2, IdleType, IdleOK DEF Crash, TypeOK, Coherent
  <2>2. flock' \in [Jobs -> Threads \cup {None}]
    BY <1>2 DEF Crash, TypeOK
  <2>3. sched' \in [Workers -> [Jobs -> Times \cup {NoTime}]]
    BY <1>2 DEF Crash, TypeOK
  <2>4. /\ lock' \in [Workers -> Threads \cup {None}]
        /\ running' \in [Workers -> SUBSET Jobs]
        /\ due' \in [Workers -> SUBSET Jobs]
    BY <1>2 DEF Crash, TypeOK
  <2>5. UNCHANGED <<table, torn, issued, triggers, sent, requests>>
    BY <1>2 DEF Crash, file, ledger
  <2>6. up' \in SUBSET Workers /\ faults' \in Nat
    BY <1>2 DEF Crash, TypeOK
  <2> QED
    BY <2>1, <2>2, <2>3, <2>4, <2>5, <2>6 DEF TypeOK
<1> QED
  BY <1>1, <1>2

(* The admin routes keep them, and give the thread a fitting record.        *)
LEMMA AdminTypes ==
  ASSUME TypeOK, Coherent, NEW t \in Threads, Admin(t)
  PROVE  TypeOK' /\ Coherent'
<1>1. ASSUME NEW j \in Jobs, NEW enabled \in BOOLEAN, NEW time \in Times,
             CreateJob(t, j, enabled, time)
      PROVE  TypeOK' /\ Coherent'
  <2>1. thr' \in [Threads -> Thread] /\ Coherent'
    BY <1>1, RequestType, RequestOK, ThreadStep DEF CreateJob, Receive, Crud
  <2>2. UNCHANGED <<table, torn, lock, flock, running, sched, due, up,
                    triggers, sent, faults>>
    BY <1>1 DEF CreateJob, file, ledger
  <2>3. issued' \in SUBSET Jobs /\ requests' \in Nat
    BY <1>1 DEF CreateJob, Receive, TypeOK
  <2> QED
    BY <2>1, <2>2, <2>3 DEF TypeOK
<1>2. ASSUME NEW j \in Jobs, NEW enabled \in BOOLEAN, NEW time \in Times,
             UpdateJob(t, j, enabled, time)
      PROVE  TypeOK' /\ Coherent'
  <2>1. thr' \in [Threads -> Thread] /\ Coherent'
    BY <1>2, RequestType, RequestOK, ThreadStep DEF UpdateJob, Receive, Crud
  <2>2. UNCHANGED <<table, torn, lock, flock, running, sched, due, up, issued,
                    triggers, sent, faults>>
    BY <1>2 DEF UpdateJob, file, ledger
  <2>3. requests' \in Nat
    BY <1>2 DEF UpdateJob, Receive, TypeOK
  <2> QED
    BY <2>1, <2>2, <2>3 DEF TypeOK
<1>3. ASSUME NEW j \in Jobs, DeleteJob(t, j)
      PROVE  TypeOK' /\ Coherent'
  <2>1. thr' \in [Threads -> Thread] /\ Coherent'
    BY <1>3, RequestType, RequestOK, ThreadStep DEF DeleteJob, Receive, Crud
  <2>2. UNCHANGED <<table, torn, lock, flock, running, sched, due, up, issued,
                    triggers, sent, faults>>
    BY <1>3 DEF DeleteJob, file, ledger
  <2>3. requests' \in Nat
    BY <1>3 DEF DeleteJob, Receive, TypeOK
  <2> QED
    BY <2>1, <2>2, <2>3 DEF TypeOK
<1>4. ASSUME NEW j \in Jobs, RunJobNow(t, j)
      PROVE  TypeOK' /\ Coherent'
  <2>1. thr' \in [Threads -> Thread] /\ Coherent'
    BY <1>4, ExecutionType, ExecutionOK, ThreadStep DEF RunJobNow
  <2>2. UNCHANGED <<table, torn, lock, flock, running, sched, due, up, issued,
                    sent, requests, faults>>
    BY <1>4 DEF RunJobNow, file
  <2>3. triggers' \in [Jobs -> Nat]
    BY <1>4 DEF RunJobNow, TypeOK
  <2> QED
    BY <2>1, <2>2, <2>3 DEF TypeOK
<1> QED
  BY <1>1, <1>2, <1>3, <1>4 DEF Admin

(* So does APScheduler.                                                     *)
LEMMA CronTypes ==
  ASSUME TypeOK, Coherent, Cron
  PROVE  TypeOK' /\ Coherent'
<1>1. ASSUME NEW s \in Times, Tick(s)
      PROVE  TypeOK' /\ Coherent'
  BY <1>1 DEF Tick, TypeOK, Coherent, file
<1>2. ASSUME NEW w \in Workers, NEW j \in Jobs, Misfire(w, j)
      PROVE  TypeOK' /\ Coherent'
  BY <1>2 DEF Misfire, TypeOK, Coherent, file, ledger
<1>3. ASSUME NEW t \in Threads, NEW j \in Jobs, Fire(t, j)
      PROVE  TypeOK' /\ Coherent'
  <2>1. thr' \in [Threads -> Thread] /\ Coherent'
    BY <1>3, ExecutionType, ExecutionOK, ThreadStep DEF Fire
  <2> QED
    BY <1>3, <2>1, HomeAssumption DEF Fire, TypeOK, file, ledger
<1> QED
  BY <1>1, <1>2, <1>3 DEF Cron

(* So do the steps that load and write the job file.                        *)
LEMMA FileStepTypes ==
  ASSUME TypeOK, Coherent, NEW t \in Threads,
         RejectUpdate(t) \/ Enter(t) \/ SaveBegin(t) \/ Save(t) \/ SaveFails(t)
  PROVE  TypeOK' /\ Coherent'
<1>1. CASE RejectUpdate(t)
  BY <1>1, FinishStep DEF RejectUpdate, TypeOK, file, ledger
<1>2. CASE Enter(t)
  <2> DEFINE r == [thr[t] EXCEPT !.pc = "save", !.snap = Load]
  <2>1. r \in Thread
    BY ZenonT(40), LoadType DEF TypeOK, Thread, PCs
  <2>2. RecordOK(r)
    BY <1>2, LoadType DEF Enter, At, TypeOK, Thread, Coherent, RecordOK
  <2>3. thr' \in [Threads -> Thread] /\ Coherent'
    BY <1>2, <2>1, <2>2, ThreadStep DEF Enter
  <2> QED
    BY <1>2, <2>3, HomeAssumption DEF Enter, TypeOK, file, ledger
<1>3. CASE SaveBegin(t)
  <2>1. RecordOK([thr[t] EXCEPT !.pc = "saving"])
    BY <1>3 DEF SaveBegin, At, TypeOK, Thread, Coherent, RecordOK
  <2>2. thr' \in [Threads -> Thread] /\ Coherent'
    BY <1>3, <2>1, GotoStep DEF SaveBegin, PCs
  <2> QED
    BY <1>3, <2>2 DEF SaveBegin, TypeOK, ledger
<1>4. CASE Save(t)
  <2>1. table' \in Table
    BY <1>4, EditedType DEF Save
  <2>2. thr' \in [Threads -> Thread] /\ Coherent'
    BY <1>4, AfterWriteOK, ThreadStep DEF Save, Leave
  <2>3. lock' \in [Workers -> Threads \cup {None}]
    BY <1>4 DEF Save, Leave, TypeOK
  <2>4. UNCHANGED <<flock, running, sched, due, up, issued, triggers, sent,
                    requests, faults>>
    BY <1>4 DEF Save, ledger
  <2>5. torn' \in BOOLEAN
    BY <1>4 DEF Save, TypeOK
  <2> QED
    BY <2>1, <2>2, <2>3, <2>4, <2>5 DEF TypeOK
<1>5. CASE SaveFails(t)
  <2>1. thr' \in [Threads -> Thread] /\ Coherent'
    BY <1>5, AfterWriteOK, ThreadStep DEF SaveFails, Leave
  <2>2. lock' \in [Workers -> Threads \cup {None}]
    BY <1>5 DEF SaveFails, Leave, TypeOK
  <2>3. UNCHANGED <<table, flock, running, sched, due, up, issued, triggers,
                    sent, requests>>
    BY <1>5 DEF SaveFails, ledger
  <2>4. torn' \in BOOLEAN
    BY <1>5 DEF SaveFails, TypeOK
  <2>5. faults' \in Nat
    BY <1>5 DEF SaveFails, TypeOK
  <2> QED
    BY <2>1, <2>2, <2>3, <2>4, <2>5 DEF TypeOK
<1> QED
  BY <1>1, <1>2, <1>3, <1>4, <1>5

(* So do _unregister and _register.                                         *)
LEMMA CronEntryTypes ==
  ASSUME TypeOK, Coherent, NEW t \in Threads, Unregister(t) \/ Register(t)
  PROVE  TypeOK' /\ Coherent'
<1>1. CASE Unregister(t)
  <2>1. RecordOK([thr[t] EXCEPT !.pc = "register"])
    BY <1>1 DEF Unregister, At, TypeOK, Thread, Coherent, RecordOK
  <2>2. thr' \in [Threads -> Thread] /\ Coherent'
    BY <1>1, <2>1, GotoStep, FinishStep DEF Unregister, PCs
  <2>3. sched' \in [Workers -> [Jobs -> Times \cup {NoTime}]]
    BY <1>1 DEF Unregister, TypeOK
  <2> QED
    BY <1>1, <2>2, <2>3 DEF Unregister, TypeOK, file, ledger
<1>2. CASE Register(t)
  <2>1. thr[t].time \in Times \cup {NoTime}
    BY DEF TypeOK, Thread
  <2>2. sched' \in [Workers -> [Jobs -> Times \cup {NoTime}]]
    BY <1>2, <2>1 DEF Register, TypeOK
  <2> QED
    BY <1>2, <2>2, FinishStep DEF Register, TypeOK, file, ledger
<1> QED
  BY <1>1, <1>2

(* So do the steps of _execute_job.                                         *)
LEMMA ExecutionStepTypes ==
  ASSUME TypeOK, Coherent, NEW t \in Threads,
         \/ AcquireJobLock(t) \/ SkipBusyJob(t) \/ SkipUnlockable(t)
         \/ LoadJob(t) \/ Fetch(t) \/ SendEmail(t) \/ RunFails(t)
         \/ DiscardRunning(t) \/ ReleaseJobLock(t)
  PROVE  TypeOK' /\ Coherent'
<1> DEFINE r == thr[t]
<1>1. /\ r \in Thread
      /\ RecordOK(r)
      /\ r.pc # "idle" => r.job \in Jobs
      /\ Home[t] \in Workers
  BY HomeAssumption DEF TypeOK, Coherent, RecordOK
<1>2. CASE AcquireJobLock(t)
  <2>1. thr' \in [Threads -> Thread] /\ Coherent'
    BY <1>1, <1>2, GotoStep DEF AcquireJobLock, At, RecordOK, PCs, Thread
  <2>2. /\ flock' \in [Jobs -> Threads \cup {None}]
        /\ running' \in [Workers -> SUBSET Jobs]
    BY <1>1, <1>2 DEF AcquireJobLock, At, TypeOK
  <2>3. UNCHANGED <<table, torn, lock, sched, due, up, issued, triggers, sent,
                    requests, faults>>
    BY <1>2 DEF AcquireJobLock, file, ledger
  <2> QED
    BY <2>1, <2>2, <2>3 DEF TypeOK
<1>3. CASE SkipBusyJob(t)
  <2>1. UNCHANGED <<table, torn, lock, flock, running, sched, due, up, issued,
                    triggers, sent, requests, faults>>
    BY <1>3 DEF SkipBusyJob, file, ledger
  <2> QED
    BY <1>3, <2>1, FinishStep DEF SkipBusyJob, TypeOK
<1>4. CASE SkipUnlockable(t)
  <2>1. /\ UNCHANGED <<table, torn, lock, flock, running, sched, due, up, issued,
                       triggers, sent, requests>>
        /\ faults' \in Nat
    BY <1>4 DEF SkipUnlockable, TypeOK, file, ledger
  <2> QED
    BY <1>4, <2>1, FinishStep DEF SkipUnlockable, TypeOK
<1>5. CASE LoadJob(t)
  <2>1. \A pc \in {"discard", "fetch"} : RecordOK([r EXCEPT !.pc = pc])
    BY <1>1, <1>5 DEF LoadJob, At, RecordOK, Thread
  <2>2. thr' \in [Threads -> Thread] /\ Coherent'
    BY <1>5, <2>1, GotoStep DEF LoadJob, PCs
  <2>3. UNCHANGED <<table, torn, lock, flock, running, sched, due, up, issued,
                    triggers, sent, requests, faults>>
    BY <1>5 DEF LoadJob, file, ledger
  <2> QED
    BY <2>2, <2>3 DEF TypeOK
<1>6. CASE Fetch(t)
  <2>1. RecordOK([r EXCEPT !.pc = "send"])
    BY <1>1, <1>6 DEF Fetch, At, RecordOK, Thread
  <2>2. thr' \in [Threads -> Thread] /\ Coherent'
    BY <1>6, <2>1, GotoStep DEF Fetch, PCs
  <2>3. UNCHANGED <<table, torn, lock, flock, running, sched, due, up, issued,
                    triggers, sent, requests, faults>>
    BY <1>6 DEF Fetch, file, ledger
  <2> QED
    BY <2>2, <2>3 DEF TypeOK
<1>7. CASE SendEmail(t)
  <2> DEFINE mail == sent[r.job] + 1
             q == [r EXCEPT !.pc = "enter", !.op = "append", !.mail = mail]
  <2>1. mail \in Runs /\ mail \in Nat
    BY <1>7, RunsAssumption DEF SendEmail
  <2>2. q \in Thread
    BY <1>1, <2>1 DEF Thread, PCs, History
  <2>3. RecordOK(q)
    BY <1>1, <1>7 DEF SendEmail, At, RecordOK, Thread, History
  <2>4. thr' \in [Threads -> Thread] /\ Coherent'
    BY <1>7, <2>2, <2>3, ThreadStep DEF SendEmail
  <2>5. sent' \in [Jobs -> Nat]
    BY <1>7, <2>1 DEF SendEmail, TypeOK
  <2>6. UNCHANGED <<table, torn, lock, flock, running, sched, due, up, issued,
                    triggers, requests, faults>>
    BY <1>7 DEF SendEmail, file
  <2> QED
    BY <2>4, <2>5, <2>6 DEF TypeOK
<1>8. CASE RunFails(t)
  <2> DEFINE q == [r EXCEPT !.pc = "enter", !.op = "error"]
  <2>1. q \in Thread
    BY <1>1 DEF Thread, PCs, History
  <2>2. RecordOK(q)
    BY <1>1, <1>8 DEF RunFails, RecordOK, Thread, History
  <2>3. thr' \in [Threads -> Thread] /\ Coherent'
    BY <1>8, <2>1, <2>2, ThreadStep DEF RunFails
  <2>4. UNCHANGED <<table, torn, lock, flock, running, sched, due, up, issued,
                    triggers, sent, requests, faults>>
    BY <1>8 DEF RunFails, file, ledger
  <2> QED
    BY <2>3, <2>4 DEF TypeOK
<1>9. CASE DiscardRunning(t)
  <2>1. thr' \in [Threads -> Thread] /\ Coherent'
    BY <1>1, <1>9, GotoStep DEF DiscardRunning, At, RecordOK, PCs, Thread
  <2>2. running' \in [Workers -> SUBSET Jobs]
    BY <1>1, <1>9 DEF DiscardRunning, TypeOK
  <2>3. UNCHANGED <<table, torn, lock, flock, sched, due, up, issued,
                    triggers, sent, requests, faults>>
    BY <1>9 DEF DiscardRunning, file, ledger
  <2> QED
    BY <2>1, <2>2, <2>3 DEF TypeOK
<1>10. CASE ReleaseJobLock(t)
  <2>1. flock' \in [Jobs -> Threads \cup {None}]
    BY <1>10 DEF ReleaseJobLock, TypeOK
  <2>2. UNCHANGED <<table, torn, lock, running, sched, due, up, issued,
                    triggers, sent, requests, faults>>
    BY <1>10 DEF ReleaseJobLock, file, ledger
  <2> QED
    BY <1>10, <2>1, <2>2, FinishStep DEF ReleaseJobLock, TypeOK
<1> QED
  BY <1>2, <1>3, <1>4, <1>5, <1>6, <1>7, <1>8, <1>9, <1>10

(* TypeOK and Coherent together are inductive.                              *)
LEMMA TypeStep ==
  TypeOK /\ Coherent /\ [Next]_vars => TypeOK' /\ Coherent'
<1> SUFFICES ASSUME TypeOK, Coherent, [Next]_vars
             PROVE  TypeOK' /\ Coherent'
  OBVIOUS
<1>1. ASSUME NEW t \in Threads, Step(t) PROVE TypeOK' /\ Coherent'
  BY <1>1, FileStepTypes, CronEntryTypes, ExecutionStepTypes DEF Step
<1>2. ASSUME NEW t \in Threads, Admin(t) PROVE TypeOK' /\ Coherent'
  BY <1>2, AdminTypes
<1>3. CASE Cron
  BY <1>3, CronTypes
<1>4. ASSUME NEW w \in Workers, Boot(w) PROVE TypeOK' /\ Coherent'
  BY <1>4, WorkerTypes
<1>5. CASE Fault
  BY <1>5, WorkerTypes, FileStepTypes, ExecutionStepTypes DEF Fault
<1>6. CASE UNCHANGED vars
  BY <1>6 DEF vars, TypeOK, Coherent
<1> QED
  BY <1>1, <1>2, <1>3, <1>4, <1>5, <1>6 DEF Next

(* Every variable keeps its type, and the record of every thread what its   *)
(* place in the code promises.                                              *)
THEOREM TypeCorrect == Spec => []TypeOK /\ []Coherent
<1>1. Init => TypeOK /\ Coherent
  <2> SUFFICES ASSUME Init PROVE TypeOK /\ Coherent
    OBVIOUS
  <2>1. table \in Table
    BY DEF Init, EmptyTable, Table
  <2>2. thr \in [Threads -> Thread] /\ Coherent
    BY IdleType, IdleOK DEF Init, Coherent
  <2> QED
    BY <2>1, <2>2 DEF Init, TypeOK
<1> QED
  BY <1>1, TypeStep, PTL DEF Spec

-----------------------------------------------------------------------------
(* The lock file of a job and its mark in _running_jobs                     *)

(* A step of a thread that neither takes nor gives back a lock file or a    *)
(* mark.                                                                    *)
LEMMA KeepExecution ==
  ASSUME TypeOK, ExecutionInv, NEW t \in Threads, NEW r,
         thr' = [thr EXCEPT ![t] = r], UNCHANGED <<flock, running>>,
         Owns(r) <=> Owns(thr[t]), Marked(r) <=> Marked(thr[t]),
         Owns(r) => r.job = thr[t].job
  PROVE  ExecutionInv'
<1>1. thr'[t] = r /\ \A u \in Threads \ {t} : thr'[u] = thr[u]
  BY DEF TypeOK
<1>2. LockFileHeld'
  BY <1>1 DEF ExecutionInv, LockFileHeld
<1>3. ASSUME NEW u \in Threads
      PROVE  /\ Marked(thr'[u]) <=> Marked(thr[u])
             /\ Marked(thr[u]) => thr'[u].job = thr[u].job
  BY <1>1 DEF Marked
<1>4. MarksMatch'
  BY <1>3 DEF ExecutionInv, MarksMatch
<1> QED
  BY <1>2, <1>4 DEF ExecutionInv

(* A step to a place that owns no more and no less.                         *)
LEMMA GotoKeepsExecution ==
  ASSUME TypeOK, ExecutionInv, NEW t \in Threads, NEW pc, Goto(t, pc),
         UNCHANGED <<flock, running>>,
         LET r == [thr[t] EXCEPT !.pc = pc]
         IN  (Owns(r) <=> Owns(thr[t])) /\ (Marked(r) <=> Marked(thr[t]))
  PROVE  ExecutionInv'
<1> DEFINE r == [thr[t] EXCEPT !.pc = pc]
<1>1. thr' = [thr EXCEPT ![t] = r]
  BY DEF Goto
<1>2. r.job = thr[t].job
  BY DEF TypeOK, Thread
<1> QED
  BY <1>1, <1>2, KeepExecution

(* A thread with nothing to do holds no lock file.                          *)
LEMMA IdleOwnsNothing == ~Owns(Idle)
  BY DEF Owns, Idle, History

(* The end of a thread that held none.                                      *)
LEMMA FinishKeepsExecution ==
  ASSUME TypeOK, ExecutionInv, NEW t \in Threads, Finish(t),
         UNCHANGED <<flock, running>>, ~Owns(thr[t])
  PROVE  ExecutionInv'
  BY IdleOwnsNothing, KeepExecution DEF Finish, Marked

(* An admin route takes no lock file and sets no mark.                      *)
LEMMA AdminExecution ==
  ASSUME TypeOK, Coherent, ExecutionInv, NEW t \in Threads, Admin(t)
  PROVE  ExecutionInv'
<1>1. thr[t].pc = "idle" /\ UNCHANGED <<flock, running>>
  BY DEF Admin, CreateJob, UpdateJob, DeleteJob, RunJobNow, Receive, Free
<1>2. ~Owns(thr[t])
  BY <1>1 DEF Coherent, RecordOK, Owns, History
<1>3. PICK r : thr' = [thr EXCEPT ![t] = r] /\ ~Owns(r)
  <2>1. \A j, enabled, time :
           /\ ~Owns(Request("create", j, enabled, time))
           /\ ~Owns(Request("update", j, enabled, time))
           /\ ~Owns(Request("delete", j, enabled, time))
    BY DEF Owns, Request, Idle, History
  <2>2. \A j, cron : ~Owns(Execution(j, cron))
    BY DEF Owns, Execution, Idle, History
  <2>3. CASE \E j \in Jobs, enabled \in BOOLEAN, time \in Times :
               CreateJob(t, j, enabled, time) \/ UpdateJob(t, j, enabled, time)
    BY <2>1, <2>3 DEF CreateJob, UpdateJob, Receive
  <2>4. ASSUME NEW j \in Jobs, DeleteJob(t, j)
        PROVE  \E r : thr' = [thr EXCEPT ![t] = r] /\ ~Owns(r)
    BY <2>1, <2>4 DEF DeleteJob, Receive
  <2>5. ASSUME NEW j \in Jobs, RunJobNow(t, j)
        PROVE  \E r : thr' = [thr EXCEPT ![t] = r] /\ ~Owns(r)
    BY <2>2, <2>5 DEF RunJobNow
  <2> QED
    BY <2>3, <2>4, <2>5 DEF Admin
<1> QED
  BY <1>1, <1>2, <1>3, KeepExecution DEF Marked

(* Neither does APScheduler.                                                *)
LEMMA CronExecution ==
  ASSUME TypeOK, Coherent, ExecutionInv, Cron
  PROVE  ExecutionInv'
<1>1. ASSUME UNCHANGED <<thr, flock, running>> PROVE ExecutionInv'
  BY <1>1 DEF ExecutionInv, LockFileHeld, MarksMatch
<1>2. ASSUME NEW s \in Times, Tick(s) PROVE ExecutionInv'
  BY <1>1, <1>2 DEF Tick
<1>3. ASSUME NEW w \in Workers, NEW j \in Jobs, Misfire(w, j) PROVE ExecutionInv'
  BY <1>1, <1>3 DEF Misfire
<1>4. ASSUME NEW t \in Threads, NEW j \in Jobs, Fire(t, j) PROVE ExecutionInv'
  <2>1. ~Owns(thr[t])
    BY <1>4 DEF Fire, Free, Coherent, RecordOK, Owns, History
  <2>2. ~Owns(Execution(j, TRUE))
    BY DEF Owns, Execution, Idle, History
  <2> QED
    BY <1>4, <2>1, <2>2, KeepExecution DEF Fire, Marked
<1> QED
  BY <1>2, <1>3, <1>4 DEF Cron

(* A thread that leaves a write keeps its lock file and its mark.           *)
LEMMA AfterWriteKeeps ==
  ASSUME TypeOK, Coherent, NEW t \in Threads, Writing(t),
         NEW next \in {AfterSave(t), AfterFailure(t)}
  PROVE  LET r == [next EXCEPT !.snap = EmptyTable]
         IN  /\ Owns(r) <=> Owns(thr[t])
             /\ Marked(r) <=> Marked(thr[t])
             /\ Owns(r) => r.job = thr[t].job
<1> DEFINE r == thr[t]
           q == [next EXCEPT !.snap = EmptyTable]
<1>1. /\ r \in Thread
      /\ r.pc \in {"save", "saving"}
      /\ r.op \in Crud \cup History
  BY DEF TypeOK, Coherent, RecordOK, Writing, At
<1>2. CASE r.op \in Crud
  <2>1. \/ next = Idle
        \/ next = [r EXCEPT !.pc = "register"]
        \/ next = [r EXCEPT !.pc = "unregister"]
    BY <1>1, <1>2 DEF AfterSave, AfterFailure, Crud, History
  <2>2. ~Owns(r)
    BY <1>1, <1>2 DEF Owns, Crud, History
  <2>3. q.pc \in {"idle", "register", "unregister"} /\ q.op \in {"none", r.op}
    BY <1>1, <2>1 DEF Idle, Thread
  <2>4. ~Owns(q)
    BY <1>2, <2>3 DEF Owns, Crud, History
  <2> QED
    BY <2>2, <2>4 DEF Marked
<1>3. CASE r.op \in History
  <2>1. \/ next = [r EXCEPT !.pc = "enter", !.op = "prune"]
        \/ next = [r EXCEPT !.pc = "enter", !.op = "error"]
        \/ next = [r EXCEPT !.pc = "discard", !.op = "none"]
    BY <1>1, <1>3 DEF AfterSave, AfterFailure, Crud, History
  <2>2. /\ q.job = r.job
        /\ q.pc \in {"enter", "discard"}
        /\ q.pc = "discard" \/ q.op \in History
    BY <1>1, <2>1 DEF Thread, History
  <2> QED
    BY <1>1, <1>3, <2>2 DEF Owns, Marked
<1> QED
  BY <1>1, <1>2, <1>3

(* Reading and writing the job file leaves lock files and marks alone.      *)
LEMMA FileStepExecution ==
  ASSUME TypeOK, Coherent, ExecutionInv, NEW t \in Threads,
         RejectUpdate(t) \/ Enter(t) \/ SaveBegin(t) \/ Save(t) \/ SaveFails(t)
  PROVE  ExecutionInv'
<1> DEFINE r == thr[t]
<1>1. r \in Thread /\ UNCHANGED <<flock, running>>
  BY DEF TypeOK, RejectUpdate, Enter, SaveBegin, Save, SaveFails
<1>2. CASE RejectUpdate(t)
  <2>1. ~Owns(r)
    BY <1>2 DEF RejectUpdate, At, Owns, History
  <2> QED
    BY <1>1, <1>2, <2>1, FinishKeepsExecution DEF RejectUpdate
<1>3. CASE Enter(t)
  <2> DEFINE q == [r EXCEPT !.pc = "save", !.snap = Load]
  <2>1. q.pc = "save" /\ q.op = r.op /\ q.job = r.job /\ r.pc = "enter"
    BY <1>1, <1>3 DEF Enter, At, Thread
  <2> QED
    BY <1>1, <1>3, <2>1, KeepExecution DEF Enter, Owns, Marked
<1>4. CASE SaveBegin(t)
  <2> DEFINE q == [r EXCEPT !.pc = "saving"]
  <2>1. q.pc = "saving" /\ q.op = r.op /\ r.pc = "save"
    BY <1>1, <1>4 DEF SaveBegin, At, Thread
  <2>2. (Owns(q) <=> Owns(r)) /\ (Marked(q) <=> Marked(r))
    BY <2>1 DEF Owns, Marked
  <2> QED
    BY <1>1, <1>4, <2>2, GotoKeepsExecution DEF SaveBegin
<1>5. CASE Save(t)
  BY <1>1, <1>5, AfterWriteKeeps, KeepExecution DEF Save, Leave
<1>6. CASE SaveFails(t)
  BY <1>1, <1>6, AfterWriteKeeps, KeepExecution DEF SaveFails, Leave
<1> QED
  BY <1>2, <1>3, <1>4, <1>5, <1>6

(* So do _unregister and _register.                                         *)
LEMMA CronEntryExecution ==
  ASSUME TypeOK, Coherent, ExecutionInv, NEW t \in Threads,
         Unregister(t) \/ Register(t)
  PROVE  ExecutionInv'
<1> DEFINE r == thr[t]
           q == [r EXCEPT !.pc = "register"]
<1>1. r \in Thread /\ UNCHANGED <<flock, running>>
  BY DEF TypeOK, Unregister, Register
<1>2. r.pc \in {"unregister", "register"} /\ ~Owns(r)
  BY DEF Unregister, Register, At, Coherent, RecordOK, Owns, Crud, History
<1>3. ~Owns(q)
  BY <1>1, <1>2 DEF Owns, Thread
<1> QED
  BY <1>1, <1>2, <1>3, FinishKeepsExecution, GotoKeepsExecution
     DEF Unregister, Register, Marked

(* _try_acquire_job_lock succeeds only when no execution of the job holds it. *)
LEMMA TakeJobLock ==
  ASSUME TypeOK, Coherent, ExecutionInv, NEW t \in Threads, AcquireJobLock(t)
  PROVE  ExecutionInv'
<1> DEFINE j == thr[t].job
<1>1. j \in Jobs /\ Home[t] \in Workers /\ thr[t] \in Thread
  BY HomeAssumption DEF TypeOK, Coherent, RecordOK, AcquireJobLock, At
<1>2. /\ thr'[t] = [thr[t] EXCEPT !.pc = "load"]
      /\ \A u \in Threads \ {t} : thr'[u] = thr[u]
  BY DEF AcquireJobLock, Goto, TypeOK
<1>3. thr'[t].job = j /\ Marked(thr'[t]) /\ ~Owns(thr[t])
  BY <1>1, <1>2 DEF Marked, Owns, Thread, AcquireJobLock, At, Coherent, RecordOK,
                    History
<1>4. flock' = [flock EXCEPT ![j] = t] /\ flock[j] = None
  BY DEF AcquireJobLock
<1>5. \A u \in Threads \ {t} : Owns(thr[u]) => thr[u].job # j
  BY <1>4, NoneAssumption DEF ExecutionInv, LockFileHeld
<1>6. LockFileHeld'
  <2> SUFFICES ASSUME NEW u \in Threads, Owns(thr'[u])
               PROVE  flock'[thr'[u].job] = u
    BY DEF LockFileHeld
  <2>1. CASE u = t
    BY <1>1, <1>3, <1>4, <2>1 DEF TypeOK
  <2>2. CASE u # t
    <3>1. thr'[u] = thr[u] /\ flock[thr[u].job] = u /\ thr[u].job # j
      BY <1>2, <1>5, <2>2 DEF ExecutionInv, LockFileHeld
    <3> QED
      BY <1>4, <3>1 DEF TypeOK
  <2> QED
    BY <2>1, <2>2
<1>7. MarksMatch'
  <2> SUFFICES ASSUME NEW w \in Workers, NEW k \in Jobs
               PROVE  k \in running'[w] <=>
                        \E u \in Threads :
                           Home[u] = w /\ Marked(thr'[u]) /\ thr'[u].job = k
    BY DEF MarksMatch
  <2>1. k \in running'[w] <=> k \in running[w] \/ (w = Home[t] /\ k = j)
    BY <1>1 DEF AcquireJobLock, TypeOK
  <2>2. k \in running[w] <=>
          \E u \in Threads : Home[u] = w /\ Marked(thr[u]) /\ thr[u].job = k
    BY DEF ExecutionInv, MarksMatch
  <2> QED
    BY <1>2, <1>3, <2>1, <2>2 DEF Marked
<1> QED
  BY <1>6, <1>7 DEF ExecutionInv

(* _running_jobs.discard takes away the thread's own mark and no other.     *)
LEMMA DropMark ==
  ASSUME TypeOK, Coherent, ExecutionInv, NEW t \in Threads, DiscardRunning(t)
  PROVE  ExecutionInv'
<1> DEFINE j == thr[t].job
<1>1. j \in Jobs /\ Home[t] \in Workers /\ thr[t] \in Thread
  BY HomeAssumption DEF TypeOK, Coherent, RecordOK, DiscardRunning, At
<1>2. /\ thr'[t] = [thr[t] EXCEPT !.pc = "unlock"]
      /\ \A u \in Threads \ {t} : thr'[u] = thr[u]
  BY DEF DiscardRunning, Goto, TypeOK
<1>3. thr'[t].job = j /\ ~Marked(thr'[t]) /\ Owns(thr[t])
  BY <1>1, <1>2 DEF Marked, Owns, Thread, DiscardRunning, At
<1>4. LockFileHeld'
  BY <1>2, <1>3 DEF DiscardRunning, ExecutionInv, LockFileHeld
<1>5. \A u \in Threads \ {t} : Owns(thr[u]) => thr[u].job # j
  BY <1>3 DEF ExecutionInv, LockFileHeld
<1>6. MarksMatch'
  <2> SUFFICES ASSUME NEW w \in Workers, NEW k \in Jobs
               PROVE  k \in running'[w] <=>
                        \E u \in Threads :
                           Home[u] = w /\ Marked(thr'[u]) /\ thr'[u].job = k
    BY DEF MarksMatch
  <2>1. k \in running'[w] <=> k \in running[w] /\ ~(w = Home[t] /\ k = j)
    BY <1>1 DEF DiscardRunning, TypeOK
  <2>2. k \in running[w] <=>
          \E u \in Threads : Home[u] = w /\ Marked(thr[u]) /\ thr[u].job = k
    BY DEF ExecutionInv, MarksMatch
  <2> QED
    BY <1>2, <1>3, <1>5, <2>1, <2>2 DEF Marked
<1> QED
  BY <1>4, <1>6 DEF ExecutionInv

(* LOCK_UN frees the job, whose mark is gone already.                       *)
LEMMA GiveJobLockBack ==
  ASSUME TypeOK, Coherent, ExecutionInv, NEW t \in Threads, ReleaseJobLock(t)
  PROVE  ExecutionInv'
<1> DEFINE j == thr[t].job
<1>1. /\ thr'[t] = Idle
      /\ \A u \in Threads \ {t} : thr'[u] = thr[u]
  BY DEF ReleaseJobLock, Finish, TypeOK
<1>2. Owns(thr[t]) /\ ~Marked(thr[t]) /\ ~Owns(thr'[t])
  BY <1>1, IdleOwnsNothing DEF ReleaseJobLock, At, Owns, Marked
<1>3. \A u \in Threads \ {t} : Owns(thr[u]) => thr[u].job # j
  BY <1>2 DEF ExecutionInv, LockFileHeld
<1>4. LockFileHeld'
  <2> SUFFICES ASSUME NEW u \in Threads, Owns(thr'[u])
               PROVE  flock'[thr'[u].job] = u
    BY DEF LockFileHeld
  <2>1. u # t /\ thr'[u] = thr[u]
    BY <1>1, <1>2
  <2>2. flock[thr[u].job] = u /\ thr[u].job # j
    BY <1>3, <2>1 DEF ExecutionInv, LockFileHeld
  <2> QED
    BY <2>1, <2>2 DEF ReleaseJobLock, TypeOK
<1>5. MarksMatch'
  <2>1. running' = running
    BY DEF ReleaseJobLock
  <2>2. \A u \in Threads : /\ Marked(thr'[u]) <=> Marked(thr[u])
                           /\ Marked(thr[u]) => thr'[u].job = thr[u].job
    BY <1>1, <1>2 DEF Marked
  <2> QED
    BY <2>1, <2>2 DEF ExecutionInv, MarksMatch
<1> QED
  BY <1>4, <1>5 DEF ExecutionInv

(* Every step of _execute_job keeps lock files and marks right.             *)
LEMMA ExecutionStep ==
  ASSUME TypeOK, Coherent, ExecutionInv, NEW t \in Threads,
         \/ AcquireJobLock(t) \/ SkipBusyJob(t) \/ SkipUnlockable(t)
         \/ LoadJob(t) \/ Fetch(t) \/ SendEmail(t) \/ RunFails(t)
         \/ DiscardRunning(t) \/ ReleaseJobLock(t)
  PROVE  ExecutionInv'
<1> DEFINE r == thr[t]
<1>1. r \in Thread /\ RecordOK(r)
  BY DEF TypeOK, Coherent
<1>2. CASE AcquireJobLock(t)
  BY <1>2, TakeJobLock
<1>3. CASE SkipBusyJob(t) \/ SkipUnlockable(t)
  <2>1. ~Owns(r)
    BY <1>1, <1>3 DEF SkipBusyJob, SkipUnlockable, At, Owns, RecordOK, History
  <2> QED
    BY <1>3, <2>1, FinishKeepsExecution DEF SkipBusyJob, SkipUnlockable
<1>4. CASE LoadJob(t) \/ Fetch(t)
  <2>1. PICK pc \in {"discard", "fetch", "send"} :
           Goto(t, pc) /\ UNCHANGED <<flock, running>>
    BY <1>4 DEF LoadJob, Fetch
  <2>2. r.pc \in {"load", "fetch"}
    BY <1>4 DEF LoadJob, Fetch, At
  <2>3. [r EXCEPT !.pc = pc].pc = pc
    BY <1>1 DEF Thread
  <2> QED
    BY <2>1, <2>2, <2>3, GotoKeepsExecution DEF Owns, Marked
<1>5. CASE SendEmail(t)
  <2> DEFINE q == [r EXCEPT !.pc = "enter", !.op = "append", !.mail = sent[r.job] + 1]
  <2>1. q.pc = "enter" /\ q.op = "append" /\ q.job = r.job /\ r.pc = "send"
    BY <1>1, <1>5 DEF SendEmail, At, Thread
  <2>2. thr' = [thr EXCEPT ![t] = q] /\ UNCHANGED <<flock, running>>
    BY <1>5 DEF SendEmail
  <2> QED
    BY <2>1, <2>2, KeepExecution DEF Owns, Marked, History
<1>6. CASE RunFails(t)
  <2> DEFINE q == [r EXCEPT !.pc = "enter", !.op = "error"]
  <2>1. q.pc = "enter" /\ q.op = "error" /\ q.job = r.job /\ Marked(r)
    BY <1>1, <1>6 DEF RunFails, Thread, At, Marked, Owns, History
  <2>2. thr' = [thr EXCEPT ![t] = q] /\ UNCHANGED <<flock, running>>
    BY <1>6 DEF RunFails
  <2> QED
    BY <2>1, <2>2, KeepExecution DEF Owns, Marked, History
<1>7. CASE DiscardRunning(t)
  BY <1>7, DropMark
<1>8. CASE ReleaseJobLock(t)
  BY <1>8, GiveJobLockBack
<1> QED
  BY <1>2, <1>3, <1>4, <1>5, <1>6, <1>7, <1>8

(* The kernel drops the lock files of a worker that dies, and its           *)
(* _running_jobs dies with it.                                              *)
LEMMA WorkerExecution ==
  ASSUME TypeOK, Coherent, ExecutionInv, NEW w \in Workers, Boot(w) \/ Crash(w)
  PROVE  ExecutionInv'
<1>1. CASE Boot(w)
  BY <1>1 DEF Boot, ExecutionInv, LockFileHeld, MarksMatch
<1>2. CASE Crash(w)
  <2>1. \A u \in Threads : thr'[u] = IF Home[u] = w THEN Idle ELSE thr[u]
    BY <1>2 DEF Crash
  <2>2. \A u \in Threads : Owns(thr'[u]) => Home[u] # w /\ thr'[u] = thr[u]
    BY <2>1, IdleOwnsNothing
  <2>3. LockFileHeld'
    <3> SUFFICES ASSUME NEW u \in Threads, Owns(thr'[u])
                 PROVE  flock'[thr'[u].job] = u
      BY DEF LockFileHeld
    <3>1. Home[u] # w /\ thr'[u] = thr[u] /\ flock[thr[u].job] = u
      BY <2>2 DEF ExecutionInv, LockFileHeld
    <3>2. thr[u].job \in Jobs
      BY <3>1 DEF Coherent, RecordOK, Owns, History
    <3> QED
      BY <1>2, <3>1, <3>2 DEF Crash
  <2>4. MarksMatch'
    <3>1. running' = [running EXCEPT ![w] = {}]
      BY <1>2 DEF Crash
    <3>2. \A u \in Threads : Marked(thr'[u]) <=> Home[u] # w /\ Marked(thr[u])
      BY <2>1, IdleOwnsNothing DEF Marked
    <3> QED
      BY SMTT(20), <2>2, <3>1, <3>2 DEF ExecutionInv, MarksMatch, TypeOK, Marked
  <2> QED
    BY <2>3, <2>4 DEF ExecutionInv
<1> QED
  BY <1>1, <1>2

(* ExecutionInv is inductive, given the types.                              *)
LEMMA ExecutionInvStep ==
  TypeOK /\ Coherent /\ ExecutionInv /\ [Next]_vars => ExecutionInv'
<1> SUFFICES ASSUME TypeOK, Coherent, ExecutionInv, [Next]_vars
             PROVE  ExecutionInv'
  OBVIOUS
<1>1. ASSUME NEW t \in Threads, Step(t) PROVE ExecutionInv'
  BY <1>1, FileStepExecution, CronEntryExecution, ExecutionStep DEF Step
<1>2. ASSUME NEW t \in Threads, Admin(t) PROVE ExecutionInv'
  BY <1>2, AdminExecution
<1>3. CASE Cron
  BY <1>3, CronExecution
<1>4. ASSUME NEW w \in Workers, Boot(w) PROVE ExecutionInv'
  BY <1>4, WorkerExecution
<1>5. CASE Fault
  BY <1>5, WorkerExecution, FileStepExecution, ExecutionStep DEF Fault
<1>6. CASE UNCHANGED vars
  BY <1>6 DEF vars, ExecutionInv, LockFileHeld, MarksMatch
<1> QED
  BY <1>1, <1>2, <1>3, <1>4, <1>5, <1>6 DEF Next

(* From taking its lock file to giving it back an execution holds it, and    *)
(* _running_jobs of a worker names exactly the jobs it has marked.          *)
THEOREM ExecutionCorrect == Spec => []ExecutionInv
<1>1. Init => ExecutionInv
  BY IdleOwnsNothing DEF Init, ExecutionInv, LockFileHeld, MarksMatch, Marked
<1> QED
  BY <1>1, ExecutionInvStep, TypeCorrect, PTL DEF Spec

(* However many workers fire a job at once, at most one execution of it is  *)
(* between taking its lock file and giving it back, crashes included.       *)
THEOREM OneRunPerJobCorrect == Spec => []OneRunPerJob
<1>1. ExecutionInv => OneRunPerJob
  BY DEF ExecutionInv, LockFileHeld, OneRunPerJob, Executing, Owns
<1> QED
  BY <1>1, ExecutionCorrect, PTL

(* The status a worker reports of its jobs is what its threads execute.     *)
THEOREM RunningReportedCorrect == Spec => []RunningReported
<1>1. TypeOK /\ Coherent /\ ExecutionInv => RunningReported
  <2> SUFFICES ASSUME TypeOK, Coherent, ExecutionInv, NEW w \in Workers
               PROVE  running[w] = {thr[t].job : t \in {u \in Threads :
                                      /\ Home[u] = w
                                      /\ Executing(u)
                                      /\ ~At(u, "unlock")}}
    BY DEF RunningReported
  <2>1. \A t \in Threads : Executing(t) /\ ~At(t, "unlock") <=> Marked(thr[t])
    BY DEF Executing, At, Marked, Owns
  <2>2. \A t \in Threads : Marked(thr[t]) => thr[t].job \in Jobs
    BY DEF Coherent, RecordOK, Marked, Owns, History
  <2>3. running[w] \subseteq Jobs
    BY DEF TypeOK
  <2> QED
    BY <2>1, <2>2, <2>3 DEF ExecutionInv, MarksMatch
<1> QED
  BY <1>1, TypeCorrect, ExecutionCorrect, PTL

-----------------------------------------------------------------------------
(* The run history of a job                                                 *)

(* What HistoryIsTrue asks of the runs of a job with n emails delivered.    *)
Truthful(runs, n) ==
    \A i \in DOMAIN runs :
        /\ runs[i] <= n
        /\ \A k \in DOMAIN runs : i < k /\ runs[k] # 0 /\ runs[i] # 0
                                      => runs[k] < runs[i]

Below(runs, n) == \A i \in DOMAIN runs : runs[i] < n

(* Every copy of the job table: the file, and what a thread has loaded of   *)
(* it and may write back after others have written.                         *)
Copies == {table} \cup {thr[t].snap : t \in Threads}

TrueTable(T) == \A j \in Jobs : T[j] # NoJob => Truthful(T[j].runs, sent[j])

(* T has not yet seen the email that a thread with record r will record.    *)
Unseen(r, T) == T[r.job] # NoJob => Below(T[r.job].runs, r.mail)

(* No copy holds a false history, and the email that an execution is about  *)
(* to record is the newest of its job, and in no copy yet.                  *)
HistoryInv ==
    /\ \A T \in Copies : TrueTable(T)
    /\ \A t \in Threads : thr[t].op = "append" =>
          /\ thr[t].mail = sent[thr[t].job]
          /\ thr[t].mail > 0
          /\ \A T \in Copies : Unseen(thr[t], T)

(* A copy is a table of jobs with histories over Runs.                      *)
LEMMA CopiesType ==
  ASSUME TypeOK
  PROVE  /\ Copies \subseteq Table
         /\ \A T \in Copies, j \in Jobs :
               T[j] # NoJob => T[j] \in Job /\ T[j].runs \in Seq(Runs)
<1>1. Copies \subseteq Table
  BY DEF Copies, TypeOK, Thread
<1>2. \A T \in Table, j \in Jobs : T[j] # NoJob => T[j] \in Job
  BY DEF Table
<1> QED
  BY <1>1, <1>2 DEF Job

(* An empty history is true and holds no email.                             *)
LEMMA NoRuns == \A n : Truthful(<<>>, n) /\ Below(<<>>, n)
  BY DEF Truthful, Below

(* So is a table without jobs.                                              *)
LEMMA NoJobs == TrueTable(EmptyTable) /\ \A r : r.job \in Jobs => Unseen(r, EmptyTable)
  BY DEF TrueTable, Unseen, EmptyTable

(* The records of a history are numbers.                                    *)
LEMMA RunsAreNumbers ==
  ASSUME NEW runs \in Seq(Runs)
  PROVE  \A i \in DOMAIN runs : runs[i] \in Nat
<1>1. \A i \in 1..Len(runs) : runs[i] \in Runs
  BY ElementOfSeq
<1>2. DOMAIN runs = 1..Len(runs)
  OBVIOUS
<1> QED
  BY <1>1, <1>2, RunsAssumption

(* A record in front of a true history: an error, or an email newer than    *)
(* all that the history holds.                                              *)
LEMMA RunInFront ==
  ASSUME NEW runs \in Seq(Runs), NEW n \in Nat, NEW x \in Runs,
         Truthful(runs, n), x <= n, x = 0 \/ Below(runs, x)
  PROVE  Truthful(<<x>> \o runs, n)
<1> DEFINE new == <<x>> \o runs
<1>1. /\ DOMAIN new = 1..(Len(runs) + 1)
      /\ new[1] = x
      /\ \A i \in 1..(Len(runs) + 1) : i > 1 => new[i] = runs[i - 1]
  <2>1. <<x>> \in Seq(Runs) /\ Len(<<x>>) = 1 /\ <<x>>[1] = x
    OBVIOUS
  <2>2. /\ new \in Seq(Runs)
        /\ Len(new) = 1 + Len(runs)
        /\ \A i \in 1..(1 + Len(runs)) :
              new[i] = IF i <= 1 THEN <<x>>[i] ELSE runs[i - 1]
    BY <2>1, ConcatProperties, Zenon
  <2> HIDE DEF new
  <2>3. Len(runs) \in Nat
    OBVIOUS
  <2> QED
    BY <2>1, <2>2, <2>3
<1>2. \A i \in 1..Len(runs) : runs[i] \in Nat /\ runs[i] <= n
  <2>1. DOMAIN runs = 1..Len(runs)
    OBVIOUS
  <2> QED
    BY <2>1, RunsAreNumbers DEF Truthful
<1>3. \A i, k \in 1..Len(runs) : i < k /\ runs[k] # 0 /\ runs[i] # 0
                                    => runs[k] < runs[i]
  BY DEF Truthful
<1>4. x \in Nat /\ Len(runs) \in Nat
  BY RunsAssumption
<1>5. x = 0 \/ \A i \in 1..Len(runs) : runs[i] < x
  BY DEF Below
<1> HIDE DEF new
<1>6. \A i \in 1..(Len(runs) + 1) : new[i] <= n
  BY <1>1, <1>2, <1>4
<1>7. ASSUME NEW i \in 1..(Len(runs) + 1), NEW k \in 1..(Len(runs) + 1),
             i < k, new[k] # 0, new[i] # 0
      PROVE  new[k] < new[i]
  <2>1. new[k] = runs[k - 1] /\ k - 1 \in 1..Len(runs)
    BY <1>1, <1>4, <1>7
  <2>2. CASE i = 1
    BY <1>1, <1>5, <1>7, <2>1, <2>2
  <2>3. CASE i > 1
    <3>1. new[i] = runs[i - 1] /\ i - 1 \in 1..Len(runs) /\ i - 1 < k - 1
      BY <1>1, <1>4, <1>7, <2>3
    <3> QED
      BY <1>3, <1>7, <2>1, <3>1
  <2> QED
    BY <2>2, <2>3
<1> QED
  BY <1>1, <1>6, <1>7 DEF Truthful, new

(* An error in front of a history that has not seen an email.               *)
LEMMA ErrorInFront ==
  ASSUME NEW runs \in Seq(Runs), NEW n \in Nat, n > 0, Below(runs, n)
  PROVE  Below(<<0>> \o runs, n)
  BY SMT DEF Below

(* What is left of a history after pruning.                                 *)
LEMMA RunsCut ==
  ASSUME NEW runs \in Seq(Runs), NEW n \in Nat, NEW k \in 0..Len(runs)
  PROVE  /\ Truthful(runs, n) => Truthful(SubSeq(runs, 1, k), n)
         /\ Below(runs, n) => Below(SubSeq(runs, 1, k), n)
<1> DEFINE cut == SubSeq(runs, 1, k)
<1>1. /\ DOMAIN cut = 1..k
      /\ \A i \in 1..k : cut[i] = runs[i]
      /\ 1..k \subseteq DOMAIN runs
  BY SMT
<1> HIDE DEF cut
<1> QED
  BY <1>1 DEF Truthful, Below, cut

(* What each of the writes makes of the history of each job.                *)
LEMMA EditedRuns ==
  ASSUME TypeOK, Coherent, NEW t \in Threads, Writing(t), NEW T \in Edited(t),
         NEW j \in Jobs, T[j] # NoJob
  PROVE  \/ T[j].runs = <<>>
         \/ /\ thr[t].snap[j] # NoJob
            /\ LET runs == thr[t].snap[j].runs
               IN \/ T[j].runs = runs
                  \/ \E k \in 0..Len(runs) : T[j].runs = SubSeq(runs, 1, k)
                  \/ T[j].runs = <<0>> \o runs
                  \/ /\ thr[t].op = "append"
                     /\ thr[t].job = j
                     /\ T[j].runs = <<thr[t].mail>> \o runs
<1> DEFINE r == thr[t]
           jobs == r.snap
<1>1. /\ r \in Thread /\ jobs \in Table
      /\ r.job \in Jobs
      /\ r.op \in Crud \cup History
  BY DEF TypeOK, Coherent, RecordOK, Writing, At, Thread
<1>2. jobs \in [Jobs -> Job \cup {NoJob}]
  BY <1>1 DEF Table
<1>3. CASE j # r.job
  <2>1. T[j] = jobs[j]
    BY <1>1, <1>2, <1>3 DEF Edited, WithRun, Crud, History
  <2> QED
    BY <2>1
<1>4. CASE j = r.job
  <2>1. CASE r.op = "create"
    <3>1. T = [jobs EXCEPT ![j] = [enabled |-> r.enabled, time |-> r.time,
                                   runs |-> <<>>]]
      BY <1>4, <2>1 DEF Edited, WithRun, History
    <3> QED
      BY <1>2, <3>1
  <2>2. CASE r.op = "update"
    <3>1. T = [jobs EXCEPT ![j] = Rewritten(jobs[j], r)]
      BY <1>4, <2>2 DEF Edited, WithRun, History
    <3>2. jobs[j] # NoJob
      BY <1>4, <2>2 DEF Coherent, RecordOK, Writing, At
    <3> QED
      BY <1>2, <3>1, <3>2 DEF Rewritten
  <2>3. CASE r.op = "delete"
    <3>1. T = [jobs EXCEPT ![j] = NoJob]
      BY <1>4, <2>3 DEF Edited, WithRun, History
    <3> QED
      BY <1>2, <3>1
  <2>4. CASE r.op \in History /\ jobs[j] = NoJob
    BY <1>4, <2>4 DEF Edited, WithRun, History
  <2>5. CASE r.op = "append" /\ jobs[j] # NoJob
    <3>1. T = [jobs EXCEPT ![j].runs = <<r.mail>> \o @]
      BY <1>4, <2>5 DEF Edited, WithRun, History
    <3>2. T[j].runs = <<r.mail>> \o jobs[j].runs
      BY <1>2, <2>5, <3>1 DEF Job
    <3> QED
      BY <1>4, <2>5, <3>2
  <2>6. CASE r.op = "error" /\ jobs[j] # NoJob
    <3>1. T = [jobs EXCEPT ![j].runs = <<0>> \o @]
      BY <1>4, <2>6 DEF Edited, WithRun, History
    <3> QED
      BY <1>2, <2>6, <3>1 DEF Job
  <2>7. CASE r.op = "prune" /\ jobs[j] # NoJob
    <3>1. T \in {[jobs EXCEPT ![j].runs = SubSeq(@, 1, k)] :
                    k \in Retained(jobs[j].runs, r.mail)}
      BY <1>4, <2>7 DEF Edited, WithRun, History
    <3>2. PICK k \in Retained(jobs[j].runs, r.mail) :
             T = [jobs EXCEPT ![j].runs = SubSeq(@, 1, k)]
      BY <3>1
    <3>3. k \in 0..Len(jobs[j].runs)
      BY DEF Retained
    <3>4. T[j].runs = SubSeq(jobs[j].runs, 1, k)
      BY <1>2, <2>7, <3>2 DEF Job
    <3> QED
      BY <2>7, <3>3, <3>4
  <2> QED
    BY <1>1, <2>1, <2>2, <2>3, <2>4, <2>5, <2>6, <2>7 DEF Crud, History
<1> QED
  BY <1>3, <1>4

(* Nobody else is about to record an email of a job that a thread executes. *)
LEMMA OneAppend ==
  ASSUME Coherent, ExecutionInv, NEW t \in Threads, NEW u \in Threads,
         Owns(thr[t]), thr[u].op = "append", thr[t].job = thr[u].job
  PROVE  t = u
  BY DEF ExecutionInv, LockFileHeld, Owns, History

(* What a thread may write holds no false history, and none of the emails   *)
(* that others are about to record.                                         *)
LEMMA EditedTrue ==
  ASSUME TypeOK, Coherent, ExecutionInv, HistoryInv, NEW t \in Threads,
         Writing(t), NEW T \in Edited(t)
  PROVE  /\ TrueTable(T)
         /\ \A u \in Threads \ {t} : thr[u].op = "append" => Unseen(thr[u], T)
<1> DEFINE r == thr[t]
           jobs == r.snap
<1>1. jobs \in Copies
  BY DEF Copies
<1>2. /\ r \in Thread
      /\ r.op = "append" => r.mail \in Runs /\ r.mail = sent[r.job] /\ Owns(r)
  BY DEF TypeOK, Thread, HistoryInv, Owns, History
<1>3. ASSUME NEW j \in Jobs, T[j] # NoJob
      PROVE  Truthful(T[j].runs, sent[j])
  <2>1. sent[j] \in Nat
    BY DEF TypeOK
  <2>2. CASE T[j].runs = <<>>
    BY <2>2, NoRuns
  <2>3. CASE jobs[j] # NoJob
    <3> DEFINE runs == jobs[j].runs
    <3>1. runs \in Seq(Runs) /\ Truthful(runs, sent[j])
      BY <1>1, <2>3, CopiesType DEF HistoryInv, TrueTable
    <3> HIDE DEF runs
    <3>2. CASE T[j].runs = runs
      BY <3>1, <3>2
    <3>3. CASE \E k \in 0..Len(runs) : T[j].runs = SubSeq(runs, 1, k)
      BY <2>1, <3>1, <3>3, RunsCut
    <3>4. CASE T[j].runs = <<0>> \o runs
      <4>1. 0 \in Runs /\ 0 <= sent[j]
        BY <2>1, RunsAssumption
      <4> QED
        BY <2>1, <3>1, <3>4, <4>1, RunInFront
    <3>5. CASE r.op = "append" /\ r.job = j /\ T[j].runs = <<r.mail>> \o runs
      <4>1. r.mail \in Runs /\ r.mail <= sent[j] /\ Below(runs, r.mail)
        BY <1>1, <1>2, <2>1, <2>3, <3>5 DEF HistoryInv, Unseen, runs
      <4> QED
        BY <2>1, <3>1, <3>5, <4>1, RunInFront
    <3> QED
      BY <1>3, <2>2, <3>2, <3>3, <3>4, <3>5, EditedRuns DEF runs
  <2> QED
    BY <1>3, <2>2, <2>3, EditedRuns
<1>4. ASSUME NEW u \in Threads \ {t}, thr[u].op = "append"
      PROVE  Unseen(thr[u], T)
  <2> DEFINE j == thr[u].job
             m == thr[u].mail
  <2>1. j \in Jobs /\ m \in Nat /\ m > 0 /\ Unseen(thr[u], jobs)
    <3>1. thr[u] \in Thread /\ thr[u].pc # "idle"
      BY <1>4 DEF TypeOK, Coherent, RecordOK
    <3> QED
      BY <1>1, <1>4, <3>1, RunsAssumption DEF HistoryInv, Thread, Coherent, RecordOK
  <2>2. ~(r.op = "append" /\ r.job = j)
    BY <1>2, <1>4, OneAppend
  <2> SUFFICES ASSUME T[j] # NoJob PROVE Below(T[j].runs, m)
    BY DEF Unseen
  <2>5. T[j].runs = <<>> \/ jobs[j] # NoJob
    <3> HIDE DEF j
    <3> QED
      BY <2>1, EditedRuns
  <2>3. CASE T[j].runs = <<>>
    BY <2>3, NoRuns
  <2>4. CASE jobs[j] # NoJob
    <3> DEFINE runs == jobs[j].runs
    <3>1. runs \in Seq(Runs) /\ Below(runs, m)
      BY <1>1, <2>1, <2>4, CopiesType DEF Unseen
    <3> HIDE DEF runs
    <3>2. CASE T[j].runs = runs
      BY <3>1, <3>2
    <3>3. CASE \E k \in 0..Len(runs) : T[j].runs = SubSeq(runs, 1, k)
      BY <2>1, <3>1, <3>3, RunsCut
    <3>4. CASE T[j].runs = <<0>> \o runs
      BY <2>1, <3>1, <3>4, ErrorInFront
    <3>5. \/ T[j].runs = <<>>
          \/ T[j].runs = runs
          \/ \E k \in 0..Len(runs) : T[j].runs = SubSeq(runs, 1, k)
          \/ T[j].runs = <<0>> \o runs
      BY ZenonT(40), <2>1, <2>2, EditedRuns DEF runs
    <3> QED
      BY <2>3, <3>2, <3>3, <3>4, <3>5
  <2> QED
    BY <2>3, <2>4, <2>5
<1> QED
  BY <1>3, <1>4 DEF TrueTable

(* A step that makes no new copy, sends nothing and begins to record        *)
(* nothing keeps the histories true.                                        *)
LEMMA QuietCopies ==
  ASSUME TypeOK, Coherent, HistoryInv, sent' = sent,
         Copies' \subseteq Copies \cup {EmptyTable},
         \A u \in Threads : thr'[u].op = "append" =>
             /\ thr[u].op = "append"
             /\ thr'[u].job = thr[u].job
             /\ thr'[u].mail = thr[u].mail
  PROVE  HistoryInv'
<1>1. ASSUME NEW T \in Copies' PROVE TrueTable(T)'
  <2>1. TrueTable(T)
    BY NoJobs DEF HistoryInv
  <2> QED
    BY <2>1 DEF TrueTable
<1>2. ASSUME NEW u \in Threads, thr'[u].op = "append"
      PROVE  /\ thr'[u].mail = sent'[thr'[u].job]
             /\ thr'[u].mail > 0
             /\ \A T \in Copies' : Unseen(thr'[u], T)
  <2>1. /\ thr[u].op = "append"
        /\ thr'[u].job = thr[u].job
        /\ thr'[u].mail = thr[u].mail
    BY <1>2
  <2>2. thr[u].job \in Jobs
    BY <2>1 DEF Coherent, RecordOK
  <2>3. \A T \in Copies \cup {EmptyTable} : Unseen(thr[u], T)
    BY <2>1, <2>2, NoJobs DEF HistoryInv
  <2>4. \A T \in Copies' : Unseen(thr'[u], T)
    BY <2>1, <2>3 DEF Unseen
  <2> QED
    BY <2>1, <2>4 DEF HistoryInv
<1> QED
  BY <1>1, <1>2 DEF HistoryInv

(* A step of one thread that leaves the file alone.                         *)
LEMMA QuietThread ==
  ASSUME TypeOK, Coherent, HistoryInv, NEW t \in Threads, NEW r,
         thr' = [thr EXCEPT ![t] = r], table' = table, sent' = sent,
         r.snap \in Copies \cup {EmptyTable},
         r.op = "append" => /\ thr[t].op = "append"
                            /\ r.job = thr[t].job
                            /\ r.mail = thr[t].mail
  PROVE  HistoryInv'
<1>1. thr'[t] = r /\ \A u \in Threads \ {t} : thr'[u] = thr[u]
  BY DEF TypeOK
<1>2. Copies' \subseteq Copies \cup {EmptyTable}
  BY <1>1 DEF Copies
<1> QED
  BY <1>1, <1>2, QuietCopies

(* The same for a thread that only moves on, or ends.                       *)
LEMMA QuietMove ==
  ASSUME TypeOK, Coherent, HistoryInv, NEW t \in Threads,
         Finish(t) \/ (\E pc : Goto(t, pc)), table' = table, sent' = sent
  PROVE  HistoryInv'
<1>1. CASE Finish(t)
  <2>1. Idle.snap = EmptyTable /\ Idle.op = "none"
    BY DEF Idle
  <2> QED
    BY <1>1, <2>1, QuietThread DEF Finish
<1>2. ASSUME NEW pc, Goto(t, pc)
      PROVE  HistoryInv'
  <2> DEFINE r == [thr[t] EXCEPT !.pc = pc]
  <2>1. thr' = [thr EXCEPT ![t] = r]
    BY <1>2 DEF Goto
  <2>2. r.snap = thr[t].snap /\ r.op = thr[t].op /\ r.job = thr[t].job
        /\ r.mail = thr[t].mail
    BY DEF TypeOK, Thread
  <2>3. thr[t].snap \in Copies
    BY DEF Copies
  <2> HIDE DEF r
  <2> QED
    BY <2>1, <2>2, <2>3, QuietThread
<1> QED
  BY <1>1, <1>2

(* What a thread loads is a copy of the file, or nothing.                   *)
LEMMA EnterHistory ==
  ASSUME TypeOK, Coherent, HistoryInv, NEW t \in Threads, Enter(t)
  PROVE  HistoryInv'
<1> DEFINE r == [thr[t] EXCEPT !.pc = "save", !.snap = Load]
<1>1. thr' = [thr EXCEPT ![t] = r] /\ table' = table /\ sent' = sent
  BY DEF Enter, file, ledger
<1>2. r.snap = Load /\ r.op = thr[t].op /\ r.job = thr[t].job
      /\ r.mail = thr[t].mail
  BY DEF TypeOK, Thread
<1>3. Load \in Copies \cup {EmptyTable}
  BY DEF Load, Copies
<1> HIDE DEF r
<1> QED
  BY <1>1, <1>2, <1>3, QuietThread

(* An execution that sends its email begins to record the newest one.       *)
LEMMA SendHistory ==
  ASSUME TypeOK, Coherent, ExecutionInv, HistoryInv, NEW t \in Threads,
         SendEmail(t)
  PROVE  HistoryInv'
<1> DEFINE j == thr[t].job
           m == sent[j] + 1
           r == [thr[t] EXCEPT !.pc = "enter", !.op = "append", !.mail = m]
<1>1. /\ j \in Jobs /\ Owns(thr[t])
      /\ sent \in [Jobs -> Nat]
  BY DEF TypeOK, Coherent, RecordOK, SendEmail, At, Owns
<1>2. /\ thr' = [thr EXCEPT ![t] = r]
      /\ sent' = [sent EXCEPT ![j] = m]
      /\ table' = table
  BY DEF SendEmail, file
<1>3. r.snap = thr[t].snap /\ r.op = "append" /\ r.job = j /\ r.mail = m
  BY DEF TypeOK, Thread
<1> HIDE DEF r
<1>4. thr'[t] = r /\ \A u \in Threads \ {t} : thr'[u] = thr[u]
  BY <1>2 DEF TypeOK
<1>5. Copies' \subseteq Copies
  BY <1>2, <1>3, <1>4 DEF Copies
<1>6. \A i \in Jobs : sent[i] \in Nat /\ sent'[i] \in Nat /\ sent[i] <= sent'[i]
  BY <1>1, <1>2
<1>7. ASSUME NEW T \in Copies', NEW i \in Jobs, T[i] # NoJob
      PROVE  Truthful(T[i].runs, sent'[i])
  <2> DEFINE runs == T[i].runs
  <2>1. runs \in Seq(Runs) /\ Truthful(runs, sent[i])
    BY <1>5, <1>7, CopiesType DEF HistoryInv, TrueTable
  <2> HIDE DEF runs
  <2>2. \A k \in DOMAIN runs : runs[k] \in Nat
    BY <2>1, RunsAreNumbers
  <2>3. \A k \in DOMAIN runs : runs[k] <= sent'[i]
    BY <1>6, <2>1, <2>2 DEF Truthful
  <2>4. Truthful(runs, sent'[i])
    BY <2>1, <2>3 DEF Truthful
  <2> QED
    BY <2>4 DEF runs
<1>8. ASSUME NEW T \in Copies PROVE Unseen(r, T)
  <2> SUFFICES ASSUME T[j] # NoJob PROVE Below(T[j].runs, m)
    BY <1>3 DEF Unseen
  <2> DEFINE runs == T[j].runs
  <2>1. runs \in Seq(Runs) /\ Truthful(runs, sent[j])
    BY <1>1, CopiesType DEF HistoryInv, TrueTable
  <2> HIDE DEF runs
  <2>2. \A k \in DOMAIN runs : runs[k] \in Nat
    BY <2>1, RunsAreNumbers
  <2>3. Below(runs, m)
    BY <1>1, <2>1, <2>2 DEF Truthful, Below
  <2> QED
    BY <2>3 DEF runs
<1>9. ASSUME NEW u \in Threads, thr'[u].op = "append"
      PROVE  /\ thr'[u].mail = sent'[thr'[u].job]
             /\ thr'[u].mail > 0
             /\ \A T \in Copies' : Unseen(thr'[u], T)
  <2>1. CASE u = t
    <3>1. m > 0 /\ sent'[j] = m
      BY <1>1, <1>2
    <3> HIDE DEF m
    <3> QED
      BY <1>3, <1>4, <1>5, <1>8, <2>1, <3>1
  <2>2. CASE u # t
    <3>1. thr'[u] = thr[u] /\ thr[u].job # j /\ thr[u].job \in Jobs
      BY <1>1, <1>4, <1>9, <2>2, OneAppend DEF Coherent, RecordOK
    <3>2. sent'[thr[u].job] = sent[thr[u].job]
      BY <1>1, <1>2, <3>1
    <3> QED
      BY <1>5, <1>9, <3>1, <3>2 DEF HistoryInv
  <2> QED
    BY <2>1, <2>2
<1> QED
  BY <1>7, <1>9 DEF HistoryInv, TrueTable

(* The record of a thread after a write: no loaded table, and nothing to    *)
(* record that the write has not recorded.                                  *)
LEMMA AfterWriteAppends ==
  ASSUME TypeOK, Coherent, NEW t \in Threads, Writing(t),
         NEW next \in {AfterSave(t), AfterFailure(t)}
  PROVE  LET r == [next EXCEPT !.snap = EmptyTable]
         IN  r.snap = EmptyTable /\ r.op # "append"
<1> DEFINE r == thr[t]
           q == [next EXCEPT !.snap = EmptyTable]
<1>1. r \in Thread
  BY DEF TypeOK
<1>2. \/ next = Idle
      \/ /\ r.op \in Crud
         /\ \/ next = [r EXCEPT !.pc = "register"]
            \/ next = [r EXCEPT !.pc = "unregister"]
      \/ next = [r EXCEPT !.pc = "enter", !.op = "prune"]
      \/ next = [r EXCEPT !.pc = "enter", !.op = "error"]
      \/ next = [r EXCEPT !.pc = "discard", !.op = "none"]
  BY AfterWriteShape
<1>3. CASE next = Idle
  BY <1>3 DEF Idle
<1>4. ASSUME r.op \in Crud, NEW pc, next = [r EXCEPT !.pc = pc]
      PROVE  q.snap = EmptyTable /\ q.op # "append"
  <2>1. q = [r EXCEPT !.pc = pc, !.snap = EmptyTable]
    BY <1>4
  <2>2. q.snap = EmptyTable /\ q.op = r.op
    BY <1>1, <2>1 DEF Thread
  <2> QED
    BY <1>4, <2>2 DEF Crud
<1>5. ASSUME NEW pc, NEW op \in {"prune", "error", "none"},
             next = [r EXCEPT !.pc = pc, !.op = op]
      PROVE  q.snap = EmptyTable /\ q.op # "append"
  <2>1. q = [r EXCEPT !.pc = pc, !.op = op, !.snap = EmptyTable]
    BY <1>5
  <2>2. q.snap = EmptyTable /\ q.op = op
    BY <1>1, <2>1 DEF Thread
  <2> QED
    BY <2>2
<1> QED
  BY <1>2, <1>3, <1>4, <1>5

(* A write puts the thread's own change in the file, a failed one nothing.  *)
LEMMA WriteHistory ==
  ASSUME TypeOK, Coherent, ExecutionInv, HistoryInv, NEW t \in Threads,
         Save(t) \/ SaveFails(t)
  PROVE  HistoryInv'
<1>1. Writing(t) /\ sent' = sent
  BY DEF Save, SaveFails, ledger
<1>2. PICK next \in {AfterSave(t), AfterFailure(t)} : Leave(t, next)
  BY DEF Save, SaveFails
<1> DEFINE r == [next EXCEPT !.snap = EmptyTable]
<1>3. thr' = [thr EXCEPT ![t] = r] /\ r.snap = EmptyTable /\ r.op # "append"
  BY <1>1, <1>2, AfterWriteAppends DEF Leave
<1> HIDE DEF r
<1>4. CASE SaveFails(t)
  BY <1>1, <1>3, <1>4, QuietThread DEF SaveFails
<1>5. CASE Save(t)
  <2>1. table' \in Edited(t)
    BY <1>5 DEF Save
  <2>2. thr'[t] = r /\ \A u \in Threads \ {t} : thr'[u] = thr[u]
    BY <1>3 DEF TypeOK
  <2>3. Copies' \subseteq Copies \cup {EmptyTable, table'}
    BY <1>3, <2>2 DEF Copies
  <2>4. /\ TrueTable(table')
        /\ \A u \in Threads \ {t} : thr[u].op = "append" => Unseen(thr[u], table')
    BY <1>1, <2>1, EditedTrue
  <2>5. ASSUME NEW T \in Copies' PROVE TrueTable(T)'
    <3>1. TrueTable(T)
      BY <2>3, <2>4, NoJobs DEF HistoryInv
    <3> QED
      BY <1>1, <3>1 DEF TrueTable
  <2>6. ASSUME NEW u \in Threads, thr'[u].op = "append"
        PROVE  /\ thr'[u].mail = sent'[thr'[u].job]
               /\ thr'[u].mail > 0
               /\ \A T \in Copies' : Unseen(thr'[u], T)
    <3>1. u # t /\ thr'[u] = thr[u] /\ thr[u].op = "append"
      BY <1>3, <2>2, <2>6
    <3>2. thr[u].job \in Jobs
      BY <3>1 DEF Coherent, RecordOK
    <3>3. \A T \in Copies \cup {EmptyTable, table'} : Unseen(thr[u], T)
      BY <2>4, <3>1, <3>2, NoJobs DEF HistoryInv
    <3> QED
      BY <1>1, <2>3, <3>1, <3>3 DEF HistoryInv
  <2> QED
    BY <2>5, <2>6 DEF HistoryInv
<1> QED
  BY <1>4, <1>5

(* No other step of a thread touches a history.                             *)
LEMMA StepHistory ==
  ASSUME TypeOK, Coherent, ExecutionInv, HistoryInv, NEW t \in Threads,
         Step(t) \/ SaveFails(t) \/ SkipUnlockable(t)
  PROVE  HistoryInv'
<1>1. CASE \/ RejectUpdate(t) \/ SaveBegin(t) \/ Unregister(t) \/ Register(t)
           \/ AcquireJobLock(t) \/ SkipBusyJob(t) \/ SkipUnlockable(t)
           \/ LoadJob(t) \/ Fetch(t) \/ DiscardRunning(t) \/ ReleaseJobLock(t)
  <2>1. table' = table /\ sent' = sent
    BY <1>1 DEF RejectUpdate, SaveBegin, Unregister, Register, AcquireJobLock,
                SkipBusyJob, SkipUnlockable, LoadJob, Fetch, DiscardRunning,
                ReleaseJobLock, file, ledger
  <2>2. Finish(t) \/ \E pc : Goto(t, pc)
    BY <1>1 DEF RejectUpdate, SaveBegin, Unregister, Register, AcquireJobLock,
                SkipBusyJob, SkipUnlockable, LoadJob, Fetch, DiscardRunning,
                ReleaseJobLock
  <2> QED
    BY <2>1, <2>2, QuietMove
<1>2. CASE Enter(t)
  BY <1>2, EnterHistory
<1>3. CASE SendEmail(t)
  BY <1>3, SendHistory
<1>4. CASE Save(t) \/ SaveFails(t)
  BY <1>4, WriteHistory
<1>5. CASE RunFails(t)
  <2> DEFINE r == [thr[t] EXCEPT !.pc = "enter", !.op = "error"]
  <2>1. thr' = [thr EXCEPT ![t] = r] /\ table' = table /\ sent' = sent
    BY <1>5 DEF RunFails, file, ledger
  <2>2. r.snap = thr[t].snap /\ r.op = "error"
    BY DEF TypeOK, Thread
  <2>3. thr[t].snap \in Copies
    BY DEF Copies
  <2> HIDE DEF r
  <2> QED
    BY <2>1, <2>2, <2>3, QuietThread
<1> QED
  BY <1>1, <1>2, <1>3, <1>4, <1>5 DEF Step

(* Neither do the admin routes and APScheduler, nor the life of a worker.   *)
LEMMA OtherHistory ==
  ASSUME TypeOK, Coherent, HistoryInv,
         \/ \E t \in Threads : Admin(t)
         \/ Cron
         \/ \E w \in Workers : Boot(w) \/ Crash(w)
  PROVE  HistoryInv'
<1>1. ASSUME NEW t \in Threads, NEW r, thr' = [thr EXCEPT ![t] = r],
             table' = table, sent' = sent, r.snap = EmptyTable, r.op # "append"
      PROVE  HistoryInv'
  BY <1>1, QuietThread
<1>2. ASSUME NEW op \in Crud, NEW j, NEW enabled, NEW time
      PROVE  LET r == Request(op, j, enabled, time)
             IN  r.snap = EmptyTable /\ r.op # "append"
  BY <1>2 DEF Request, Idle, Crud
<1>3. ASSUME NEW j, NEW cron
      PROVE  LET r == Execution(j, cron)
             IN  r.snap = EmptyTable /\ r.op # "append"
  BY DEF Execution, Idle
<1>4. ASSUME NEW t \in Threads, Admin(t)
      PROVE  HistoryInv'
  <2>1. table' = table /\ sent' = sent
    BY <1>4 DEF Admin, CreateJob, UpdateJob, DeleteJob, RunJobNow, file, ledger
  <2>2. \/ \E op \in Crud : \E j, enabled, time :
              thr' = [thr EXCEPT ![t] = Request(op, j, enabled, time)]
        \/ \E j : thr' = [thr EXCEPT ![t] = Execution(j, FALSE)]
    BY <1>4 DEF Admin, CreateJob, UpdateJob, DeleteJob, RunJobNow, Receive, Crud
  <2>3. ASSUME NEW op \in Crud, NEW j, NEW enabled, NEW time,
               thr' = [thr EXCEPT ![t] = Request(op, j, enabled, time)]
        PROVE  HistoryInv'
    BY <1>1, <1>2, <2>1, <2>3
  <2>4. ASSUME NEW j, thr' = [thr EXCEPT ![t] = Execution(j, FALSE)]
        PROVE  HistoryInv'
    BY <1>1, <1>3, <2>1, <2>4
  <2> QED
    BY <2>2, <2>3, <2>4
<1>5. CASE UNCHANGED <<table, thr, sent>>
  BY <1>5, QuietCopies DEF Copies
<1>6. CASE Cron
  <2>1. ASSUME NEW s \in Times, Tick(s)
        PROVE  HistoryInv'
    BY <1>5, <2>1 DEF Tick, file
  <2>2. ASSUME NEW w \in Workers, NEW j \in Jobs, Misfire(w, j)
        PROVE  HistoryInv'
    BY <1>5, <2>2 DEF Misfire, file, ledger
  <2>3. ASSUME NEW t \in Threads, NEW j \in Jobs, Fire(t, j)
        PROVE  HistoryInv'
    <3>1. /\ thr' = [thr EXCEPT ![t] = Execution(j, TRUE)]
          /\ table' = table
          /\ sent' = sent
      BY <2>3 DEF Fire, file, ledger
    <3> QED
      BY <1>1, <1>3, <3>1
  <2> QED
    BY <1>6, <2>1, <2>2, <2>3 DEF Cron
<1>7. ASSUME NEW w \in Workers, Boot(w)
      PROVE  HistoryInv'
  BY <1>5, <1>7 DEF Boot, file, ledger
<1>8. ASSUME NEW w \in Workers, Crash(w)
      PROVE  HistoryInv'
  <2>1. table' = table /\ sent' = sent
    BY <1>8 DEF Crash, file, ledger
  <2>2. \A u \in Threads : thr'[u] = IF Home[u] = w THEN Idle ELSE thr[u]
    BY <1>8 DEF Crash
  <2>3. Idle.snap = EmptyTable /\ Idle.op # "append"
    BY DEF Idle
  <2>4. \A u \in Threads : thr'[u] = thr[u] \/ thr'[u] = Idle
    BY <2>2
  <2>5. Copies' \subseteq Copies \cup {EmptyTable}
    BY <2>1, <2>3, <2>4 DEF Copies
  <2> QED
    BY <2>1, <2>3, <2>4, <2>5, QuietCopies
<1> QED
  BY <1>4, <1>6, <1>7, <1>8

(* HistoryInv is inductive, given that executions of a job exclude each     *)
(* other.                                                                   *)
LEMMA HistoryStep ==
  TypeOK /\ Coherent /\ ExecutionInv /\ HistoryInv /\ [Next]_vars => HistoryInv'
<1> SUFFICES ASSUME TypeOK, Coherent, ExecutionInv, HistoryInv, [Next]_vars
             PROVE  HistoryInv'
  OBVIOUS
<1>1. CASE UNCHANGED vars
  BY <1>1, QuietCopies DEF vars, Copies
<1>2. CASE \E t \in Threads : Step(t) \/ SaveFails(t) \/ SkipUnlockable(t)
  BY <1>2, StepHistory
<1>3. CASE \/ \E t \in Threads : Admin(t)
           \/ Cron
           \/ \E w \in Workers : Boot(w) \/ Crash(w)
  BY <1>3, OtherHistory
<1> QED
  BY <1>1, <1>2, <1>3 DEF Next, Fault

(* It holds of the empty file.                                              *)
LEMMA HistoryInit == Init => HistoryInv
<1> SUFFICES ASSUME Init PROVE HistoryInv
  OBVIOUS
<1>1. Idle.snap = EmptyTable /\ Idle.op # "append"
  BY DEF Idle
<1>2. Copies \subseteq {EmptyTable} /\ \A t \in Threads : thr[t].op # "append"
  BY <1>1 DEF Init, Copies
<1> QED
  BY <1>2, NoJobs DEF HistoryInv

(* The runs of a job that report success name emails that were delivered,   *)
(* each of them once and the newest first: with any number of workers that  *)
(* write back what others have overwritten, in place or by rename, with     *)
(* executions and requests cut off anywhere.                                *)
THEOREM HistoryIsTrueCorrect == Spec => []HistoryIsTrue
<1>1. HistoryInv => HistoryIsTrue
  BY DEF HistoryInv, Copies, TrueTable, Truthful, HistoryIsTrue
<1> QED
  BY <1>1, HistoryInit, HistoryStep, TypeCorrect, ExecutionCorrect, PTL DEF Spec
=============================================================================
