------------------------ MODULE JobRefinement_proofs ------------------------
(***************************************************************************)
(* _lock is a lock in every process, and one process whose file is renamed *)
(* into place implements JobStore and loses no delivery from its history;  *)
(* one process sends an email at most for each trigger.  Proved for any    *)
(* number of threads, jobs, requests, crashes and failing writes.          *)
(***************************************************************************)
EXTENDS JobScheduler_proofs, FiniteSetTheorems

InSave(r) == r.pc \in {"save", "saving"}

(* Between the load and the end of the write a thread holds its process's   *)
(* _lock.                                                                   *)
LockHeld == \A t \in Threads : InSave(thr[t]) => lock[Home[t]] = t

(* No two threads of a process are there together.                          *)
OneWriterPerProcess ==
    \A t, u \in Threads :
        InSave(thr[t]) /\ InSave(thr[u]) /\ Home[t] = Home[u] => t = u

(* A create request whose job is not in the file yet (Pending). *)
Creating(r) == r.op = "create" /\ r.pc \in {"enter", "save", "saving"}

FreshIds ==
    /\ \A t \in Threads : Creating(thr[t]) => thr[t].job \in issued
    /\ \A t, u \in Threads :
          Creating(thr[t]) /\ Creating(thr[u]) /\ thr[t].job = thr[u].job => t = u

(* What one process adds: what a thread has loaded is still what the file   *)
(* holds when the thread writes it back.                                    *)
SnapshotCurrent ==
    /\ torn = FALSE
    /\ \A t \in Threads : InSave(thr[t]) => thr[t].snap = table

StoreInv == LockHeld /\ FreshIds /\ SnapshotCurrent

OneProcess == ~InPlace /\ \A v, w \in Workers : v = w

-----------------------------------------------------------------------------
(* _lock *)

(* After a write, successful or not, a thread is out of the read-modify-    *)
(* write, and a create request is no longer pending.                        *)
LEMMA AfterWriteLeaves ==
  ASSUME TypeOK, Coherent, NEW t \in Threads, Writing(t),
         NEW next \in {AfterSave(t), AfterFailure(t)}
  PROVE  LET q == [next EXCEPT !.snap = EmptyTable]
         IN  ~InSave(q) /\ ~Creating(q)
<1> DEFINE q == [next EXCEPT !.snap = EmptyTable]
<1>1. thr[t] \in Thread
  BY DEF TypeOK
<1>2. CASE next = Idle
  BY <1>2 DEF Idle, InSave, Creating
<1>3. CASE \/ next = [thr[t] EXCEPT !.pc = "register"]
           \/ next = [thr[t] EXCEPT !.pc = "unregister"]
  <2>1. q.pc \in {"register", "unregister"}
    BY <1>1, <1>3 DEF Thread
  <2> QED
    BY <2>1 DEF InSave, Creating
<1>4. CASE \/ next = [thr[t] EXCEPT !.pc = "enter", !.op = "prune"]
           \/ next = [thr[t] EXCEPT !.pc = "enter", !.op = "error"]
           \/ next = [thr[t] EXCEPT !.pc = "discard", !.op = "none"]
  <2>1. q.pc \in {"enter", "discard"} /\ q.op \in {"prune", "error", "none"}
    BY <1>1, <1>4 DEF Thread
  <2> QED
    BY <2>1 DEF InSave, Creating
<1> QED
  BY AfterWriteShape, <1>2, <1>3, <1>4

(* LockHeld is inductive, given the types: every way into the read-modify-  *)
(* write takes _lock, and every way out gives it back.                      *)
LEMMA LockStep ==
  TypeOK /\ Coherent /\ LockHeld /\ [Next]_vars => LockHeld'
<1> SUFFICES ASSUME TypeOK, Coherent, LockHeld, [Next]_vars
             PROVE  LockHeld'
  OBVIOUS
<1>0. ASSUME NEW t \in Threads, NEW r, thr' = [thr EXCEPT ![t] = r],
             ~InSave(r), UNCHANGED lock
      PROVE  LockHeld'
  BY <1>0 DEF LockHeld, TypeOK
<1>1. ASSUME UNCHANGED <<thr, lock>> PROVE LockHeld'
  BY <1>1 DEF LockHeld
<1>2. ~InSave(Idle)
  BY DEF InSave, Idle
<1>3. ASSUME NEW t \in Threads, Finish(t), UNCHANGED lock PROVE LockHeld'
  BY <1>0, <1>2, <1>3 DEF Finish
<1>4. ASSUME NEW t \in Threads, NEW pc \in PCs \ {"save", "saving"},
             Goto(t, pc), UNCHANGED lock
      PROVE  LockHeld'
  <2>1. ~InSave([thr[t] EXCEPT !.pc = pc])
    BY DEF InSave, TypeOK, Thread
  <2> QED
    BY <1>0, <1>4, <2>1 DEF Goto
<1>5. ASSUME NEW t \in Threads, Enter(t) PROVE LockHeld'
  <2>1. /\ lock[Home[t]] = None
        /\ lock' = [lock EXCEPT ![Home[t]] = t]
        /\ \A u \in Threads \ {t} : thr'[u] = thr[u]
    BY <1>5 DEF Enter, TypeOK
  <2> SUFFICES ASSUME NEW u \in Threads, InSave(thr'[u])
               PROVE  lock'[Home[u]] = u
    BY DEF LockHeld
  <2>2. CASE u = t
    BY <2>1, <2>2, HomeAssumption DEF TypeOK
  <2>3. CASE u # t
    BY <2>1, <2>3, HomeAssumption, NoneAssumption DEF LockHeld, TypeOK
  <2> QED
    BY <2>2, <2>3
<1>6. ASSUME NEW t \in Threads, Save(t) \/ SaveFails(t) PROVE LockHeld'
  <2>1. PICK r : thr' = [thr EXCEPT ![t] = r] /\ ~InSave(r)
    BY <1>6, AfterWriteLeaves DEF Save, SaveFails, Leave
  <2>2. InSave(thr[t]) /\ lock' = [lock EXCEPT ![Home[t]] = None]
    BY <1>6 DEF Save, SaveFails, Leave, Writing, At, InSave
  <2> SUFFICES ASSUME NEW u \in Threads, InSave(thr'[u])
               PROVE  lock'[Home[u]] = u
    BY DEF LockHeld
  <2>3. u # t /\ thr'[u] = thr[u]
    BY <2>1 DEF TypeOK
  <2>4. lock[Home[u]] = u /\ Home[u] # Home[t]
    BY <2>2, <2>3 DEF LockHeld
  <2> QED
    BY <2>2, <2>4, HomeAssumption DEF TypeOK
<1>7. ASSUME NEW t \in Threads, SaveBegin(t) PROVE LockHeld'
  BY <1>7 DEF SaveBegin, Goto, At, LockHeld, InSave, TypeOK
<1>8. ASSUME NEW t \in Threads, Step(t) PROVE LockHeld'
  <2>1. CASE RejectUpdate(t) \/ SkipBusyJob(t) \/ Register(t) \/ ReleaseJobLock(t)
    BY <1>3, <2>1 DEF RejectUpdate, SkipBusyJob, Register, ReleaseJobLock
  <2>2. CASE Unregister(t)
    BY <1>3, <1>4, <2>2 DEF Unregister, PCs
  <2>3. CASE AcquireJobLock(t) \/ LoadJob(t) \/ Fetch(t) \/ DiscardRunning(t)
    BY <1>4, <2>3 DEF AcquireJobLock, LoadJob, Fetch, DiscardRunning, PCs
  <2>4. CASE SendEmail(t)
    <3>1. [thr[t] EXCEPT !.pc = "enter", !.op = "append",
                         !.mail = sent[thr[t].job] + 1].pc = "enter"
      BY DEF TypeOK, Thread
    <3> QED
      BY <1>0, <2>4, <3>1 DEF SendEmail, InSave
  <2>5. CASE RunFails(t)
    <3>1. [thr[t] EXCEPT !.pc = "enter", !.op = "error"].pc = "enter"
      BY DEF TypeOK, Thread
    <3> QED
      BY <1>0, <2>5, <3>1 DEF RunFails, InSave
  <2> QED
    BY <1>5, <1>6, <1>7, <1>8, <2>1, <2>2, <2>3, <2>4, <2>5 DEF Step
<1>9. ASSUME NEW t \in Threads, Admin(t) PROVE LockHeld'
  <2>1. \A op, j, enabled, time, cron : /\ ~InSave(Request(op, j, enabled, time))
                                        /\ ~InSave(Execution(j, cron))
    BY DEF InSave, Request, Execution, Idle
  <2> QED
    BY <1>0, <1>9, <2>1 DEF Admin, CreateJob, UpdateJob, DeleteJob, RunJobNow,
                            Receive
<1>10. CASE Cron
  <2>1. \A j, cron : ~InSave(Execution(j, cron))
    BY DEF InSave, Execution, Idle
  <2> QED
    BY <1>0, <1>1, <1>10, <2>1 DEF Cron, Tick, Misfire, Fire
<1>11. ASSUME NEW w \in Workers, Boot(w) PROVE LockHeld'
  BY <1>1, <1>11 DEF Boot
<1>12. ASSUME NEW w \in Workers, Crash(w) PROVE LockHeld'
  <2>1. \A u \in Threads : InSave(thr'[u]) => Home[u] # w /\ thr'[u] = thr[u]
    BY <1>2, <1>12 DEF Crash
  <2> QED
    BY <1>12, <2>1, HomeAssumption DEF Crash, LockHeld, TypeOK
<1>13. CASE Fault
  BY <1>3, <1>6, <1>12, <1>13 DEF Fault, SkipUnlockable
<1>14. CASE UNCHANGED vars
  BY <1>1, <1>14 DEF vars
<1> QED
  BY <1>8, <1>9, <1>10, <1>11, <1>13, <1>14 DEF Next

(* In every process at most one thread at a time is between loading the job *)
(* file and having written it back, whatever the other processes do.        *)
THEOREM OneWriterPerProcessCorrect == Spec => []OneWriterPerProcess
<1>1. Init => LockHeld
  BY DEF Init, LockHeld, InSave, Idle
<1>2. LockHeld => OneWriterPerProcess
  BY DEF LockHeld, OneWriterPerProcess
<1> QED
  BY <1>1, <1>2, LockStep, TypeCorrect, PTL DEF Spec

-----------------------------------------------------------------------------
(* One process refines JobStore *)

StoreStep == StoreInv' /\ [Store!Next]_(Store!vars)

(* A step of a thread outside the write that begins and ends no create      *)
(* request.                                                                 *)
LEMMA KeepStore ==
  ASSUME TypeOK, StoreInv, NEW t \in Threads, NEW r,
         thr' = [thr EXCEPT ![t] = r], UNCHANGED <<table, torn, lock, issued>>,
         ~InSave(r), Creating(r) <=> Creating(thr[t]),
         Creating(r) => r.job = thr[t].job
  PROVE  StoreStep
<1>1. thr'[t] = r /\ \A u \in Threads \ {t} : thr'[u] = thr[u]
  BY DEF TypeOK
<1>2. \A u \in Threads : /\ Creating(thr'[u]) <=> Creating(thr[u])
                         /\ Creating(thr[u]) => thr'[u].job = thr[u].job
  BY <1>1
<1>3. Pending' = Pending
  BY <1>2 DEF Pending, Creating
<1>4. FreshIds'
  BY <1>2 DEF StoreInv, FreshIds
<1>5. LockHeld' /\ SnapshotCurrent'
  BY <1>1 DEF StoreInv, LockHeld, SnapshotCurrent
<1> QED
  BY <1>3, <1>4, <1>5 DEF StoreStep, StoreInv, Store!vars

(* A step that only moves a thread outside the read-modify-write.           *)
LEMMA GotoKeepsStore ==
  ASSUME TypeOK, StoreInv, NEW t \in Threads,
         NEW pc \in PCs \ {"enter", "save", "saving"}, Goto(t, pc),
         UNCHANGED <<table, torn, lock, issued>>, ~Creating(thr[t])
  PROVE  StoreStep
<1> DEFINE r == [thr[t] EXCEPT !.pc = pc]
<1>1. r.pc = pc /\ thr' = [thr EXCEPT ![t] = r]
  BY DEF TypeOK, Thread, Goto
<1>2. ~InSave(r) /\ ~Creating(r)
  BY <1>1 DEF InSave, Creating
<1> QED
  BY <1>1, <1>2, KeepStore

(* The end of a thread outside the read-modify-write.                       *)
LEMMA FinishKeepsStore ==
  ASSUME TypeOK, StoreInv, NEW t \in Threads, Finish(t),
         UNCHANGED <<table, torn, lock, issued>>, ~Creating(thr[t])
  PROVE  StoreStep
<1>1. ~InSave(Idle) /\ ~Creating(Idle)
  BY DEF InSave, Creating, Idle
<1> QED
  BY <1>1, KeepStore DEF Finish

(* A step of APScheduler or of a worker that leaves all of it alone.        *)
LEMMA StillStore ==
  ASSUME StoreInv, UNCHANGED <<table, torn, lock, issued, thr>>
  PROVE  StoreStep
  BY DEF StoreStep, StoreInv, LockHeld, FreshIds, SnapshotCurrent, Store!vars,
         Pending

(* An admin route hands out a fresh id at most; the table stays.            *)
LEMMA AdminStore ==
  ASSUME TypeOK, Coherent, StoreInv, NEW t \in Threads, Admin(t)
  PROVE  StoreStep
<1>1. ~Creating(thr[t]) /\ UNCHANGED <<table, torn, lock>>
  BY DEF Admin, CreateJob, UpdateJob, DeleteJob, RunJobNow, Receive, Free,
         Creating, file
<1>2. ASSUME NEW r, thr' = [thr EXCEPT ![t] = r], ~InSave(r), ~Creating(r),
             UNCHANGED issued
      PROVE  StoreStep
  BY <1>1, <1>2, KeepStore
<1>3. ASSUME NEW j \in Jobs, NEW enabled \in BOOLEAN, NEW time \in Times,
             CreateJob(t, j, enabled, time)
      PROVE  StoreStep
  <2> DEFINE r == Request("create", j, enabled, time)
  <2>1. /\ j \notin issued
        /\ issued' = issued \cup {j}
        /\ thr'[t] = r /\ \A u \in Threads \ {t} : thr'[u] = thr[u]
    BY <1>3 DEF CreateJob, Receive, TypeOK
  <2>2. r.job = j /\ Creating(r) /\ ~InSave(r)
    BY DEF Request, Idle, Creating, InSave
  <2>3. \A u \in Threads : Creating(thr[u]) => thr[u].job \in issued
    BY DEF StoreInv, FreshIds
  <2>4. Pending' = Pending \cup {j}
    BY <1>1, <2>1, <2>2 DEF Pending, Creating
  <2>5. (issued \ Pending)' = issued \ Pending
    BY <2>1, <2>4
  <2>6. FreshIds'
    BY <2>1, <2>2, <2>3 DEF StoreInv, FreshIds
  <2>7. LockHeld' /\ SnapshotCurrent'
    BY <1>1, <2>1, <2>2 DEF StoreInv, LockHeld, SnapshotCurrent
  <2> QED
    BY <1>1, <2>5, <2>6, <2>7 DEF StoreStep, StoreInv, Store!vars
<1>4. ASSUME NEW j \in Jobs, NEW op \in {"update", "delete"}, NEW enabled, NEW time
      PROVE  ~InSave(Request(op, j, enabled, time)) /\ ~Creating(Request(op, j, enabled, time))
  BY DEF Request, Idle, Creating, InSave
<1>5. ASSUME NEW j \in Jobs, NEW enabled \in BOOLEAN, NEW time \in Times,
             UpdateJob(t, j, enabled, time)
      PROVE  StoreStep
  BY <1>2, <1>4, <1>5 DEF UpdateJob, Receive
<1>6. ASSUME NEW j \in Jobs, DeleteJob(t, j) PROVE StoreStep
  BY <1>2, <1>4, <1>6 DEF DeleteJob, Receive
<1>7. ASSUME NEW j \in Jobs, RunJobNow(t, j) PROVE StoreStep
  <2>1. ~InSave(Execution(j, FALSE)) /\ ~Creating(Execution(j, FALSE))
    BY DEF Execution, Idle, Creating, InSave
  <2> QED
    BY <1>2, <1>7, <2>1 DEF RunJobNow
<1> QED
  BY <1>3, <1>5, <1>6, <1>7 DEF Admin

(* APScheduler's steps leave the table alone.                               *)
LEMMA CronStore ==
  ASSUME TypeOK, StoreInv, Cron
  PROVE  StoreStep
<1>1. ASSUME NEW s \in Times, Tick(s) PROVE StoreStep
  BY <1>1, StillStore DEF Tick, file
<1>2. ASSUME NEW w \in Workers, NEW j \in Jobs, Misfire(w, j) PROVE StoreStep
  BY <1>2, StillStore DEF Misfire, file
<1>3. ASSUME NEW t \in Threads, NEW j \in Jobs, Fire(t, j) PROVE StoreStep
  <2>1. ~InSave(Execution(j, TRUE)) /\ ~Creating(Execution(j, TRUE))
    BY DEF Execution, Idle, Creating, InSave
  <2>2. ~Creating(thr[t])
    BY <1>3 DEF Fire, Free, Creating
  <2> QED
    BY <1>3, <2>1, <2>2, KeepStore DEF Fire, file
<1> QED
  BY <1>1, <1>2, <1>3 DEF Cron

(* The loop back to the file: SendEmail and RunFails put a record in the    *)
(* place of the thread's that is about to write history.                    *)
LEMMA ExecutionStore ==
  ASSUME TypeOK, Coherent, StoreInv, NEW t \in Threads,
         \/ Unregister(t) \/ Register(t)
         \/ AcquireJobLock(t) \/ SkipBusyJob(t) \/ SkipUnlockable(t)
         \/ LoadJob(t) \/ Fetch(t) \/ SendEmail(t) \/ RunFails(t)
         \/ DiscardRunning(t) \/ ReleaseJobLock(t)
  PROVE  StoreStep
<1> DEFINE r == thr[t]
<1>1. r \in Thread
  BY DEF TypeOK
<1>2. ~Creating(r) /\ UNCHANGED <<table, torn, lock, issued>>
  BY DEF Unregister, Register, AcquireJobLock, SkipBusyJob, SkipUnlockable,
         LoadJob, Fetch, SendEmail, RunFails, DiscardRunning, ReleaseJobLock,
         At, Creating, file
<1>3. CASE \/ Register(t) \/ SkipBusyJob(t) \/ SkipUnlockable(t)
           \/ ReleaseJobLock(t)
  BY <1>2, <1>3, FinishKeepsStore
     DEF Register, SkipBusyJob, SkipUnlockable, ReleaseJobLock
<1>4. CASE Unregister(t)
  BY <1>2, <1>4, FinishKeepsStore, GotoKeepsStore DEF Unregister, PCs
<1>5. CASE AcquireJobLock(t) \/ LoadJob(t) \/ Fetch(t) \/ DiscardRunning(t)
  BY <1>2, <1>5, GotoKeepsStore
     DEF AcquireJobLock, LoadJob, Fetch, DiscardRunning, PCs
<1>6. CASE SendEmail(t)
  <2> DEFINE q == [r EXCEPT !.pc = "enter", !.op = "append",
                            !.mail = sent[r.job] + 1]
  <2>1. ~InSave(q) /\ ~Creating(q)
    BY <1>1 DEF Thread, InSave, Creating
  <2> QED
    BY <1>2, <1>6, <2>1, KeepStore DEF SendEmail
<1>7. CASE RunFails(t)
  <2> DEFINE q == [r EXCEPT !.pc = "enter", !.op = "error"]
  <2>1. ~InSave(q) /\ ~Creating(q)
    BY <1>1 DEF Thread, InSave, Creating
  <2> QED
    BY <1>2, <1>7, <2>1, KeepStore DEF RunFails
<1> QED
  BY <1>3, <1>4, <1>5, <1>6, <1>7

(* A create request that ends, whatever becomes of it, is no longer pending *)
(* under its id, which no other request has.                                *)
LEMMA PendingEnds ==
  ASSUME TypeOK, FreshIds, NEW t \in Threads, NEW r,
         thr' = [thr EXCEPT ![t] = r], ~Creating(r)
  PROVE  /\ Pending' = IF Creating(thr[t]) THEN Pending \ {thr[t].job} ELSE Pending
         /\ Pending \subseteq issued
         /\ Creating(thr[t]) => thr[t].job \in Pending
<1>1. ~Creating(thr'[t]) /\ \A u \in Threads \ {t} : thr'[u] = thr[u]
  BY DEF TypeOK
<1>2. /\ Pending = {thr[u].job : u \in {v \in Threads : Creating(thr[v])}}
      /\ Pending' = {thr'[u].job : u \in {v \in Threads : Creating(thr'[v])}}
  BY DEF Pending, Creating
<1>3. Pending \subseteq issued
  BY <1>2 DEF FreshIds
<1>4. Pending' = {thr[u].job : u \in {v \in Threads \ {t} : Creating(thr[v])}}
  BY <1>1, <1>2
<1> QED
  BY <1>2, <1>3, <1>4 DEF FreshIds

(* In one process the thread that writes is the only one in the read-       *)
(* modify-write, so what it loaded is still what the file holds.            *)
LEMMA WriterAlone ==
  ASSUME StoreInv, OneProcess, NEW t \in Threads, Writing(t)
  PROVE  /\ thr[t].pc = "save" /\ thr[t].snap = table
         /\ \A u \in Threads \ {t} : ~InSave(thr[u])
<1>1. thr[t].pc = "save" /\ InSave(thr[t])
  BY DEF OneProcess, Writing, At, InSave
<1>2. \A u \in Threads : Home[u] = Home[t]
  BY HomeAssumption DEF OneProcess
<1> QED
  BY <1>1, <1>2 DEF StoreInv, LockHeld, SnapshotCurrent

(* The invariant after a write that succeeded or failed. *)
LEMMA WriteKeepsInv ==
  ASSUME TypeOK, Coherent, StoreInv, OneProcess, NEW t \in Threads,
         Save(t) \/ SaveFails(t)
  PROVE  /\ StoreInv'
         /\ Pending' = IF Creating(thr[t]) THEN Pending \ {thr[t].job} ELSE Pending
<1>1. Writing(t) /\ UNCHANGED issued
  BY DEF Save, SaveFails
<1>2. PICK r : thr' = [thr EXCEPT ![t] = r] /\ ~InSave(r) /\ ~Creating(r)
  BY <1>1, AfterWriteLeaves DEF Save, SaveFails, Leave
<1>3. thr'[t] = r /\ \A u \in Threads \ {t} : thr'[u] = thr[u]
  BY <1>2 DEF TypeOK
<1>4. \A u \in Threads : ~InSave(thr'[u])
  BY <1>1, <1>2, <1>3, WriterAlone
<1>5. torn' = FALSE
  BY DEF OneProcess, Save, SaveFails, WriteCrossed, StoreInv, SnapshotCurrent
<1>6. FreshIds'
  BY <1>1, <1>2, <1>3 DEF StoreInv, FreshIds
<1>7. Pending' = IF Creating(thr[t]) THEN Pending \ {thr[t].job} ELSE Pending
  BY <1>2, PendingEnds DEF StoreInv
<1> QED
  BY <1>4, <1>5, <1>6, <1>7 DEF StoreInv, LockHeld, SnapshotCurrent

(* A successful write is the step of JobStore that its operation names.     *)
LEMMA SaveStore ==
  ASSUME TypeOK, Coherent, StoreInv, OneProcess, NEW t \in Threads, Save(t)
  PROVE  StoreStep
<1> DEFINE r == thr[t]
           j == r.job
<1>1. /\ r \in Thread
      /\ r.pc = "save"
      /\ r.snap = table
      /\ r.op \in Crud \cup History
      /\ j \in Jobs
      /\ r.op \in {"create", "update"} => r.time \in Times
      /\ r.op = "update" => table[j] # NoJob
  BY WriterAlone DEF Save, TypeOK, Coherent, RecordOK
<1>2. /\ table' \in Edited(t)
      /\ UNCHANGED issued
      /\ StoreInv'
      /\ Pending' = IF Creating(r) THEN Pending \ {j} ELSE Pending
  BY WriteKeepsInv DEF Save
<1>3. Creating(r) <=> r.op = "create"
  BY <1>1 DEF Creating
<1>5. ASSUME r.op # "create"
      PROVE  (issued \ Pending)' = issued \ Pending
  BY <1>2, <1>3, <1>5
<1>6. CASE r.op = "create"
  <2>1. table' = [table EXCEPT ![j] = Store!NewJob(r.enabled, r.time)]
    BY <1>1, <1>2, <1>6 DEF Edited, WithRun, History, Store!NewJob
  <2>2. j \in Pending /\ j \in issued
    BY <1>3, <1>6 DEF StoreInv, FreshIds, Pending, Creating
  <2>3. (issued \ Pending)' = (issued \ Pending) \cup {j}
    BY <1>2, <1>3, <1>6, <2>2
  <2>4. Store!Create(j, r.enabled, r.time)
    BY <2>1, <2>2, <2>3 DEF Store!Create
  <2>5. r.enabled \in BOOLEAN /\ r.time \in Times
    BY <1>1, <1>6 DEF Thread
  <2> QED
    BY <1>1, <1>2, <2>4, <2>5 DEF StoreStep, Store!Next
<1>7. CASE r.op = "update"
  <2>1. table' = [table EXCEPT ![j] = Rewritten(@, r)]
    BY <1>1, <1>2, <1>7 DEF Edited, WithRun, History
  <2>3. Store!Update(j, r.enabled, r.time)
    BY <1>1, <1>5, <1>7, <2>1 DEF Store!Update, Rewritten
  <2>4. r.enabled \in BOOLEAN /\ r.time \in Times
    BY <1>1, <1>7 DEF Thread
  <2> QED
    BY <1>1, <1>2, <2>3, <2>4 DEF StoreStep, Store!Next
<1>8. CASE r.op = "delete"
  <2>1. table' = [table EXCEPT ![j] = NoJob]
    BY <1>1, <1>2, <1>8 DEF Edited, WithRun, History
  <2>2. Store!Delete(j)
    BY <1>5, <1>8, <2>1 DEF Store!Delete
  <2> QED
    BY <1>1, <1>2, <2>2 DEF StoreStep, Store!Next
<1>9. CASE r.op \in History /\ table[j] = NoJob
  <2>1. table' = table
    BY <1>1, <1>2, <1>9 DEF Edited, WithRun, History
  <2> QED
    BY <1>2, <1>5, <1>9, <2>1 DEF StoreStep, Store!vars, History
<1>10. CASE r.op \in {"append", "error"} /\ table[j] # NoJob
  <2>1. PICK run \in Runs : table' = [table EXCEPT ![j].runs = <<run>> \o @]
    <3>1. CASE r.op = "append"
      <4>1. table' = [table EXCEPT ![j].runs = <<r.mail>> \o @]
        BY <1>1, <1>2, <1>10, <3>1 DEF Edited, WithRun, History
      <4>2. r.mail \in Runs
        BY <1>1 DEF Thread
      <4> QED
        BY <4>1, <4>2
    <3>2. CASE r.op = "error"
      <4>1. table' = [table EXCEPT ![j].runs = <<0>> \o @]
        BY <1>1, <1>2, <1>10, <3>2 DEF Edited, WithRun, History
      <4> QED
        BY <4>1, RunsAssumption
    <3> QED
      BY <1>10, <3>1, <3>2
  <2>2. Store!Record(j, run)
    BY <1>5, <1>10, <2>1 DEF Store!Record
  <2> QED
    BY <1>1, <1>2, <2>2 DEF StoreStep, Store!Next
<1>11. CASE r.op = "prune" /\ table[j] # NoJob
  <2>1. Edited(t) = {[table EXCEPT ![j].runs = SubSeq(@, 1, k)] :
                        k \in Retained(table[j].runs, r.mail)}
    BY <1>1, <1>11 DEF Edited, WithRun, History
  <2>2. PICK kept \in 0..Len(table[j].runs) :
           table' = [table EXCEPT ![j].runs = SubSeq(@, 1, kept)]
    BY <1>2, <2>1 DEF Retained
  <2>3. Store!Prune(j)
    BY <1>5, <1>11, <2>2 DEF Store!Prune
  <2> QED
    BY <1>1, <1>2, <2>3 DEF StoreStep, Store!Next
<1> QED
  BY <1>1, <1>6, <1>7, <1>8, <1>9, <1>10, <1>11 DEF Crud, History

(* A failed one leaves the table, and spends the id of a create request.    *)
LEMMA SaveFailsStore ==
  ASSUME TypeOK, Coherent, StoreInv, OneProcess, NEW t \in Threads, SaveFails(t)
  PROVE  StoreStep
<1> DEFINE j == thr[t].job
<1>1. /\ StoreInv'
      /\ Pending' = IF Creating(thr[t]) THEN Pending \ {j} ELSE Pending
      /\ UNCHANGED <<table, issued>>
  BY WriteKeepsInv DEF SaveFails
<1>2. CASE Creating(thr[t])
  <2>1. j \in issued /\ j \in Jobs
    BY <1>2 DEF StoreInv, FreshIds, TypeOK
  <2>2. (issued \ Pending)' = (issued \ Pending) \cup {j}
    BY <1>1, <1>2, <2>1
  <2>3. Store!Spend({j})
    BY <1>1, <2>2 DEF Store!Spend
  <2> QED
    BY <1>1, <2>1, <2>3 DEF StoreStep, Store!Next
<1>3. CASE ~Creating(thr[t])
  BY <1>1, <1>3 DEF StoreStep, Store!vars
<1> QED
  BY <1>2, <1>3

(* Taking _lock and loading is invisible to callers.                        *)
LEMMA LoadStore ==
  ASSUME TypeOK, Coherent, StoreInv, NEW t \in Threads, RejectUpdate(t) \/ Enter(t)
  PROVE  StoreStep
<1>1. CASE RejectUpdate(t)
  BY <1>1, FinishKeepsStore DEF RejectUpdate, Creating, file
<1>2. CASE Enter(t)
  <2> DEFINE r == [thr[t] EXCEPT !.pc = "save", !.snap = Load]
  <2>1. /\ thr'[t] = r /\ \A u \in Threads \ {t} : thr'[u] = thr[u]
        /\ r.pc = "save" /\ r.op = thr[t].op /\ r.job = thr[t].job
        /\ r.snap = table
        /\ thr[t].pc = "enter"
    BY <1>2 DEF Enter, At, TypeOK, Thread, Load, StoreInv, SnapshotCurrent
  <2>2. \A u \in Threads : /\ Creating(thr'[u]) <=> Creating(thr[u])
                           /\ Creating(thr[u]) => thr'[u].job = thr[u].job
    BY <2>1 DEF Creating
  <2>3. Pending' = Pending
    BY <2>2 DEF Pending, Creating
  <2>4. FreshIds' /\ SnapshotCurrent'
    BY <1>2, <2>1, <2>2 DEF StoreInv, FreshIds, SnapshotCurrent, Enter, file
  <2>5. LockHeld'
    BY <1>2, LockStep DEF StoreInv, Next, Step
  <2> QED
    BY <1>2, <2>3, <2>4, <2>5 DEF StoreStep, StoreInv, Store!vars, Enter, file
<1> QED
  BY <1>1, <1>2

(* The create requests of a worker that dies are never stored. *)
LEMMA CrashStore ==
  ASSUME TypeOK, Coherent, StoreInv, NEW w \in Workers, Crash(w)
  PROVE  StoreStep
<1>1. \A u \in Threads : thr'[u] = IF Home[u] = w THEN Idle ELSE thr[u]
  BY DEF Crash
<1>2. ~InSave(Idle) /\ ~Creating(Idle)
  BY DEF InSave, Creating, Idle
<1>3. UNCHANGED <<table, torn, issued>>
  BY DEF Crash, file
<1>4. Pending' \subseteq Pending /\ Pending \subseteq issued
  BY <1>1, <1>2 DEF Pending, Creating, StoreInv, FreshIds
<1>5. Store!Spend(Pending \ Pending')
  BY <1>3, <1>4 DEF Store!Spend
<1>6. Pending \ Pending' \in SUBSET Jobs
  BY <1>4 DEF TypeOK
<1>7. FreshIds' /\ SnapshotCurrent'
  BY <1>1, <1>2, <1>3 DEF StoreInv, FreshIds, SnapshotCurrent
<1>8. LockHeld'
  BY LockStep DEF StoreInv, Next, Fault
<1> QED
  BY <1>5, <1>6, <1>7, <1>8 DEF StoreStep, StoreInv, Store!Next

(* Every step of one process is a step of JobStore or changes nothing there. *)
LEMMA StoreStepCorrect ==
  OneProcess /\ TypeOK /\ Coherent /\ StoreInv /\ [Next]_vars => StoreStep
<1> SUFFICES ASSUME OneProcess, TypeOK, Coherent, StoreInv, [Next]_vars
             PROVE  StoreStep
  OBVIOUS
<1>1. ASSUME NEW t \in Threads, Step(t) PROVE StoreStep
  <2>1. ~SaveBegin(t)
    BY DEF OneProcess, SaveBegin
  <2> QED
    BY <1>1, <2>1, LoadStore, SaveStore, ExecutionStore DEF Step
<1>2. ASSUME NEW t \in Threads, Admin(t) PROVE StoreStep
  BY <1>2, AdminStore
<1>3. CASE Cron
  BY <1>3, CronStore
<1>4. ASSUME NEW w \in Workers, Boot(w) PROVE StoreStep
  BY <1>4, StillStore DEF Boot, file
<1>5. CASE Fault
  BY <1>5, CrashStore, SaveFailsStore, ExecutionStore DEF Fault
<1>6. CASE UNCHANGED vars
  BY <1>6, StillStore DEF vars
<1> QED
  BY <1>1, <1>2, <1>3, <1>4, <1>5, <1>6 DEF Next

(* One process whose job file is renamed into place is the atomic table of  *)
(* JobStore: no update is lost, no deleted job comes back and no run record *)
(* goes to another job, whatever the threads, crashes and failing writes.   *)
THEOREM OneProcessRefinesJobStore ==
  ASSUME OneProcess
  PROVE  Spec => RefinesJobStore
<1>1. Init => StoreInv
  BY DEF Init, StoreInv, LockHeld, FreshIds, SnapshotCurrent, InSave, Creating,
         Idle
<1>2. Init => Store!Init
  BY DEF Init, Store!Init, EmptyTable, Store!EmptyTable
<1>3. TypeOK /\ Coherent /\ StoreInv /\ [Next]_vars
         => StoreInv' /\ [Store!Next]_(Store!vars)
  BY OneProcess, StoreStepCorrect DEF StoreStep
<1> QED
  BY <1>1, <1>2, <1>3, TypeCorrect, PTL DEF Spec, RefinesJobStore, Store!Spec

-----------------------------------------------------------------------------
(* The latest delivery in the history                                       *)

(* The ids whose job has been in the file (used of JobStore).               *)
Used == issued \ Pending

(* t executes a job that it has found in the file.                          *)
Busy(r) == r.pc \in {"fetch", "send"} \/ r.op \in History

(* Nothing is known, executed or sent of an id before its job is created.   *)
Born ==
    /\ \A j \in Jobs : table[j] # NoJob \/ sent[j] > 0 => j \in Used
    /\ \A t \in Threads : Busy(thr[t]) => thr[t].job \in Used

(* The latest email of a job is shown by its history, or about to be         *)
(* recorded.                                                                 *)
RecordedOrDue ==
    \A j \in Jobs : table[j] # NoJob /\ sent[j] > 0 =>
        \/ Shown(table[j].runs, sent[j])
        \/ \E t \in Threads : thr[t].op = "append" /\ thr[t].job = j

(* An execution that prunes finds the run that it has recorded in front.    *)
PrunesAfterRecord ==
    \A t \in Threads :
        LET j == thr[t].job
        IN  thr[t].op = "prune" /\ table[j] # NoJob =>
              /\ table[j].runs # <<>>
              /\ Head(table[j].runs) = thr[t].mail
              /\ thr[t].mail = sent[j]

DeliveryInv == Born /\ (faults = 0 => RecordedOrDue /\ PrunesAfterRecord)

(* Ids are never given back, and a job appears in the file under an id that *)
(* is used from then on.                                                    *)
LEMMA UsedStep ==
  ASSUME TypeOK, StoreStep, \A j \in Jobs : table[j] # NoJob => j \in Used
  PROVE  /\ Used \subseteq Used'
         /\ \A j \in Jobs : table'[j] # NoJob => j \in Used'
<1>1. table \in [Jobs -> Job \cup {NoJob}]
  BY DEF TypeOK, Table
<1>2. CASE UNCHANGED <<table, issued \ Pending>>
  BY <1>2 DEF Used
<1>3. ASSUME NEW j \in Jobs, NEW enabled, NEW time, Store!Create(j, enabled, time)
      PROVE  /\ Used \subseteq Used'
             /\ \A i \in Jobs : table'[i] # NoJob => i \in Used'
  BY <1>1, <1>3 DEF Store!Create, Used
<1>4. ASSUME NEW S, Store!Spend(S)
      PROVE  /\ Used \subseteq Used'
             /\ \A i \in Jobs : table'[i] # NoJob => i \in Used'
  BY <1>4 DEF Store!Spend, Used
<1>5. ASSUME NEW j \in Jobs, NEW job, table' = [table EXCEPT ![j] = job],
             job # NoJob => table[j] # NoJob, UNCHANGED (issued \ Pending)
      PROVE  /\ Used \subseteq Used'
             /\ \A i \in Jobs : table'[i] # NoJob => i \in Used'
  BY <1>1, <1>5 DEF Used
<1>6. ASSUME NEW j \in Jobs,
             \/ \E enabled, time : Store!Update(j, enabled, time)
             \/ Store!Delete(j)
             \/ \E run : Store!Record(j, run)
             \/ Store!Prune(j)
      PROVE  /\ Used \subseteq Used'
             /\ \A i \in Jobs : table'[i] # NoJob => i \in Used'
  <2>1. PICK job : /\ table' = [table EXCEPT ![j] = job]
                   /\ job # NoJob => table[j] # NoJob
                   /\ UNCHANGED (issued \ Pending)
    BY <1>6 DEF Store!Update, Store!Delete, Store!Record, Store!Prune
  <2> QED
    BY <1>5, <2>1
<1> QED
  BY <1>2, <1>3, <1>4, <1>6 DEF StoreStep, Store!Next, Store!vars

(* What the steps below share: their step is one of JobStore, too.          *)
StepOfOneProcess ==
    /\ TypeOK /\ Coherent /\ ExecutionInv /\ HistoryInv /\ StoreInv
    /\ DeliveryInv
    /\ StoreStep

(* A step of one thread that changes neither the file nor what is sent.     *)
LEMMA QuietDelivery ==
  ASSUME StepOfOneProcess, NEW t \in Threads, NEW r,
         thr' = [thr EXCEPT ![t] = r], UNCHANGED <<table, sent>>,
         faults' = faults \/ (faults' = faults + 1 /\ faults \in Nat),
         Busy(r) => r.job \in Used,
         faults' = 0 =>
             /\ r.op = "prune" => /\ thr[t].op = "prune"
                                  /\ r.job = thr[t].job
                                  /\ r.mail = thr[t].mail
             /\ thr[t].op = "append" => r.op = "append" /\ r.job = thr[t].job
  PROVE  DeliveryInv'
<1>1. thr'[t] = r /\ \A u \in Threads \ {t} : thr'[u] = thr[u]
  BY DEF StepOfOneProcess, TypeOK
<1>2. Used \subseteq Used'
  BY UsedStep DEF StepOfOneProcess, DeliveryInv, Born
<1>3. Born'
  <2>1. \A j \in Jobs : table'[j] # NoJob \/ sent'[j] > 0 => j \in Used'
    BY <1>2 DEF StepOfOneProcess, DeliveryInv, Born
  <2>2. \A u \in Threads : Busy(thr'[u]) => thr'[u].job \in Used'
    BY <1>1, <1>2 DEF StepOfOneProcess, DeliveryInv, Born
  <2> QED
    BY <2>1, <2>2 DEF Born
<1>4. ASSUME faults' = 0
      PROVE  RecordedOrDue' /\ PrunesAfterRecord'
  <2>1. RecordedOrDue /\ PrunesAfterRecord
    BY <1>4 DEF StepOfOneProcess, DeliveryInv
  <2>2. \A u \in Threads : thr[u].op = "append" =>
                             thr'[u].op = "append" /\ thr'[u].job = thr[u].job
    BY <1>1, <1>4
  <2>3. \A u \in Threads : thr'[u].op = "prune" =>
                             /\ thr[u].op = "prune"
                             /\ thr'[u].job = thr[u].job
                             /\ thr'[u].mail = thr[u].mail
    BY <1>1, <1>4
  <2>4. RecordedOrDue'
    BY <2>1, <2>2 DEF RecordedOrDue
  <2>5. PrunesAfterRecord'
    BY <2>1, <2>3 DEF PrunesAfterRecord
  <2> QED
    BY <2>4, <2>5
<1> QED
  BY <1>3, <1>4 DEF DeliveryInv

(* A thread that only moves on, or ends.                                    *)
LEMMA MoveDelivery ==
  ASSUME StepOfOneProcess, NEW t \in Threads,
         Finish(t) \/ (\E pc : Goto(t, pc) /\ (Busy([thr[t] EXCEPT !.pc = pc])
                                                 => thr[t].job \in Used)),
         UNCHANGED <<table, sent>>,
         faults' = faults \/ (faults' = faults + 1 /\ faults \in Nat),
         thr[t].op # "append" \/ ~Finish(t)
  PROVE  DeliveryInv'
<1>1. CASE Finish(t)
  <2>1. ~Busy(Idle) /\ Idle.op = "none"
    BY DEF Busy, Idle, History
  <2> QED
    BY <1>1, <2>1, QuietDelivery DEF Finish
<1>2. ASSUME NEW pc, Goto(t, pc),
             Busy([thr[t] EXCEPT !.pc = pc]) => thr[t].job \in Used
      PROVE  DeliveryInv'
  <2> DEFINE r == [thr[t] EXCEPT !.pc = pc]
  <2>1. thr' = [thr EXCEPT ![t] = r]
    BY <1>2 DEF Goto
  <2>2. /\ r.op = thr[t].op /\ r.job = thr[t].job /\ r.mail = thr[t].mail
        /\ Busy(r) => r.job \in Used
    BY <1>2 DEF StepOfOneProcess, TypeOK, Thread
  <2> HIDE DEF r
  <2> QED
    BY <2>1, <2>2, QuietDelivery
<1> QED
  BY <1>1, <1>2

(* The email that is sent is to be recorded by who sent it.                 *)
LEMMA SendDelivery ==
  ASSUME StepOfOneProcess, NEW t \in Threads, SendEmail(t)
  PROVE  DeliveryInv'
<1> DEFINE j == thr[t].job
           m == sent[j] + 1
           r == [thr[t] EXCEPT !.pc = "enter", !.op = "append", !.mail = m]
<1>1. /\ j \in Jobs /\ Owns(thr[t]) /\ Busy(thr[t])
      /\ sent \in [Jobs -> Nat]
      /\ Coherent /\ ExecutionInv
  BY DEF StepOfOneProcess, TypeOK, Coherent, RecordOK, SendEmail, At, Owns, Busy
<1>2. /\ thr' = [thr EXCEPT ![t] = r]
      /\ sent' = [sent EXCEPT ![j] = m]
      /\ table' = table
      /\ faults' = faults
  BY DEF SendEmail, file
<1>3. r.op = "append" /\ r.job = j
  BY DEF StepOfOneProcess, TypeOK, Thread
<1> HIDE DEF r
<1>4. thr'[t] = r /\ \A u \in Threads \ {t} : thr'[u] = thr[u]
  BY <1>2 DEF StepOfOneProcess, TypeOK
<1>5. Used \subseteq Used'
  BY UsedStep DEF StepOfOneProcess, DeliveryInv, Born
<1>6. \A i \in Jobs \ {j} : sent'[i] = sent[i]
  BY <1>1, <1>2
<1>7. Born'
  <2>1. j \in Used
    BY <1>1 DEF StepOfOneProcess, DeliveryInv, Born
  <2>2. \A i \in Jobs : table'[i] # NoJob \/ sent'[i] > 0 => i \in Used'
    BY <1>2, <1>5, <1>6, <2>1 DEF StepOfOneProcess, DeliveryInv, Born
  <2>3. \A u \in Threads : Busy(thr'[u]) => thr'[u].job \in Used'
    BY <1>3, <1>4, <1>5, <2>1 DEF StepOfOneProcess, DeliveryInv, Born
  <2> QED
    BY <2>2, <2>3 DEF Born
<1>8. ASSUME faults' = 0
      PROVE  RecordedOrDue' /\ PrunesAfterRecord'
  <2>1. RecordedOrDue /\ PrunesAfterRecord
    BY <1>2, <1>8 DEF StepOfOneProcess, DeliveryInv
  <2>2. thr[t].op # "append"
    BY DEF StepOfOneProcess, Coherent, RecordOK, SendEmail, At
  <2>3. \A u \in Threads : thr[u].op = "append" =>
                             thr'[u].op = "append" /\ thr'[u].job = thr[u].job
    BY <1>4, <2>2
  <2>4. RecordedOrDue'
    <3> SUFFICES ASSUME NEW i \in Jobs, table'[i] # NoJob, sent'[i] > 0
                 PROVE  \/ Shown(table'[i].runs, sent'[i])
                        \/ \E u \in Threads : thr'[u].op = "append" /\ thr'[u].job = i
      BY DEF RecordedOrDue
    <3>1. CASE i = j
      BY <1>3, <1>4, <3>1
    <3>2. CASE i # j
      BY <1>2, <1>6, <2>1, <2>3, <3>2 DEF RecordedOrDue
    <3> QED
      BY <3>1, <3>2
  <2>5. ASSUME NEW u \in Threads, thr'[u].op = "prune"
        PROVE  u # t /\ thr'[u] = thr[u] /\ thr[u].job \in Jobs \ {j}
    <3>1. u # t /\ thr'[u] = thr[u]
      BY <1>3, <1>4, <2>5
    <3>2. Owns(thr[u]) /\ thr[u].job \in Jobs
      BY <1>1, <2>5, <3>1 DEF Owns, History, Coherent, RecordOK
    <3> QED
      BY <1>1, <3>1, <3>2 DEF ExecutionInv, LockFileHeld
  <2>6. PrunesAfterRecord'
    BY <1>2, <1>6, <2>1, <2>5 DEF PrunesAfterRecord
  <2> QED
    BY <2>4, <2>6
<1> QED
  BY <1>7, <1>8 DEF DeliveryInv

(* What a thread goes on with after a successful write.                     *)
LEMMA AfterSaveOp ==
  ASSUME TypeOK, Coherent, NEW t \in Threads, Writing(t)
  PROVE  LET r == [AfterSave(t) EXCEPT !.snap = EmptyTable]
         IN  /\ r.op # "append"
             /\ Busy(r) \/ r.op = "prune" =>
                   /\ thr[t].op = "append"
                   /\ r.job = thr[t].job
                   /\ r.mail = thr[t].mail
<1> DEFINE r == thr[t]
           q == [AfterSave(t) EXCEPT !.snap = EmptyTable]
<1>1. r \in Thread /\ r.op \in Crud \cup History
  BY DEF TypeOK, Coherent, RecordOK, Writing, At
<1>2. CASE r.op \in Crud
  <2>1. AfterSave(t) = Idle \/ AfterSave(t) = [r EXCEPT !.pc = "register"]
        \/ AfterSave(t) = [r EXCEPT !.pc = "unregister"]
    BY <1>2 DEF AfterSave, Crud, History
  <2>2. q.pc \in {"idle", "register", "unregister"} /\ q.op \in {"none", r.op}
    BY <1>1, <2>1 DEF Idle, Thread
  <2> QED
    BY <1>2, <2>2 DEF Busy, Crud, History
<1>3. CASE r.op = "append"
  <2>1. q = [r EXCEPT !.pc = "enter", !.op = "prune", !.snap = EmptyTable]
    BY <1>3 DEF AfterSave, Crud
  <2>2. q.op = "prune" /\ q.job = r.job /\ q.mail = r.mail
    BY <1>1, <2>1 DEF Thread
  <2> QED
    BY <1>3, <2>2
<1>4. CASE r.op \in {"prune", "error"}
  <2>1. q = [r EXCEPT !.pc = "discard", !.op = "none", !.snap = EmptyTable]
    BY <1>4 DEF AfterSave, Crud
  <2>2. q.pc = "discard" /\ q.op = "none"
    BY <1>1, <2>1 DEF Thread
  <2> QED
    BY <2>2 DEF Busy, History
<1> QED
  BY <1>1, <1>2, <1>3, <1>4 DEF History

(* What a write of the one process makes of the file.                       *)
LEMMA OneProcessWrite ==
  ASSUME TypeOK, Coherent, StoreInv, OneProcess, NEW t \in Threads, Save(t)
  PROVE  LET r == thr[t]
             j == r.job
         IN  /\ j \in Jobs /\ r.op \in Crud \cup History
             /\ \A i \in Jobs \ {j} : table'[i] = table[i]
             /\ r.op = "create" => Creating(r)
             /\ r.op = "update" => table[j] # NoJob /\ table'[j].runs = table[j].runs
             /\ r.op = "delete" => table'[j] = NoJob
             /\ r.op \in History /\ table[j] = NoJob => table'[j] = NoJob
             /\ r.op = "append" /\ table[j] # NoJob =>
                   table'[j].runs = <<r.mail>> \o table[j].runs
             /\ r.op = "error" /\ table[j] # NoJob =>
                   table'[j].runs = <<0>> \o table[j].runs
             /\ r.op = "prune" /\ table[j] # NoJob =>
                   \E k \in Retained(table[j].runs, r.mail) :
                      table'[j].runs = SubSeq(table[j].runs, 1, k)
<1> DEFINE r == thr[t]
           j == r.job
<1>1. /\ r \in Thread
      /\ r.pc = "save"
      /\ r.snap = table
      /\ r.op \in Crud \cup History
      /\ j \in Jobs
      /\ r.op = "update" => table[j] # NoJob
  BY WriterAlone DEF Save, TypeOK, Coherent, RecordOK
<1>2. table' \in Edited(t)
  BY DEF Save
<1>3. table \in [Jobs -> Job \cup {NoJob}]
  BY DEF TypeOK, Table
<1>4. CASE r.op = "create"
  <2>1. table' = [table EXCEPT ![j] = [enabled |-> r.enabled, time |-> r.time,
                                       runs |-> <<>>]]
    BY <1>1, <1>2, <1>4 DEF Edited, WithRun, History
  <2>2. Creating(r)
    BY <1>1, <1>4 DEF Creating
  <2> QED
    BY <1>1, <1>3, <1>4, <2>1, <2>2 DEF History
<1>5. CASE r.op = "update"
  <2>1. table' = [table EXCEPT ![j] = Rewritten(table[j], r)]
    BY <1>1, <1>2, <1>5 DEF Edited, WithRun, History
  <2> QED
    BY <1>1, <1>3, <1>5, <2>1 DEF Rewritten, History
<1>6. CASE r.op = "delete"
  <2>1. table' = [table EXCEPT ![j] = NoJob]
    BY <1>1, <1>2, <1>6 DEF Edited, WithRun, History
  <2> QED
    BY <1>1, <1>3, <1>6, <2>1 DEF History
<1>7. CASE r.op \in History /\ table[j] = NoJob
  <2>1. table' = table
    BY <1>1, <1>2, <1>7 DEF Edited, WithRun, History
  <2> QED
    BY <1>1, <1>7, <2>1 DEF History
<1>8. CASE r.op = "append" /\ table[j] # NoJob
  <2>1. table' = [table EXCEPT ![j].runs = <<r.mail>> \o @]
    BY <1>1, <1>2, <1>8 DEF Edited, WithRun, History
  <2>2. table'[j].runs = <<r.mail>> \o table[j].runs
    BY <1>1, <1>3, <1>8, <2>1 DEF Job
  <2> QED
    BY <1>1, <1>3, <1>8, <2>1, <2>2
<1>9. CASE r.op = "error" /\ table[j] # NoJob
  <2>1. table' = [table EXCEPT ![j].runs = <<0>> \o @]
    BY <1>1, <1>2, <1>9 DEF Edited, WithRun, History
  <2>2. table'[j].runs = <<0>> \o table[j].runs
    BY <1>1, <1>3, <1>9, <2>1 DEF Job
  <2> QED
    BY <1>1, <1>3, <1>9, <2>1, <2>2
<1>10. CASE r.op = "prune" /\ table[j] # NoJob
  <2>1. table' \in {[table EXCEPT ![j].runs = SubSeq(@, 1, k)] :
                       k \in Retained(table[j].runs, r.mail)}
    BY <1>1, <1>2, <1>10 DEF Edited, WithRun, History
  <2>2. PICK k \in Retained(table[j].runs, r.mail) :
           table' = [table EXCEPT ![j].runs = SubSeq(@, 1, k)]
    BY <2>1
  <2>3. table'[j].runs = SubSeq(table[j].runs, 1, k)
    BY <1>1, <1>3, <1>10, <2>2 DEF Job
  <2> QED
    BY <1>1, <1>3, <1>10, <2>2, <2>3
<1> QED
  BY <1>1, <1>4, <1>5, <1>6, <1>7, <1>8, <1>9, <1>10 DEF Crud, History

(* The first record, and the last, of a history with one more in front.     *)
LEMMA InFront ==
  ASSUME NEW runs \in Seq(Runs), NEW x \in Runs
  PROVE  LET new == <<x>> \o runs
         IN  /\ new # <<>>
             /\ Head(new) = x
             /\ \E i \in DOMAIN new : new[i] = x
             /\ \A i \in DOMAIN runs : \E k \in DOMAIN new : new[k] = runs[i]
<1> DEFINE new == <<x>> \o runs
<1>1. <<x>> \in Seq(Runs) /\ Len(<<x>>) = 1 /\ <<x>>[1] = x
  OBVIOUS
<1>2. /\ new \in Seq(Runs)
      /\ Len(new) = 1 + Len(runs)
      /\ \A i \in 1..(1 + Len(runs)) :
            new[i] = IF i <= 1 THEN <<x>>[i] ELSE runs[i - 1]
  BY <1>1, ConcatProperties, Zenon
<1> HIDE DEF new
<1>3. Len(runs) \in Nat /\ DOMAIN runs = 1..Len(runs) /\ DOMAIN new = 1..Len(new)
  BY <1>2
<1>4. new[1] = x /\ 1 \in DOMAIN new
  BY <1>1, <1>2, <1>3
<1>5. ASSUME NEW i \in DOMAIN runs
      PROVE  \E k \in DOMAIN new : new[k] = runs[i]
  <2>1. new[i + 1] = runs[i] /\ i + 1 \in DOMAIN new
    BY <1>2, <1>3
  <2> QED
    BY <2>1
<1>6. new # <<>> /\ Head(new) = x
  BY <1>2, <1>3, <1>4
<1> QED
  BY <1>4, <1>5, <1>6 DEF new

(* A failed run before the others hides no delivery.                        *)
LEMMA FailureInFront ==
  ASSUME NEW runs \in Seq(Runs), NEW mail, 0 \in Runs, Shown(runs, mail)
  PROVE  Shown(<<0>> \o runs, mail)
<1> DEFINE new == <<0>> \o runs
<1>1. Len(new) = Len(runs) + 1 /\ new[1] = 0
      /\ \A i \in 1..Len(runs) : new[i + 1] = runs[i]
  OBVIOUS
<1>2. DOMAIN new = 1..(Len(runs) + 1) /\ DOMAIN runs = 1..Len(runs) /\ Len(runs) \in Nat
  BY <1>1
<1> HIDE DEF new
<1>3. ASSUME NEW i \in DOMAIN runs, runs[i] = mail
      PROVE  \E k \in DOMAIN new : new[k] = mail
  <2>1. i + 1 \in DOMAIN new /\ new[i + 1] = mail
    BY <1>1, <1>2, <1>3
  <2> QED
    BY <2>1
<1>4. ASSUME \A i \in DOMAIN runs : runs[i] = 0, NEW k \in DOMAIN new
      PROVE  new[k] = 0
  <2>1. CASE k = 1
    BY <1>1, <2>1
  <2>2. CASE k # 1
    <3>1. k - 1 \in 1..Len(runs) /\ (k - 1) + 1 = k
      BY <1>2, <2>2
    <3> QED
      BY <1>1, <1>2, <1>4, <3>1
  <2> QED
    BY <2>1, <2>2
<1>5. Shown(new, mail)
  BY <1>3, <1>4 DEF Shown
<1> QED
  BY <1>5 DEF new

(* Pruning keeps the run just recorded, or with a short retention no run.   *)
LEMMA PruningKeepsNewest ==
  ASSUME NEW runs \in Seq(Runs), NEW k \in Retained(runs, Head(runs)), runs # <<>>
  PROVE  Shown(SubSeq(runs, 1, k), Head(runs))
<1>1. CASE k \in 1..Len(runs)
  <2>1. 1 \in DOMAIN SubSeq(runs, 1, k) /\ SubSeq(runs, 1, k)[1] = Head(runs)
    BY <1>1
  <2> QED
    BY <2>1 DEF Shown
<1>2. CASE k = 0
  <2>1. ~LongRetention
    BY <1>2, RetentionAssumption DEF Retained, LongRetention
  <2>2. DOMAIN SubSeq(runs, 1, k) = {}
    BY <1>2
  <2> QED
    BY <2>1, <2>2 DEF Shown
<1>3. k \in 0..Len(runs)
  BY DEF Retained
<1> QED
  BY <1>1, <1>2, <1>3

(* What a write does to the record of the latest delivery.                  *)
LEMMA SaveDelivery ==
  ASSUME StepOfOneProcess, OneProcess, NEW t \in Threads, Save(t)
  PROVE  DeliveryInv'
<1> DEFINE r == thr[t]
           j == r.job
           q == [AfterSave(t) EXCEPT !.snap = EmptyTable]
<1>1. /\ TypeOK /\ Coherent /\ ExecutionInv /\ StoreInv /\ HistoryInv
      /\ Born
      /\ Writing(t)
      /\ thr' = [thr EXCEPT ![t] = q]
      /\ sent' = sent /\ faults' = faults
  BY DEF StepOfOneProcess, DeliveryInv, Save, Leave, ledger
<1>2. /\ q.op # "append"
      /\ Busy(q) \/ q.op = "prune" =>
            r.op = "append" /\ q.job = j /\ q.mail = r.mail
  BY <1>1, AfterSaveOp
<1> HIDE DEF q
<1>3. thr'[t] = q /\ \A u \in Threads \ {t} : thr'[u] = thr[u]
  BY <1>1 DEF TypeOK
<1>4. /\ Used \subseteq Used'
      /\ \A i \in Jobs : table'[i] # NoJob => i \in Used'
  BY <1>1, UsedStep DEF StepOfOneProcess, Born
<1>5. Born'
  <2>1. \A u \in Threads : Busy(thr'[u]) => thr'[u].job \in Used'
    <3>1. r.op = "append" => j \in Used
      BY <1>1 DEF Born, Busy, History
    <3> QED
      BY <1>1, <1>2, <1>3, <1>4, <3>1 DEF Born
  <2> QED
    BY <1>1, <1>4, <2>1 DEF Born
<1>6. ASSUME r.op = "create" PROVE j \notin Used
  <2>1. Creating(r)
    BY <1>1, <1>6, OneProcessWrite
  <2> QED
    BY <2>1 DEF Used, Pending, Creating
<1>7. ASSUME NEW u \in Threads \ {t}, Owns(thr[u]), thr[u].job = j
      PROVE  r.op \notin History
  BY <1>1, <1>7 DEF ExecutionInv, LockFileHeld, Owns
<1>8. r.op = "append" => r.mail = sent[j] /\ r.mail \in Runs
  BY <1>1 DEF HistoryInv, TypeOK, Thread
<1>9. table[j] # NoJob => table[j].runs \in Seq(Runs)
  <2>1. j \in Jobs
    BY <1>1, OneProcessWrite
  <2> QED
    BY <1>1, <2>1 DEF TypeOK, Table, Job
<1>10. ASSUME faults' = 0
       PROVE  RecordedOrDue'
  <2>1. RecordedOrDue /\ PrunesAfterRecord
    BY <1>1, <1>10 DEF StepOfOneProcess, DeliveryInv
  <2> SUFFICES ASSUME NEW i \in Jobs, table'[i] # NoJob, sent[i] > 0
               PROVE  \/ Shown(table'[i].runs, sent[i])
                      \/ \E u \in Threads : thr'[u].op = "append" /\ thr'[u].job = i
    BY <1>1 DEF RecordedOrDue
  <2>2. CASE i # j
    <3>1. table'[i] = table[i]
      BY <1>1, <2>2, OneProcessWrite
    <3>2. \A u \in Threads : thr[u].op = "append" /\ thr[u].job = i => thr'[u] = thr[u]
      BY <1>3, <2>2
    <3>3. \/ Shown(table[i].runs, sent[i])
          \/ \E u \in Threads : thr[u].op = "append" /\ thr[u].job = i
      BY <2>1, <3>1 DEF RecordedOrDue
    <3> QED
      BY <3>1, <3>2, <3>3
  <2>3. CASE i = j
    <3>1. r.op \in Crud \cup History
      BY <1>1, OneProcessWrite
    <3>2. r.op # "create"
      BY <1>1, <1>6, <2>3 DEF Born
    <3>3. r.op # "delete"
      BY <1>1, <2>3, OneProcessWrite
    <3>4. r.op \in History => table[j] # NoJob
      BY <1>1, <2>3, OneProcessWrite
    <3>5. CASE r.op = "update"
      <4>1. table'[j].runs = table[j].runs /\ table[j] # NoJob
        BY <1>1, <3>5, OneProcessWrite
      <4>2. \A u \in Threads : thr[u].op = "append" => thr'[u] = thr[u]
        BY <1>3, <3>5
      <4>3. \/ Shown(table[j].runs, sent[j])
            \/ \E u \in Threads : thr[u].op = "append" /\ thr[u].job = j
        BY <2>1, <2>3, <4>1 DEF RecordedOrDue
      <4> QED
        BY <2>3, <4>1, <4>2, <4>3
    <3>6. CASE r.op = "append"
      <4>1. table[j] # NoJob /\ table'[j].runs = <<sent[j]>> \o table[j].runs
        BY <1>1, <1>8, <3>4, <3>6, OneProcessWrite DEF History
      <4> DEFINE new == <<sent[j]>> \o table[j].runs
      <4>2. 1 \in DOMAIN new /\ new[1] = sent[j]
        BY <1>8, <1>9, <3>6, <4>1, InFront
      <4> HIDE DEF new
      <4>3. table'[j].runs = new
        BY <4>1 DEF new
      <4> QED
        BY <2>3, <4>2, <4>3 DEF Shown
    <3>7. CASE r.op = "error"
      <4>1. table[j] # NoJob /\ table'[j].runs = <<0>> \o table[j].runs
        BY <1>1, <3>4, <3>7, OneProcessWrite DEF History
      <4>2. \A u \in Threads : ~(thr[u].op = "append" /\ thr[u].job = j)
        BY <1>7, <3>7 DEF Owns, History
      <4>3. Shown(table[j].runs, sent[j])
        BY <2>1, <2>3, <4>1, <4>2 DEF RecordedOrDue
      <4>4. 0 \in Runs
        BY RunsAssumption
      <4>5. Shown(<<0>> \o table[j].runs, sent[j])
        BY <1>9, <4>1, <4>3, <4>4, FailureInFront
      <4> QED
        BY <2>3, <4>1, <4>5
    <3>8. CASE r.op = "prune"
      <4>1. table[j] # NoJob
        BY <3>4, <3>8 DEF History
      <4>2. PICK k \in Retained(table[j].runs, r.mail) :
               table'[j].runs = SubSeq(table[j].runs, 1, k)
        BY <1>1, <3>8, <4>1, OneProcessWrite
      <4>3. /\ table[j].runs # <<>>
            /\ Head(table[j].runs) = r.mail
            /\ r.mail = sent[j]
        BY <2>1, <3>8, <4>1 DEF PrunesAfterRecord
      <4> QED
        BY <1>9, <2>3, <4>1, <4>2, <4>3, PruningKeepsNewest
    <3> QED
      BY <3>1, <3>2, <3>3, <3>5, <3>6, <3>7, <3>8 DEF Crud, History
  <2> QED
    BY <2>2, <2>3
<1>11. ASSUME faults' = 0
       PROVE  PrunesAfterRecord'
  <2>1. PrunesAfterRecord
    BY <1>1, <1>11 DEF StepOfOneProcess, DeliveryInv
  <2> SUFFICES ASSUME NEW u \in Threads, thr'[u].op = "prune",
                      table'[thr'[u].job] # NoJob
               PROVE  /\ table'[thr'[u].job].runs # <<>>
                      /\ Head(table'[thr'[u].job].runs) = thr'[u].mail
                      /\ thr'[u].mail = sent[thr'[u].job]
    BY <1>1 DEF PrunesAfterRecord
  <2>2. CASE u = t
    <3>1. r.op = "append" /\ thr'[u].job = j /\ thr'[u].mail = r.mail
      BY <1>2, <1>3, <2>2
    <3>2. table[j] # NoJob /\ table'[j].runs = <<r.mail>> \o table[j].runs
      BY <1>1, <3>1, OneProcessWrite DEF History
    <3> QED
      BY <1>8, <1>9, <3>1, <3>2, InFront
  <2>3. CASE u # t
    <3>1. thr'[u] = thr[u] /\ thr[u].op = "prune"
      BY <1>3, <2>3
    <3>2. Owns(thr[u]) /\ Busy(thr[u]) /\ thr[u].job \in Jobs
      BY <1>1, <3>1 DEF Owns, Busy, History, Coherent, RecordOK
    <3>3. CASE thr[u].job # j
      <4>1. table'[thr[u].job] = table[thr[u].job]
        BY <1>1, <3>2, <3>3, OneProcessWrite
      <4> QED
        BY <2>1, <3>1, <4>1 DEF PrunesAfterRecord
    <3>4. CASE thr[u].job = j
      <4>1. r.op \notin History
        BY <1>7, <2>3, <3>2, <3>4
      <4>2. r.op # "create"
        BY <1>1, <1>6, <3>2, <3>4 DEF Born
      <4>3. r.op = "update"
        BY ZenonT(40), <1>1, <3>1, <3>4, <4>1, <4>2, OneProcessWrite DEF Crud
      <4>4. table'[j].runs = table[j].runs /\ table[j] # NoJob
        BY <1>1, <4>3, OneProcessWrite
      <4> QED
        BY <2>1, <3>1, <3>4, <4>4 DEF PrunesAfterRecord
    <3> QED
      BY <3>3, <3>4
  <2> QED
    BY <2>2, <2>3
<1> QED
  BY <1>1, <1>5, <1>10, <1>11 DEF DeliveryInv

(* A failed write records nothing, and is a fault.                          *)
LEMMA SaveFailsDelivery ==
  ASSUME StepOfOneProcess, NEW t \in Threads, SaveFails(t)
  PROVE  DeliveryInv'
<1> DEFINE r == thr[t]
           next == AfterFailure(t)
           q == [next EXCEPT !.snap = EmptyTable]
<1>1. /\ TypeOK /\ r \in Thread /\ Writing(t)
      /\ thr' = [thr EXCEPT ![t] = q]
      /\ UNCHANGED <<table, sent>>
      /\ faults' = faults + 1 /\ faults \in Nat
      /\ r.op \in Crud \cup History
  BY DEF StepOfOneProcess, TypeOK, SaveFails, Leave, ledger, Coherent, RecordOK,
         Writing, At
<1>2. faults' # 0
  BY <1>1
<1>3. Busy(q) => r.op \in History /\ q.job = r.job
  <2>1. CASE r.op \in Crud
    <3>1. next = Idle
      BY <2>1 DEF AfterFailure, Crud
    <3> QED
      BY <3>1 DEF Busy, Idle, History
  <2>2. CASE r.op \in History
    <3>1. \/ next = [r EXCEPT !.pc = "enter", !.op = "error"]
          \/ next = [r EXCEPT !.pc = "discard", !.op = "none"]
      BY <2>2 DEF AfterFailure, Crud, History
    <3>2. q.job = r.job
      BY <1>1, <3>1 DEF Thread
    <3> QED
      BY <2>2, <3>2
  <2> QED
    BY <1>1, <2>1, <2>2
<1>4. Busy(q) => q.job \in Used
  BY <1>3 DEF StepOfOneProcess, DeliveryInv, Born, Busy
<1> HIDE DEF q
<1> QED
  BY <1>1, <1>2, <1>4, QuietDelivery

(* The steps that read the file, or leave it alone.                         *)
LEMMA StepDelivery ==
  ASSUME StepOfOneProcess, OneProcess, NEW t \in Threads,
         Step(t) \/ SaveFails(t) \/ SkipUnlockable(t)
  PROVE  DeliveryInv'
<1> DEFINE r == thr[t]
<1>1. /\ TypeOK /\ Coherent /\ r \in Thread /\ RecordOK(r) /\ Born
      /\ torn = FALSE /\ faults \in Nat
  BY DEF StepOfOneProcess, TypeOK, Coherent, DeliveryInv, StoreInv, SnapshotCurrent
<1>2. \A pc : [r EXCEPT !.pc = pc].pc = pc /\ [r EXCEPT !.pc = pc].op = r.op
  BY <1>1 DEF Thread
<1>3. CASE \/ RejectUpdate(t) \/ Register(t) \/ SkipBusyJob(t)
           \/ SkipUnlockable(t) \/ ReleaseJobLock(t)
  <2>1. Finish(t) /\ UNCHANGED <<table, sent>> /\ (faults' = faults \/ faults' = faults + 1)
    BY <1>3 DEF RejectUpdate, Register, SkipBusyJob, SkipUnlockable,
                ReleaseJobLock, file, ledger
  <2>2. r.op # "append"
    BY <1>1, <1>3 DEF RejectUpdate, Register, SkipBusyJob, SkipUnlockable,
                      ReleaseJobLock, At, RecordOK, Crud
  <2> QED
    BY <1>1, <2>1, <2>2, MoveDelivery
<1>4. CASE Unregister(t)
  <2>1. /\ Finish(t) \/ Goto(t, "register")
        /\ UNCHANGED <<table, sent>> /\ faults' = faults
    BY <1>4 DEF Unregister, file, ledger
  <2>2. r.op \in Crud
    BY <1>1, <1>4 DEF Unregister, At, RecordOK
  <2>3. r.op # "append" /\ ~Busy([r EXCEPT !.pc = "register"])
    BY <1>2, <2>2 DEF Busy, Crud, History
  <2> QED
    BY <1>1, <2>1, <2>3, MoveDelivery
<1>5. CASE AcquireJobLock(t) \/ DiscardRunning(t)
  <2>1. PICK pc \in {"load", "unlock"} :
           Goto(t, pc) /\ UNCHANGED <<table, sent>> /\ faults' = faults
    BY <1>5 DEF AcquireJobLock, DiscardRunning, file, ledger
  <2>2. r.op = "none"
    BY <1>1, <1>5 DEF AcquireJobLock, DiscardRunning, At, RecordOK
  <2>3. ~Busy([r EXCEPT !.pc = pc])
    BY <1>2, <2>1, <2>2 DEF Busy, History
  <2>4. ~Finish(t) \/ r.op # "append"
    BY <2>2
  <2> QED
    BY <2>1, <2>3, <2>4, MoveDelivery
<1>6. CASE LoadJob(t) \/ Fetch(t)
  <2>1. PICK pc \in {"discard", "fetch", "send"} :
           Goto(t, pc) /\ UNCHANGED <<table, sent>> /\ faults' = faults
    BY <1>6 DEF LoadJob, Fetch, file, ledger
  <2>2. r.op = "none" /\ r.job \in Jobs /\ Load = table
    BY <1>1, <1>6 DEF LoadJob, Fetch, At, RecordOK, Load
  <2>3. Busy([r EXCEPT !.pc = pc]) => r.job \in Used
    <3>1. CASE Fetch(t)
      BY <1>1, <3>1 DEF Fetch, At, Busy, Born
    <3>2. CASE LoadJob(t) /\ table[r.job] = NoJob
      <4>1. Goto(t, "discard")
        BY <2>2, <3>2 DEF LoadJob
      <4>2. [thr EXCEPT ![t].pc = pc][t].pc = pc /\ [thr EXCEPT ![t].pc = "discard"][t].pc = "discard"
        BY <1>1 DEF TypeOK, Thread
      <4>3. pc = "discard"
        BY <2>1, <4>1, <4>2 DEF Goto
      <4> QED
        BY <1>2, <2>2, <4>3 DEF Busy, History
    <3>3. CASE table[r.job] # NoJob
      BY <1>1, <2>2, <3>3 DEF Born
    <3> QED
      BY <1>6, <3>1, <3>2, <3>3
  <2>4. ~Finish(t) \/ r.op # "append"
    BY <2>2
  <2> QED
    BY <2>1, <2>3, <2>4, MoveDelivery
<1>7. CASE Enter(t)
  <2> DEFINE q == [r EXCEPT !.pc = "save", !.snap = Load]
  <2>1. /\ thr' = [thr EXCEPT ![t] = q] /\ UNCHANGED <<table, sent>>
        /\ faults' = faults
    BY <1>7 DEF Enter, file, ledger
  <2>2. q.pc = "save" /\ q.op = r.op /\ q.job = r.job /\ q.mail = r.mail
    BY <1>1 DEF Thread
  <2>3. Busy(q) => q.job \in Used
    BY <1>1, <2>2 DEF Busy, Born
  <2> HIDE DEF q
  <2> QED
    BY <2>1, <2>2, <2>3, QuietDelivery
<1>8. CASE RunFails(t)
  <2> DEFINE q == [r EXCEPT !.pc = "enter", !.op = "error"]
  <2>1. /\ thr' = [thr EXCEPT ![t] = q] /\ UNCHANGED <<table, sent>>
        /\ faults' = faults
    BY <1>8 DEF RunFails, file, ledger
  <2>2. q.op = "error" /\ q.job = r.job
    BY <1>1 DEF Thread
  <2>3. r.job \in Used /\ r.op \in {"none", "prune"}
    BY <1>1, <1>8 DEF RunFails, Busy, Born, RecordOK, History
  <2> HIDE DEF q
  <2> QED
    BY <2>1, <2>2, <2>3, QuietDelivery
<1>9. ~SaveBegin(t)
  BY DEF OneProcess, SaveBegin
<1> QED
  BY <1>3, <1>4, <1>5, <1>6, <1>7, <1>8, <1>9, SendDelivery, SaveDelivery,
     SaveFailsDelivery DEF Step

(* The routes that start something, APScheduler, and the life of a worker.  *)
LEMMA OtherDelivery ==
  ASSUME StepOfOneProcess,
         \/ \E t \in Threads : Admin(t)
         \/ Cron
         \/ \E w \in Workers : Boot(w) \/ Crash(w)
         \/ UNCHANGED vars
  PROVE  DeliveryInv'
<1>1. TypeOK /\ Coherent /\ faults \in Nat
  BY DEF StepOfOneProcess, TypeOK
<1>2. ASSUME NEW t \in Threads, NEW r, thr' = [thr EXCEPT ![t] = r],
             UNCHANGED <<table, sent>>, faults' = faults, thr[t].pc = "idle",
             r.op \in Crud \cup {"none"}, r.pc \in {"enter", "flock"}
      PROVE  DeliveryInv'
  <2>1. thr[t].op = "none"
    BY <1>1, <1>2 DEF Coherent, RecordOK
  <2>2. ~Busy(r) /\ r.op # "prune"
    BY <1>2 DEF Busy, Crud, History
  <2> QED
    BY <1>2, <2>1, <2>2, QuietDelivery
<1>3. ASSUME NEW op \in Crud, NEW j, NEW enabled, NEW time
      PROVE  LET r == Request(op, j, enabled, time)
             IN  r.op \in Crud /\ r.pc = "enter"
  BY DEF Request, Idle
<1>4. ASSUME NEW j, NEW cron
      PROVE  LET r == Execution(j, cron)
             IN  r.op = "none" /\ r.pc = "flock"
  BY DEF Execution, Idle
<1>5. ASSUME NEW t \in Threads, Admin(t)
      PROVE  DeliveryInv'
  <2>1. /\ UNCHANGED <<table, sent>> /\ faults' = faults /\ thr[t].pc = "idle"
    BY <1>5 DEF Admin, CreateJob, UpdateJob, DeleteJob, RunJobNow, file, ledger,
                Receive, Free
  <2>2. \/ \E op \in Crud : \E j, enabled, time :
              thr' = [thr EXCEPT ![t] = Request(op, j, enabled, time)]
        \/ \E j : thr' = [thr EXCEPT ![t] = Execution(j, FALSE)]
    BY <1>5 DEF Admin, CreateJob, UpdateJob, DeleteJob, RunJobNow, Receive, Crud
  <2>3. ASSUME NEW op \in Crud, NEW j, NEW enabled, NEW time,
               thr' = [thr EXCEPT ![t] = Request(op, j, enabled, time)]
        PROVE  DeliveryInv'
    <3> DEFINE req == Request(op, j, enabled, time)
    <3>1. req.op \in Crud \cup {"none"} /\ req.pc \in {"enter", "flock"}
      BY <1>3
    <3>2. thr' = [thr EXCEPT ![t] = req]
      BY <2>3
    <3> HIDE DEF req
    <3> QED
      BY <1>2, <2>1, <3>1, <3>2
  <2>4. ASSUME NEW j, thr' = [thr EXCEPT ![t] = Execution(j, FALSE)]
        PROVE  DeliveryInv'
    BY <1>2, <1>4, <2>1, <2>4
  <2> QED
    BY <2>2, <2>3, <2>4
<1>6. Used \subseteq Used'
  BY UsedStep DEF StepOfOneProcess, DeliveryInv, Born
<1>7. CASE UNCHANGED <<table, thr, sent, faults>>
  <2>1. Born'
    BY <1>6, <1>7 DEF StepOfOneProcess, DeliveryInv, Born
  <2>2. faults' = 0 => RecordedOrDue' /\ PrunesAfterRecord'
    BY <1>7 DEF StepOfOneProcess, DeliveryInv, RecordedOrDue, PrunesAfterRecord
  <2> QED
    BY <2>1, <2>2 DEF DeliveryInv
<1>8. CASE Cron
  <2>1. ASSUME NEW s \in Times, Tick(s)
        PROVE  DeliveryInv'
    BY <1>7, <2>1 DEF Tick, file
  <2>2. ASSUME NEW w \in Workers, NEW j \in Jobs, Misfire(w, j)
        PROVE  DeliveryInv'
    BY <1>7, <2>2 DEF Misfire, file, ledger
  <2>3. ASSUME NEW t \in Threads, NEW j \in Jobs, Fire(t, j)
        PROVE  DeliveryInv'
    <3>1. /\ thr' = [thr EXCEPT ![t] = Execution(j, TRUE)]
          /\ UNCHANGED <<table, sent>> /\ faults' = faults /\ thr[t].pc = "idle"
      BY <2>3 DEF Fire, Free, file, ledger
    <3> QED
      BY <1>2, <1>4, <3>1
  <2> QED
    BY <1>8, <2>1, <2>2, <2>3 DEF Cron
<1>9. ASSUME NEW w \in Workers, Boot(w)
      PROVE  DeliveryInv'
  BY <1>7, <1>9 DEF Boot, file, ledger
<1>10. ASSUME NEW w \in Workers, Crash(w)
       PROVE  DeliveryInv'
  <2>1. UNCHANGED <<table, sent>> /\ faults' # 0
    BY <1>1, <1>10 DEF Crash, file, ledger
  <2>2. \A u \in Threads : thr'[u] = IF Home[u] = w THEN Idle ELSE thr[u]
    BY <1>10 DEF Crash
  <2>3. ~Busy(Idle)
    BY DEF Busy, Idle, History
  <2>4. \A u \in Threads : Busy(thr'[u]) => thr'[u] = thr[u]
    BY <2>2, <2>3
  <2>5. Born'
    BY <1>6, <2>1, <2>4 DEF StepOfOneProcess, DeliveryInv, Born
  <2> QED
    BY <2>1, <2>5 DEF DeliveryInv
<1>11. CASE UNCHANGED vars
  BY <1>7, <1>11 DEF vars
<1> QED
  BY <1>5, <1>8, <1>9, <1>10, <1>11

(* In one process, without a crash or a failed write, once a job's execution *)
(* has ended its latest delivery is in its history, whatever values          *)
(* run_history_days takes, if each is a day or more: no request overwrites   *)
(* it and pruning never takes it.  If some are less, then either that is so  *)
(* or the history has no delivery at all, never an older one alone.          *)
THEOREM DeliveryRecordedCorrect ==
  ASSUME OneProcess
  PROVE  Spec => []DeliveryRecorded
<1>1. Init => StoreInv /\ HistoryInv /\ DeliveryInv
  <2> SUFFICES ASSUME Init PROVE StoreInv /\ HistoryInv /\ DeliveryInv
    OBVIOUS
  <2>1. StoreInv
    BY DEF Init, StoreInv, LockHeld, FreshIds, SnapshotCurrent, InSave, Creating,
           Idle
  <2>2. HistoryInv
    BY HistoryInit
  <2>3. \A u \in Threads : ~Busy(thr[u]) /\ thr[u].op = "none"
    BY DEF Init, Busy, Idle, History
  <2>4. \A j \in Jobs : table[j] = NoJob /\ ~(sent[j] > 0)
    BY DEF Init, EmptyTable
  <2>5. DeliveryInv
    BY <2>3, <2>4 DEF DeliveryInv, Born, RecordedOrDue, PrunesAfterRecord
  <2> QED
    BY <2>1, <2>2, <2>5
<1>2. TypeOK /\ Coherent /\ ExecutionInv /\ HistoryInv /\ StoreInv /\ DeliveryInv
         /\ [Next]_vars => StoreInv' /\ HistoryInv' /\ DeliveryInv'
  <2> SUFFICES ASSUME TypeOK, Coherent, ExecutionInv, HistoryInv, StoreInv, DeliveryInv,
                      [Next]_vars
               PROVE  StoreInv' /\ HistoryInv' /\ DeliveryInv'
    OBVIOUS
  <2>1. StoreStep /\ HistoryInv'
    BY OneProcess, StoreStepCorrect, HistoryStep
  <2>2. StepOfOneProcess
    BY <2>1 DEF StepOfOneProcess
  <2>3. DeliveryInv'
    BY <2>2, OneProcess, StepDelivery, OtherDelivery DEF Next, Fault
  <2> QED
    BY <2>1, <2>3 DEF StoreStep
<1>3. ExecutionInv /\ DeliveryInv => DeliveryRecorded
  <2> SUFFICES ASSUME ExecutionInv, DeliveryInv, faults = 0, NEW j \in Jobs,
                      table[j] # NoJob, flock[j] = None, sent[j] > 0
               PROVE  Shown(table[j].runs, sent[j])
    BY DEF DeliveryRecorded
  <2>1. \A t \in Threads : ~(thr[t].op = "append" /\ thr[t].job = j)
    BY NoneAssumption DEF ExecutionInv, LockFileHeld, Owns, History
  <2> QED
    BY <2>1 DEF DeliveryInv, RecordedOrDue
<1> QED
  BY <1>1, <1>2, <1>3, TypeCorrect, ExecutionCorrect, PTL DEF Spec

-----------------------------------------------------------------------------
(* One email for each trigger                                               *)

SingleWorker == \A v, w \in Workers : v = w

(* An execution that may still send its email. *)
Eager(r) == r.pc \in {"flock", "load", "fetch", "send"}
Ready(j) == {t \in Threads : thr[t].job = j /\ Eager(thr[t])}

(* 1 when an execution of j waits in a scheduler's pool.                    *)
Awaited(j) == IF \E w \in Workers : j \in due[w] THEN 1 ELSE 0

(* Every trigger of a job pays for one of: an email that was sent, a thread *)
(* that may send one, an execution in the pool.                             *)
TriggersPay ==
    \A j \in Jobs : /\ IsFiniteSet(Ready(j))
                    /\ sent[j] + Cardinality(Ready(j)) + Awaited(j) <= triggers[j]

(* How many threads may send an email after a step that adds one at most.   *)
LEMMA ReadyCount ==
  ASSUME NEW S, IsFiniteSet(S), NEW T, NEW t, T \subseteq S \cup {t}
  PROVE  /\ IsFiniteSet(T)
         /\ Cardinality(S) \in Nat /\ Cardinality(T) \in Nat
         /\ Cardinality(T) <= Cardinality(S) + 1
         /\ T \subseteq S => Cardinality(T) <= Cardinality(S)
         /\ t \in S /\ t \notin T => Cardinality(T) + 1 <= Cardinality(S)
<1>1. /\ IsFiniteSet(S \cup {t})
      /\ Cardinality(S \cup {t}) <= Cardinality(S) + 1
  <2>1. Cardinality(S) \in Nat
    BY FS_CardinalityType
  <2> QED
    BY <2>1, FS_AddElement
<1>2. IsFiniteSet(T) /\ Cardinality(T) <= Cardinality(S \cup {t})
  BY <1>1, FS_Subset
<1>3. /\ Cardinality(S) \in Nat /\ Cardinality(T) \in Nat
      /\ Cardinality(S \cup {t}) \in Nat
  BY <1>1, <1>2, FS_CardinalityType
<1>4. T \subseteq S => Cardinality(T) <= Cardinality(S)
  BY FS_Subset
<1>5. ASSUME t \in S, t \notin T
      PROVE  Cardinality(T) + 1 <= Cardinality(S)
  <2>1. T \subseteq S \ {t}
    BY <1>5
  <2>2. IsFiniteSet(S \ {t}) /\ Cardinality(S \ {t}) = Cardinality(S) - 1
    BY <1>5, FS_RemoveElement
  <2>3. Cardinality(T) <= Cardinality(S \ {t})
    BY <2>1, <2>2, FS_Subset
  <2> QED
    BY <1>3, <2>2, <2>3
<1> QED
  BY <1>1, <1>2, <1>3, <1>4, <1>5

(* A step that sends nothing and gives nobody an email to send.             *)
LEMMA QuietPay ==
  ASSUME TypeOK, TriggersPay, UNCHANGED <<sent, triggers>>,
         \A w \in Workers : due'[w] \subseteq due[w],
         \A u \in Threads : Eager(thr'[u]) =>
             Eager(thr[u]) /\ thr'[u].job = thr[u].job
  PROVE  TriggersPay'
<1> SUFFICES ASSUME NEW j \in Jobs
             PROVE  /\ IsFiniteSet(Ready(j)')
                    /\ sent[j] + Cardinality(Ready(j)') + Awaited(j)' <= triggers[j]
  BY DEF TriggersPay
<1>1. Ready(j)' \subseteq Ready(j)
  BY DEF Ready
<1>2. IsFiniteSet(Ready(j)) /\ sent[j] + Cardinality(Ready(j)) + Awaited(j) <= triggers[j]
  BY DEF TriggersPay
<1>3. IsFiniteSet(Ready(j)') /\ Cardinality(Ready(j)') <= Cardinality(Ready(j))
      /\ Cardinality(Ready(j)) \in Nat /\ Cardinality(Ready(j)') \in Nat
  BY <1>1, <1>2, FS_Subset, FS_CardinalityType
<1>4. Awaited(j)' <= Awaited(j) /\ Awaited(j) \in Nat /\ Awaited(j)' \in Nat
  BY DEF Awaited
<1>5. sent[j] \in Nat /\ triggers[j] \in Nat
  BY DEF TypeOK
<1> QED
  BY <1>2, <1>3, <1>4, <1>5

(* A step of one thread of that kind.                                       *)
LEMMA QuietThreadPay ==
  ASSUME TypeOK, TriggersPay, NEW t \in Threads, NEW r,
         thr' = [thr EXCEPT ![t] = r], UNCHANGED <<sent, triggers, due>>,
         Eager(r) => Eager(thr[t]) /\ r.job = thr[t].job
  PROVE  TriggersPay'
<1>1. thr'[t] = r /\ \A u \in Threads \ {t} : thr'[u] = thr[u]
  BY DEF TypeOK
<1> QED
  BY <1>1, QuietPay

(* The threads that may send after t has been given the record r.           *)
LEMMA ReadyAfter ==
  ASSUME TypeOK, NEW t \in Threads, NEW r, thr' = [thr EXCEPT ![t] = r]
  PROVE  \A j : /\ Ready(j)' \subseteq Ready(j) \cup {t}
                /\ ~(Eager(r) /\ r.job = j) => t \notin Ready(j)'
                                            /\ Ready(j)' \subseteq Ready(j)
<1>1. thr'[t] = r /\ \A u \in Threads \ {t} : thr'[u] = thr[u]
  BY DEF TypeOK
<1> QED
  BY <1>1 DEF Ready

(* The email that is sent is the one the thread was going to send.          *)
LEMMA SendPay ==
  ASSUME TypeOK, Coherent, TriggersPay, NEW t \in Threads, SendEmail(t)
  PROVE  TriggersPay'
<1> DEFINE i == thr[t].job
           r == [thr[t] EXCEPT !.pc = "enter", !.op = "append", !.mail = sent[i] + 1]
<1>1. /\ i \in Jobs /\ Eager(thr[t]) /\ t \in Ready(i)
      /\ thr' = [thr EXCEPT ![t] = r]
      /\ sent' = [sent EXCEPT ![i] = sent[i] + 1]
      /\ UNCHANGED <<triggers, due>>
  BY DEF SendEmail, At, Coherent, RecordOK, Eager, Ready
<1>2. ~Eager(r)
  BY DEF TypeOK, Thread, Eager
<1> HIDE DEF r
<1> SUFFICES ASSUME NEW j \in Jobs
             PROVE  /\ IsFiniteSet(Ready(j)')
                    /\ sent'[j] + Cardinality(Ready(j)') + Awaited(j)' <= triggers[j]
  BY <1>1 DEF TriggersPay
<1>3. Ready(j)' \subseteq Ready(j) /\ t \notin Ready(j)'
  BY <1>1, <1>2, ReadyAfter
<1>4. IsFiniteSet(Ready(j)) /\ sent[j] + Cardinality(Ready(j)) + Awaited(j) <= triggers[j]
  BY DEF TriggersPay
<1>5. /\ IsFiniteSet(Ready(j)')
      /\ Cardinality(Ready(j)) \in Nat /\ Cardinality(Ready(j)') \in Nat
      /\ Cardinality(Ready(j)') <= Cardinality(Ready(j))
      /\ t \in Ready(j) => Cardinality(Ready(j)') + 1 <= Cardinality(Ready(j))
  BY <1>3, <1>4, ReadyCount
<1>6. Awaited(j)' = Awaited(j) /\ Awaited(j) \in Nat
  BY <1>1 DEF Awaited
<1>7. sent[j] \in Nat /\ triggers[j] \in Nat
  BY DEF TypeOK
<1>8. sent'[j] = IF j = i THEN sent[j] + 1 ELSE sent[j]
  BY <1>1 DEF TypeOK
<1> QED
  BY <1>1, <1>4, <1>5, <1>6, <1>7, <1>8

(* The steps of a thread that has something to do. *)
LEMMA StepPay ==
  ASSUME TypeOK, Coherent, TriggersPay, NEW t \in Threads,
         Step(t) \/ SaveFails(t) \/ SkipUnlockable(t)
  PROVE  TriggersPay'
<1> DEFINE r == thr[t]
<1>1. r \in Thread
  BY DEF TypeOK
<1>2. ~Eager(Idle)
  BY DEF Eager, Idle
<1>3. CASE \/ RejectUpdate(t) \/ Register(t) \/ SkipBusyJob(t)
           \/ SkipUnlockable(t) \/ ReleaseJobLock(t)
  <2>1. Finish(t) /\ UNCHANGED <<sent, triggers, due>>
    BY <1>3 DEF RejectUpdate, Register, SkipBusyJob, SkipUnlockable,
                ReleaseJobLock, ledger
  <2> QED
    BY <1>2, <2>1, QuietThreadPay DEF Finish
<1>4. CASE \/ SaveBegin(t) \/ Unregister(t) \/ AcquireJobLock(t) \/ LoadJob(t)
           \/ Fetch(t) \/ DiscardRunning(t)
  <2>1. UNCHANGED <<sent, triggers, due>>
    BY <1>4 DEF SaveBegin, Unregister, AcquireJobLock, LoadJob, Fetch,
                DiscardRunning, ledger
  <2>2. \/ Finish(t)
        \/ \E pc : Goto(t, pc) /\ (pc \in {"load", "fetch", "send"} => Eager(r))
                   /\ pc # "flock"
    BY <1>4 DEF SaveBegin, Unregister, AcquireJobLock, LoadJob, Fetch,
                DiscardRunning, At, Eager
  <2>3. CASE Finish(t)
    BY <1>2, <2>1, <2>3, QuietThreadPay DEF Finish
  <2>4. ASSUME NEW pc, Goto(t, pc), pc # "flock",
               pc \in {"load", "fetch", "send"} => Eager(r)
        PROVE  TriggersPay'
    <3> DEFINE q == [r EXCEPT !.pc = pc]
    <3>1. thr' = [thr EXCEPT ![t] = q] /\ q.pc = pc /\ q.job = r.job
      BY <1>1, <2>4 DEF Goto, Thread
    <3> HIDE DEF q
    <3>2. Eager(q) => Eager(r) /\ q.job = r.job
      BY <2>4, <3>1 DEF Eager
    <3> QED
      BY <2>1, <3>1, <3>2, QuietThreadPay
  <2> QED
    BY <2>2, <2>3, <2>4
<1>5. CASE Enter(t)
  <2> DEFINE q == [r EXCEPT !.pc = "save", !.snap = Load]
  <2>1. thr' = [thr EXCEPT ![t] = q] /\ UNCHANGED <<sent, triggers, due>>
    BY <1>5 DEF Enter, ledger
  <2>2. ~Eager(q)
    BY <1>1 DEF Eager, Thread
  <2> HIDE DEF q
  <2> QED
    BY <2>1, <2>2, QuietThreadPay
<1>6. CASE RunFails(t)
  <2> DEFINE q == [r EXCEPT !.pc = "enter", !.op = "error"]
  <2>1. thr' = [thr EXCEPT ![t] = q] /\ UNCHANGED <<sent, triggers, due>>
    BY <1>6 DEF RunFails, ledger
  <2>2. ~Eager(q)
    BY <1>1 DEF Eager, Thread
  <2> HIDE DEF q
  <2> QED
    BY <2>1, <2>2, QuietThreadPay
<1>7. CASE Save(t) \/ SaveFails(t)
  <2>1. Writing(t) /\ UNCHANGED <<sent, triggers, due>>
    BY <1>7 DEF Save, SaveFails, ledger
  <2>2. PICK next \in {AfterSave(t), AfterFailure(t)} : Leave(t, next)
    BY <1>7 DEF Save, SaveFails
  <2> DEFINE q == [next EXCEPT !.snap = EmptyTable]
  <2>3. thr' = [thr EXCEPT ![t] = q]
    BY <2>2 DEF Leave
  <2>4. q \in Thread /\ q.pc \in {"idle", "register", "unregister", "enter", "discard"}
    <3>1. q \in Thread
      BY <2>1, AfterWriteOK
    <3>2. next.pc \in {"idle", "register", "unregister", "enter", "discard"}
      <4>1. \/ next = Idle
            \/ \E pc \in {"register", "unregister"} : next = [r EXCEPT !.pc = pc]
            \/ \E pc \in {"enter", "discard"} : \E op :
                  next = [r EXCEPT !.pc = pc, !.op = op]
        BY <2>1, AfterWriteShape
      <4>2. CASE next = Idle
        BY <4>2 DEF Idle
      <4>3. ASSUME NEW pc \in {"register", "unregister"}, next = [r EXCEPT !.pc = pc]
            PROVE  next.pc \in {"register", "unregister"}
        BY <1>1, <4>3 DEF Thread
      <4>4. ASSUME NEW pc \in {"enter", "discard"}, NEW op,
                   next = [r EXCEPT !.pc = pc, !.op = op]
            PROVE  next.pc \in {"enter", "discard"}
        BY <1>1, <4>4 DEF Thread
      <4> QED
        BY <4>1, <4>2, <4>3, <4>4
    <3>3. q.pc = next.pc
      OBVIOUS
    <3> QED
      BY <3>1, <3>2, <3>3
  <2>5. ~Eager(q)
    BY <2>4 DEF Eager
  <2> HIDE DEF q
  <2> QED
    BY <2>1, <2>3, <2>5, QuietThreadPay
<1> QED
  BY <1>3, <1>4, <1>5, <1>6, <1>7, SendPay DEF Step

(* Run-now pays for the execution that it starts.                           *)
LEMMA AdminPay ==
  ASSUME TypeOK, Coherent, TriggersPay, NEW t \in Threads, Admin(t)
  PROVE  TriggersPay'
<1>1. ASSUME NEW op, NEW i, NEW enabled, NEW time,
             thr' = [thr EXCEPT ![t] = Request(op, i, enabled, time)],
             UNCHANGED <<sent, triggers, due>>
      PROVE  TriggersPay'
  <2> DEFINE r == Request(op, i, enabled, time)
  <2>1. ~Eager(r)
    BY DEF Eager, Request, Idle
  <2>2. thr' = [thr EXCEPT ![t] = r]
    BY <1>1
  <2> HIDE DEF r
  <2> QED
    BY <1>1, <2>1, <2>2, QuietThreadPay
<1>2. ASSUME NEW i \in Jobs, RunJobNow(t, i)
      PROVE  TriggersPay'
  <2> DEFINE r == Execution(i, FALSE)
  <2>1. /\ thr' = [thr EXCEPT ![t] = r] /\ UNCHANGED <<sent, due>>
        /\ triggers' = [triggers EXCEPT ![i] = @ + 1]
    BY <1>2 DEF RunJobNow
  <2>2. r.job = i
    BY DEF Execution, Idle
  <2> HIDE DEF r
  <2> SUFFICES ASSUME NEW j \in Jobs
               PROVE  /\ IsFiniteSet(Ready(j)')
                      /\ sent[j] + Cardinality(Ready(j)') + Awaited(j)' <= triggers'[j]
    BY <2>1 DEF TriggersPay
  <2>3. /\ Ready(j)' \subseteq Ready(j) \cup {t}
        /\ j # i => Ready(j)' \subseteq Ready(j)
    BY <2>1, <2>2, ReadyAfter
  <2>4. IsFiniteSet(Ready(j)) /\ sent[j] + Cardinality(Ready(j)) + Awaited(j) <= triggers[j]
    BY DEF TriggersPay
  <2>5. /\ IsFiniteSet(Ready(j)')
        /\ Cardinality(Ready(j)) \in Nat /\ Cardinality(Ready(j)') \in Nat
        /\ Cardinality(Ready(j)') <= Cardinality(Ready(j)) + 1
        /\ j # i => Cardinality(Ready(j)') <= Cardinality(Ready(j))
    BY <2>3, <2>4, ReadyCount
  <2>6. Awaited(j)' = Awaited(j) /\ Awaited(j) \in Nat
    BY <2>1 DEF Awaited
  <2>7. sent[j] \in Nat /\ triggers[j] \in Nat
    BY DEF TypeOK
  <2>8. triggers'[j] = IF j = i THEN triggers[j] + 1 ELSE triggers[j]
    BY <2>1 DEF TypeOK
  <2> QED
    BY <2>4, <2>5, <2>6, <2>7, <2>8
<1>3. ASSUME NEW j \in Jobs, NEW enabled \in BOOLEAN, NEW time \in Times,
             CreateJob(t, j, enabled, time) \/ UpdateJob(t, j, enabled, time)
      PROVE  TriggersPay'
  <2>1. /\ UNCHANGED <<sent, triggers, due>>
        /\ \E op : thr' = [thr EXCEPT ![t] = Request(op, j, enabled, time)]
    BY <1>3 DEF CreateJob, UpdateJob, Receive, ledger
  <2> QED
    BY <1>1, <2>1
<1>4. ASSUME NEW j \in Jobs, DeleteJob(t, j)
      PROVE  TriggersPay'
  BY <1>1, <1>4 DEF DeleteJob, Receive, ledger
<1> QED
  BY <1>2, <1>3, <1>4 DEF Admin

(* A tick pays for the execution that it submits; the pool has one worker   *)
(* process to feed, and not more than one execution of a job waiting.       *)
LEMMA CronPay ==
  ASSUME TypeOK, Coherent, TriggersPay, SingleWorker, Cron
  PROVE  TriggersPay'
<1>1. ASSUME NEW s \in Times, Tick(s)
      PROVE  TriggersPay'
  <2> DEFINE hit == {j \in Jobs : \E w \in up : sched[w][j] = s}
  <2>1. /\ UNCHANGED <<thr, sent>>
        /\ triggers' = [j \in Jobs |-> triggers[j] + (IF j \in hit THEN 1 ELSE 0)]
        /\ due' = [w \in Workers |-> due[w] \cup
                     {j \in Jobs : /\ w \in up
                                   /\ sched[w][j] = s
                                   /\ ~CronBusy(w, j)}]
    BY <1>1 DEF Tick
  <2>2. \A w \in Workers, j \in Jobs : j \in due'[w] => j \in due[w] \/ j \in hit
    BY <2>1
  <2> HIDE DEF hit
  <2> SUFFICES ASSUME NEW j \in Jobs
               PROVE  /\ IsFiniteSet(Ready(j)')
                      /\ sent[j] + Cardinality(Ready(j)') + Awaited(j)' <= triggers'[j]
    BY <2>1 DEF TriggersPay
  <2>3. Ready(j)' = Ready(j)
    BY <2>1 DEF Ready
  <2>4. IsFiniteSet(Ready(j)) /\ sent[j] + Cardinality(Ready(j)) + Awaited(j) <= triggers[j]
    BY DEF TriggersPay
  <2>5. Cardinality(Ready(j)) \in Nat /\ sent[j] \in Nat /\ triggers[j] \in Nat
    BY <2>4, FS_CardinalityType DEF TypeOK
  <2>6. /\ Awaited(j) \in {0, 1} /\ Awaited(j)' \in {0, 1}
        /\ j \notin hit => Awaited(j)' <= Awaited(j)
    BY <2>2 DEF Awaited
  <2>7. triggers'[j] = triggers[j] + (IF j \in hit THEN 1 ELSE 0)
    BY <2>1
  <2> QED
    BY <2>3, <2>4, <2>5, <2>6, <2>7
<1>2. ASSUME NEW w \in Workers, NEW i \in Jobs, Misfire(w, i)
      PROVE  TriggersPay'
  <2>1. /\ UNCHANGED <<thr, sent, triggers>>
        /\ \A v \in Workers : due'[v] \subseteq due[v]
    BY <1>2 DEF Misfire, ledger, TypeOK
  <2> QED
    BY <2>1, QuietPay
<1>3. ASSUME NEW t \in Threads, NEW i \in Jobs, Fire(t, i)
      PROVE  TriggersPay'
  <2> DEFINE r == Execution(i, TRUE)
             h == Home[t]
  <2>1. /\ thr' = [thr EXCEPT ![t] = r] /\ UNCHANGED <<sent, triggers>>
        /\ due' = [due EXCEPT ![h] = @ \ {i}]
        /\ i \in due[h]
        /\ h \in Workers
    BY <1>3, HomeAssumption DEF Fire, ledger
  <2>2. r.job = i
    BY DEF Execution, Idle
  <2> HIDE DEF r, h
  <2> SUFFICES ASSUME NEW j \in Jobs
               PROVE  /\ IsFiniteSet(Ready(j)')
                      /\ sent[j] + Cardinality(Ready(j)') + Awaited(j)' <= triggers[j]
    BY <2>1 DEF TriggersPay
  <2>3. /\ Ready(j)' \subseteq Ready(j) \cup {t}
        /\ j # i => Ready(j)' \subseteq Ready(j)
    BY <2>1, <2>2, ReadyAfter
  <2>4. IsFiniteSet(Ready(j)) /\ sent[j] + Cardinality(Ready(j)) + Awaited(j) <= triggers[j]
    BY DEF TriggersPay
  <2>5. /\ IsFiniteSet(Ready(j)')
        /\ Cardinality(Ready(j)) \in Nat /\ Cardinality(Ready(j)') \in Nat
        /\ Cardinality(Ready(j)') <= Cardinality(Ready(j)) + 1
        /\ j # i => Cardinality(Ready(j)') <= Cardinality(Ready(j))
    BY <2>3, <2>4, ReadyCount
  <2>6. /\ Awaited(i) = 1 /\ Awaited(i)' = 0
        /\ j # i => Awaited(j)' = Awaited(j)
        /\ Awaited(j) \in {0, 1}
    <3>1. due'[h] = due[h] \ {i} /\ \A w \in Workers : w = h
      BY <2>1 DEF TypeOK, SingleWorker
    <3> QED
      BY <2>1, <3>1 DEF Awaited
  <2>7. sent[j] \in Nat /\ triggers[j] \in Nat
    BY DEF TypeOK
  <2> QED
    BY <2>4, <2>5, <2>6, <2>7
<1> QED
  BY <1>1, <1>2, <1>3 DEF Cron

(* With one worker process a job sends one email at most for each cron tick *)
(* or run-now request, whatever its threads do and however often the worker *)
(* dies.                                                                    *)
THEOREM NoDuplicateExecutionCorrect ==
  ASSUME SingleWorker
  PROVE  Spec => []NoDuplicateExecution
<1>1. Init => TriggersPay
  <2> SUFFICES ASSUME Init, NEW j \in Jobs
               PROVE  /\ IsFiniteSet(Ready(j))
                      /\ sent[j] + Cardinality(Ready(j)) + Awaited(j) <= triggers[j]
    BY DEF TriggersPay
  <2>1. Ready(j) = {}
    BY DEF Init, Ready, Eager, Idle
  <2>2. sent[j] = 0 /\ triggers[j] = 0 /\ Awaited(j) = 0
    BY DEF Init, Awaited
  <2> QED
    BY <2>1, <2>2, FS_EmptySet
<1>2. TypeOK /\ Coherent /\ TriggersPay /\ [Next]_vars => TriggersPay'
  <2> SUFFICES ASSUME TypeOK, Coherent, TriggersPay, [Next]_vars
               PROVE  TriggersPay'
    OBVIOUS
  <2>1. ASSUME NEW w \in Workers, Boot(w)
        PROVE  TriggersPay'
    BY <2>1, QuietPay DEF Boot, ledger
  <2>2. ASSUME NEW w \in Workers, Crash(w)
        PROVE  TriggersPay'
    <3>1. UNCHANGED <<sent, triggers>> /\ \A v \in Workers : due'[v] \subseteq due[v]
      BY <2>2 DEF Crash, ledger, TypeOK
    <3>2. \A u \in Threads : thr'[u] = Idle \/ thr'[u] = thr[u]
      BY <2>2 DEF Crash
    <3>3. ~Eager(Idle)
      BY DEF Eager, Idle
    <3> QED
      BY <3>1, <3>2, <3>3, QuietPay
  <2>3. CASE UNCHANGED vars
    BY <2>3, QuietPay DEF vars
  <2> QED
    BY <2>1, <2>2, <2>3, StepPay, AdminPay, CronPay, SingleWorker DEF Next, Fault
<1>3. TypeOK /\ TriggersPay => NoDuplicateExecution
  <2> SUFFICES ASSUME TypeOK, TriggersPay, NEW j \in Jobs
               PROVE  sent[j] <= triggers[j]
    BY DEF NoDuplicateExecution
  <2>1. IsFiniteSet(Ready(j)) /\ sent[j] + Cardinality(Ready(j)) + Awaited(j) <= triggers[j]
    BY DEF TriggersPay
  <2>2. /\ Cardinality(Ready(j)) \in Nat /\ sent[j] \in Nat /\ triggers[j] \in Nat
        /\ Awaited(j) \in Nat
    BY <2>1, FS_CardinalityType DEF TypeOK, Awaited
  <2> QED
    BY <2>1, <2>2
<1> QED
  BY <1>1, <1>2, <1>3, TypeCorrect, PTL DEF Spec
=============================================================================
