------------------------- MODULE ReportJobs_proofs -------------------------
(***************************************************************************)
(* Proofs about ReportJobs, for each of its four kinds, any number of      *)
(* processes, executions and administrators, and any number of parts,      *)
(* failing writes and crashes.                                             *)
(***************************************************************************)
EXTENDS ReportJobs, TLAPS

Record == [status : {"ok", "error"}, sent : Nat]
Line == [run : Executions, status : {"ok", "error"}, sent : Nat]
Table == [exists : BOOLEAN, enabled : BOOLEAN, runs : SUBSET Line]

(* Where an execution is, from the first step to the last.                 *)
BeforeMail == {"idle", "mark", "find", "collect"}
AfterMail == {"append", "appending", "prune", "pruning", "discard", "unlock", "raised",
              "lost", "done"}
Places == BeforeMail \cup {"mail"} \cup AfterMail
Holding == UnderWay \cup {"mark", "unlock", "raised"}

Anywhere == Places \cup {"editing"}
Thread == [pc : Anywhere, base : Table, record : Record, parts : Nat]

Types ==
    /\ kind \in Kinds
    /\ file \in Table
    /\ jobLock \in Executions \cup {NoOne}
    /\ running \subseteq Workers
    /\ thread \in [Executions \cup Admins -> Thread]
    /\ \A e \in Executions : thread[e].pc \in Places
    /\ mailed \in [Executions -> Nat]

(* The lock file of the job is with the execution that is in its middle.    *)
LockMatches == \A e \in Executions : thread[e].pc \in Holding <=> jobLock = e

(* What an execution has sent, and what its record says of it.             *)
Sending(e) ==
    /\ thread[e].pc \in BeforeMail => mailed[e] = 0 /\ thread[e].record = NoRecord
    /\ thread[e].pc = "mail" => thread[e].record.sent = 0 /\ mailed[e] < thread[e].parts
    /\ thread[e].pc \in {"append", "appending"} =>
          /\ thread[e].record.status = "ok" =>
                mailed[e] = thread[e].parts /\ thread[e].record.sent = mailed[e]
          /\ thread[e].record.sent <= mailed[e]

(* A line of a history is true and final: no more is sent by its execution. *)
LineTrue(r) ==
    /\ thread[r.run].pc \in AfterMail
    /\ r.status = "ok" => mailed[r.run] = thread[r.run].parts /\ r.sent = mailed[r.run]
    /\ r.sent <= mailed[r.run]

(* Also in what a thread has loaded and will write.                         *)
HistoriesTrue ==
    /\ \A r \in file.runs : LineTrue(r)
    /\ \A t \in Executions \cup Admins : \A r \in thread[t].base.runs : LineTrue(r)

-----------------------------------------------------------------------------
(* One thread goes on, and the others stay as they are.                    *)

Threads == Executions \cup Admins
Only(t) == \A s \in Threads : s # t => thread'[s] = thread[s]

(* Move changes the place and drops what was loaded.                       *)
LEMMA MoveStep ==
  ASSUME Types, NEW t \in Threads, NEW pc \in Anywhere, Move(t, pc)
  PROVE  /\ thread' \in [Threads -> Thread]
         /\ thread'[t].pc = pc /\ thread'[t].base = Written
         /\ thread'[t].record = thread[t].record /\ thread'[t].parts = thread[t].parts
         /\ Only(t)
  BY DEF Types, Threads, Thread, Move, Only, Written, Table, Line

(* Load keeps what it has loaded.                                          *)
LEMMA LoadStep ==
  ASSUME Types, NEW t \in Threads, NEW from, NEW to \in Anywhere, Load(t, from, to)
  PROVE  /\ thread' \in [Threads -> Thread]
         /\ thread'[t].pc = to /\ thread'[t].base = file
         /\ thread'[t].record = thread[t].record /\ thread'[t].parts = thread[t].parts
         /\ Only(t)
  BY DEF Types, Threads, Thread, Load, Only

(* A report that is ready has its number of parts.                         *)
LEMMA ReadyStep ==
  ASSUME Types, NEW t \in Threads, NEW n \in Nat, Ready(t, n)
  PROVE  /\ thread' \in [Threads -> Thread]
         /\ thread'[t].pc = "mail" /\ thread'[t].base = thread[t].base
         /\ thread'[t].parts = n /\ thread'[t].record.sent = thread[t].record.sent
         /\ Only(t)
<1> DEFINE status == IF kind \in {"hygiene", "policy"} THEN "ok" ELSE thread[t].record.status
           record == [thread[t].record EXCEPT !.status = status]
           r == [thread[t] EXCEPT !.pc = "mail", !.parts = n, !.record = record]
<1>1. /\ thread[t] \in Thread /\ thread[t].base \in Table
      /\ thread[t].record \in Record
  BY DEF Types, Threads, Thread
<1>2. record \in Record /\ record.sent = thread[t].record.sent
  BY <1>1 DEF Record
<1>3. thread' = [thread EXCEPT ![t] = r]
  BY <1>1 DEF Types, Threads, Thread, Ready
<1> HIDE DEF record
<1>4. /\ r \in Thread /\ r.pc = "mail" /\ r.base = thread[t].base /\ r.parts = n
      /\ r.record = record
  BY <1>1, <1>2 DEF Thread, Anywhere, Places, AfterMail
<1> HIDE DEF r
<1> QED
  BY <1>2, <1>3, <1>4 DEF Types, Threads, Only

(* A failure makes the record an "error".                                  *)
LEMMA FailsStep ==
  ASSUME Types, NEW t \in Threads, Fails(t)
  PROVE  /\ thread' \in [Threads -> Thread]
         /\ thread'[t].pc = "append" /\ thread'[t].base = thread[t].base
         /\ thread'[t].parts = thread[t].parts
         /\ thread'[t].record.status = "error"
         /\ thread'[t].record.sent = thread[t].record.sent
         /\ Only(t)
<1> DEFINE record == [thread[t].record EXCEPT !.status = "error"]
           r == [thread[t] EXCEPT !.pc = "append", !.record = record]
<1>1. /\ thread[t] \in Thread /\ thread[t].base \in Table
      /\ thread[t].record \in Record /\ thread[t].parts \in Nat
  BY DEF Types, Threads, Thread
<1>2. record \in Record /\ record.sent = thread[t].record.sent /\ record.status = "error"
  BY <1>1 DEF Record
<1>3. thread' = [thread EXCEPT ![t] = r]
  BY <1>1 DEF Types, Threads, Thread, Fails
<1> HIDE DEF record
<1>4. /\ r \in Thread /\ r.pc = "append" /\ r.base = thread[t].base
      /\ r.parts = thread[t].parts /\ r.record = record
  BY <1>1, <1>2 DEF Thread, Anywhere, Places, AfterMail
<1> HIDE DEF r
<1> QED
  BY <1>2, <1>3, <1>4 DEF Types, Threads, Only

(* The last part completes the record.                                     *)
LEMMA SendStep ==
  ASSUME Types, NEW e \in Executions, SendPart(e)
  PROVE  /\ thread' \in [Threads -> Thread]
         /\ mailed' \in [Executions -> Nat]
         /\ mailed'[e] = mailed[e] + 1
         /\ \A x \in Executions : x # e => mailed'[x] = mailed[x]
         /\ thread'[e].base = thread[e].base
         /\ thread'[e].parts = thread[e].parts
         /\ \/ /\ mailed[e] + 1 < thread[e].parts
               /\ thread' = thread
            \/ /\ ~(mailed[e] + 1 < thread[e].parts)
               /\ thread'[e].pc = "append"
               /\ thread'[e].record.status = "ok"
               /\ thread'[e].record.sent = thread[e].parts
         /\ Only(e)
<1> DEFINE record == [status |-> "ok", sent |-> thread[e].parts]
           r == [thread[e] EXCEPT !.pc = "append", !.record = record]
<1>1. /\ thread[e] \in Thread /\ thread[e].base \in Table /\ thread[e].parts \in Nat
      /\ mailed[e] \in Nat /\ e \in Threads
  BY DEF Types, Threads, Thread
<1>2. record \in Record /\ record.status = "ok" /\ record.sent = thread[e].parts
  BY <1>1 DEF Record
<1>3. /\ mailed' = [mailed EXCEPT ![e] = @ + 1]
      /\ thread' = IF mailed'[e] < thread[e].parts THEN thread
                   ELSE [thread EXCEPT ![e] = r]
  BY <1>1 DEF SendPart, Thread
<1>4. /\ mailed' \in [Executions -> Nat] /\ mailed'[e] = mailed[e] + 1
      /\ \A x \in Executions : x # e => mailed'[x] = mailed[x]
  BY <1>1, <1>3 DEF Types
<1> HIDE DEF record
<1>5. /\ r \in Thread /\ r.pc = "append" /\ r.base = thread[e].base
      /\ r.parts = thread[e].parts /\ r.record = record
  BY <1>1, <1>2 DEF Thread, Anywhere, Places, AfterMail
<1> HIDE DEF r
<1> QED
  BY <1>1, <1>2, <1>3, <1>4, <1>5 DEF Types, Threads, Only

(* What follows a failed write is one of these.                            *)
LEMMA SaveFailsStep ==
  ASSUME Types, NEW e \in Executions, SaveFails(e)
  PROVE  /\ thread' \in [Threads -> Thread]
         /\ thread'[e].pc \in {"append", "discard", "raised"}
         /\ thread'[e].pc = "raised" <=> kind # "review"
         /\ thread'[e].base = Written
         /\ thread'[e].record = NoRecord
         /\ thread'[e].parts = thread[e].parts
         /\ Only(e)
<1> DEFINE r == [thread[e] EXCEPT !.pc = AfterFailedSave(e), !.base = Written,
                                  !.record = NoRecord]
<1>1. /\ AfterFailedSave(e) \in {"append", "discard", "raised"}
      /\ AfterFailedSave(e) = "raised" <=> kind # "review"
  BY DEF Types, Thread, Record, AfterFailedSave, Threads
<1>2. thread[e] \in Thread /\ e \in Threads /\ thread[e].parts \in Nat
  BY DEF Types, Threads, Thread
<1>3. Written \in Table /\ NoRecord \in Record
  BY DEF Written, Table, NoRecord, Record
<1>4. thread' = [thread EXCEPT ![e] = r]
  BY <1>2 DEF SaveFails, Thread
<1>5. AfterFailedSave(e) \in Anywhere
  BY <1>1 DEF Anywhere, Places, AfterMail
<1>6. /\ r \in Thread /\ r.pc = AfterFailedSave(e) /\ r.base = Written
      /\ r.record = NoRecord /\ r.parts = thread[e].parts
  BY <1>2, <1>3, <1>5 DEF Thread
<1> HIDE DEF r
<1> QED
  BY <1>1, <1>2, <1>4, <1>6 DEF Types, Threads, Only

(* A crash ends what the worker was at.                                    *)
LEMMA CrashStep ==
  ASSUME Types, NEW w \in Workers, CrashWorker(w)
  PROVE  /\ thread' \in [Threads -> Thread]
         /\ \A t \in Threads :
              /\ thread'[t].base = thread[t].base
              /\ thread'[t].record = thread[t].record
              /\ thread'[t].parts = thread[t].parts
              /\ IF Home[t] = w /\ thread[t].pc # "idle"
                 THEN thread'[t].pc = "done" ELSE thread'[t] = thread[t]
         /\ running' = running \ {w}
         /\ jobLock' = IF jobLock \in Threads /\ Home[jobLock] = w
                          /\ thread[jobLock].pc # "idle"
                       THEN NoOne ELSE jobLock
<1> DEFINE its == {t \in Threads : Home[t] = w /\ ~In(t, "idle")}
           r(t) == IF t \in its THEN [thread[t] EXCEPT !.pc = "done"] ELSE thread[t]
<1>1. thread' = [t \in Threads |-> r(t)]
  BY DEF Types, Threads, CrashWorker
<1>2. ASSUME NEW t \in Threads
      PROVE  /\ r(t) \in Thread
             /\ r(t).base = thread[t].base /\ r(t).record = thread[t].record
             /\ r(t).parts = thread[t].parts
             /\ IF Home[t] = w /\ thread[t].pc # "idle" THEN r(t).pc = "done"
                ELSE r(t) = thread[t]
  <2>1. thread[t] \in Thread
    BY DEF Types, Threads
  <2>2. LET d == [thread[t] EXCEPT !.pc = "done"]
        IN  /\ d \in Thread /\ d.base = thread[t].base /\ d.record = thread[t].record
            /\ d.parts = thread[t].parts /\ d.pc = "done"
    BY <2>1 DEF Thread, Anywhere, Places, AfterMail
  <2> QED
    BY <2>1, <2>2 DEF In
<1>3. /\ running' = running \ {w}
      /\ jobLock' = IF jobLock \in its THEN NoOne ELSE jobLock
  BY DEF CrashWorker, Threads
<1> HIDE DEF r
<1>4. /\ thread' \in [Threads -> Thread]
      /\ \A t \in Threads : thread'[t] = r(t)
  BY <1>1, <1>2
<1> QED
  BY <1>2, <1>3, <1>4 DEF In

-----------------------------------------------------------------------------
(* Types *)

(* A line of a record fits the history.                                    *)
LEMMA EntryType == ASSUME Types, NEW e \in Executions PROVE Entry(e) \in Line
  BY DEF Types, Entry, Line, Thread, Record

(* What _append_run and the requests write is a job again.                 *)
LEMMA WrittenTypes ==
  ASSUME NEW b \in Table, NEW l \in Line
  PROVE  /\ [b EXCEPT !.runs = IF b.exists THEN @ \cup {l} ELSE @] \in Table
         /\ [b EXCEPT !.runs = IF b.exists THEN @ \cup {l} ELSE @].runs
               \subseteq b.runs \cup {l}
         /\ [b EXCEPT !.enabled = FALSE] \in Table
         /\ [b EXCEPT !.enabled = FALSE].runs = b.runs
         /\ [b EXCEPT !.exists = FALSE, !.runs = {}] \in Table
         /\ [b EXCEPT !.exists = FALSE, !.runs = {}].runs = {}
  BY DEF Table

(* The initial state is well typed.                                        *)
LEMMA InitTypes == ASSUME ReportInit PROVE Types
<1>1. Written \in Table /\ NoRecord \in Record /\ file \in Table
  BY DEF Written, Table, NoRecord, Record, ReportInit
<1>2. [pc |-> "idle", base |-> Written, record |-> NoRecord, parts |-> 0] \in Thread
  BY <1>1 DEF Thread, Anywhere, Places, BeforeMail
<1> QED
  BY <1>1, <1>2 DEF ReportInit, Types, Places, BeforeMail

(* The places that are named in the actions.                               *)
LEMMA PlacesAre ==
  /\ {"idle", "mark", "find", "collect", "mail", "append", "appending", "prune",
      "pruning", "discard", "unlock", "raised", "lost", "done"} = Places
  /\ Places \subseteq Anywhere /\ "editing" \in Anywhere
  BY DEF Places, BeforeMail, AfterMail, Anywhere

(* What the step of an execution may change of the threads.                *)
LEMMA OthersKeepPlace ==
  ASSUME Types, NEW e \in Executions,
         thread' \in [Threads -> Thread], Only(e), thread'[e].pc \in Places
  PROVE  /\ thread' \in [Executions \cup Admins -> Thread]
         /\ \A x \in Executions : thread'[x].pc \in Places
  BY DEF Types, Threads, Only

(* A step to a place of an execution.                                      *)
LEMMA MoveTypes ==
  ASSUME Types, NEW e \in Executions, NEW pc \in Places, Move(e, pc)
  PROVE  /\ thread' \in [Threads -> Thread] /\ Only(e)
         /\ thread'[e].pc = pc /\ thread'[e].base = Written
         /\ thread'[e].record = thread[e].record
         /\ thread'[e].parts = thread[e].parts
<1>1. e \in Threads /\ pc \in Anywhere
  BY DEF Threads, Anywhere
<1> QED
  BY <1>1, MoveStep

(* A loading step of an execution.                                         *)
LEMMA LoadTypes ==
  ASSUME Types, NEW e \in Executions, NEW from, NEW to \in Places, Load(e, from, to)
  PROVE  /\ thread' \in [Threads -> Thread] /\ Only(e)
         /\ thread'[e].pc = to /\ thread'[e].base = file
         /\ thread'[e].record = thread[e].record
         /\ thread'[e].parts = thread[e].parts
<1>1. e \in Threads /\ to \in Anywhere
  BY DEF Threads, Anywhere
<1> QED
  BY <1>1, LoadStep

(* Every step of an execution keeps the types.                             *)
LEMMA ExecutionTypes ==
  ASSUME Types, NEW e \in Executions, StartExecution(e) \/ ExecutionStep(e)
  PROVE  Types'
<1> USE PlacesAre DEF In
<1> e \in Threads
  BY DEF Threads
<1>1. CASE StartExecution(e)
  <2>1. \/ Move(e, "mark") /\ jobLock' = e
        \/ Move(e, "done") /\ jobLock' = jobLock
    BY <1>1 DEF StartExecution
  <2>2. thread' \in [Threads -> Thread] /\ Only(e) /\ thread'[e].pc \in Places
    BY <2>1, MoveTypes
  <2> QED
    BY <1>1, <2>1, <2>2, OthersKeepPlace DEF Types, StartExecution
<1>2. CASE MarkRunning(e)
  <2>1. thread' \in [Threads -> Thread] /\ Only(e) /\ thread'[e].pc \in Places
    BY <1>2, MoveTypes DEF MarkRunning
  <2>2. running' \subseteq Workers
    BY <1>2, ReportAssumption DEF MarkRunning, Types, Threads
  <2> QED
    BY <1>2, <2>1, <2>2, OthersKeepPlace DEF Types, MarkRunning
<1>3. CASE FindJob(e)
  <2>1. Move(e, "collect") \/ Move(e, "discard") \/ Move(e, "append")
    BY <1>3 DEF FindJob, NotFound
  <2>2. thread' \in [Threads -> Thread] /\ Only(e) /\ thread'[e].pc \in Places
    BY <2>1, MoveTypes
  <2> QED
    BY <1>3, <2>2, OthersKeepPlace DEF Types, FindJob
<1>4. CASE Collect(e)
  <2>1. Fails(e) \/ \E n \in Nat : Ready(e, n)
    BY <1>4, ReportAssumption
    DEF Collect, CollectReview, CollectHygiene, CollectNat, CollectPolicy
  <2>2. thread' \in [Threads -> Thread] /\ Only(e) /\ thread'[e].pc \in Places
    BY <2>1, ReadyStep, FailsStep
  <2>3. UNCHANGED <<kind, file, jobLock, running, mailed>>
    BY <2>1 DEF Ready, Fails
  <2> QED
    BY <2>2, <2>3, OthersKeepPlace DEF Types
<1>5. CASE SendPart(e)
  <2>1. thread' \in [Threads -> Thread] /\ Only(e) /\ thread'[e].pc \in Places
    BY <1>5, SendStep DEF Types
  <2> QED
    BY <1>5, <2>1, SendStep, OthersKeepPlace DEF Types, SendPart
<1>6. CASE SendFails(e)
  <2>1. thread' \in [Threads -> Thread] /\ Only(e) /\ thread'[e].pc \in Places
    BY <1>6, FailsStep DEF SendFails
  <2> QED
    BY <1>6, <2>1, OthersKeepPlace DEF Types, SendFails, Fails
<1>7. CASE Load(e, "append", "appending") \/ Load(e, "prune", "pruning")
  <2>1. thread' \in [Threads -> Thread] /\ Only(e) /\ thread'[e].pc \in Places
    BY <1>7, LoadTypes
  <2> QED
    BY <1>7, <2>1, OthersKeepPlace DEF Types, Load
<1>8. CASE SaveRun(e)
  <2>1. Move(e, "discard") \/ Move(e, "prune")
    BY <1>8 DEF SaveRun
  <2>2. thread' \in [Threads -> Thread] /\ Only(e) /\ thread'[e].pc \in Places
    BY <2>1, MoveTypes
  <2>3. thread[e].base \in Table
    BY DEF Types, Threads, Thread
  <2>4. file' \in Table
    BY <1>8, <2>3, EntryType, WrittenTypes DEF SaveRun
  <2> QED
    BY <1>8, <2>2, <2>4, OthersKeepPlace DEF Types, SaveRun
<1>9. CASE SavePruned(e)
  <2>1. thread' \in [Threads -> Thread] /\ Only(e) /\ thread'[e].pc \in Places
    BY <1>9, MoveTypes DEF SavePruned
  <2>2. thread[e].base \in Table
    BY DEF Types, Threads, Thread
  <2> QED
    BY <1>9, <2>1, <2>2, OthersKeepPlace DEF Types, SavePruned
<1>10. CASE SaveFails(e)
  <2>1. thread' \in [Threads -> Thread] /\ Only(e) /\ thread'[e].pc \in Places
    BY <1>10, SaveFailsStep
  <2> QED
    BY <1>10, <2>1, OthersKeepPlace DEF Types, SaveFails
<1>11. CASE DiscardMark(e)
  <2>1. thread' \in [Threads -> Thread] /\ Only(e) /\ thread'[e].pc \in Places
    BY <1>11, MoveTypes DEF DiscardMark
  <2> QED
    BY <1>11, <2>1, OthersKeepPlace DEF Types, DiscardMark
<1>12. CASE ReleaseLockFile(e)
  <2>1. thread' \in [Threads -> Thread] /\ Only(e) /\ thread'[e].pc \in Places
    BY <1>12, MoveTypes DEF ReleaseLockFile
  <2> QED
    BY <1>12, <2>1, OthersKeepPlace DEF Types, ReleaseLockFile
<1>13. CASE CollectFrame(e)
  <2>1. thread' \in [Threads -> Thread] /\ Only(e) /\ thread'[e].pc \in Places
    BY <1>13, MoveTypes DEF CollectFrame
  <2> QED
    BY <1>13, <2>1, OthersKeepPlace DEF Types, CollectFrame
<1> QED
  BY <1>1, <1>2, <1>3, <1>4, <1>5, <1>6, <1>7, <1>8, <1>9, <1>10, <1>11, <1>12, <1>13
  DEF ExecutionStep

(* So does every step of a request ...                                     *)
LEMMA AdminTypes ==
  ASSUME Types, NEW a \in Admins, AdminStep(a)
  PROVE  Types'
<1> USE PlacesAre
<1>1. a \in Threads /\ a \notin Executions
  BY ReportAssumption DEF Threads
<1>2. thread' \in [Threads -> Thread] /\ Only(a)
  BY <1>1, LoadStep, MoveStep DEF AdminStep, SaveEdit
<1>3. thread[a].base \in Table
  BY <1>1 DEF Types, Threads, Thread
<1>4. file' \in Table
  <2> DEFINE b == thread[a].base
  <2>1. CASE Load(a, "idle", "editing")
    BY <2>1 DEF Load, Types
  <2>2. CASE SaveEdit(a)
    <3>1. \/ file' = [b EXCEPT !.enabled = FALSE]
          \/ file' = [b EXCEPT !.exists = FALSE, !.runs = {}]
          \/ file' = file
      BY <2>2 DEF SaveEdit
    <3>2. /\ [b EXCEPT !.enabled = FALSE] \in Table
          /\ [b EXCEPT !.exists = FALSE, !.runs = {}] \in Table
      BY <1>3 DEF Table
    <3> QED
      BY <3>1, <3>2 DEF Types
  <2> QED
    BY <2>1, <2>2 DEF AdminStep
<1>5. \A x \in Executions : thread'[x] = thread[x]
  BY <1>1, <1>2 DEF Only, Threads
<1> QED
  BY <1>2, <1>4, <1>5 DEF Types, Threads, AdminStep, SaveEdit, Load

(* ... and a crash.                                                        *)
LEMMA CrashTypes ==
  ASSUME Types, NEW w \in Workers, CrashWorker(w)
  PROVE  Types'
<1>1. UNCHANGED <<kind, file, mailed>>
  BY DEF CrashWorker
<1>2. \A x \in Executions : thread'[x].pc \in Places
  BY CrashStep, PlacesAre DEF Types, Threads
<1>3. thread' \in [Threads -> Thread] /\ running' \subseteq running
      /\ jobLock' \in {NoOne, jobLock}
  BY CrashStep
<1> QED
  BY <1>1, <1>2, <1>3 DEF Types, Threads

(* A step that changes nothing keeps everything.                           *)
LEMMA NextTypes ==
  ASSUME Types, [ReportNext]_reportVars
  PROVE  Types'
<1>1. CASE ReportNext
  BY <1>1, ExecutionTypes, AdminTypes, CrashTypes DEF ReportNext
<1>2. CASE UNCHANGED reportVars
  BY <1>2 DEF Types, reportVars
<1> QED
  BY <1>1, <1>2

-----------------------------------------------------------------------------
(* The course of an execution: where its lock file and its mark change     *)

Course(e, from, to) ==
    /\ thread[e].pc \in from /\ thread'[e].pc \in to
    /\ kind' = kind /\ Only(e)

SameLock == jobLock' = jobLock
SameMarks == running' = running

Courses(e) ==
    \/ Course(e, {"idle"}, {"done"}) /\ SameLock /\ SameMarks
    \/ Course(e, {"idle"}, {"mark"}) /\ jobLock = NoOne /\ jobLock' = e /\ SameMarks
    \/ Course(e, {"mark"}, {"find"}) /\ SameLock /\ running' = running \cup {Home[e]}
    \/ Course(e, UnderWay, UnderWay) /\ SameLock /\ SameMarks
    \/ Course(e, UnderWay, {"raised"}) /\ SameLock /\ SameMarks /\ kind # "review"
    \/ Course(e, {"discard"}, {"unlock"}) /\ SameLock /\ running' = running \ {Home[e]}
    \/ Course(e, {"unlock"}, {"done"}) /\ jobLock' = NoOne /\ SameMarks
    \/ Course(e, {"raised"}, {"lost"}) /\ jobLock' = NoOne /\ SameMarks

(* Every step of an execution is one of these.                             *)
LEMMA ExecutionCourse ==
  ASSUME Types, NEW e \in Executions, StartExecution(e) \/ ExecutionStep(e)
  PROVE  Courses(e)
<1> USE PlacesAre DEF In, Course, SameLock, SameMarks
<1> e \in Threads
  BY DEF Threads
<1>1. CASE StartExecution(e)
  <2>1. CASE jobLock = NoOne
    <3>1. Move(e, "mark") /\ jobLock' = e
      BY <1>1, <2>1 DEF StartExecution
    <3>2. thread'[e].pc = "mark" /\ Only(e)
      BY <3>1, MoveTypes
    <3> QED
      BY <1>1, <2>1, <3>1, <3>2 DEF StartExecution, Courses
  <2>2. CASE jobLock # NoOne
    <3>1. Move(e, "done") /\ jobLock' = jobLock
      BY <1>1, <2>2 DEF StartExecution
    <3>2. thread'[e].pc = "done" /\ Only(e)
      BY <3>1, MoveTypes
    <3> QED
      BY <1>1, <3>1, <3>2 DEF StartExecution, Courses
  <2> QED
    BY <2>1, <2>2
<1>2. CASE MarkRunning(e)
  <2>1. thread'[e].pc = "find" /\ Only(e)
    BY <1>2, MoveTypes DEF MarkRunning
  <2> QED
    BY <1>2, <2>1 DEF MarkRunning, Courses
<1>3. CASE FindJob(e)
  <2>1. Move(e, "collect") \/ Move(e, "discard") \/ Move(e, "append")
    BY <1>3 DEF FindJob, NotFound
  <2>2. thread'[e].pc \in {"collect", "discard", "append"} /\ Only(e)
    BY <2>1, MoveTypes
  <2> QED
    BY <1>3, <2>2 DEF FindJob, Courses, UnderWay
<1>4. CASE Collect(e)
  <2>1. Fails(e) \/ \E n \in Nat : Ready(e, n)
    BY <1>4, ReportAssumption
    DEF Collect, CollectReview, CollectHygiene, CollectNat, CollectPolicy
  <2>2. thread'[e].pc \in {"append", "mail"} /\ Only(e)
    BY <2>1, ReadyStep, FailsStep
  <2>3. UNCHANGED <<kind, jobLock, running>> /\ thread[e].pc = "collect"
    BY <1>4, <2>1 DEF Ready, Fails, Collect
  <2> QED
    BY <2>2, <2>3 DEF Courses, UnderWay
<1>5. CASE SendPart(e)
  <2>1. UNCHANGED <<kind, jobLock, running>> /\ thread[e].pc = "mail"
    BY <1>5 DEF SendPart
  <2>2. thread'[e].pc \in {"mail", "append"} /\ Only(e)
    BY <1>5, <2>1, SendStep
  <2> QED
    BY <2>1, <2>2 DEF Courses, UnderWay
<1>6. CASE SendFails(e)
  <2>1. thread'[e].pc = "append" /\ Only(e)
    BY <1>6, FailsStep DEF SendFails
  <2> QED
    BY <1>6, <2>1 DEF SendFails, Fails, Courses, UnderWay
<1>7. CASE Load(e, "append", "appending") \/ Load(e, "prune", "pruning")
  <2>1. thread'[e].pc \in {"appending", "pruning"} /\ Only(e)
    BY <1>7, LoadTypes
  <2>2. UNCHANGED <<kind, jobLock, running>> /\ thread[e].pc \in {"append", "prune"}
    BY <1>7 DEF Load
  <2> QED
    BY <2>1, <2>2 DEF Courses, UnderWay
<1>8. CASE SaveRun(e)
  <2>1. Move(e, "discard") \/ Move(e, "prune")
    BY <1>8 DEF SaveRun
  <2>2. thread'[e].pc \in {"discard", "prune"} /\ Only(e)
    BY <2>1, MoveTypes
  <2> QED
    BY <1>8, <2>2 DEF SaveRun, Courses, UnderWay
<1>9. CASE SavePruned(e)
  <2>1. thread'[e].pc = "discard" /\ Only(e)
    BY <1>9, MoveTypes DEF SavePruned
  <2> QED
    BY <1>9, <2>1 DEF SavePruned, Courses, UnderWay
<1>10. CASE SaveFails(e)
  <2>1. /\ UNCHANGED <<kind, jobLock, running>>
        /\ thread[e].pc \in {"appending", "pruning"}
    BY <1>10 DEF SaveFails
  <2>2. /\ thread'[e].pc \in {"append", "discard", "raised"}
        /\ thread'[e].pc = "raised" <=> kind # "review"
        /\ Only(e)
    BY <1>10, SaveFailsStep
  <2> QED
    BY <2>1, <2>2 DEF Courses, UnderWay
<1>11. CASE DiscardMark(e)
  <2>1. thread'[e].pc = "unlock" /\ Only(e)
    BY <1>11, MoveTypes DEF DiscardMark
  <2> QED
    BY <1>11, <2>1 DEF DiscardMark, Courses
<1>12. CASE ReleaseLockFile(e)
  <2>1. thread'[e].pc = "done" /\ Only(e)
    BY <1>12, MoveTypes DEF ReleaseLockFile
  <2> QED
    BY <1>12, <2>1 DEF ReleaseLockFile, Courses
<1>13. CASE CollectFrame(e)
  <2>1. thread'[e].pc = "lost" /\ Only(e)
    BY <1>13, MoveTypes DEF CollectFrame
  <2> QED
    BY <1>13, <2>1 DEF CollectFrame, Courses
<1> QED
  BY <1>1, <1>2, <1>3, <1>4, <1>5, <1>6, <1>7, <1>8, <1>9, <1>10, <1>11, <1>12, <1>13
  DEF ExecutionStep

(* On its course an execution keeps the lock file and the marks in order.  *)
LEMMA CourseKeeps ==
  ASSUME Types, LockMatches, MarkIsOwned, NEW e \in Executions, Courses(e)
  PROVE  LockMatches' /\ MarkIsOwned'
<1>1. /\ kind' = kind /\ e \in Threads /\ Home[e] \in Workers /\ NoOne # e
      /\ \A x \in Executions : x # e => thread'[x] = thread[x]
  BY ReportAssumption DEF Courses, Course, Only, Threads
<1>2. LockMatches'
  BY <1>1, ReportAssumption
  DEF Courses, Course, LockMatches, Holding, UnderWay, SameLock, SameMarks
<1>3. ASSUME NEW w \in running'
      PROVE  \E x \in Executions :
                /\ Home[x] = w
                /\ \/ thread'[x].pc \in UnderWay
                   \/ kind # "review" /\ thread'[x].pc \in {"raised", "lost"}
  <2>1. CASE w = Home[e] /\ thread'[e].pc = "find"
    BY <2>1 DEF UnderWay
  <2>2. CASE ~(w = Home[e] /\ thread'[e].pc = "find")
    <3>1. w \in running
      BY <1>3, <2>2 DEF Courses, Course, SameMarks
    <3>2. PICK x \in Executions :
             /\ Home[x] = w
             /\ \/ thread[x].pc \in UnderWay
                \/ kind # "review" /\ thread[x].pc \in {"raised", "lost"}
      BY <3>1 DEF MarkIsOwned
    <3>3. CASE x # e
      BY <1>1, <3>2, <3>3
    <3>4. CASE x = e
      BY <1>3, <3>2, <3>4 DEF Courses, Course, UnderWay, SameMarks
    <3> QED
      BY <3>3, <3>4
  <2> QED
    BY <2>1, <2>2
<1>4. ASSUME NEW x \in Executions, thread'[x].pc \in UnderWay
      PROVE  Home[x] \in running'
  <2>1. CASE x = e
    BY <1>4, <2>1 DEF Courses, Course, UnderWay, SameMarks, MarkIsOwned
  <2>2. CASE x # e
    <3>1. thread[x].pc \in UnderWay /\ Home[x] \in running
      BY <1>1, <1>4, <2>2 DEF MarkIsOwned
    <3>2. jobLock = x
      BY <3>1 DEF LockMatches, Holding
    <3>3. thread[e].pc # "discard"
      BY <2>2, <3>2 DEF LockMatches, Holding, UnderWay
    <3> QED
      BY <3>1, <3>3 DEF Courses, Course, SameMarks
  <2> QED
    BY <2>1, <2>2
<1> QED
  BY <1>1, <1>2, <1>3, <1>4 DEF MarkIsOwned

(* An administrator's step leaves the executions, the lock file and the    *)
(* marks alone.                                                            *)
LEMMA AdminKeeps ==
  ASSUME Types, NEW a \in Admins, AdminStep(a)
  PROVE  /\ UNCHANGED <<kind, jobLock, running, mailed>>
         /\ \A x \in Executions : thread'[x] = thread[x]
<1>1. a \in Threads /\ a \notin Executions
  BY ReportAssumption DEF Threads
<1>2. Only(a)
  BY <1>1, LoadStep, MoveStep, PlacesAre DEF AdminStep, SaveEdit
<1> QED
  BY <1>1, <1>2 DEF Only, Threads, AdminStep, Load, SaveEdit

(* A crash takes the worker's marks and the lock file of its execution.    *)
LEMMA CrashKeeps ==
  ASSUME Types, LockMatches, MarkIsOwned, NEW w \in Workers, CrashWorker(w)
  PROVE  LockMatches' /\ MarkIsOwned'
<1>1. \A x \in Executions :
         IF Home[x] = w /\ thread[x].pc # "idle"
         THEN thread'[x].pc = "done" ELSE thread'[x].pc = thread[x].pc
  BY CrashStep DEF Threads
<1>2. kind' = kind /\ running' = running \ {w}
  BY DEF CrashWorker
<1>3. \/ jobLock \in Executions /\ Home[jobLock] = w /\ jobLock' = NoOne
      \/ ~(jobLock \in Executions /\ Home[jobLock] = w) /\ jobLock' = jobLock
  <2>1. jobLock \in Executions => thread[jobLock].pc # "idle"
    BY DEF LockMatches, Holding, UnderWay
  <2> QED
    BY <2>1, CrashStep, ReportAssumption DEF Types, Threads
<1>4. LockMatches'
  BY <1>1, <1>3, ReportAssumption DEF LockMatches, Holding, UnderWay
<1>5. MarkIsOwned'
  BY <1>1, <1>2 DEF MarkIsOwned, UnderWay
<1> QED
  BY <1>4, <1>5

(* No step disturbs the lock file or the marks.                            *)
LEMMA NextLocks ==
  ASSUME Types, LockMatches, MarkIsOwned, [ReportNext]_reportVars
  PROVE  LockMatches' /\ MarkIsOwned'
<1>1. ASSUME NEW e \in Executions, StartExecution(e) \/ ExecutionStep(e)
      PROVE  LockMatches' /\ MarkIsOwned'
  BY <1>1, ExecutionCourse, CourseKeeps
<1>2. ASSUME NEW a \in Admins, AdminStep(a)
      PROVE  LockMatches' /\ MarkIsOwned'
  BY <1>2, AdminKeeps DEF LockMatches, MarkIsOwned
<1>3. CASE UNCHANGED reportVars
  BY <1>3 DEF LockMatches, MarkIsOwned, reportVars
<1> QED
  BY <1>1, <1>2, <1>3, CrashKeeps DEF ReportNext

LockInv == Types /\ LockMatches /\ MarkIsOwned

(* They hold at first.                                                     *)
LEMMA InitLocks == ASSUME ReportInit PROVE LockInv
<1>1. \A e \in Executions : thread[e].pc = "idle"
  BY DEF ReportInit
<1> QED
  BY <1>1, InitTypes, ReportAssumption
  DEF LockInv, ReportInit, LockMatches, MarkIsOwned, Holding, UnderWay

(* So they hold in every state.                                            *)
LEMMA LocksHold == ReportSpec => []LockInv
<1>1. ReportInit => LockInv
  BY InitLocks
<1>2. LockInv /\ [ReportNext]_reportVars => LockInv'
  BY NextTypes, NextLocks DEF LockInv
<1> QED
  BY <1>1, <1>2, PTL DEF ReportSpec

(* An execution that has ended has given its lock file back, whatever      *)
(* write has failed and whoever died (_execute_job): LockFileComesBack.     *)
THEOREM LockFileCorrect == ReportSpec => []LockFileComesBack
<1>1. LockInv => LockFileComesBack
  BY DEF LockInv, LockMatches, LockFileComesBack, Holding, UnderWay
<1> QED
  BY <1>1, LocksHold, PTL

(* A process shows the job as running when one of its executions is under  *)
(* way, and only then or when the write of a record failed in a finally     *)
(* clause (_running_jobs, is_job_running): MarkIsOwned.                      *)
THEOREM MarkCorrect == ReportSpec => []MarkIsOwned
<1>1. LockInv => MarkIsOwned
  BY DEF LockInv
<1> QED
  BY <1>1, LocksHold, PTL

-----------------------------------------------------------------------------
(* What is sent and what is recorded                                       *)

(* Once it is past its emails, an execution sends no more of them.         *)
Settled(e) ==
    thread[e].pc \in AfterMail =>
       /\ thread'[e].pc \in AfterMail
       /\ mailed'[e] = mailed[e]
       /\ thread'[e].parts = thread[e].parts

(* What it has in hand is the file, what it had, or nothing; and what it   *)
(* writes is what it had, with its own line when it appends.               *)
Copies(e) ==
    /\ thread'[e].base \in {Written, file, thread[e].base}
    /\ \/ file' = file
       \/ file' = thread[e].base
       \/ /\ thread[e].pc = "appending"
          /\ file'.runs \subseteq thread[e].base.runs \cup {Entry(e)}

(* Every step of an execution is of this kind.                             *)
LEMMA ExecutionSends ==
  ASSUME Types, NEW e \in Executions, Sending(e), StartExecution(e) \/ ExecutionStep(e)
  PROVE  Sending(e)' /\ Settled(e) /\ Copies(e)
<1> USE PlacesAre DEF In
<1>t. /\ e \in Threads /\ mailed[e] \in Nat
      /\ thread[e].base \in Table /\ thread[e].record \in Record
      /\ thread[e].parts \in Nat
  BY DEF Threads, Types, Thread
<1>1. CASE StartExecution(e)
  <2>1. (Move(e, "mark") \/ Move(e, "done")) /\ thread[e].pc = "idle"
        /\ UNCHANGED <<file, mailed>>
    BY <1>1 DEF StartExecution
  <2>2. /\ thread'[e].pc \in {"mark", "done"} /\ thread'[e].base = Written
        /\ thread'[e].record = thread[e].record /\ thread'[e].parts = thread[e].parts
    BY <2>1, MoveTypes
  <2> QED
    BY <2>1, <2>2 DEF Sending, Settled, Copies, BeforeMail, AfterMail
<1>2. CASE MarkRunning(e)
  <2>1. Move(e, "find") /\ thread[e].pc = "mark" /\ UNCHANGED <<file, mailed>>
    BY <1>2 DEF MarkRunning
  <2>2. /\ thread'[e].pc = "find" /\ thread'[e].base = Written
        /\ thread'[e].record = thread[e].record /\ thread'[e].parts = thread[e].parts
    BY <2>1, MoveTypes
  <2> QED
    BY <2>1, <2>2 DEF Sending, Settled, Copies, BeforeMail, AfterMail
<1>3. CASE FindJob(e)
  <2>1. /\ Move(e, "collect") \/ Move(e, "discard") \/ Move(e, "append")
        /\ thread[e].pc = "find" /\ UNCHANGED <<file, mailed>>
    BY <1>3 DEF FindJob, NotFound
  <2>2. /\ thread'[e].pc \in {"collect", "discard", "append"}
        /\ thread'[e].base = Written
        /\ thread'[e].record = thread[e].record /\ thread'[e].parts = thread[e].parts
    BY <2>1, MoveTypes
  <2>3. thread[e].record = NoRecord /\ mailed[e] = 0
    BY <2>1 DEF Sending, BeforeMail
  <2> QED
    BY <2>1, <2>2, <2>3 DEF Sending, Settled, Copies, BeforeMail, AfterMail, NoRecord
<1>4. CASE Collect(e)
  <2>1. Fails(e) \/ \E n \in Nat : n > 0 /\ Ready(e, n)
    BY <1>4, ReportAssumption
    DEF Collect, CollectReview, CollectHygiene, CollectNat, CollectPolicy
  <2>2. UNCHANGED <<file, mailed>> /\ thread[e].pc = "collect"
    BY <1>4, <2>1 DEF Ready, Fails, Collect
  <2>3. thread[e].record.sent = 0 /\ mailed[e] = 0
    BY <2>2 DEF Sending, BeforeMail, NoRecord
  <2>4. CASE Fails(e)
    BY <2>2, <2>3, <2>4, <1>t, FailsStep
    DEF Sending, Settled, Copies, BeforeMail, AfterMail
  <2>5. ASSUME NEW n \in Nat, n > 0, Ready(e, n)
        PROVE  Sending(e)' /\ Settled(e) /\ Copies(e)
    <3>1. /\ thread'[e].pc = "mail" /\ thread'[e].base = thread[e].base
          /\ thread'[e].parts = n /\ thread'[e].record.sent = 0
      BY <2>3, <2>5, <1>t, ReadyStep
    <3> QED
      BY <2>2, <2>3, <2>5, <3>1 DEF Sending, Settled, Copies, BeforeMail, AfterMail
  <2> QED
    BY <2>1, <2>4, <2>5
<1>5. CASE SendPart(e)
  <2>1. thread[e].pc = "mail" /\ file' = file
    BY <1>5 DEF SendPart
  <2>2. thread[e].record.sent = 0 /\ mailed[e] < thread[e].parts
    BY <2>1 DEF Sending
  <2>3. mailed'[e] = mailed[e] + 1 /\ thread'[e].base = thread[e].base
        /\ thread'[e].parts = thread[e].parts
    BY <1>5, SendStep
  <2>4. CASE mailed[e] + 1 < thread[e].parts
    <3>1. thread' = thread
      BY <1>5, <2>4, SendStep
    <3> QED
      BY <2>1, <2>2, <2>3, <2>4, <3>1
      DEF Sending, Settled, Copies, BeforeMail, AfterMail
  <2>5. CASE ~(mailed[e] + 1 < thread[e].parts)
    <3>1. /\ thread'[e].pc = "append"
          /\ thread'[e].record.status = "ok" /\ thread'[e].record.sent = thread[e].parts
      BY <1>5, <2>5, SendStep
    <3>2. mailed'[e] = thread[e].parts
      BY <2>2, <2>3, <2>5, <1>t
    <3> QED
      BY <2>1, <2>3, <3>1, <3>2, <1>t
      DEF Sending, Settled, Copies, BeforeMail, AfterMail
  <2> QED
    BY <2>4, <2>5
<1>6. CASE SendFails(e)
  <2>1. thread[e].pc = "mail" /\ Fails(e) /\ UNCHANGED <<file, mailed>>
    BY <1>6 DEF SendFails, Fails
  <2>2. thread[e].record.sent = 0
    BY <2>1 DEF Sending
  <2> QED
    BY <2>1, <2>2, <1>t, FailsStep DEF Sending, Settled, Copies, BeforeMail, AfterMail
<1>7. CASE Load(e, "append", "appending") \/ Load(e, "prune", "pruning")
  <2>1. /\ UNCHANGED <<file, mailed>>
        /\ \/ thread[e].pc = "append" /\ Load(e, "append", "appending")
           \/ thread[e].pc = "prune" /\ Load(e, "prune", "pruning")
    BY <1>7 DEF Load
  <2>2. /\ \/ thread[e].pc = "append" /\ thread'[e].pc = "appending"
           \/ thread[e].pc = "prune" /\ thread'[e].pc = "pruning"
        /\ thread'[e].base = file
        /\ thread'[e].record = thread[e].record /\ thread'[e].parts = thread[e].parts
    BY <2>1, LoadTypes
  <2> QED
    BY <2>1, <2>2 DEF Sending, Settled, Copies, BeforeMail, AfterMail
<1>8. CASE SaveRun(e)
  <2>1. /\ Move(e, "discard") \/ Move(e, "prune")
        /\ thread[e].pc = "appending" /\ mailed' = mailed
        /\ file' = [thread[e].base EXCEPT
                      !.runs = IF thread[e].base.exists THEN @ \cup {Entry(e)} ELSE @]
    BY <1>8 DEF SaveRun
  <2>2. /\ thread'[e].pc \in {"discard", "prune"} /\ thread'[e].base = Written
        /\ thread'[e].parts = thread[e].parts
    BY <2>1, MoveTypes
  <2>3. file'.runs \subseteq thread[e].base.runs \cup {Entry(e)}
    BY <2>1, <1>t, EntryType, WrittenTypes
  <2> QED
    BY <2>1, <2>2, <2>3 DEF Sending, Settled, Copies, BeforeMail, AfterMail
<1>9. CASE SavePruned(e)
  <2>1. /\ Move(e, "discard") /\ thread[e].pc = "pruning" /\ mailed' = mailed
        /\ file' = thread[e].base
    BY <1>9 DEF SavePruned
  <2>2. /\ thread'[e].pc = "discard" /\ thread'[e].base = Written
        /\ thread'[e].parts = thread[e].parts
    BY <2>1, MoveTypes
  <2> QED
    BY <2>1, <2>2 DEF Sending, Settled, Copies, BeforeMail, AfterMail
<1>10. CASE SaveFails(e)
  <2>1. UNCHANGED <<file, mailed>> /\ thread[e].pc \in {"appending", "pruning"}
    BY <1>10 DEF SaveFails
  <2>2. /\ thread'[e].pc \in {"append", "discard", "raised"} /\ thread'[e].base = Written
        /\ thread'[e].record = NoRecord /\ thread'[e].parts = thread[e].parts
    BY <1>10, SaveFailsStep
  <2> QED
    BY <2>1, <2>2, <1>t DEF Sending, Settled, Copies, BeforeMail, AfterMail, NoRecord
<1>11. CASE DiscardMark(e) \/ ReleaseLockFile(e) \/ CollectFrame(e)
  <2>1. /\ Move(e, "unlock") \/ Move(e, "done") \/ Move(e, "lost")
        /\ thread[e].pc \in {"discard", "unlock", "raised"}
        /\ UNCHANGED <<file, mailed>>
    BY <1>11 DEF DiscardMark, ReleaseLockFile, CollectFrame
  <2>2. /\ thread'[e].pc \in {"unlock", "done", "lost"} /\ thread'[e].base = Written
        /\ thread'[e].parts = thread[e].parts
    BY <2>1, MoveTypes
  <2> QED
    BY <2>1, <2>2 DEF Sending, Settled, Copies, BeforeMail, AfterMail
<1> QED
  BY <1>1, <1>2, <1>3, <1>4, <1>5, <1>6, <1>7, <1>8, <1>9, <1>10, <1>11
  DEF ExecutionStep

(* Nothing of it changes what the others have sent.                        *)
LEMMA OthersSend ==
  ASSUME Types, NEW e \in Executions, StartExecution(e) \/ ExecutionStep(e)
  PROVE  \A x \in Executions :
            x # e => thread'[x] = thread[x] /\ mailed'[x] = mailed[x]
<1>1. Only(e)
  BY ExecutionCourse DEF Courses, Course
<1>2. CASE SendPart(e)
  BY <1>1, <1>2, SendStep DEF Only, Threads
<1>3. CASE ~SendPart(e)
  <2>1. CASE Collect(e)
    <3>1. Fails(e) \/ \E n \in Nat : Ready(e, n)
      BY <2>1, ReportAssumption
      DEF Collect, CollectReview, CollectHygiene, CollectNat, CollectPolicy
    <3> QED
      BY <1>1, <3>1 DEF Only, Threads, Ready, Fails
  <2>2. CASE ~Collect(e)
    <3>1. mailed' = mailed
      BY <1>3, <2>2 DEF ExecutionStep, StartExecution, MarkRunning, FindJob, SendFails,
         Fails, Load, SaveRun, SavePruned, SaveFails, DiscardMark, ReleaseLockFile,
         CollectFrame
    <3> QED
      BY <1>1, <3>1 DEF Only, Threads
  <2> QED
    BY <2>1, <2>2
<1> QED
  BY <1>2, <1>3

(* The line that an execution appends is true.                             *)
LEMMA EntryTrue ==
  ASSUME Types, NEW e \in Executions, Sending(e), thread[e].pc = "appending"
  PROVE  LineTrue(Entry(e))
  BY DEF Sending, LineTrue, Entry, AfterMail

(* A line that is true stays so, whatever its execution or another does.   *)
LEMMA LineKeeps ==
  ASSUME Types, NEW r \in Line, LineTrue(r),
         \A x \in Executions :
            Settled(x) \/ (thread'[x].pc = thread[x].pc /\ mailed'[x] = mailed[x]
                           /\ thread'[x].parts = thread[x].parts)
  PROVE  LineTrue(r)'
<1>1. r.run \in Executions
  BY DEF Line
<1> QED
  BY <1>1 DEF LineTrue, Settled

SendInv == (\A e \in Executions : Sending(e)) /\ HistoriesTrue

(* What threads have loaded holds lines of the history.                    *)
LEMMA LinesAre ==
  ASSUME Types
  PROVE  /\ file.runs \subseteq Line
         /\ \A t \in Threads : thread[t].base.runs \subseteq Line
  BY DEF Types, Threads, Thread, Table

(* A step of an execution keeps the histories true, ...                    *)
LEMMA ExecutionHistories ==
  ASSUME Types, SendInv, NEW e \in Executions, StartExecution(e) \/ ExecutionStep(e)
  PROVE  SendInv'
<1>1. /\ Sending(e)' /\ Settled(e) /\ Copies(e)
      /\ \A x \in Executions :
            x # e => thread'[x] = thread[x] /\ mailed'[x] = mailed[x]
  BY ExecutionSends, OthersSend DEF SendInv
<1>2. \A x \in Executions : Sending(x)'
  BY <1>1 DEF SendInv, Sending
<1>3. \A r \in Line : LineTrue(r) => LineTrue(r)'
  BY <1>1, LineKeeps
<1>4. e \in Threads /\ Written.runs = {}
  BY DEF Threads, Written
<1>5. \A r \in file'.runs : LineTrue(r)'
  <2>1. \A r \in thread[e].base.runs \cup file.runs : r \in Line /\ LineTrue(r)
    BY <1>4, LinesAre DEF SendInv, HistoriesTrue, Threads
  <2>2. thread[e].pc = "appending" => Entry(e) \in Line /\ LineTrue(Entry(e))
    BY EntryTrue, EntryType DEF SendInv
  <2> QED
    BY <1>1, <1>3, <2>1, <2>2 DEF Copies
<1>6. ASSUME NEW t \in Threads, NEW r \in thread'[t].base.runs
      PROVE  LineTrue(r)'
  <2>1. thread'[t].base \in {Written, file, thread[t].base}
    <3>1. CASE t = e
      BY <1>1, <3>1 DEF Copies
    <3>2. CASE t # e
      BY <3>2, ExecutionCourse DEF Courses, Course, Only
    <3> QED
      BY <3>1, <3>2
  <2>2. r \in file.runs \cup thread[t].base.runs
    BY <1>4, <1>6, <2>1
  <2>3. r \in Line /\ LineTrue(r)
    BY <2>2, LinesAre DEF SendInv, HistoriesTrue, Threads
  <2> QED
    BY <1>3, <2>3
<1> QED
  BY <1>2, <1>5, <1>6 DEF SendInv, HistoriesTrue, Threads

(* ... so does a request, ...                                              *)
LEMMA AdminHistories ==
  ASSUME Types, SendInv, NEW a \in Admins, AdminStep(a)
  PROVE  SendInv'
<1>1. /\ mailed' = mailed /\ \A x \in Executions : thread'[x] = thread[x]
  BY AdminKeeps
<1>2. \A x \in Executions : Sending(x)'
  BY <1>1 DEF SendInv, Sending
<1>3. \A r \in Line : LineTrue(r) => LineTrue(r)'
  BY <1>1, LineKeeps
<1>4. a \in Threads /\ Written.runs = {}
  BY DEF Threads, Written
<1>5. /\ Only(a)
      /\ thread'[a].base \in {Written, file}
  BY <1>4, LoadStep, MoveStep, PlacesAre DEF AdminStep, SaveEdit
<1>6. file'.runs \subseteq file.runs \cup thread[a].base.runs
  <2> DEFINE b == thread[a].base
  <2>1. CASE Load(a, "idle", "editing")
    BY <2>1 DEF Load
  <2>2. CASE SaveEdit(a)
    <3>1. \/ file' = [b EXCEPT !.enabled = FALSE]
          \/ file' = [b EXCEPT !.exists = FALSE, !.runs = {}]
          \/ file' = file
      BY <2>2 DEF SaveEdit
    <3>2. b \in Table
      BY <1>4 DEF Types, Threads, Thread
    <3>3. /\ [b EXCEPT !.enabled = FALSE].runs = b.runs
          /\ [b EXCEPT !.exists = FALSE, !.runs = {}].runs = {}
      BY <3>2 DEF Table
    <3> QED
      BY <3>1, <3>3
  <2> QED
    BY <2>1, <2>2 DEF AdminStep
<1>7. ASSUME NEW r \in file'.runs PROVE LineTrue(r)'
  BY <1>3, <1>4, <1>6, LinesAre DEF SendInv, HistoriesTrue, Threads
<1>8. ASSUME NEW t \in Threads, NEW r \in thread'[t].base.runs
      PROVE  LineTrue(r)'
  <2>1. thread'[t].base \in {Written, file, thread[t].base}
    BY <1>5 DEF Only
  <2>2. r \in file.runs \cup thread[t].base.runs
    BY <1>4, <1>8, <2>1
  <2>3. r \in Line /\ LineTrue(r)
    BY <2>2, LinesAre DEF SendInv, HistoriesTrue, Threads
  <2> QED
    BY <1>3, <2>3
<1> QED
  BY <1>2, <1>7, <1>8 DEF SendInv, HistoriesTrue, Threads

(* ... and a crash, which leaves the file and settles the executions.      *)
LEMMA CrashHistories ==
  ASSUME Types, SendInv, NEW w \in Workers, CrashWorker(w)
  PROVE  SendInv'
<1>1. /\ file' = file /\ mailed' = mailed
      /\ \A t \in Threads :
            /\ thread'[t].base = thread[t].base /\ thread'[t].record = thread[t].record
            /\ thread'[t].parts = thread[t].parts
            /\ thread'[t].pc = "done" \/ thread'[t] = thread[t]
  BY CrashStep DEF CrashWorker
<1>2. \A x \in Executions : Sending(x)'
  BY <1>1 DEF SendInv, Sending, Threads, BeforeMail
<1>3. \A x \in Executions : Settled(x)
  BY <1>1 DEF Settled, Threads, AfterMail
<1>4. \A r \in Line : LineTrue(r) => LineTrue(r)'
  BY <1>3, LineKeeps
<1> QED
  BY <1>1, <1>2, <1>4, LinesAre DEF SendInv, HistoriesTrue, Threads

(* They are true at first, when nothing is recorded.                       *)
LEMMA InitHistories == ASSUME ReportInit PROVE SendInv
<1>1. /\ file.runs = {}
      /\ \A t \in Executions \cup Admins : thread[t].base.runs = {}
      /\ \A e \in Executions :
            /\ thread[e].pc = "idle" /\ mailed[e] = 0 /\ thread[e].record = NoRecord
  BY DEF ReportInit, Written
<1> QED
  BY <1>1 DEF SendInv, HistoriesTrue, Sending, BeforeMail

(* A record that says "ok" is one of a report all of whose emails were     *)
(* accepted, and no record counts an email that was not (_execute_job):     *)
(* OkMeansDelivered.                                                         *)
THEOREM DeliveryCorrect == ReportSpec => []OkMeansDelivered
<1> DEFINE Inv == Types /\ SendInv
<1>1. ReportInit => Inv
  BY InitTypes, InitHistories
<1>2. Inv /\ [ReportNext]_reportVars => Inv'
  <2> SUFFICES ASSUME Inv, [ReportNext]_reportVars PROVE Inv'
    OBVIOUS
  <2>1. CASE ReportNext
    BY <2>1, NextTypes, ExecutionHistories, AdminHistories, CrashHistories DEF ReportNext
  <2>2. CASE UNCHANGED reportVars
    <3>1. SendInv'
      BY <2>2 DEF SendInv, HistoriesTrue, Sending, LineTrue, reportVars
    <3> QED
      BY <3>1, NextTypes
  <2> QED
    BY <2>1, <2>2
<1>3. Inv => OkMeansDelivered
  BY DEF SendInv, HistoriesTrue, LineTrue, OkMeansDelivered
<1> QED
  BY <1>1, <1>2, <1>3, PTL DEF ReportSpec
=============================================================================
