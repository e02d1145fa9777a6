---------------------------- MODULE Caches_proofs ----------------------------
(***************************************************************************)
(* Proofs about what a background job leaves in a cache: the dashboard     *)
(* summary of BackgroundCache, for any threads and any number of runs,     *)
(* failures and changes of the inventory, and each of the six caches of    *)
(* Caches, for any ADOMs, refreshers, changes and failures.                *)
(***************************************************************************)
EXTENDS BackgroundCache, Caches, FiniteSetTheorems, TLAPS

-----------------------------------------------------------------------------
(* The dashboard summary: BackgroundCache *)

JobPlaces == InJob \cup {"idle", "check", "read", "inspect", "release", "done"}
Thread == [pc : JobPlaces, got : Nat]
Statuses == {"pending", "running", "ok", "error"}

JobTypes ==
    /\ store \in [status : Statuses, totals : Nat]
    /\ history \in Nat /\ inventory \in Nat /\ failures \in Nat
    /\ thr \in [Threads -> Thread]

InJobs(t) == thr[t].pc \in InJob \ {"mark"}

(* The mark is set while a job runs, and one thread at most has passed the  *)
(* test, unless two of them raced.                                         *)
OneJob ==
    /\ \A t, u \in Threads : thr[t].pc \in InJob /\ thr[u].pc \in InJob => t = u
    /\ \A t \in Threads : InJobs(t) => refreshing

(* What a job has counted is not older than what the dashboard shows, and   *)
(* what it has published is what it shows.                                 *)
Counted ==
    \A t \in Threads :
       /\ thr[t].pc = "publish" => store.totals <= thr[t].got
       /\ thr[t].pc = "record" => store.totals = thr[t].got

(* Today's entry follows the dashboard, but for the job that is about to    *)
(* write it.                                                               *)
Recorded ==
    failures = 0 =>
       \/ store.totals = 0 \/ history = store.totals
       \/ \E t \in Threads : thr[t].pc = "record"

JobInv ==
    /\ JobTypes
    /\ store.totals <= inventory /\ \A t \in Threads : thr[t].got <= inventory
    /\ refreshing => \E t \in Threads : InJobs(t)
    /\ StatusIsLive
    /\ ~raced => OneJob /\ Counted /\ Recorded

-----------------------------------------------------------------------------
(* What a step does to the threads                                         *)

JobOnly(t) == \A u \in Threads : u # t => thr'[u] = thr[u]

(* Goto changes the place of one thread.                                   *)
LEMMA GotoStep ==
  ASSUME JobTypes, NEW t \in Threads, NEW pc \in JobPlaces, Goto(t, pc)
  PROVE  /\ thr' \in [Threads -> Thread]
         /\ thr'[t].pc = pc /\ thr'[t].got = thr[t].got /\ JobOnly(t)
  BY DEF JobTypes, Thread, Goto, JobOnly

(* Return takes a thread out of _run_job, and out of every place of it.    *)
LEMMA ReturnStep ==
  ASSUME JobTypes, NEW t \in Threads, Return(t)
  PROVE  /\ thr' \in [Threads -> Thread]
         /\ thr'[t].pc \in {"idle", "release", "inspect"}
         /\ thr'[t].got = 0 /\ JobOnly(t)
<1> DEFINE pc == IF t # Startup THEN "idle" ELSE IF held THEN "release" ELSE "inspect"
           r == [pc |-> pc, got |-> 0]
<1>1. r \in Thread /\ r.pc = pc /\ r.got = 0 /\ pc \in {"idle", "release", "inspect"}
  BY DEF Thread, JobPlaces
<1>2. thr' = [thr EXCEPT ![t] = r]
  BY DEF Return
<1> HIDE DEF r, pc
<1> QED
  BY <1>1, <1>2 DEF JobTypes, JobOnly

(* Fetch keeps the generation it has counted.                              *)
LEMMA JobFetchStep ==
  ASSUME JobTypes, NEW t \in Threads, Fetch(t)
  PROVE  /\ thr' \in [Threads -> Thread]
         /\ thr'[t].pc = "publish" /\ thr'[t].got = inventory /\ JobOnly(t)
  BY DEF JobTypes, Thread, Fetch, JobOnly, JobPlaces, InJob

(* The places that the actions name.                                       *)
LEMMA PlacesAre ==
  {"idle", "check", "read", "mark", "begin", "fetch", "publish", "record", "fail",
   "clear", "inspect", "release", "done"} = JobPlaces
  BY DEF JobPlaces, InJob

-----------------------------------------------------------------------------
(* One step of a thread *)

(* The start-up thread takes one of three ways after its first run.        *)
LEMMA InspectStep ==
  ASSUME JobTypes, NEW t \in Threads, Inspect(t)
  PROVE  Goto(t, "done") \/ Goto(t, "check")
  BY DEF JobTypes, Inspect

(* What it may do to the threads, whichever step it is.                    *)
LEMMA JobStepTypes ==
  ASSUME JobTypes, NEW t \in Threads, Step(t) \/ Trigger(t) \/ AskSummary(t)
  PROVE  /\ JobTypes' /\ JobOnly(t) /\ inventory' = inventory
         /\ thr'[t].got \in {0, thr[t].got, inventory}
<1> USE PlacesAre
<1>t. /\ thr[t] \in Thread /\ store.status \in Statuses /\ store.totals \in Nat
      /\ thr[t].got \in Nat
  BY DEF JobTypes, Thread
<1>1. CASE \E pc \in JobPlaces : Goto(t, pc)
  <2>1. /\ thr' \in [Threads -> Thread] /\ JobOnly(t) /\ thr'[t].got = thr[t].got
    BY <1>1, GotoStep
  <2>2. store' \in [status : Statuses, totals : Nat]
    BY <1>t DEF JobTypes, Statuses, Step, Trigger, AskSummary, Begin, GetSummary, PassCheck,
       SkipOverlap, Mark, BeginRun, Fetch, FetchFails, Publish, Fail, Record, RecordFails,
       Clear, Inspect, Release
  <2>3. history' \in Nat /\ inventory' = inventory /\ failures' \in Nat
    BY <1>t DEF JobTypes, Step, Trigger, AskSummary, Begin, GetSummary, PassCheck,
       SkipOverlap, Mark, BeginRun, Fetch, FetchFails, Publish, Fail, Record, RecordFails,
       Clear, Inspect, Release
  <2> QED
    BY <2>1, <2>2, <2>3 DEF JobTypes
<1>2. CASE Fetch(t)
  BY <1>2, JobFetchStep DEF JobTypes, Fetch
<1>3. CASE SkipOverlap(t) \/ Clear(t)
  <2>1. thr' \in [Threads -> Thread] /\ JobOnly(t) /\ thr'[t].got = 0
    BY <1>3, ReturnStep DEF SkipOverlap, Clear
  <2> QED
    BY <1>3, <2>1 DEF JobTypes, SkipOverlap, Clear
<1>4. CASE ~Fetch(t) /\ ~SkipOverlap(t) /\ ~Clear(t)
  BY <1>1, <1>4, InspectStep DEF Step, Trigger, AskSummary, Begin, GetSummary, PassCheck, Mark,
     BeginRun,
     FetchFails, Publish, Fail, Record, RecordFails, Release
<1> QED
  BY <1>2, <1>3, <1>4

-----------------------------------------------------------------------------
(* The invariant *)

(* It holds at first.                                                      *)
LEMMA JobInitInv == ASSUME SummaryInit PROVE JobInv
<1>1. \A t \in Threads : thr[t] \in Thread /\ thr[t].pc \in {"check", "idle"} /\ thr[t].got = 0
  BY PlacesAre DEF SummaryInit, Thread
<1>2. JobTypes
  BY <1>1 DEF SummaryInit, JobTypes, Statuses
<1> QED
  BY <1>1, <1>2 DEF SummaryInit, JobInv, OneJob, Counted, Recorded, StatusIsLive, InJobs, InJob

(* What the steps from one place of _run_job to another do.                *)
LEMMA Courses ==
  ASSUME JobTypes, NEW t \in Threads, Step(t) \/ Trigger(t) \/ AskSummary(t)
  PROVE  \/ /\ thr[t].pc \notin InJob /\ thr'[t].pc \notin InJob
            /\ UNCHANGED <<store, history, refreshing, raced, failures>>
         \/ /\ PassCheck(t) /\ thr[t].pc = "check" /\ thr'[t].pc = "mark"
         \/ /\ Mark(t) /\ thr[t].pc = "mark" /\ thr'[t].pc = "begin"
         \/ /\ BeginRun(t) /\ thr[t].pc = "begin" /\ thr'[t].pc = "fetch"
         \/ /\ Fetch(t) /\ thr[t].pc = "fetch" /\ thr'[t].pc = "publish"
            /\ thr'[t].got = inventory
         \/ /\ FetchFails(t) /\ thr[t].pc = "fetch" /\ thr'[t].pc = "fail"
         \/ /\ Publish(t) /\ thr[t].pc = "publish" /\ thr'[t].pc = "record"
            /\ thr'[t].got = thr[t].got
         \/ /\ Fail(t) /\ thr[t].pc = "fail" /\ thr'[t].pc = "clear"
         \/ /\ Record(t) /\ thr[t].pc = "record" /\ thr'[t].pc = "clear"
         \/ /\ RecordFails(t) /\ thr[t].pc = "record" /\ thr'[t].pc = "clear"
         \/ /\ Clear(t) /\ thr[t].pc = "clear" /\ thr'[t].pc \notin InJob
<1> USE PlacesAre
<1>1. CASE SkipOverlap(t) \/ Clear(t)
  BY <1>1, ReturnStep DEF SkipOverlap, Clear, InJob, At
<1>2. CASE Fetch(t)
  BY <1>2, JobFetchStep DEF Fetch, At
<1>3. CASE Inspect(t) \/ Release(t) \/ GetSummary(t) \/ Trigger(t) \/ AskSummary(t)
  <2>1. /\ \E pc \in JobPlaces \ InJob : Goto(t, pc)
        /\ thr[t].pc \notin InJob
        /\ UNCHANGED <<store, history, refreshing, raced, failures>>
    BY <1>3, InspectStep DEF Inspect, Release, GetSummary, Trigger, AskSummary, Begin, At, InJob
  <2> QED
    BY <2>1, GotoStep
<1>4. CASE PassCheck(t) \/ Mark(t) \/ BeginRun(t) \/ FetchFails(t)
  BY <1>4, GotoStep DEF PassCheck, Mark, BeginRun, FetchFails, At
<1>5. CASE Publish(t) \/ Fail(t) \/ Record(t) \/ RecordFails(t)
  BY <1>5, GotoStep DEF Publish, Fail, Record, RecordFails, At
<1> QED
  BY <1>1, <1>2, <1>3, <1>4, <1>5 DEF Step

(* A step of a thread keeps the invariant.                                 *)
LEMMA StepInv ==
  ASSUME JobInv, NEW t \in Threads, Step(t) \/ Trigger(t) \/ AskSummary(t)
  PROVE  JobInv'
<1>t. /\ JobTypes /\ JobTypes' /\ JobOnly(t) /\ inventory' = inventory
      /\ thr'[t].got \in {0, thr[t].got, inventory}
      /\ store.totals \in Nat /\ inventory \in Nat /\ failures \in Nat
      /\ \A u \in Threads : thr[u].got \in Nat
  BY JobStepTypes DEF JobInv, JobTypes, Thread
<1>1. CASE /\ thr[t].pc \notin InJob /\ thr'[t].pc \notin InJob
           /\ UNCHANGED <<store, history, refreshing, raced, failures>>
  BY <1>1, <1>t DEF JobInv, JobOnly, OneJob, Counted, Recorded, StatusIsLive, InJobs, InJob
<1>2. CASE PassCheck(t) /\ thr[t].pc = "check" /\ thr'[t].pc = "mark"
  <2>1. UNCHANGED <<store, history, refreshing, failures>> /\ ~refreshing
    BY <1>2 DEF PassCheck
  <2>2. ASSUME ~raced'
        PROVE  ~raced /\ \A u \in Threads : u # t => thr[u].pc \notin InJob
    <3>1. ~raced /\ \A u \in Threads \ {t} : thr[u].pc # "mark"
      BY <1>2, <2>2 DEF PassCheck, At
    <3>2. \A u \in Threads : ~InJobs(u)
      BY <2>1, <3>1 DEF JobInv, OneJob
    <3> QED
      BY <3>1, <3>2 DEF InJobs
  <2>3. ~raced' => OneJob'
    BY <1>2, <1>t, <2>1, <2>2 DEF JobOnly, OneJob, InJobs
  <2>4. ~raced' => Counted' /\ Recorded'
    BY <1>2, <1>t, <2>1, <2>2 DEF JobInv, JobOnly, Counted, Recorded
  <2>5. StatusIsLive' /\ (refreshing' => \E u \in Threads : InJobs(u)')
    BY <1>2, <1>t, <2>1 DEF JobInv, JobOnly, StatusIsLive
  <2> QED
    BY <1>2, <1>t, <2>1, <2>3, <2>4, <2>5 DEF JobInv, JobOnly
<1>3. CASE Mark(t) /\ thr[t].pc = "mark" /\ thr'[t].pc = "begin"
  BY <1>3, <1>t DEF Mark, JobInv, JobOnly, OneJob, Counted, Recorded, StatusIsLive, InJobs, InJob
<1>4. CASE BeginRun(t) /\ thr[t].pc = "begin" /\ thr'[t].pc = "fetch"
  <2>1. store'.totals = store.totals
    BY <1>4, <1>t DEF BeginRun, JobTypes
  <2> QED
    BY <1>4, <1>t, <2>1 DEF BeginRun, JobInv, JobOnly, OneJob, Counted, Recorded, StatusIsLive,
       InJobs, InJob
<1>5. CASE Fetch(t) /\ thr[t].pc = "fetch" /\ thr'[t].pc = "publish" /\ thr'[t].got = inventory
  BY <1>5, <1>t DEF Fetch, JobInv, JobOnly, OneJob, Counted, Recorded, StatusIsLive, InJobs, InJob
<1>6. CASE FetchFails(t) /\ thr[t].pc = "fetch" /\ thr'[t].pc = "fail"
  BY <1>6, <1>t DEF FetchFails, JobInv, JobOnly, OneJob, Counted, Recorded, StatusIsLive,
     InJobs, InJob
<1>7. CASE Publish(t) /\ thr[t].pc = "publish" /\ thr'[t].pc = "record" /\ thr'[t].got = thr[t].got
  <2>1. store'.totals = thr[t].got /\ store'.status = "ok"
    BY <1>7 DEF Publish
  <2> QED
    BY <1>7, <1>t, <2>1 DEF Publish, JobInv, JobOnly, OneJob, Counted, Recorded, StatusIsLive,
       InJobs, InJob
<1>8. CASE Fail(t) /\ thr[t].pc = "fail" /\ thr'[t].pc = "clear"
  <2>1. store'.totals = store.totals /\ store'.status = "error"
    BY <1>8, <1>t DEF Fail, JobTypes
  <2> QED
    BY <1>8, <1>t, <2>1 DEF Fail, JobInv, JobOnly, OneJob, Counted, Recorded, StatusIsLive,
       InJobs, InJob
<1>9. CASE Record(t) /\ thr[t].pc = "record" /\ thr'[t].pc = "clear"
  BY <1>9, <1>t DEF Record, JobInv, JobOnly, OneJob, Counted, Recorded, StatusIsLive, InJobs,
     InJob
<1>10. CASE RecordFails(t) /\ thr[t].pc = "record" /\ thr'[t].pc = "clear"
  BY <1>10, <1>t DEF RecordFails, JobInv, JobOnly, OneJob, Counted, Recorded, StatusIsLive,
     InJobs, InJob
<1>11. CASE Clear(t) /\ thr[t].pc = "clear" /\ thr'[t].pc \notin InJob
  BY <1>11, <1>t DEF Clear, JobInv, JobOnly, OneJob, Counted, Recorded, StatusIsLive, InJobs,
     InJob
<1> QED
  BY <1>t, <1>1, <1>2, <1>3, <1>4, <1>5, <1>6, <1>7, <1>8, <1>9, <1>10, <1>11, Courses

(* So does every step.                                                     *)
LEMMA JobNextInv == ASSUME JobInv, [SummaryNext]_summaryVars PROVE JobInv'
<1>1. CASE \E t \in Threads : Step(t) \/ Trigger(t) \/ AskSummary(t)
  BY <1>1, StepInv
<1>2. CASE ChangeInventory
  BY <1>2 DEF ChangeInventory, JobInv, JobTypes, Thread, OneJob, Counted, Recorded,
     StatusIsLive, InJobs
<1>3. CASE UNCHANGED summaryVars
  BY <1>3 DEF summaryVars, JobInv, JobTypes, OneJob, Counted, Recorded, StatusIsLive, InJobs
<1> QED
  BY <1>1, <1>2, <1>3 DEF SummaryNext

(* The invariant is one of the specification.                              *)
THEOREM Invariance == SummarySpec => []JobInv
<1>1. SummaryInit => JobInv
  BY JobInitInv
<1>2. JobInv /\ [SummaryNext]_summaryVars => JobInv'
  BY JobNextInv
<1> QED
  BY <1>1, <1>2, PTL DEF SummarySpec

-----------------------------------------------------------------------------
(* Theorems *)

(* No path out of _run_job leaves _running set, whatever fails and however  *)
(* many runs raced: MarkHasOwner.                                          *)
THEOREM MarkCorrect == SummarySpec => []MarkHasOwner
<1>1. JobInv => MarkHasOwner
  BY DEF JobInv, MarkHasOwner, Jobs, InJobs
<1> QED
  BY <1>1, Invariance, PTL

(* _run_job runs once at a time, as long as no two threads have been between *)
(* the test of _running and its set(): OverlapNeedsRace.                   *)
THEOREM OverlapCorrect == SummarySpec => []OverlapNeedsRace
<1>1. JobInv => OverlapNeedsRace
  <2> SUFFICES ASSUME JobInv, ~raced PROVE Cardinality(Jobs) <= 1
    BY DEF OverlapNeedsRace
  <2>1. \A t, u \in Jobs : t = u
    BY DEF JobInv, OneJob, Jobs
  <2>2. CASE Jobs = {}
    BY <2>2, FS_EmptySet
  <2>3. CASE Jobs # {}
    <3>1. PICK t \in Jobs : TRUE
      BY <2>3
    <3>2. Jobs = {t}
      BY <2>1, <3>1
    <3>3. Cardinality({t}) = 1
      BY FS_Singleton, Zenon
    <3> QED
      BY <3>2, <3>3
  <2> QED
    BY <2>2, <2>3
<1> QED
  BY <1>1, Invariance, PTL

(* The status "running" is that of a run that has yet to end: StatusIsLive. *)
THEOREM StatusCorrect == SummarySpec => []StatusIsLive
<1>1. JobInv => StatusIsLive
  BY DEF JobInv
<1> QED
  BY <1>1, Invariance, PTL

(* Between runs that did not race or fail, the trend graph's entry of today *)
(* is what the dashboard shows (record_today after the store's update):    *)
(* HistoryMatchesStore.                                                    *)
THEOREM HistoryCorrect == SummarySpec => []HistoryMatchesStore
<1>1. JobInv => HistoryMatchesStore
  BY DEF JobInv, Recorded, HistoryMatchesStore, Jobs, InJob
<1> QED
  BY <1>1, Invariance, PTL

(* The only step that changes the totals is the publication of what a run   *)
(* has counted, and unless runs raced that is nothing older:               *)
(* TotalsNeverGoBack.                                                      *)
THEOREM TotalsCorrect == SummarySpec => TotalsNeverGoBack
<1>1. JobInv /\ [SummaryNext]_summaryVars => [~raced' => store'.totals >= store.totals]_summaryVars
  <2> SUFFICES ASSUME JobInv, SummaryNext, ~raced'
               PROVE  store'.totals >= store.totals
    OBVIOUS
  <2>1. JobTypes /\ store.totals \in Nat
    BY DEF JobInv, JobTypes
  <2>2. CASE ChangeInventory
    BY <2>1, <2>2 DEF ChangeInventory
  <2>3. ASSUME NEW t \in Threads, Step(t) \/ Trigger(t) \/ AskSummary(t)
        PROVE  store'.totals >= store.totals
    <3>1. CASE Publish(t)
      BY <2>1, <3>1 DEF Publish, At, JobInv, Counted
    <3>2. CASE ~Publish(t)
      <4>1. store'.totals = store.totals
        BY <2>1, <2>3, <3>2, Courses DEF JobTypes, PassCheck, Mark, BeginRun, Fetch, FetchFails,
           Fail, Record, RecordFails, Clear
      <4> QED
        BY <2>1, <4>1
    <3> QED
      BY <3>1, <3>2
  <2> QED
    BY <2>2, <2>3 DEF SummaryNext
<1>2. SummarySpec => []JobInv /\ [][SummaryNext]_summaryVars
  BY Invariance, PTL DEF SummarySpec
<1> QED
  BY <1>1, <1>2, PTL DEF TotalsNeverGoBack

-----------------------------------------------------------------------------
(* The six caches: Caches *)

StarterPlaces == {"inspect", "sleep", "retry", "remark", "stuck", "done"}
EventOutside == {"idle", "check", "mark", "over"} \cup StarterPlaces
EventPlaces == {"begin", "list", "fetch", "clear"} \cup EventOutside
AdomPlaces == {"idle", "list", "publish", "over"}
RulePlaces == {"idle", "list", "enter", "fetch", "publish", "clear", "over"}
PendingPlaces == {"idle", "enter", "list", "fetch", "store", "over"}
Places == {"idle", "check", "mark", "begin", "list", "enter", "fetch", "store", "publish", "clear",
           "over"} \cup StarterPlaces

(* What a refresh has read: some of the ADOMs.                             *)
Results == UNION {[S -> Nat] : S \in SUBSET Adoms}
Refresh == [pc : Places, left : SUBSET Adoms, got : Results, short : BOOLEAN]

Types ==
    /\ cache \in CacheKinds
    /\ generation \in [Adoms -> Nat] /\ cached \in [Adoms -> Nat]
    /\ status \in [Adoms -> {"pending", "running", "ok", "error"}]
    /\ short \subseteq Adoms /\ marks \subseteq Adoms /\ outages \in Nat
    /\ refresh \in [Refreshers -> Refresh]

Got(t) == refresh[t].got
Short(t) == refresh[t].short

Only(t) == \A u \in Refreshers : u # t => refresh'[u] = refresh[u]

-----------------------------------------------------------------------------
(* What the actions make of the refresh of one thread *)

(* Nothing read yet is a result.                                           *)
LEMMA NothingRead == << >> \in Results /\ DOMAIN << >> = {}
<1>1. << >> \in [{} -> Nat]
  OBVIOUS
<1> QED
  BY <1>1 DEF Results

(* A result has a generation for each of its ADOMs.                        *)
LEMMA ResultIs ==
  ASSUME NEW g \in Results
  PROVE  DOMAIN g \subseteq Adoms /\ \A a \in DOMAIN g : g[a] \in Nat
  BY DEF Results

(* A result of its ADOMs.                                                  *)
LEMMA ResultOf ==
  ASSUME NEW S \in SUBSET Adoms, NEW f \in [Adoms -> Nat]
  PROVE  [a \in S |-> f[a]] \in Results
<1>1. [a \in S |-> f[a]] \in [S -> Nat]
  OBVIOUS
<1> QED
  BY <1>1 DEF Results

(* The refresh of one thread is replaced.                                  *)
LEMMA SetRefresh ==
  ASSUME Types, NEW t \in Refreshers, NEW r \in Refresh, refresh' = [refresh EXCEPT ![t] = r]
  PROVE  refresh' \in [Refreshers -> Refresh] /\ Only(t) /\ refresh'[t] = r
  BY DEF Types, Only

(* Turn changes the place of one refresh.                                  *)
LEMMA TurnStep ==
  ASSUME Types, NEW t \in Refreshers, NEW pc \in Places, Turn(t, pc)
  PROVE  /\ refresh' \in [Refreshers -> Refresh] /\ Only(t)
         /\ refresh'[t].pc = pc /\ refresh'[t].left = refresh[t].left /\ Got(t)' = Got(t)
         /\ Short(t)' = Short(t)
<1> DEFINE r == [refresh[t] EXCEPT !.pc = pc]
<1>1. refresh[t] \in Refresh
  BY DEF Types
<1>2. /\ r \in Refresh /\ r.pc = pc /\ r.left = refresh[t].left /\ r.got = Got(t)
      /\ r.short = Short(t)
  BY <1>1 DEF Refresh, Got, Short
<1>3. refresh' = [refresh EXCEPT ![t] = r]
  BY <1>1 DEF Types, Refresh, Turn
<1> HIDE DEF r
<1> QED
  BY <1>2, <1>3, SetRefresh DEF Got, Short

(* ListAdoms decides on what is to be read.                                *)
LEMMA ListStep ==
  ASSUME Types, NEW t \in Refreshers, ListAdoms(t)
  PROVE  /\ refresh' \in [Refreshers -> Refresh] /\ Only(t)
         /\ IF cache = "adoms" THEN refresh'[t].pc = "publish" /\ Got(t)' = generation
            ELSE IF cache = "rules" THEN refresh'[t].pc = "enter" /\ Got(t)' = << >>
            ELSE refresh'[t].pc = "fetch" /\ Got(t)' = << >> /\ refresh'[t].left = Adoms
         /\ ~Short(t)'
<1> DEFINE pc == IF cache = "adoms" THEN "publish" ELSE IF cache = "rules" THEN "enter" ELSE "fetch"
           left == IF cache = "adoms" THEN {} ELSE Adoms
           got == IF cache = "adoms" THEN generation ELSE << >>
           r == [pc |-> pc, left |-> left, got |-> got, short |-> FALSE]
<1>2. pc \in Places /\ left \subseteq Adoms /\ got \in Results
  <2>1. generation \in Results
    BY DEF Types, Results
  <2> QED
    BY <2>1, NothingRead DEF Places
<1>3. refresh' = [refresh EXCEPT ![t] = r]
  BY DEF ListAdoms, NoRefresh
<1> HIDE DEF pc, left, got
<1>4. r \in Refresh /\ r.pc = pc /\ r.left = left /\ r.got = got /\ ~r.short
  BY <1>2 DEF Refresh
<1> HIDE DEF r
<1> USE DEF pc, left, got
<1> QED
  BY <1>3, <1>4, SetRefresh DEF Got, Short

(* A failure is counted.                                                   *)
LEMMA OutageTypes == ASSUME Types, Outage PROVE outages' \in Nat /\ outages' > 0
  BY DEF Types, Outage

(* Build reads what the ADOM has now.                                      *)
LEMMA BuildStep ==
  ASSUME Types, NEW t \in Refreshers, BuildAdom(t)
  PROVE  /\ refresh' \in [Refreshers -> Refresh] /\ Only(t)
         /\ refresh'[t].pc = "publish" /\ DOMAIN Got(t)' = DOMAIN Got(t)
         /\ \A a \in DOMAIN Got(t) : Got(t)'[a] = generation[a]
         /\ Short(t)' => outages' > 0
<1>p. PICK part \in BOOLEAN :
         /\ part => Outage
         /\ refresh' = [refresh EXCEPT ![t].pc = "publish", ![t].short = part,
                                       ![t].got = [a \in DOMAIN @ |-> generation[a]]]
  BY DEF BuildAdom
<1>o. part => outages' > 0
  BY <1>p DEF Types, Outage
<1> DEFINE pc == "publish"
           left == refresh[t].left
           got == [a \in DOMAIN Got(t) |-> generation[a]]
           r == [refresh[t] EXCEPT !.pc = pc, !.short = part, !.got = got]
<1>1. refresh[t] \in Refresh /\ Got(t) \in Results /\ refresh[t].left \subseteq Adoms
      /\ refresh[t].pc \in Places
  BY DEF Types, Refresh, Got
<1>2. pc \in Places /\ left = refresh[t].left /\ got \in Results
  BY <1>1, NothingRead, ResultIs, ResultOf DEF Places, Types
<1>3. refresh' = [refresh EXCEPT ![t] = r]
  BY <1>1, <1>p DEF Types, Refresh, Got
<1> HIDE DEF pc, left, got
<1>4. r \in Refresh /\ r.pc = pc /\ r.left = left /\ r.got = got /\ r.short = part
  BY <1>1, <1>2 DEF Refresh, Got
<1> HIDE DEF r
<1> USE DEF pc, left, got
<1> QED
  BY <1>3, <1>4, <1>o, SetRefresh DEF Got, Short

(* StorePending drops what it has stored.                                  *)
LEMMA StoreStep ==
  ASSUME Types, NEW t \in Refreshers, StorePending(t)
  PROVE  /\ refresh' \in [Refreshers -> Refresh] /\ Only(t)
         /\ refresh'[t].pc = "fetch" /\ Got(t)' = << >>
         /\ ~Short(t)'
<1> DEFINE pc == "fetch"
           left == refresh[t].left
           got == << >>
           r == [refresh[t] EXCEPT !.pc = pc, !.got = got, !.short = FALSE]
<1>1. refresh[t] \in Refresh /\ Got(t) \in Results /\ refresh[t].left \subseteq Adoms
      /\ refresh[t].pc \in Places
  BY DEF Types, Refresh, Got
<1>2. pc \in Places /\ left = refresh[t].left /\ got \in Results
  BY <1>1, NothingRead, ResultIs, ResultOf DEF Places, Types
<1>3. refresh' = [refresh EXCEPT ![t] = r]
  BY <1>1 DEF Types, Refresh, Got, StorePending
<1> HIDE DEF pc, left, got
<1>4. r \in Refresh /\ r.pc = pc /\ r.left = left /\ r.got = got /\ ~r.short
  BY <1>1, <1>2 DEF Refresh, Got
<1> HIDE DEF r
<1> USE DEF pc, left, got
<1> QED
  BY <1>3, <1>4, SetRefresh DEF Got, Short

(* ClearMark too.                                                          *)
LEMMA ClearStep ==
  ASSUME Types, NEW t \in Refreshers, ClearMark(t)
  PROVE  /\ refresh' \in [Refreshers -> Refresh] /\ Only(t)
         /\ refresh'[t].pc = (IF cache = "rules" THEN "enter" ELSE "over") /\ Got(t)' = << >>
         /\ ~Short(t)'
<1> DEFINE pc == IF cache = "rules" THEN "enter" ELSE "over"
           left == refresh[t].left
           got == << >>
           r == [refresh[t] EXCEPT !.pc = pc, !.got = got, !.short = FALSE]
<1>1. refresh[t] \in Refresh /\ Got(t) \in Results /\ refresh[t].left \subseteq Adoms
      /\ refresh[t].pc \in Places
  BY DEF Types, Refresh, Got
<1>2. pc \in Places /\ left = refresh[t].left /\ got \in Results
  BY <1>1, NothingRead, ResultIs, ResultOf DEF Places, Types
<1>3. refresh' = [refresh EXCEPT ![t] = r]
  BY <1>1 DEF Types, Refresh, Got, ClearMark
<1> HIDE DEF pc, left, got
<1>4. r \in Refresh /\ r.pc = pc /\ r.left = left /\ r.got = got /\ ~r.short
  BY <1>1, <1>2 DEF Refresh, Got
<1> HIDE DEF r
<1> USE DEF pc, left, got
<1> QED
  BY <1>3, <1>4, SetRefresh DEF Got, Short

(* PublishResult keeps it until it clears the mark.                        *)
LEMMA PublishStep ==
  ASSUME Types, NEW t \in Refreshers, PublishResult(t)
  PROVE  /\ refresh' \in [Refreshers -> Refresh] /\ Only(t)
         /\ refresh'[t].pc = (IF cache = "adoms" THEN "over" ELSE "clear") /\ Got(t)' = Got(t)
         /\ Short(t)' = Short(t)
<1>1. Turn(t, IF cache = "adoms" THEN "over" ELSE "clear")
  BY DEF PublishResult, Turn
<1>2. (IF cache = "adoms" THEN "over" ELSE "clear") \in Places
  BY DEF Places
<1> QED
  BY <1>1, <1>2, TurnStep

(* ForgetRefresh leaves nothing.                                           *)
LEMMA ForgetStep ==
  ASSUME Types, NEW t \in Refreshers, ForgetRefresh(t)
  PROVE  /\ refresh' \in [Refreshers -> Refresh] /\ Only(t)
         /\ refresh'[t].pc = (IF FirstOfMap(t) THEN "inspect" ELSE "idle") /\ Got(t)' = << >>
         /\ ~Short(t)'
<1> DEFINE pc == IF FirstOfMap(t) THEN "inspect" ELSE "idle"
           r == [NoRefresh EXCEPT !.pc = pc]
<1>1. r \in Refresh /\ r.pc = pc /\ r.got = << >> /\ ~r.short
  BY NothingRead DEF Refresh, NoRefresh, Places, StarterPlaces
<1>2. refresh' = [refresh EXCEPT ![t] = r]
  BY DEF ForgetRefresh, NoRefresh
<1> HIDE DEF r
<1> QED
  BY <1>1, <1>2, SetRefresh DEF Got, Short

(* SkipAdom leaves one ADOM out.                                           *)
LEMMA SkipStep ==
  ASSUME Types, NEW t \in Refreshers, NEW a \in Adoms, SkipAdom(t, a)
  PROVE  /\ refresh' \in [Refreshers -> Refresh] /\ Only(t)
         /\ refresh'[t].pc = refresh[t].pc /\ Got(t)' = Got(t)
         /\ refresh'[t].left = refresh[t].left \ {a} /\ Short(t)' = Short(t)
<1> DEFINE left == refresh[t].left \ {a}
           r == [refresh[t] EXCEPT !.left = left]
<1>1. refresh[t] \in Refresh /\ refresh[t].left \subseteq Adoms
  BY DEF Types, Refresh
<1>2. left \subseteq Adoms
  BY <1>1
<1>3. refresh' = [refresh EXCEPT ![t] = r]
  BY <1>1 DEF Types, Refresh, SkipAdom
<1> HIDE DEF left
<1>4. /\ r \in Refresh /\ r.pc = refresh[t].pc /\ r.left = left /\ r.got = refresh[t].got
      /\ r.short = refresh[t].short
  BY <1>1, <1>2 DEF Refresh
<1> HIDE DEF r
<1> USE DEF left
<1> QED
  BY <1>3, <1>4, SetRefresh DEF Got, Short

(* FetchAdom adds one.                                                     *)
LEMMA FetchStep ==
  ASSUME Types, NEW t \in Refreshers, NEW a \in Adoms, FetchAdom(t, a)
  PROVE  /\ refresh' \in [Refreshers -> Refresh] /\ Only(t)
         /\ refresh'[t].pc = IF cache = "pending changes" THEN "store" ELSE "fetch"
         /\ refresh'[t].left = refresh[t].left \ {a}
         /\ DOMAIN Got(t)' = DOMAIN Got(t) \cup {a}
         /\ Got(t)'[a] = generation[a]
         /\ \A b \in DOMAIN Got(t) : b # a => Got(t)'[b] = Got(t)[b]
         /\ Short(t)' => cache = "pending changes" /\ outages' > 0
<1>p. PICK part \in {FALSE} \cup (IF cache = "pending changes" THEN {TRUE} ELSE {}) :
         /\ part => Outage
         /\ refresh' = [refresh EXCEPT ![t].left = @ \ {a}, ![t].short = part,
               ![t].pc = IF cache = "pending changes" THEN "store" ELSE "fetch",
               ![t].got = [b \in DOMAIN @ \cup {a} |-> IF b = a THEN generation[a] ELSE @[b]]]
  BY DEF FetchAdom
<1>o. part \in BOOLEAN /\ (part => cache = "pending changes" /\ outages' > 0)
  <2>1. part \in BOOLEAN /\ (part => cache = "pending changes")
    <3>1. CASE cache = "pending changes"
      BY <3>1
    <3>2. CASE cache # "pending changes"
      <4>1. part \in {FALSE}
        BY <3>2
      <4> QED
        BY <4>1
    <3> QED
      BY <3>1, <3>2
  <2>2. Outage => outages' > 0
    BY OutageTypes
  <2>3. part => Outage
    BY <1>p
  <2>4. part => outages' > 0
    BY <2>2, <2>3
  <2> QED
    BY <2>1, <2>4, Zenon
<1> DEFINE pc == IF cache = "pending changes" THEN "store" ELSE "fetch"
           left == refresh[t].left \ {a}
           got == [b \in DOMAIN Got(t) \cup {a} |-> IF b = a THEN generation[a] ELSE Got(t)[b]]
           r == [refresh[t] EXCEPT !.left = left, !.short = part, !.pc = pc, !.got = got]
<1>1. refresh[t] \in Refresh /\ Got(t) \in Results /\ refresh[t].left \subseteq Adoms
  BY DEF Types, Refresh, Got
<1>2. pc \in Places /\ left \subseteq Adoms
  BY <1>1 DEF Places
<1>3. got \in Results
  <2>1. generation[a] \in Nat /\ DOMAIN Got(t) \subseteq Adoms /\ \A b \in DOMAIN Got(t) : Got(t)[b] \in Nat
    BY <1>1, ResultIs DEF Types
  <2>2. got \in [DOMAIN Got(t) \cup {a} -> Nat]
    BY <2>1
  <2> QED
    BY <2>1, <2>2 DEF Results
<1>4. refresh' = [refresh EXCEPT ![t] = r]
  BY <1>1, <1>p DEF Types, Refresh, Got
<1> HIDE DEF pc, left, got
<1>5. r \in Refresh /\ r.pc = pc /\ r.left = left /\ r.got = got /\ r.short = part
  BY <1>1, <1>2, <1>3, <1>o DEF Refresh
<1> HIDE DEF r
<1>6. refresh' \in [Refreshers -> Refresh] /\ Only(t) /\ refresh'[t] = r
  BY <1>4, <1>5, SetRefresh
<1> USE DEF pc, left, got
<1> QED
  BY <1>5, <1>6, <1>o DEF Got, Short

(* EnterAdom takes the next ADOM, with nothing read of it, or leaves it out. *)
LEMMA EnterStep ==
  ASSUME Types, NEW t \in Refreshers, NEW a \in Adoms, EnterAdom(t, a)
  PROVE  /\ refresh' \in [Refreshers -> Refresh] /\ Only(t)
         /\ IF a \in marks
            THEN refresh'[t].pc = refresh[t].pc /\ Got(t)' = Got(t)
            ELSE refresh'[t].pc = "fetch" /\ DOMAIN Got(t)' = {a} /\ Got(t)'[a] = 0
         /\ Short(t)' = Short(t)
<1> DEFINE left == refresh[t].left \ {a}
           got == [b \in {a} |-> 0]
<1>1. refresh[t] \in Refresh /\ Got(t) \in Results /\ refresh[t].left \subseteq Adoms
  BY DEF Types, Refresh, Got
<1>2. "fetch" \in Places /\ left \subseteq Adoms
  BY <1>1 DEF Places
<1>3. got \in Results
  <2>1. got \in [{a} -> Nat]
    OBVIOUS
  <2> QED
    BY <2>1 DEF Results
<1>4. CASE a \in marks
  <2> DEFINE r == [refresh[t] EXCEPT !.left = left]
  <2>1. refresh' = [refresh EXCEPT ![t] = r]
    BY <1>1, <1>4 DEF Types, Refresh, EnterAdom, Busy
  <2> HIDE DEF left
  <2>2. /\ r \in Refresh /\ r.pc = refresh[t].pc /\ r.got = refresh[t].got
        /\ r.short = refresh[t].short
    BY <1>1, <1>2 DEF Refresh
  <2> HIDE DEF r
  <2> QED
    BY <1>4, <2>1, <2>2, SetRefresh DEF Got, Short
<1>5. CASE a \notin marks
  <2> DEFINE r == [refresh[t] EXCEPT !.pc = "fetch", !.left = left, !.got = got]
  <2>1. refresh' = [refresh EXCEPT ![t] = r]
    BY <1>1, <1>5 DEF Types, Refresh, EnterAdom, Busy
  <2> HIDE DEF left, got
  <2>2. r \in Refresh /\ r.pc = "fetch" /\ r.got = got /\ r.short = refresh[t].short
    BY <1>1, <1>2, <1>3 DEF Refresh
  <2> HIDE DEF r
  <2>3. refresh' \in [Refreshers -> Refresh] /\ Only(t) /\ refresh'[t] = r
    BY <2>1, <2>2, SetRefresh
  <2> USE DEF got
  <2> QED
    BY <1>5, <2>2, <2>3 DEF Got, Short
<1> QED
  BY <1>4, <1>5

(* A refresh begins: of one ADOM, only in the rules.                       *)
LEMMA StartStep ==
  ASSUME Types, NEW t \in Refreshers, StartRefresh(t)
  PROVE  /\ refresh' \in [Refreshers -> Refresh] /\ Only(t) /\ Got(t)' = Got(t)
         /\ Short(t)' = Short(t)
         /\ \/ refresh'[t].pc = IF cache \in EventCaches THEN "check"
                                ELSE IF cache = "pending changes" THEN "enter" ELSE "list"
            \/ refresh'[t].pc = "enter" /\ cache = "rules"
<1> DEFINE pc == IF cache \in EventCaches THEN "check"
                 ELSE IF cache = "pending changes" THEN "enter" ELSE "list"
<1>1. CASE refresh' = [refresh EXCEPT ![t].pc = pc]
  <2>1. Turn(t, pc) /\ pc \in Places
    BY <1>1 DEF Turn, Places
  <2> HIDE DEF pc
  <2>2. /\ refresh'[t].pc = pc /\ refresh' \in [Refreshers -> Refresh] /\ Only(t)
        /\ Got(t)' = Got(t) /\ Short(t)' = Short(t)
    BY <2>1, TurnStep
  <2> USE DEF pc
  <2> QED
    BY <2>2
<1>2. ASSUME cache = "rules", NEW a \in Adoms,
             refresh' = [refresh EXCEPT ![t].pc = "enter", ![t].left = {a}]
      PROVE  /\ refresh' \in [Refreshers -> Refresh] /\ Only(t) /\ Got(t)' = Got(t)
             /\ refresh'[t].pc = "enter" /\ Short(t)' = Short(t)
  <2> DEFINE left == {a}
             r == [refresh[t] EXCEPT !.pc = "enter", !.left = left]
  <2>1. refresh[t] \in Refresh /\ left \subseteq Adoms /\ "enter" \in Places
    BY DEF Types, Refresh, Places
  <2>2. refresh' = [refresh EXCEPT ![t] = r]
    BY <1>2, <2>1 DEF Types, Refresh
  <2> HIDE DEF left
  <2>3. /\ r \in Refresh /\ r.pc = "enter" /\ r.got = refresh[t].got
        /\ r.short = refresh[t].short
    BY <2>1 DEF Refresh
  <2> HIDE DEF r
  <2> QED
    BY <2>2, <2>3, SetRefresh DEF Got, Short
<1> QED
  BY <1>1, <1>2 DEF StartRefresh

-----------------------------------------------------------------------------
(* Types *)

(* The initial state is well typed.                                        *)
LEMMA InitTypes == ASSUME CachesInit PROVE Types
<1>1. NoRefresh \in Refresh
  BY NothingRead DEF Refresh, NoRefresh, Places
<1> QED
  BY <1>1 DEF CachesInit, Types

(* What is served is always a generation of each ADOM, whole or short.     *)
LEMMA ServedTypes ==
  ASSUME Types, NEW t \in Refreshers, PublishResult(t) \/ StorePending(t)
  PROVE  cached' \in [Adoms -> Nat] /\ short' \subseteq Adoms
<1>0. DOMAIN Got(t) \subseteq Adoms
  <2>1. Got(t) \in Results
    BY DEF Types, Refresh, Got
  <2> QED
    BY <2>1, ResultIs
<1>s. short' \subseteq Adoms
  BY <1>0 DEF Types, StorePending, PublishResult, ServeShort, Got
<1>1. \A a \in DOMAIN Got(t) : Got(t)[a] \in Nat
  <2>1. Got(t) \in Results
    BY DEF Types, Refresh, Got
  <2> QED
    BY <2>1, ResultIs
<1>2. CASE StorePending(t)
  BY <1>s, <1>1, <1>2 DEF Types, StorePending, Got
<1>3. CASE PublishResult(t)
  BY <1>s, <1>1, <1>3 DEF Types, PublishResult, Got
<1> QED
  BY <1>2, <1>3

(* A step of a thread keeps the types, and the refreshes of the others.    *)
LEMMA StepTypes ==
  ASSUME Types, NEW t \in Refreshers, StartRefresh(t) \/ RefreshStep(t)
  PROVE  Types' /\ Only(t) /\ cache' = cache /\ generation' = generation
<1> USE DEF Places, StarterPlaces, served
<1>1. CASE StartRefresh(t)
  BY <1>1, StartStep DEF Types, StartRefresh
<1>2. CASE TestMark(t) \/ SetMark(t) \/ BeginRefresh(t) \/ EnterPending(t) \/ LeaveRules(t)
  <2>1. \E pc \in Places : Turn(t, pc)
    BY <1>2 DEF TestMark, SetMark, BeginRefresh, EnterPending, LeaveRules
  <2>2. refresh' \in [Refreshers -> Refresh] /\ Only(t)
    BY <2>1, TurnStep
  <2> QED
    BY <1>2, <2>2 DEF Types, TestMark, SetMark, BeginRefresh, EnterPending, LeaveRules
<1>a. CASE InspectFirst(t) \/ WakeUp(t) \/ RetryTest(t) \/ RetryMark(t)
  <2>1. \E pc \in Places : Turn(t, pc)
    BY <1>a DEF InspectFirst, WakeUp, RetryTest, RetryMark
  <2>2. refresh' \in [Refreshers -> Refresh] /\ Only(t)
    BY <2>1, TurnStep
  <2> QED
    BY <1>a, <2>2 DEF Types, InspectFirst, WakeUp, RetryTest, RetryMark
<1>3. CASE ListAdoms(t)
  BY <1>3, ListStep DEF Types, ListAdoms
<1>4. CASE ListFails(t) \/ BuildFails(t) \/ EndPending(t)
  <2>1. \E pc \in Places : Turn(t, pc)
    BY <1>4 DEF ListFails, BuildFails, EndPending
  <2>2. refresh' \in [Refreshers -> Refresh] /\ Only(t)
    BY <2>1, TurnStep
  <2>3. outages' \in Nat
    BY <1>4, OutageTypes DEF Types, ListFails, BuildFails, EndPending
  <2>4. status' \in [Adoms -> {"pending", "running", "ok", "error"}]
    BY <1>4 DEF Types, ListFails, BuildFails, EndPending
  <2> QED
    BY <1>4, <2>2, <2>3, <2>4 DEF Types, ListFails, BuildFails, EndPending
<1>5. CASE StorePending(t)
  BY <1>5, StoreStep, ServedTypes DEF Types, StorePending
<1>6. CASE BuildAdom(t)
  BY <1>6, BuildStep, OutageTypes DEF Types, BuildAdom
<1>7. CASE PublishResult(t)
  <2>1. status' \in [Adoms -> {"pending", "running", "ok", "error"}]
    BY <1>7 DEF Types, PublishResult
  <2> QED
    BY <1>7, <2>1, PublishStep, ServedTypes DEF Types, PublishResult
<1>8. CASE ClearMark(t)
  BY <1>8, ClearStep DEF Types, ClearMark
<1>9. CASE ForgetRefresh(t)
  BY <1>9, ForgetStep DEF Types, ForgetRefresh
<1>10. ASSUME NEW a \in Adoms, EnterAdom(t, a) \/ FetchAdom(t, a) \/ SkipAdom(t, a)
       PROVE  Types' /\ Only(t) /\ cache' = cache /\ generation' = generation
  <2>1. CASE EnterAdom(t, a)
    <3>1. marks' \subseteq Adoms /\ status' \in [Adoms -> {"pending", "running", "ok", "error"}]
      BY <2>1 DEF Types, EnterAdom
    <3> QED
      BY <2>1, <3>1, EnterStep DEF Types, EnterAdom
  <2>2. CASE FetchAdom(t, a)
    BY <2>2, FetchStep, OutageTypes DEF Types, FetchAdom
  <2>3. CASE SkipAdom(t, a)
    BY <2>3, SkipStep, OutageTypes DEF Types, SkipAdom
  <2> QED
    BY <1>10, <2>1, <2>2, <2>3
<1> QED
  BY <1>1, <1>2, <1>a, <1>3, <1>4, <1>5, <1>6, <1>7, <1>8, <1>9, <1>10 DEF RefreshStep

-----------------------------------------------------------------------------
(* The invariant *)

Pc(t) == refresh[t].pc
Newest(t) == \A a \in DOMAIN Got(t) : cached[a] <= Got(t)[a]

(* Nothing that is read or served is newer than FortiManager's own.        *)
Bounded ==
    /\ \A a \in Adoms : cached[a] <= generation[a]
    /\ \A t \in Refreshers : \A a \in DOMAIN Got(t) : Got(t)[a] <= generation[a]

(* Under the mark of an event there is one refresh, unless two raced; what   *)
(* it could not read has failed.                                           *)
EventInside(t) == Pc(t) \in {"begin", "list", "fetch", "clear"}
EventInv ==
    /\ \A t \in Refreshers : Pc(t) \in EventPlaces
    /\ \A t \in Refreshers : Pc(t) = "fetch" =>
          Adoms \subseteq refresh[t].left \cup DOMAIN Got(t) \/ outages > 0
    /\ ~doubled =>
          /\ \A t, u \in Refreshers : EventInside(t) /\ EventInside(u) => t = u
          /\ \A t \in Refreshers : Pc(t) = "fetch" => Newest(t)

(* Without a guard two have read the list only if they overlapped.         *)
AdomInv ==
    /\ \A t \in Refreshers : Pc(t) \in AdomPlaces
    /\ \A t \in Refreshers : Pc(t) = "publish" => DOMAIN Got(t) = Adoms
    /\ ~doubled =>
          /\ \A t, u \in Refreshers : Pc(t) = "publish" /\ Pc(u) = "publish" => t = u
          /\ \A t \in Refreshers : Pc(t) = "publish" => Newest(t)

(* An ADOM that is being built is in the set, and with one thread.         *)
RuleInv ==
    /\ \A t \in Refreshers : Pc(t) \in RulePlaces /\ DOMAIN Got(t) \subseteq marks
    /\ \A t, u \in Refreshers : t # u => DOMAIN Got(t) \cap DOMAIN Got(u) = {}
    /\ \A t \in Refreshers : Pc(t) = "publish" => Newest(t)

(* Under the status "running" there is one refresh.                        *)
PendingInside(t) == Pc(t) \in {"list", "fetch", "store"}
PendingInv ==
    /\ \A t \in Refreshers : Pc(t) \in PendingPlaces
    /\ \A t \in Refreshers : PendingInside(t) => \A a \in Adoms : status[a] = "running"
    /\ Adoms # {} => \A t, u \in Refreshers : PendingInside(t) /\ PendingInside(u) => t = u
    /\ \A t \in Refreshers : Pc(t) \in {"fetch", "store"} => Newest(t)

(* Only the rules and the pending changes are read in part, after a failure. *)
ShortInv ==
    \A t \in Refreshers : Short(t) => outages > 0 /\ cache \in {"rules", "pending changes"}

Inv ==
    /\ Types /\ Bounded /\ ShortInv
    /\ cache \in EventCaches => EventInv
    /\ cache = "adoms" => AdomInv
    /\ cache = "rules" => RuleInv
    /\ cache = "pending changes" => PendingInv

(* It holds at first.                                                      *)
LEMMA InitInv == ASSUME CachesInit PROVE Inv
<1>1. \A t \in Refreshers :
         Pc(t) = "idle" /\ Got(t) = << >> /\ DOMAIN Got(t) = {} /\ ~Short(t)
  BY NothingRead DEF CachesInit, Pc, Got, Short, NoRefresh
<1>2. Types
  BY InitTypes
<1>3. Bounded
  BY <1>1 DEF CachesInit, Bounded
<1> QED
  BY <1>1, <1>2, <1>3 DEF Inv, ShortInv, EventInv, AdomInv, RuleInv, PendingInv, EventInside,
     PendingInside, EventPlaces, EventOutside, AdomPlaces, RulePlaces, PendingPlaces

(* What a refresh has, in numbers.                                         *)
LEMMA GotIs ==
  ASSUME Types, NEW t \in Refreshers
  PROVE  /\ DOMAIN Got(t) \subseteq Adoms /\ \A a \in DOMAIN Got(t) : Got(t)[a] \in Nat
         /\ \A a \in Adoms : cached[a] \in Nat /\ generation[a] \in Nat
<1>1. Got(t) \in Results
  BY DEF Types, Refresh, Got
<1> QED
  BY <1>1, ResultIs DEF Types

(* What one thread leaves to the others.                                   *)
LEMMA OthersKeep ==
  ASSUME NEW t \in Refreshers, Only(t)
  PROVE  \A u \in Refreshers : u # t =>
            /\ Pc(u)' = Pc(u) /\ Got(u)' = Got(u) /\ refresh'[u].left = refresh[u].left
            /\ Short(u)' = Short(u)
  BY DEF Only, Pc, Got, Short

(* What is served changes only by what was read.                           *)
LEMMA Served ==
  ASSUME Types, NEW t \in Refreshers, StartRefresh(t) \/ RefreshStep(t)
  PROVE  \/ cached' = cached /\ short' = short
         \/ /\ StorePending(t) /\ Pc(t) = "store"
            /\ \A a \in Adoms : cached'[a] = IF a \in DOMAIN Got(t) THEN Got(t)[a] ELSE cached[a]
         \/ /\ PublishResult(t)
            /\ Pc(t) = "publish" \/ (cache \in EventCaches /\ Pc(t) = "fetch" /\ refresh[t].left = {})
            /\ \A a \in Adoms :
                  cached'[a] = IF a \in DOMAIN Got(t) THEN Got(t)[a]
                               ELSE IF cache = "rules" THEN cached[a] ELSE 0
<1>1. CASE StorePending(t)
  BY <1>1 DEF StorePending, Refreshing, Pc, Got
<1>2. CASE PublishResult(t)
  BY <1>2 DEF PublishResult, Fetched, Refreshing, Pc, Got
<1>3. CASE ~StorePending(t) /\ ~PublishResult(t)
  BY <1>3 DEF StartRefresh, RefreshStep, TestMark, SetMark, BeginRefresh, EnterPending,
     LeaveRules, ListAdoms, ListFails, BuildAdom, BuildFails, ClearMark, EndPending, ForgetRefresh,
     EnterAdom, FetchAdom, SkipAdom, InspectFirst, WakeUp, RetryTest, RetryMark, served
<1> QED
  BY <1>1, <1>2, <1>3

(* What is read is what a thread had, or FortiManager's own, or nothing.    *)
LEMMA Read ==
  ASSUME Types, NEW t \in Refreshers, StartRefresh(t) \/ RefreshStep(t)
  PROVE  \A a \in DOMAIN Got(t)' :
            \/ a \in DOMAIN Got(t) /\ Got(t)'[a] = Got(t)[a]
            \/ Got(t)'[a] \in {0, generation[a]} /\ a \in Adoms
<1> USE DEF Places, StarterPlaces
<1>0. DOMAIN Got(t) \subseteq Adoms
  BY GotIs
<1>1. CASE StartRefresh(t)
  BY <1>1, StartStep
<1>2. CASE \E pc \in Places : Turn(t, pc)
  BY <1>2, TurnStep
<1>3. CASE TestMark(t) \/ SetMark(t) \/ BeginRefresh(t) \/ EnterPending(t) \/ LeaveRules(t)
           \/ ListFails(t) \/ BuildFails(t) \/ EndPending(t)
           \/ InspectFirst(t) \/ WakeUp(t) \/ RetryTest(t) \/ RetryMark(t)
  BY <1>2, <1>3 DEF TestMark, SetMark, BeginRefresh, EnterPending, LeaveRules, ListFails, BuildFails,
     EndPending, InspectFirst, WakeUp, RetryTest, RetryMark
<1>4. CASE ListAdoms(t)
  <2>1. DOMAIN generation = Adoms
    BY DEF Types
  <2> QED
    BY <1>4, <2>1, ListStep, NothingRead
<1>5. CASE StorePending(t) \/ ClearMark(t) \/ ForgetRefresh(t)
  BY <1>5, StoreStep, ClearStep, ForgetStep, NothingRead
<1>6. CASE BuildAdom(t)
  BY <1>0, <1>6, BuildStep
<1>7. CASE PublishResult(t)
  BY <1>7, PublishStep
<1>8. ASSUME NEW b \in Adoms, EnterAdom(t, b) \/ FetchAdom(t, b) \/ SkipAdom(t, b)
      PROVE  \A a \in DOMAIN Got(t)' :
               \/ a \in DOMAIN Got(t) /\ Got(t)'[a] = Got(t)[a]
               \/ Got(t)'[a] \in {0, generation[a]} /\ a \in Adoms
  <2>1. CASE EnterAdom(t, b)
    BY <2>1, EnterStep
  <2>2. CASE FetchAdom(t, b)
    <3>1. /\ DOMAIN Got(t)' = DOMAIN Got(t) \cup {b} /\ Got(t)'[b] = generation[b]
          /\ \A a \in DOMAIN Got(t) : a # b => Got(t)'[a] = Got(t)[a]
      BY <2>2, FetchStep
    <3> QED
      BY <3>1
  <2>3. CASE SkipAdom(t, b)
    BY <2>3, SkipStep
  <2> QED
    BY <1>8, <2>1, <2>2, <2>3
<1> QED
  BY <1>1, <1>3, <1>4, <1>5, <1>6, <1>7, <1>8 DEF RefreshStep

(* Bounded is kept.                                                        *)
LEMMA StepBounded ==
  ASSUME Types, Bounded, NEW t \in Refreshers, StartRefresh(t) \/ RefreshStep(t)
  PROVE  Bounded'
<1>1. Types' /\ Only(t) /\ generation' = generation
  BY StepTypes
<1>2. ASSUME NEW a \in Adoms PROVE cached'[a] <= generation[a]
  BY Served, GotIs DEF Bounded
<1>3. ASSUME NEW u \in Refreshers, NEW a \in DOMAIN Got(u)'
      PROVE  Got(u)'[a] <= generation[a]
  <2>1. CASE u = t
    BY <1>3, <2>1, Read, GotIs DEF Bounded
  <2>2. CASE u # t
    BY <1>1, <1>3, <2>2, OthersKeep DEF Bounded
  <2> QED
    BY <2>1, <2>2
<1> QED
  BY <1>1, <1>2, <1>3 DEF Bounded

-----------------------------------------------------------------------------
(* The caches of an event *)

(* Outages are only ever counted up.                                       *)
LEMMA OutagesGrow ==
  ASSUME Types, NEW t \in Refreshers, StartRefresh(t) \/ RefreshStep(t)
  PROVE  /\ outages > 0 => outages' > 0
         /\ \A a \in Adoms : SkipAdom(t, a) => outages' > 0
<1>1. CASE Outage
  BY <1>1 DEF Types, Outage
<1>2. CASE outages' = outages
  BY <1>2, SMTT(20) DEF SkipAdom, Outage, Types
<1> QED
  BY <1>1, <1>2 DEF StartRefresh, RefreshStep, TestMark, SetMark, BeginRefresh, EnterPending,
     LeaveRules, ListAdoms, ListFails, StorePending, BuildAdom, BuildFails, PublishResult,
     ClearMark, EndPending, ForgetRefresh, EnterAdom, FetchAdom, SkipAdom,
     InspectFirst, WakeUp, RetryTest, RetryMark

(* What a step has read in part it has read after a failure.               *)
LEMMA StepShort ==
  ASSUME Types, ShortInv, NEW t \in Refreshers, StartRefresh(t) \/ RefreshStep(t)
  PROVE  ShortInv'
<1>1. Only(t) /\ cache' = cache /\ (outages > 0 => outages' > 0)
  BY StepTypes, OutagesGrow
<1>2. Short(t)' => Short(t) \/ (outages' > 0 /\ cache \in {"rules", "pending changes"})
  <2> USE DEF Places, StarterPlaces
  <2>1. CASE StartRefresh(t)
    BY <2>1, StartStep
  <2>2. CASE \E pc \in Places : Turn(t, pc)
    BY <2>2, TurnStep
  <2>3. CASE TestMark(t) \/ SetMark(t) \/ BeginRefresh(t) \/ EnterPending(t) \/ LeaveRules(t)
             \/ ListFails(t) \/ BuildFails(t) \/ EndPending(t)
             \/ InspectFirst(t) \/ WakeUp(t) \/ RetryTest(t) \/ RetryMark(t)
    BY <2>2, <2>3 DEF TestMark, SetMark, BeginRefresh, EnterPending, LeaveRules, ListFails,
       BuildFails, EndPending, InspectFirst, WakeUp, RetryTest, RetryMark
  <2>4. CASE ListAdoms(t) \/ StorePending(t) \/ ClearMark(t) \/ ForgetRefresh(t) \/ PublishResult(t)
    BY <2>4, ListStep, StoreStep, ClearStep, ForgetStep, PublishStep
  <2>5. CASE BuildAdom(t)
    BY <2>5, BuildStep DEF BuildAdom
  <2>6. CASE \E a \in Adoms : EnterAdom(t, a) \/ FetchAdom(t, a) \/ SkipAdom(t, a)
    BY <2>6, EnterStep, FetchStep, SkipStep
  <2> QED
    BY <2>1, <2>3, <2>4, <2>5, <2>6 DEF RefreshStep
<1> QED
  BY <1>1, <1>2, OthersKeep DEF ShortInv

(* The steps that such a cache takes.                                      *)
LEMMA EventSteps ==
  ASSUME Types, EventInv, cache \in EventCaches,
         NEW t \in Refreshers, StartRefresh(t) \/ RefreshStep(t)
  PROVE  \/ /\ Pc(t) \in EventOutside \cup {"clear"} /\ Pc(t)' \in EventOutside
            /\ cached' = cached /\ (doubled => doubled')
         \/ SetMark(t) /\ Pc(t) = "mark" /\ Pc(t)' = "begin" /\ cached' = cached
         \/ /\ Pc(t) \in {"begin", "list"} /\ Pc(t)' \in {"list", "clear"}
            /\ cached' = cached /\ (doubled => doubled')
         \/ /\ Pc(t) = "list" /\ Pc(t)' = "fetch" /\ refresh'[t].left = Adoms /\ DOMAIN Got(t)' = {}
            /\ cached' = cached /\ (doubled => doubled')
         \/ /\ Pc(t) = "fetch" /\ Pc(t)' = "fetch"
            /\ cached' = cached /\ (doubled => doubled')
            /\ \E a \in Adoms : FetchAdom(t, a) \/ SkipAdom(t, a)
         \/ /\ PublishResult(t) /\ Pc(t) = "fetch" /\ Pc(t)' = "clear" /\ (doubled => doubled')
<1> USE DEF Places, EventPlaces, EventOutside, StarterPlaces, Pc, Refreshing, served
<1>0. /\ cache \notin {"adoms", "rules", "pending changes"} /\ Pc(t) \in EventPlaces
  BY DEF EventCaches, EventInv
<1>1. CASE StartRefresh(t)
  BY <1>1, StartStep DEF StartRefresh, EventCaches
<1>2. CASE TestMark(t)
  BY <1>2, TurnStep DEF TestMark
<1>3. CASE SetMark(t)
  BY <1>3, TurnStep DEF SetMark
<1>a. CASE BeginRefresh(t)
  BY <1>a, TurnStep DEF BeginRefresh
<1>b. CASE InspectFirst(t) \/ WakeUp(t) \/ RetryTest(t) \/ RetryMark(t)
  BY <1>b, TurnStep DEF InspectFirst, WakeUp, RetryTest, RetryMark
<1>4. ~EnterPending(t) /\ ~LeaveRules(t) /\ ~StorePending(t) /\ ~BuildAdom(t) /\ ~BuildFails(t)
      /\ ~EndPending(t) /\ \A a \in Adoms : ~EnterAdom(t, a)
  BY <1>0 DEF EnterPending, LeaveRules, StorePending, BuildAdom, BuildFails, EndPending, EnterAdom
<1>5. CASE ListAdoms(t)
  BY <1>0, <1>5, ListStep, NothingRead DEF ListAdoms
<1>6. CASE ListFails(t)
  BY <1>0, <1>6, TurnStep DEF ListFails
<1>7. ASSUME NEW a \in Adoms, FetchAdom(t, a) \/ SkipAdom(t, a)
      PROVE  /\ Pc(t) = "fetch" /\ Pc(t)' = "fetch"
             /\ cached' = cached /\ (doubled => doubled')
  <2>1. CASE FetchAdom(t, a)
    BY <1>0, <2>1, FetchStep DEF FetchAdom
  <2>2. CASE SkipAdom(t, a)
    BY <1>0, <2>2, SkipStep DEF SkipAdom
  <2> QED
    BY <1>7, <2>1, <2>2
<1>8. CASE PublishResult(t)
  BY <1>0, <1>8, PublishStep DEF PublishResult, Fetched
<1>9. CASE ClearMark(t)
  BY <1>0, <1>9, ClearStep DEF ClearMark
<1>10. CASE ForgetRefresh(t)
  BY <1>10, ForgetStep DEF ForgetRefresh
<1> QED
  BY <1>1, <1>2, <1>3, <1>a, <1>b, <1>4, <1>5, <1>6, <1>7, <1>8, <1>9, <1>10 DEF RefreshStep

(* They keep the invariant of such a cache.                                *)
LEMMA EventStep ==
  ASSUME Inv, cache \in EventCaches, NEW t \in Refreshers, StartRefresh(t) \/ RefreshStep(t)
  PROVE  EventInv'
<1>t. /\ Types /\ Types' /\ EventInv /\ Bounded /\ Only(t)
      /\ \A u \in Refreshers : u # t =>
            Pc(u)' = Pc(u) /\ Got(u)' = Got(u) /\ refresh'[u].left = refresh[u].left
      /\ outages > 0 => outages' > 0
      /\ cache \notin {"adoms", "rules", "pending changes"}
  BY StepTypes, OthersKeep, OutagesGrow DEF Inv, EventCaches
<1> USE DEF EventPlaces, EventOutside, StarterPlaces, EventInside
<1>1. CASE /\ Pc(t) \in EventOutside \cup {"clear"} /\ Pc(t)' \in EventOutside
           /\ cached' = cached /\ (doubled => doubled')
  BY <1>t, <1>1 DEF EventInv, Newest
<1>2. CASE SetMark(t) /\ Pc(t) = "mark" /\ Pc(t)' = "begin" /\ cached' = cached
  <2>1. ~doubled' => ~doubled /\ \A u \in Refreshers : u # t => ~EventInside(u)
    BY <1>2 DEF SetMark, Overlaps, InRun, Pc
  <2> QED
    BY <1>t, <1>2, <2>1 DEF EventInv, Newest
<1>3. CASE /\ Pc(t) \in {"begin", "list"} /\ Pc(t)' \in {"list", "clear"}
           /\ cached' = cached /\ (doubled => doubled')
  BY <1>t, <1>3 DEF EventInv, Newest
<1>4. CASE /\ Pc(t) = "list" /\ Pc(t)' = "fetch" /\ refresh'[t].left = Adoms /\ DOMAIN Got(t)' = {}
           /\ cached' = cached /\ (doubled => doubled')
  BY <1>t, <1>4 DEF EventInv, Newest
<1>5. CASE /\ Pc(t) = "fetch" /\ Pc(t)' = "fetch" /\ cached' = cached /\ (doubled => doubled')
           /\ \E a \in Adoms : FetchAdom(t, a) \/ SkipAdom(t, a)
  <2>1. PICK a \in Adoms : FetchAdom(t, a) \/ SkipAdom(t, a)
    BY <1>5
  <2>2. CASE FetchAdom(t, a)
    <3>1. /\ refresh'[t].left = refresh[t].left \ {a} /\ DOMAIN Got(t)' = DOMAIN Got(t) \cup {a}
          /\ Got(t)'[a] = generation[a] /\ cached[a] <= generation[a]
          /\ \A b \in DOMAIN Got(t) : b # a => Got(t)'[b] = Got(t)[b]
      BY <1>t, <2>2, FetchStep DEF Bounded
    <3>2. Newest(t) => Newest(t)'
      BY <1>5, <3>1 DEF Newest
    <3>3. ~doubled' => Newest(t)'
      BY <1>t, <1>5, <3>2 DEF EventInv
    <3> QED
      BY <1>t, <1>5, <3>1, <3>3 DEF EventInv, Newest
  <2>3. CASE SkipAdom(t, a)
    <3>1. /\ Got(t)' = Got(t) /\ outages' > 0
      BY <1>t, <2>3, SkipStep, OutagesGrow
    <3> QED
      BY <1>t, <1>5, <3>1 DEF EventInv, Newest
  <2> QED
    BY <2>1, <2>2, <2>3
<1>6. CASE PublishResult(t) /\ Pc(t) = "fetch" /\ Pc(t)' = "clear" /\ (doubled => doubled')
  <2>1. ~doubled => \A u \in Refreshers : u # t => Pc(u) # "fetch"
    BY <1>t, <1>6 DEF EventInv
  <2> QED
    BY <1>t, <1>6, <2>1 DEF EventInv
<1> QED
  BY <1>t, <1>1, <1>2, <1>3, <1>4, <1>5, <1>6, EventSteps

-----------------------------------------------------------------------------
(* The list of ADOMs *)

(* The steps that this cache takes.                                        *)
LEMMA AdomSteps ==
  ASSUME Types, AdomInv, cache = "adoms",
         NEW t \in Refreshers, StartRefresh(t) \/ RefreshStep(t)
  PROVE  \/ /\ Pc(t) # "publish" /\ Pc(t)' \in {"idle", "list", "over"}
            /\ cached' = cached /\ (doubled => doubled')
         \/ /\ ListAdoms(t) /\ Pc(t) = "list" /\ Pc(t)' = "publish" /\ Got(t)' = generation
            /\ cached' = cached
         \/ /\ PublishResult(t) /\ Pc(t) = "publish" /\ Pc(t)' = "over" /\ (doubled => doubled')
<1> USE DEF Places, StarterPlaces, AdomPlaces, Pc, Refreshing, served
<1>0. /\ cache \notin EventCaches /\ cache # "rules" /\ cache # "pending changes"
      /\ Pc(t) \in AdomPlaces
  BY DEF EventCaches, AdomInv
<1>1. CASE StartRefresh(t)
  BY <1>0, <1>1, StartStep DEF StartRefresh
<1>2. /\ ~TestMark(t) /\ ~SetMark(t) /\ ~BeginRefresh(t)
      /\ ~EnterPending(t) /\ ~LeaveRules(t) /\ ~StorePending(t)
      /\ ~InspectFirst(t) /\ ~WakeUp(t) /\ ~RetryTest(t) /\ ~RetryMark(t)
      /\ ~BuildAdom(t) /\ ~BuildFails(t) /\ ~EndPending(t) /\ ~ClearMark(t)
      /\ \A a \in Adoms : ~EnterAdom(t, a) /\ ~FetchAdom(t, a) /\ ~SkipAdom(t, a)
  BY <1>0 DEF TestMark, SetMark, BeginRefresh, EnterPending, LeaveRules, StorePending, BuildAdom,
     BuildFails, EndPending, ClearMark, EnterAdom, FetchAdom, SkipAdom, InspectFirst, WakeUp,
     RetryTest, RetryMark
<1>3. CASE ListAdoms(t)
  BY <1>0, <1>3, ListStep DEF ListAdoms
<1>4. CASE ListFails(t)
  BY <1>0, <1>4, TurnStep DEF ListFails
<1>5. CASE PublishResult(t)
  BY <1>0, <1>5, PublishStep DEF PublishResult, Fetched
<1>6. CASE ForgetRefresh(t)
  BY <1>0, <1>6, ForgetStep DEF ForgetRefresh, FirstOfMap, EventCaches
<1> QED
  BY <1>1, <1>2, <1>3, <1>4, <1>5, <1>6 DEF RefreshStep

(* They keep the invariant of this cache.                                  *)
LEMMA AdomStep ==
  ASSUME Inv, cache = "adoms", NEW t \in Refreshers, StartRefresh(t) \/ RefreshStep(t)
  PROVE  AdomInv'
<1>t. /\ Types /\ Types' /\ AdomInv /\ Bounded /\ Only(t)
      /\ \A u \in Refreshers : u # t => Pc(u)' = Pc(u) /\ Got(u)' = Got(u)
  BY StepTypes, OthersKeep DEF Inv
<1> USE DEF AdomPlaces
<1>1. CASE /\ Pc(t) # "publish" /\ Pc(t)' \in {"idle", "list", "over"}
           /\ cached' = cached /\ (doubled => doubled')
  BY <1>t, <1>1 DEF AdomInv, Newest
<1>2. CASE /\ ListAdoms(t) /\ Pc(t) = "list" /\ Pc(t)' = "publish" /\ Got(t)' = generation
           /\ cached' = cached
  <2>1. ~doubled' => ~doubled /\ \A u \in Refreshers : u # t => Pc(u) # "publish"
    BY <1>2 DEF ListAdoms, Overlaps, InRun, Pc
  <2>2. DOMAIN Got(t)' = Adoms /\ Newest(t)'
    BY <1>t, <1>2 DEF Types, Bounded, Newest
  <2> QED
    BY <1>t, <1>2, <2>1, <2>2 DEF AdomInv, Newest
<1>3. CASE /\ PublishResult(t) /\ Pc(t) = "publish" /\ Pc(t)' = "over" /\ (doubled => doubled')
  <2>1. ~doubled => \A u \in Refreshers : u # t => Pc(u) # "publish"
    BY <1>t, <1>3 DEF AdomInv
  <2> QED
    BY <1>t, <1>3, <2>1 DEF AdomInv
<1> QED
  BY <1>t, <1>1, <1>2, <1>3, AdomSteps

-----------------------------------------------------------------------------
(* The rules *)

(* The steps that this cache takes.                                        *)
LEMMA RuleSteps ==
  ASSUME Types, RuleInv, cache = "rules",
         NEW t \in Refreshers, StartRefresh(t) \/ RefreshStep(t)
  PROVE  \/ /\ Pc(t)' \in RulePlaces /\ Pc(t)' # "publish"
            /\ cached' = cached /\ marks' = marks
            /\ Got(t)' = Got(t) \/ DOMAIN Got(t)' = {}
         \/ /\ Pc(t)' = "fetch" /\ cached' = cached
            /\ \E a \in Adoms : a \notin marks /\ marks' = marks \cup {a} /\ DOMAIN Got(t)' = {a}
         \/ /\ Pc(t)' = "publish" /\ cached' = cached /\ marks' = marks
            /\ DOMAIN Got(t)' = DOMAIN Got(t)
            /\ \A a \in DOMAIN Got(t) : Got(t)'[a] = generation[a]
         \/ /\ PublishResult(t) /\ Pc(t)' = "clear" /\ marks' = marks /\ Got(t)' = Got(t)
         \/ /\ Pc(t)' = "enter" /\ cached' = cached
            /\ marks' = marks \ DOMAIN Got(t) /\ DOMAIN Got(t)' = {}
<1> USE DEF Places, StarterPlaces, RulePlaces, Pc, Refreshing, served
<1>0. cache \notin EventCaches /\ cache # "adoms" /\ cache # "pending changes" /\ Pc(t) \in RulePlaces
  BY DEF EventCaches, RuleInv
<1>1. CASE StartRefresh(t)
  BY <1>0, <1>1, StartStep DEF StartRefresh
<1>2. /\ ~TestMark(t) /\ ~SetMark(t) /\ ~BeginRefresh(t)
      /\ ~EnterPending(t) /\ ~StorePending(t) /\ ~EndPending(t)
      /\ ~InspectFirst(t) /\ ~WakeUp(t) /\ ~RetryTest(t) /\ ~RetryMark(t)
      /\ \A a \in Adoms : ~FetchAdom(t, a) /\ ~SkipAdom(t, a)
  BY <1>0 DEF TestMark, SetMark, BeginRefresh, EnterPending, StorePending, EndPending, FetchAdom,
     SkipAdom, InspectFirst, WakeUp, RetryTest, RetryMark
<1>3. CASE LeaveRules(t)
  BY <1>3, TurnStep DEF LeaveRules
<1>4. CASE ListAdoms(t)
  BY <1>0, <1>4, ListStep, NothingRead DEF ListAdoms
<1>5. CASE ListFails(t)
  BY <1>0, <1>5, TurnStep DEF ListFails
<1>6. CASE BuildFails(t)
  BY <1>6, TurnStep DEF BuildFails
<1>7. CASE BuildAdom(t)
  BY <1>7, BuildStep DEF BuildAdom
<1>8. CASE PublishResult(t)
  BY <1>0, <1>8, PublishStep DEF PublishResult
<1>9. CASE ClearMark(t)
  BY <1>9, ClearStep, NothingRead DEF ClearMark, Got
<1>10. CASE ForgetRefresh(t)
  BY <1>0, <1>10, ForgetStep, NothingRead DEF ForgetRefresh, FirstOfMap, EventCaches
<1>11. ASSUME NEW a \in Adoms, EnterAdom(t, a)
       PROVE  \/ /\ Pc(t)' = "enter" /\ cached' = cached /\ marks' = marks /\ Got(t)' = Got(t)
              \/ /\ Pc(t)' = "fetch" /\ cached' = cached
                 /\ a \notin marks /\ marks' = marks \cup {a} /\ DOMAIN Got(t)' = {a}
  BY <1>11, EnterStep DEF EnterAdom, Busy
<1> QED
  BY <1>1, <1>2, <1>3, <1>4, <1>5, <1>6, <1>7, <1>8, <1>9, <1>10, <1>11 DEF RefreshStep

(* They keep the invariant of this cache.                                  *)
LEMMA RuleStep ==
  ASSUME Inv, cache = "rules", NEW t \in Refreshers, StartRefresh(t) \/ RefreshStep(t)
  PROVE  RuleInv'
<1>t. /\ Types /\ Types' /\ RuleInv /\ Bounded /\ Only(t)
      /\ \A u \in Refreshers : u # t => Pc(u)' = Pc(u) /\ Got(u)' = Got(u)
      /\ DOMAIN Got(t) \subseteq Adoms
  BY StepTypes, OthersKeep, GotIs DEF Inv
<1> USE DEF RulePlaces
<1>1. CASE /\ Pc(t)' \in RulePlaces /\ Pc(t)' # "publish"
           /\ cached' = cached /\ marks' = marks
           /\ Got(t)' = Got(t) \/ DOMAIN Got(t)' = {}
  BY <1>t, <1>1 DEF RuleInv, Newest
<1>2. CASE /\ Pc(t)' = "fetch" /\ cached' = cached
           /\ \E a \in Adoms : a \notin marks /\ marks' = marks \cup {a} /\ DOMAIN Got(t)' = {a}
  BY <1>t, <1>2 DEF RuleInv, Newest
<1>3. CASE /\ Pc(t)' = "publish" /\ cached' = cached /\ marks' = marks
           /\ DOMAIN Got(t)' = DOMAIN Got(t)
           /\ \A a \in DOMAIN Got(t) : Got(t)'[a] = generation[a]
  <2>1. Newest(t)'
    BY <1>t, <1>3 DEF Newest, Bounded
  <2> QED
    BY <1>t, <1>3, <2>1 DEF RuleInv, Newest
<1>4. CASE PublishResult(t) /\ Pc(t)' = "clear" /\ marks' = marks /\ Got(t)' = Got(t)
  <2>1. \A a \in Adoms : a \notin DOMAIN Got(t) => cached'[a] = cached[a]
    BY <1>t, <1>4 DEF PublishResult, Got
  <2>2. ASSUME NEW u \in Refreshers, u # t, Pc(u) = "publish"
        PROVE  Newest(u)'
    <3>1. DOMAIN Got(u) \subseteq Adoms /\ DOMAIN Got(u) \cap DOMAIN Got(t) = {} /\ Newest(u)
      BY <1>t, <2>2, GotIs DEF RuleInv
    <3> QED
      BY <1>t, <2>1, <2>2, <3>1 DEF Newest
  <2> QED
    BY <1>t, <1>4, <2>2 DEF RuleInv
<1>5. CASE /\ Pc(t)' = "enter" /\ cached' = cached
           /\ marks' = marks \ DOMAIN Got(t) /\ DOMAIN Got(t)' = {}
  BY <1>t, <1>5 DEF RuleInv, Newest
<1> QED
  BY <1>t, <1>1, <1>2, <1>3, <1>4, <1>5, RuleSteps

-----------------------------------------------------------------------------
(* The pending changes *)

(* The steps that this cache takes.                                        *)
LEMMA PendingSteps ==
  ASSUME Types, PendingInv, cache = "pending changes",
         NEW t \in Refreshers, StartRefresh(t) \/ RefreshStep(t)
  PROVE  \/ /\ ~PendingInside(t) /\ Pc(t)' \in {"idle", "enter", "over"}
            /\ cached' = cached /\ status' = status
         \/ /\ EnterPending(t) /\ ~PendingInside(t) /\ Pc(t)' = "list" /\ cached' = cached
            /\ \A a \in Adoms : status[a] # "running" /\ status'[a] = "running"
         \/ /\ PendingInside(t) /\ Pc(t)' = "fetch" /\ DOMAIN Got(t)' = {}
            /\ status' = status
            /\ cached' = cached \/ StorePending(t)
         \/ /\ PendingInside(t) /\ Pc(t)' = "over" /\ cached' = cached
         \/ /\ Pc(t) = "fetch" /\ Pc(t)' \in {"fetch", "store"} /\ cached' = cached /\ status' = status
            /\ \E a \in Adoms : FetchAdom(t, a) \/ SkipAdom(t, a)
<1> USE DEF Places, StarterPlaces, PendingPlaces, PendingInside, Pc, Refreshing, served
<1>0. cache \notin EventCaches /\ cache # "adoms" /\ cache # "rules" /\ Pc(t) \in PendingPlaces
  BY DEF EventCaches, PendingInv
<1>1. CASE StartRefresh(t)
  BY <1>0, <1>1, StartStep DEF StartRefresh
<1>2. /\ ~TestMark(t) /\ ~SetMark(t) /\ ~BeginRefresh(t)
      /\ ~LeaveRules(t) /\ ~BuildAdom(t) /\ ~BuildFails(t)
      /\ ~InspectFirst(t) /\ ~WakeUp(t) /\ ~RetryTest(t) /\ ~RetryMark(t)
      /\ ~PublishResult(t) /\ ~ClearMark(t) /\ \A a \in Adoms : ~EnterAdom(t, a)
  BY <1>0 DEF TestMark, SetMark, BeginRefresh, LeaveRules, BuildAdom, BuildFails, PublishResult,
     Fetched, ClearMark, EnterAdom, InspectFirst, WakeUp, RetryTest, RetryMark
<1>3. CASE EnterPending(t)
  <2>1. CASE \E a \in Adoms : Busy(a)
    BY <1>3, <2>1, TurnStep DEF EnterPending
  <2>2. CASE ~\E a \in Adoms : Busy(a)
    BY <1>0, <1>3, <2>2, TurnStep DEF EnterPending, Busy
  <2> QED
    BY <2>1, <2>2
<1>4. CASE ListAdoms(t)
  BY <1>0, <1>4, ListStep, NothingRead DEF ListAdoms
<1>5. CASE ListFails(t)
  BY <1>0, <1>5, TurnStep DEF ListFails
<1>6. CASE StorePending(t)
  BY <1>6, StoreStep, NothingRead DEF StorePending
<1>7. CASE EndPending(t)
  BY <1>7, TurnStep DEF EndPending
<1>8. CASE ForgetRefresh(t)
  BY <1>0, <1>8, ForgetStep DEF ForgetRefresh, FirstOfMap, EventCaches
<1>9. ASSUME NEW a \in Adoms, FetchAdom(t, a) \/ SkipAdom(t, a)
      PROVE  /\ Pc(t) = "fetch" /\ Pc(t)' \in {"fetch", "store"}
             /\ cached' = cached /\ status' = status
  BY <1>0, <1>9, FetchStep, SkipStep DEF FetchAdom, SkipAdom
<1> QED
  BY <1>1, <1>2, <1>3, <1>4, <1>5, <1>6, <1>7, <1>8, <1>9 DEF RefreshStep

(* They keep the invariant of this cache.                                  *)
LEMMA PendingStep ==
  ASSUME Inv, cache = "pending changes", NEW t \in Refreshers, StartRefresh(t) \/ RefreshStep(t)
  PROVE  PendingInv'
<1>t. /\ Types /\ Types' /\ PendingInv /\ Bounded /\ Only(t)
      /\ \A u \in Refreshers : u # t => Pc(u)' = Pc(u) /\ Got(u)' = Got(u)
  BY StepTypes, OthersKeep DEF Inv
<1>n. ASSUME Adoms = {}, NEW u \in Refreshers PROVE Newest(u)'
  <2>1. Got(u)' \in Results
    BY <1>t DEF Types, Refresh, Got
  <2>2. DOMAIN Got(u)' = {}
    BY <1>n, <2>1, ResultIs
  <2> QED
    BY <2>2 DEF Newest
<1> USE DEF PendingPlaces, PendingInside
<1>1. CASE /\ ~PendingInside(t) /\ Pc(t)' \in {"idle", "enter", "over"}
           /\ cached' = cached /\ status' = status
  BY <1>t, <1>1 DEF PendingInv, Newest
<1>2. CASE /\ EnterPending(t) /\ ~PendingInside(t) /\ Pc(t)' = "list" /\ cached' = cached
           /\ \A a \in Adoms : status[a] # "running" /\ status'[a] = "running"
  <2>1. Adoms # {} => \A u \in Refreshers : ~PendingInside(u)
    BY <1>t, <1>2 DEF PendingInv
  <2> QED
    BY <1>t, <1>2, <2>1 DEF PendingInv, Newest
<1>3. CASE /\ PendingInside(t) /\ Pc(t)' = "fetch" /\ DOMAIN Got(t)' = {}
           /\ status' = status
           /\ cached' = cached \/ StorePending(t)
  <2>1. status' = status
    BY <1>3 DEF StorePending
  <2>2. Newest(t)'
    BY <1>3 DEF Newest
  <2>3. Adoms # {} => \A u \in Refreshers : u # t => ~PendingInside(u)
    BY <1>t, <1>3 DEF PendingInv
  <2>4. \A u \in Refreshers : u # t /\ Pc(u)' \in {"fetch", "store"} => Newest(u)'
    BY <1>t, <1>n, <2>3
  <2>5. \A u \in Refreshers : Pc(u)' \in {"fetch", "store"} => Newest(u)'
    BY <2>2, <2>4
  <2> QED
    BY <1>t, <1>3, <2>1, <2>3, <2>5 DEF PendingInv
<1>4. CASE PendingInside(t) /\ Pc(t)' = "over" /\ cached' = cached
  <2>1. Adoms # {} => \A u \in Refreshers : u # t => ~PendingInside(u)
    BY <1>t, <1>4 DEF PendingInv
  <2> QED
    BY <1>t, <1>4, <2>1 DEF PendingInv, Newest
<1>5. CASE /\ Pc(t) = "fetch" /\ Pc(t)' \in {"fetch", "store"} /\ cached' = cached /\ status' = status
           /\ \E a \in Adoms : FetchAdom(t, a) \/ SkipAdom(t, a)
  <2>1. PICK a \in Adoms : FetchAdom(t, a) \/ SkipAdom(t, a)
    BY <1>5
  <2>2. Newest(t)
    BY <1>t, <1>5 DEF PendingInv
  <2>3. CASE FetchAdom(t, a)
    <3>1. /\ DOMAIN Got(t)' = DOMAIN Got(t) \cup {a}
          /\ Got(t)'[a] = generation[a] /\ cached[a] <= generation[a]
          /\ \A b \in DOMAIN Got(t) : b # a => Got(t)'[b] = Got(t)[b]
      BY <1>t, <2>3, FetchStep DEF Bounded
    <3>2. Newest(t)'
      BY <1>5, <2>2, <3>1 DEF Newest
    <3> QED
      BY <1>t, <1>5, <3>2 DEF PendingInv, Newest
  <2>4. CASE SkipAdom(t, a)
    <3>1. Got(t)' = Got(t)
      BY <1>t, <2>4, SkipStep
    <3> QED
      BY <1>t, <1>5, <3>1 DEF PendingInv, Newest
  <2> QED
    BY <2>1, <2>3, <2>4
<1> QED
  BY <1>t, <1>1, <1>2, <1>3, <1>4, <1>5, PendingSteps

-----------------------------------------------------------------------------
(* Theorems *)

(* Every step keeps the invariant.                                         *)
LEMMA NextInv == ASSUME Inv, [CachesNext]_cacheVars PROVE Inv'
<1>1. ASSUME NEW t \in Refreshers, StartRefresh(t) \/ RefreshStep(t)
      PROVE  Inv'
  <2>1. Types' /\ Bounded' /\ ShortInv' /\ cache' = cache
    BY <1>1, StepTypes, StepBounded, StepShort DEF Inv
  <2> QED
    BY <1>1, <2>1, EventStep, AdomStep, RuleStep, PendingStep DEF Inv
<1>2. ASSUME NEW a \in Adoms, AdomChanges(a)
      PROVE  Inv'
  <2>1. /\ UNCHANGED <<cache, cached, short, status, marks, refresh, doubled, outages>>
        /\ generation' \in [Adoms -> Nat] /\ \A b \in Adoms : generation[b] <= generation'[b]
    <3>1. generation \in [Adoms -> Nat] /\ generation[a] \in Nat
      BY DEF Inv, Types
    <3>2. generation' = [generation EXCEPT ![a] = generation[a] + 1]
      BY <1>2 DEF AdomChanges
    <3>3. generation' \in [Adoms -> Nat] /\ \A b \in Adoms : generation[b] <= generation'[b]
      BY <3>1, <3>2
    <3> QED
      BY <1>2, <3>3 DEF AdomChanges, served
  <2>2. Types'
    BY <2>1 DEF Inv, Types
  <2>3. Bounded'
    <3>0. \A b \in Adoms : cached[b] \in Nat /\ generation[b] \in Nat /\ generation'[b] \in Nat
      BY <2>1 DEF Inv, Types
    <3>1. \A b \in Adoms : cached'[b] <= generation'[b]
      <4>1. \A b \in Adoms : cached[b] <= generation[b]
        BY DEF Inv, Bounded
      <4> QED
        BY <2>1, <3>0, <4>1
    <3>2. ASSUME NEW t \in Refreshers, NEW b \in DOMAIN Got(t)
          PROVE  Got(t)[b] <= generation'[b]
      <4>1. b \in Adoms /\ Got(t)[b] \in Nat /\ Got(t)[b] <= generation[b]
        BY <3>2, GotIs DEF Inv, Bounded
      <4> QED
        BY <2>1, <3>0, <4>1
    <3> QED
      BY <2>1, <3>1, <3>2 DEF Bounded, Got
  <2> QED
    BY <2>1, <2>2, <2>3 DEF Inv, ShortInv, EventInv, AdomInv, RuleInv, PendingInv,
       EventInside, PendingInside, Newest, Pc, Got, Short
<1>3. CASE UNCHANGED cacheVars
  BY <1>3 DEF cacheVars, Inv, Types, Bounded, ShortInv, EventInv, AdomInv, RuleInv, PendingInv,
     EventInside, PendingInside, Newest, Pc, Got, Short
<1> QED
  BY <1>1, <1>2, <1>3 DEF CachesNext

(* A part of an ADOM takes the place of the whole only in the rules and the  *)
(* pending changes, after a failure.                                       *)
LEMMA ShortKept ==
  ASSUME Inv, CachesNext, NEW a \in Adoms, a \in short' \ short
  PROVE  cache \in {"rules", "pending changes"} /\ outages > 0
<1>1. PICK t \in Refreshers : StartRefresh(t) \/ RefreshStep(t)
  BY DEF CachesNext, AdomChanges, served
<1>2. StorePending(t) \/ PublishResult(t)
  BY <1>1, Served DEF Inv
<1>3. Short(t)
  BY <1>2 DEF StorePending, PublishResult, ServeShort, Short
<1> QED
  BY <1>3 DEF Inv, ShortInv

(* What a cache serves of an ADOM gives way to something older only when    *)
(* two refreshes raced past the guard of an event, or met in the ADOM cache, *)
(* which has none; to nothing only in a cache that is rebuilt as a whole,    *)
(* after a failure; and to a part of it only in the rules and the pending    *)
(* changes, after a failure (_run_job, _run_refresh, refresh_adom):         *)
(* CacheKeepsNewest.                                                       *)
THEOREM NewestCorrect == CachesSpec => CacheKeepsNewest
<1> DEFINE Good(a) == /\ cache \in EventCaches \cup {"adoms"}
                      /\ doubled \/ (cached'[a] = 0 /\ cache \in EventCaches /\ outages > 0)
           Whole(a) == a \in short' \ short =>
                          cache \in {"rules", "pending changes"} /\ outages > 0
<1>1. CachesInit => Inv
  BY InitInv
<1>2. Inv /\ [CachesNext]_cacheVars => Inv'
  BY NextInv
<1>3. Inv /\ [CachesNext]_cacheVars
        => [\A a \in Adoms : /\ cached'[a] < cached[a] => Good(a)
                             /\ Whole(a)]_cacheVars
  <2> SUFFICES ASSUME Inv, CachesNext, NEW a \in Adoms
               PROVE  (cached'[a] < cached[a] => Good(a)) /\ Whole(a)
    OBVIOUS
  <2>w. Whole(a)
    BY ShortKept
  <2> SUFFICES ASSUME cached'[a] < cached[a] PROVE Good(a)
    BY <2>w
  <2>0. Types /\ cached[a] \in Nat
    BY DEF Inv, Types
  <2>1. PICK t \in Refreshers : StartRefresh(t) \/ RefreshStep(t)
    BY <2>0 DEF CachesNext, AdomChanges, served
  <2>2. CASE StorePending(t) /\ Pc(t) = "store"
    <3>1. /\ cache = "pending changes" /\ PendingInv
      BY <2>2 DEF Inv, Types, CacheKinds, EventInv, AdomInv, RuleInv, EventPlaces,
         EventOutside, StarterPlaces, AdomPlaces, RulePlaces
    <3>2. Newest(t)
      BY <2>2, <3>1 DEF PendingInv
    <3>3. cached'[a] = IF a \in DOMAIN Got(t) THEN Got(t)[a] ELSE cached[a]
      BY <2>0, <2>2 DEF StorePending, Got
    <3> QED
      BY <2>0, <3>2, <3>3, GotIs DEF Newest
  <2>3. CASE PublishResult(t) /\ (Pc(t) = "publish" \/ (cache \in EventCaches /\ Pc(t) = "fetch" /\ refresh[t].left = {}))
    <3>0. cached'[a] = IF a \in DOMAIN Got(t) THEN Got(t)[a]
                       ELSE IF cache = "rules" THEN cached[a] ELSE 0
      BY <2>0, <2>3 DEF PublishResult, Got
    <3>1. CASE cache \in EventCaches
      <4>1. EventInv /\ Pc(t) = "fetch" /\ refresh[t].left = {}
        BY <2>3, <3>1 DEF Inv, EventInv, EventPlaces, EventOutside, StarterPlaces
      <4>2. ~doubled => Newest(t)
        BY <4>1 DEF EventInv
      <4>3. a \notin DOMAIN Got(t) => outages > 0
        BY <4>1 DEF EventInv
      <4>4. cache # "rules"
        BY <3>1 DEF EventCaches
      <4> QED
        BY <2>0, <3>0, <3>1, <4>2, <4>3, <4>4, GotIs DEF Newest
    <3>2. CASE cache = "adoms"
      <4>1. AdomInv /\ Pc(t) = "publish"
        BY <2>3, <3>2 DEF Inv, EventCaches
      <4>2. DOMAIN Got(t) = Adoms /\ (~doubled => Newest(t))
        BY <4>1 DEF AdomInv
      <4> QED
        BY <2>0, <3>0, <3>2, <4>2, GotIs DEF Newest
    <3>3. CASE cache = "rules"
      <4>1. RuleInv /\ Pc(t) = "publish"
        BY <2>3, <3>3 DEF Inv, EventCaches
      <4>2. Newest(t)
        BY <4>1 DEF RuleInv
      <4> QED
        BY <2>0, <3>0, <3>3, <4>2, GotIs DEF Newest
    <3>4. CASE cache = "pending changes"
      BY <2>3, <3>4 DEF Inv, PendingInv, PendingPlaces, EventCaches
    <3> QED
      BY <2>0, <3>1, <3>2, <3>3, <3>4 DEF Types, CacheKinds
  <2> QED
    BY <2>0, <2>1, <2>2, <2>3, Served
<1>4. CachesSpec => []Inv /\ [][CachesNext]_cacheVars
  BY <1>1, <1>2, PTL DEF CachesSpec
<1> QED
  BY <1>3, <1>4, PTL DEF CacheKeepsNewest
=============================================================================
