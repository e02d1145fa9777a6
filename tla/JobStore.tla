------------------------------ MODULE JobStore ------------------------------
(***************************************************************************)
(* What config_diff_scheduler.py promises its callers about the job file:  *)
(* a table of jobs in which every create, update, delete, run record and   *)
(* pruning takes effect at one instant and disturbs nothing else.  The     *)
(* locks, the file and the worker processes that provide it are in         *)
(* JobScheduler, which refines this module when one process serves it.     *)
(***************************************************************************)
EXTENDS Naturals, Sequences

CONSTANTS
    Jobs,   \* job ids (uuid4 strings)
    Times,  \* cron triggers: days_of_week together with time
    Runs,   \* ordinals of deliveries, 0 standing for "none"
    NoJob   \* "no such job in the file"

VARIABLES
    table,  \* the job file's content
    used    \* ids that have been handed out: uuid4 never repeats one

vars == <<table, used>>

(* A run record is reduced to the ordinal of the email it reports, 0 for a  *)
(* failed run: that is all of it the properties tell apart.                 *)
Job == [enabled : BOOLEAN, time : Times, runs : Seq(Runs)]
Table == [Jobs -> Job \cup {NoJob}]
EmptyTable == [j \in Jobs |-> NoJob]

NewJob(enabled, time) == [enabled |-> enabled, time |-> time, runs |-> <<>>]

-----------------------------------------------------------------------------

Init ==
    /\ table = EmptyTable
    /\ used = {}

Create(j, enabled, time) ==
    /\ j \notin used
    /\ table' = [table EXCEPT ![j] = NewJob(enabled, time)]
    /\ used' = used \cup {j}

(* Requests that fail before they are stored spend their ids. *)
Spend(S) ==
    /\ used' = used \cup S
    /\ UNCHANGED table

Update(j, enabled, time) ==
    /\ table[j] # NoJob
    /\ table' = [table EXCEPT ![j] =
                    [enabled |-> enabled, time |-> time, runs |-> @.runs]]
    /\ UNCHANGED used

Delete(j) ==
    /\ table' = [table EXCEPT ![j] = NoJob]
    /\ UNCHANGED used

Record(j, run) ==
    /\ table[j] # NoJob
    /\ table' = [table EXCEPT ![j].runs = <<run>> \o @]
    /\ UNCHANGED used

(* Runs are kept newest first, so what is out of retention is a suffix. *)
Prune(j) ==
    /\ table[j] # NoJob
    /\ \E kept \in 0..Len(table[j].runs) :
          table' = [table EXCEPT ![j].runs = SubSeq(@, 1, kept)]
    /\ UNCHANGED used

Next ==
    \/ \E j \in Jobs, enabled \in BOOLEAN, time \in Times :
          Create(j, enabled, time) \/ Update(j, enabled, time)
    \/ \E S \in SUBSET Jobs : Spend(S)
    \/ \E j \in Jobs : Delete(j) \/ Prune(j)
    \/ \E j \in Jobs, run \in Runs : Record(j, run)

Spec == Init /\ [][Next]_vars
=============================================================================
