------------------------------ MODULE Backups ------------------------------
(***************************************************************************)
(* Backups: backup_config.json, which holds the settings and the jobs with *)
(* their runs (backup_scheduler.py, routes/backup_routes.py), and the      *)
(* directory of archives (backup_engine.py).                               *)
(*                                                                         *)
(* An archive is named after the minute it is begun in and written under   *)
(* that name.  The directory is the sequence of its archives, the oldest   *)
(* by time of modification first; writers are those that hold the file     *)
(* open since it was last truncated.                                       *)
(***************************************************************************)
EXTENDS Naturals, FiniteSets, SequencesExt

CONSTANTS
    Processes,     \* the worker processes
    Creators,      \* requests that create a job
    Editors,       \* requests that change or delete the job First
    Savers,        \* requests that save the settings
    BackupRuns,    \* executions of the job First
    Manuals,       \* requests for a backup now
    HomeOf,        \* HomeOf[t]: the process that a thread belongs to
    MaxFiles,      \* max_files: how many archives are kept
    MaxMinutes,    \* how long the clock runs
    MaxTrouble,    \* how many calls may fail and workers may die
    First          \* the job that is there at the start

Backupers == BackupRuns \cup Manuals
Threads == Creators \cup Editors \cup Savers \cup Backupers

(* A thread does one thing, in one process; a new job has an id of its own.  *)
ASSUME BackupsAssumption ==
    /\ HomeOf \in [Threads -> Processes]
    /\ Creators \cap (Editors \cup Savers \cup Backupers) = {}
    /\ Editors \cap (Savers \cup Backupers) = {} /\ Savers \cap Backupers = {}
    /\ BackupRuns \cap Manuals = {}
    /\ First \notin Creators
    /\ MaxFiles \in Nat

VARIABLES
    config,        \* the file: [there, password, jobs, runs]
    defaults,      \* defaults[w]: the list in w's _DEFAULT_CONFIG["jobs"]
    held,          \* held[w]: which of "config" and "backup" are locked in w
    firstLock,     \* whether the lock file of the job is taken
    doing,         \* doing[t]: [pc, base, name, remote]; ghost: after, the
                   \* backups that were closed when t opened its archive
    directory,     \* the archives: [name, writers, whole]
    minute,
    outcomes,      \* the calls that have succeeded (done), and those that have
                   \* failed although there was a file (failed)
    closed,        \* ghost: the backups whose archive is closed
    crossed,       \* ghost: some write undid one that it had not seen
    trouble        \* the calls that have failed and the workers that died

backupVars == <<config, defaults, held, firstLock, doing, directory, minute,
                outcomes, closed, crossed, trouble>>
atRest == <<config, defaults, crossed, directory, closed, minute>>

NoBase == [there |-> FALSE, password |-> FALSE, jobs |-> {}, runs |-> {},
           loaded |-> FALSE, stale |-> FALSE]

(* A fresh installation, or one with a password and one job.                 *)
BackupsInit ==
    /\ config \in {[there |-> FALSE, password |-> FALSE, jobs |-> {}, runs |-> {}],
                   [there |-> TRUE, password |-> TRUE, jobs |-> {First}, runs |-> {}]}
    /\ defaults = [w \in Processes |-> {}]
    /\ held = [w \in Processes |-> {}]
    /\ firstLock = FALSE
    /\ doing = [t \in Threads |-> [pc |-> "idle", base |-> NoBase, name |-> 0,
                                   remote |-> "none", after |-> {}]]
    /\ directory = << >>
    /\ minute = 1
    /\ outcomes = [done |-> {}, failed |-> {}]
    /\ closed = {}
    /\ crossed = FALSE
    /\ trouble = 0

BackupAt(t, pc) == doing[t].pc = pc
Go(t, pc) == doing' = [doing EXCEPT ![t].pc = pc, ![t].base = NoBase]
Acquire(t, l) ==
    /\ l \notin held[HomeOf[t]]
    /\ held' = [held EXCEPT ![HomeOf[t]] = @ \cup {l}]
Release(t, l) == held' = [held EXCEPT ![HomeOf[t]] = @ \ {l}]
Fail == /\ trouble < MaxTrouble
        /\ trouble' = trouble + 1

-----------------------------------------------------------------------------
(* The file *)

(* _load_cfg, load_config: without a file the defaults, whose list of jobs   *)
(* is the module's own.                                                      *)
Loaded(w) ==
    [there |-> config.there, password |-> config.password, runs |-> config.runs,
     jobs |-> IF config.there THEN config.jobs ELSE defaults[w],
     loaded |-> TRUE, stale |-> FALSE]

Read(t, from, to) ==
    /\ BackupAt(t, from)
    /\ doing' = [doing EXCEPT ![t].pc = to, ![t].base = Loaded(HomeOf[t])]

(* What t loaded, its list of jobs as it is now if it is the default's.      *)
Base(t) ==
    [there |-> TRUE, password |-> doing[t].base.password, runs |-> doing[t].base.runs,
     jobs |-> IF doing[t].base.there THEN doing[t].base.jobs ELSE defaults[HomeOf[t]]]

(* t writes cfg; all who have loaded and not written yet are stale.          *)
Write(t, cfg, pc) ==
    /\ config' = cfg
    /\ crossed' = (crossed \/ doing[t].base.stale)
    /\ doing' = [u \in Threads |->
                    IF u = t THEN [doing[u] EXCEPT !.pc = pc, !.base = NoBase]
                    ELSE [doing[u] EXCEPT !.base.stale = doing[u].base.loaded]]

(* create_job: the append goes to the list that was loaded.                  *)
LoadForCreate(c) ==
    /\ Acquire(c, "config")
    /\ Read(c, "idle", "create")
    /\ defaults' = IF config.there THEN defaults
                   ELSE [defaults EXCEPT ![HomeOf[c]] = @ \cup {c}]
    /\ UNCHANGED <<config, crossed, directory, closed, minute, firstLock, outcomes, trouble>>

SaveCreated(c) ==
    /\ BackupAt(c, "create")
    /\ Write(c, [Base(c) EXCEPT !.jobs = @ \cup {c}], "done")
    /\ Release(c, "config")
    /\ outcomes' = [outcomes EXCEPT !.done = @ \cup {c}]
    /\ UNCHANGED <<defaults, directory, closed, minute, firstLock, trouble>>

SaveCreatedFails(c) ==
    /\ BackupAt(c, "create")
    /\ Fail
    /\ Go(c, "done")
    /\ Release(c, "config")
    /\ outcomes' = [outcomes EXCEPT
                      !.failed = IF doing[c].base.there THEN @ \cup {c} ELSE @]
    /\ UNCHANGED <<atRest, firstLock>>

(* update_job, whose fields are left out, and delete_job.                    *)
LoadForEdit(c) ==
    /\ Acquire(c, "config")
    /\ Read(c, "idle", "edit")
    /\ UNCHANGED <<atRest, firstLock, outcomes, trouble>>

SaveEdited(c) ==
    /\ BackupAt(c, "edit")
    /\ \/ First \in Base(c).jobs /\ Write(c, Base(c), "done")
       \/ Write(c, [Base(c) EXCEPT !.jobs = @ \ {First}, !.runs = {}], "done")
    /\ Release(c, "config")
    /\ UNCHANGED <<defaults, directory, closed, minute, firstLock, outcomes, trouble>>

(* KeyError *)
RefuseEdit(c) ==
    /\ BackupAt(c, "edit")
    /\ First \notin Base(c).jobs
    /\ Go(c, "done")
    /\ Release(c, "config")
    /\ UNCHANGED <<atRest, firstLock, outcomes, trouble>>

(* backup_put_config, which takes no lock.                                   *)
LoadSettings(s) ==
    /\ Read(s, "idle", "save")
    /\ UNCHANGED <<atRest, held, firstLock, outcomes, trouble>>

(* Mutants, here and below: what a plausible bug would make of the           *)
(* definition that follows.  No behaviour of BackupsSpec uses them.          *)

(* Only the fields of the form would be kept. *)
WithSettingsOnly(s) == [there |-> TRUE, password |-> TRUE, runs |-> {}, jobs |-> {}]

WithSettings(s) == [Base(s) EXCEPT !.password = TRUE]

SaveSettings(s) ==
    /\ BackupAt(s, "save")
    /\ Write(s, WithSettings(s), "done")
    /\ outcomes' = [outcomes EXCEPT !.done = @ \cup {s}]
    /\ UNCHANGED <<defaults, directory, closed, minute, held, firstLock, trouble>>

(* save_config: ValueError for an empty password, also one that is the mask  *)
(* of an empty one.                                                          *)
RefuseSettings(s) ==
    /\ BackupAt(s, "save")
    /\ Go(s, "done")
    /\ UNCHANGED <<atRest, held, firstLock, outcomes, trouble>>

-----------------------------------------------------------------------------
(* One backup *)

(* _execute_job: the lock file, and the configuration, read without _lock.   *)
StartBackup(b) ==
    /\ BackupAt(b, "idle")
    /\ b \in BackupRuns => ~firstLock
    /\ doing' = [doing EXCEPT ![b].base = Loaded(HomeOf[b]),
           ![b].pc = CASE b \in BackupRuns -> IF First \in Loaded(HomeOf[b]).jobs
                                              THEN "begin" ELSE "done"
                       [] b \in Manuals -> IF Loaded(HomeOf[b]).password
                                           THEN "begin" ELSE "done"]
    /\ firstLock' = (firstLock \/ (b \in BackupRuns /\ First \in Loaded(HomeOf[b]).jobs))
    /\ UNCHANGED <<atRest, held, outcomes, trouble>>

(* One archive has a name; it goes to the end when it is modified.           *)
Named(name) == {a \in ToSet(directory) : a.name = name}
Position(name) == CHOOSE i \in DOMAIN directory : directory[i].name = name
Others(name) ==
    IF Named(name) = {} THEN directory ELSE RemoveAt(directory, Position(name))

(* create_backup: the archive is opened for writing, that is truncated.  An  *)
(* archive that others are writing is theirs too.                            *)
OpenArchive(b) ==
    /\ BackupAt(b, "begin")
    /\ Acquire(b, "backup")
    /\ doing' = [doing EXCEPT ![b].pc = "write", ![b].name = minute,
                              ![b].after = closed]
    /\ LET writing == UNION {IF a.whole THEN {} ELSE {x \in a.writers : BackupAt(x, "write")} :
                                a \in Named(minute)}
       IN  directory' = Append(Others(minute),
                    [name |-> minute, writers |-> writing \cup {b}, whole |-> FALSE])
    /\ UNCHANGED <<config, defaults, crossed, closed, minute, firstLock, outcomes, trouble>>

(* The archives that would go if the oldest were kept. *)
PrunedNewest(archives, max) ==
    SubSeq(archives, 1, IF Len(archives) > max THEN max ELSE Len(archives))

(* _prune_backups, whatever the archives are worth.                          *)
Pruned(archives, max) ==
    SubSeq(archives, IF Len(archives) > max THEN Len(archives) - max + 1 ELSE 1, Len(archives))

(* The archive is closed, last modified now, and the old ones are removed.   *)
CloseArchive(b) ==
    /\ BackupAt(b, "write")
    /\ doing[b].base.password
    /\ LET name == doing[b].name
           mine == {[a EXCEPT !.whole = (a.writers = {b})] :
                       a \in {x \in Named(name) : b \in x.writers}}
       IN  directory' = Pruned(IF mine = {} THEN directory
                               ELSE Append(Others(name), CHOOSE a \in mine : TRUE), MaxFiles)
    /\ closed' = closed \cup {b}
    /\ Release(b, "backup")
    /\ Go(b, IF b \in BackupRuns THEN "send" ELSE "done")
    /\ UNCHANGED <<config, defaults, crossed, minute, firstLock, outcomes, trouble>>

(* Without a password, or with a full disk, it raises; what was written      *)
(* stays, and nothing is pruned.                                             *)
WriteFails(b) ==
    /\ BackupAt(b, "write")
    /\ IF doing[b].base.password THEN Fail ELSE UNCHANGED trouble
    /\ Release(b, "backup")
    /\ Go(b, IF b \in BackupRuns THEN "failed" ELSE "done")
    /\ UNCHANGED <<atRest, firstLock, outcomes>>

(* transfer_file, outside the lock: what is there under the name.            *)
Transfer(b) ==
    /\ BackupAt(b, "send")
    /\ \E result \in {"off", "failed"} \cup
             (IF \E a \in Named(doing[b].name) : a.whole THEN {"whole"}
              ELSE IF Named(doing[b].name) # {} THEN {"partial"} ELSE {}) :
          doing' = [doing EXCEPT ![b].pc = "succeeded", ![b].remote = result]
    /\ UNCHANGED <<atRest, held, firstLock, outcomes, trouble>>

(* _append_run and _prune_runs: _load_cfg.                                   *)
LoadForRecord(b) ==
    /\ b \in BackupRuns
    /\ Acquire(b, "config")
    /\ \/ Read(b, "succeeded", "success")
       \/ Read(b, "failed", "failure")
       \/ Read(b, "recorded", "prune")
    /\ UNCHANGED <<atRest, firstLock, outcomes, trouble>>

Recorded(b) ==
    [Base(b) EXCEPT !.runs =
        IF First \notin Base(b).jobs THEN @
        ELSE @ \cup {[by |-> b, name |-> doing[b].name,
                      status |-> IF BackupAt(b, "success") THEN "success" ELSE "failed",
                      remote |-> doing[b].remote]}]

SaveRecord(b) ==
    /\ BackupAt(b, "success") \/ BackupAt(b, "failure")
    /\ Write(b, Recorded(b), IF BackupAt(b, "success") THEN "recorded" ELSE "finally")
    /\ Release(b, "config")
    /\ outcomes' = [outcomes EXCEPT
                      !.done = IF First \in Base(b).jobs THEN @ \cup {b} ELSE @]
    /\ UNCHANGED <<defaults, directory, closed, minute, firstLock, trouble>>

(* No run is old enough to go, but the file is written once more.            *)
SavePrunedRuns(b) ==
    /\ BackupAt(b, "prune")
    /\ Write(b, Base(b), "finally")
    /\ Release(b, "config")
    /\ UNCHANGED <<defaults, directory, closed, minute, firstLock, outcomes, trouble>>

(* The except clause records a failure, be it beside the success.            *)
SaveRecordFails(b) ==
    /\ BackupAt(b, "success") \/ BackupAt(b, "prune") \/ BackupAt(b, "failure")
    /\ Fail
    /\ Release(b, "config")
    /\ doing' = [doing EXCEPT ![b].pc = IF BackupAt(b, "failure") THEN "finally" ELSE "failed",
                              ![b].base = NoBase, ![b].remote = "none"]
    /\ UNCHANGED <<atRest, firstLock, outcomes>>

EndBackup(b) ==
    /\ BackupAt(b, "finally")
    /\ Go(b, "done")
    /\ firstLock' = FALSE
    /\ UNCHANGED <<atRest, held, outcomes, trouble>>

-----------------------------------------------------------------------------
MinutePasses ==
    /\ minute < MaxMinutes
    /\ minute' = minute + 1
    /\ UNCHANGED <<config, defaults, held, firstLock, doing, directory, outcomes,
                   closed, crossed, trouble>>

(* A worker dies; an archive it was writing stays as it is.                  *)
BackupWorkerDies(w) ==
    LET its == {t \in Threads : HomeOf[t] = w /\ ~BackupAt(t, "idle")}
    IN  /\ Fail
        /\ held' = [held EXCEPT ![w] = {}]
        /\ defaults' = [defaults EXCEPT ![w] = {}]
        /\ firstLock' = (firstLock /\ ~\E t \in its \cap BackupRuns :
                                          doing[t].pc \notin {"idle", "done"})
        /\ doing' = [t \in Threads |->
                        IF t \in its THEN [doing[t] EXCEPT !.pc = "done", !.base = NoBase]
                        ELSE doing[t]]
        /\ UNCHANGED <<config, crossed, directory, closed, minute, outcomes>>

BackupStep(b) ==
    \/ StartBackup(b) \/ OpenArchive(b) \/ CloseArchive(b) \/ WriteFails(b)
    \/ Transfer(b) \/ LoadForRecord(b) \/ SaveRecord(b)
    \/ SavePrunedRuns(b) \/ SaveRecordFails(b)
    \/ EndBackup(b)

BackupsNext ==
    \/ \E c \in Creators : LoadForCreate(c) \/ SaveCreated(c) \/ SaveCreatedFails(c)
    \/ \E c \in Editors : LoadForEdit(c) \/ SaveEdited(c) \/ RefuseEdit(c)
    \/ \E s \in Savers : LoadSettings(s) \/ SaveSettings(s) \/ RefuseSettings(s)
    \/ \E b \in Backupers : BackupStep(b)
    \/ MinutePasses
    \/ \E w \in Processes : BackupWorkerDies(w)

BackupsSpec == BackupsInit /\ [][BackupsNext]_backupVars

-----------------------------------------------------------------------------
(* Properties *)

Began(b) == doing[b].name # 0

(* A run that is recorded as a success has left its archive, whole, in the   *)
(* directory.  It is missing only when another backup was begun in the same  *)
(* minute, or when as many others as are kept were not closed yet when it    *)
(* was begun (create_backup, _prune_backups, _execute_job).                  *)
SuccessIsKept ==
    \A r \in config.runs : r.status = "success" =>
        \/ \E a \in Named(r.name) : a.whole /\ a.writers = {r.by}
        \/ \E o \in Backupers \ {r.by} : doing[o].name = r.name
        \/ Cardinality({o \in Backupers \ {r.by} :
                           Began(o) /\ o \notin doing[r.by].after}) >= MaxFiles

(* Unless two of them crossed, the writers of the one file do not undo each  *)
(* other: a job that was created, a run that was recorded (while there is    *)
(* the job) and a password that was set are in it.  A job that was refused   *)
(* is not, except when there was no file and the defaults kept it (_load_cfg, *)
(* load_config, create_job, backup_put_config).                              *)
SavedIsKept ==
    /\ ~crossed =>
        /\ \A c \in Creators \cap outcomes.done : c \in config.jobs
        /\ \A b \in BackupRuns \cap outcomes.done :
              First \in config.jobs => \E r \in config.runs : r.by = b
        /\ Savers \cap outcomes.done # {} => config.password
    /\ \A c \in outcomes.failed : c \notin config.jobs
=============================================================================
