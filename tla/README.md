# Formal models of 4THealth

4THealth is a read-only web dashboard for FortiManager.  It is a Flask
application served by gunicorn with two worker processes of four threads each
(`Dockerfile`: `--workers 2 --threads 4 --worker-class gthread`).  **Each worker
process starts every background scheduler of its own** (`app/__init__.py:134-281`),
and the two share nothing but the JSON files beside the application, some of
which are single-file Docker bind mounts, and `flock` files in `/tmp`.  Half of
what is hard to test in this code follows from that sentence: in-memory locks
order the threads of one process, the files belong to both.  The other half are
the procedures that answer questions about a firewall (is this flow permitted,
where does a new rule go, which rule is shadowed, which object is unused): each is
a few hundred lines of cases whose answers have a meaning, connection by connection,
that no line of the code states.

This directory holds TLA+ modules of both, TLC configurations that check them on
small instances, and proofs that TLAPS checks for every instance.

    tlc -workers 2 -config JobsOneWorker.cfg MCJobScheduler
    tlapm ReportJobs_proofs.tla

`PROJECT.json` lists the components, runs, mutants, hazards and theorems, and
maps every definition that models code to its lines.

## 1. Inventory

Paths are relative to `src/app/`.  The last column names the module, or says what
is left of it in section 6.

| Component | State | Operations | What makes it correct | Model |
|---|---|---|---|---|
| Config-delta jobs, `config_diff_scheduler.py` | job file (list of jobs with run history), `_lock`, `_running_jobs`, `_scheduler` per process; one lock file per job | create, update, delete, run now, cron; `_execute_job`; `_append_run`, `_prune_runs` | edits are atomic and none is lost; one execution at a time; one email per trigger; history tells the truth; schedule agrees with the file | `JobScheduler`, `JobStore` |
| Device-review jobs, `device_review_scheduler.py` | the same | the same | the same | `ReportJobs`: the execution |
| Policy, hygiene and NAT report jobs, `rule_policy_scheduler.py`, `rule_hygiene_scheduler.py`, `nat_report_scheduler.py` | the same | the record is written in the `finally` block before `_running_jobs` is cleared; emails in parts | also: what a failing record leaves behind; "ok" means delivered | `ReportJobs`: the execution |
| Backups, `backup_scheduler.py`, `backup_engine.py`, `routes/backup_routes.py` | `backup_config.json` (settings and jobs), archives | settings, job CRUD, create, prune, transfer, download | settings and jobs do not overwrite each other; retention never removes what is in transfer | `Backups` |
| Atomic writes, `atomic_io.py` | the file and `<file>.tmp` | `atomic_write_text` | a reader sees a whole text; a returned write stands | `AtomicFile` |
| Dashboard summary, `summary_job.py`, and its history, `summary_history.py` | `_store`, `_lock`, `_running`; 30 days of totals in a file | start-up run with retry, cron, refresh, read | runs do not overlap; the status ends; totals never go back; nobody hangs | `BackgroundCache`; of the history, today |
| Versions, licence and map caches | the same as the summary | the same (retry in `map_cache.py` only) | the same | `Caches` |
| ADOM, rule-lookup and pending-status caches | one entry, or one per ADOM | refresh, read | a failure keeps old data; a newer entry is not overwritten by an older one; the status ends | `Caches` |
| Install previews, `routes/pending_changes_routes.py` | FortiManager's staging context per ADOM; task files with a TTL | bulk preview, single preview, poll, evict | a preview shows its own device's diff; an error is not "no changes" | `Previews` |
| Package alerts, `package_change_alerts.py` | rules with dedupe hashes | evaluate after a bulk preview, send, save, CRUD | one alert per change; re-armed when clean; what is recorded as sent was mailed | `PackageAlerts` |
| Device review, `device_review.py`, `routes/audit_review_routes.py` | none | 26 checks of what a device's configuration says | a pass was earned; what could not be read does not pass | `DeviceReview` |
| Hygiene, `hygiene.py`, `routes/hygiene_routes.py` | none | shadowed, redundant, unhit, unused, the checks of one rule | acting on the report changes nothing; every device agrees that a rule is unhit | `Hygiene` |
| Rule planner, `planner/` | none | matching, verdict, insertion point, alternative | agreement with what the rules take | `Planner`, `Catalogs` |
| Rule lookup, `rule_lookup.py` | none | search of the cached rules | nothing is hidden, labels are true | `RuleLookup`, `Catalogs` |
| Zones, `zone_db.py` | zones and zone policies | query (and editing) | a block wins | `Zones`: the query |
| Rule review, `rule_review.py`, `routes/rule_review_routes.py` | none | expand the names of a flow, ask planner and zones | nothing is dropped in silence | `RuleReview` |
| FortiManager client, `fmg_client.py` | session, request id | JSON-RPC, task polling, readers | a failure is told from an empty answer | as its callers see it |
| Groups, users, sessions, settings, tokens | small JSON files | CRUD, revalidation at each request | edits are not lost; revoked access ends | - |
| Metrics, log, pages, radius, SNMP polls | SQLite, log file | I/O | - | - |

How they interact: an admin route calls the CRUD functions of a scheduler and
starts a thread for "run now"; APScheduler's pool calls `_execute_job` in *each*
process; the config-delta `_execute_job` calls `bulk_preview_adom`, hands its results
to `evaluate_alerts`, and sends the email; the report schedulers call the review, the
hygiene checks and the NAT rows in the same way; a review request asks the planner for
every combination of addresses and services, and the planner's risk level asks the
zones; the rule lookup searches the rules of its cache; every JSON file but
`summary_history.json` and `groups.json` goes through `atomic_io`; the dashboard
reads the caches' stores under their locks.

Hard behaviours: two processes that fire the same cron entry; read-modify-write
of a shared file; a torn file that reads as an empty list; test-then-set of
`_running`; a retry under a lock that is not re-entrant; cron entries changed
outside the lock that protects the file; a crash between sending and recording;
a record written in a `finally` block that raises; FortiManager's staging context
shared by everyone who previews in one ADOM; names that cannot be resolved, negated
fields, groups within groups and cycles of groups in every comparison of rules.
`PROJECT.json` lists each at its line.

## 2. Modules

| Module | Models | Uses |
|---|---|---|
| `JobStore` | what a scheduler promises about its job file: an atomic table | abstract |
| `JobScheduler` | `config_diff_scheduler.py` in every worker, its routes, APScheduler as it uses it | refines `JobStore` in one process |
| `JobScheduler_proofs` | types, lock files, `_running_jobs`, run history | extends `JobScheduler` |
| `JobRefinement_proofs` | `_lock`, the refinement, deliveries, duplicates | extends `JobScheduler_proofs` |
| `ReportJobs` | the execution of a job in the four report schedulers | - |
| `ReportJobs_proofs` | types, lock file, marks, run records | extends `ReportJobs` |
| `AtomicFile` | `atomic_io.py`, system call by system call, and a reader without a lock | - |
| `AtomicFile_proofs` | what readers find, what a returned write leaves | extends `AtomicFile` |
| `BackgroundCache` | `summary_job.py` with today's entry of `summary_history.py` | - |
| `Caches` | the six other caches of FortiManager's data | - |
| `Caches_proofs` | the marks of a refresh, what is served | extends `BackgroundCache`, `Caches` |
| `Backups` | `backup_config.json` under its two locks, and the archives | - |
| `PendingChanges` | what FortiManager has waiting for installation | - |
| `Previews` | `get_install_preview`, in a job and behind the preview page | extends `PendingChanges` |
| `PackageAlerts` | `package_change_alerts.py` | extends `PendingChanges` |
| `Workers_proofs` | what a preview shows, what alerts remember, what backups keep | extends `Previews`, `PackageAlerts`, `Backups` |
| `Questions` | a question, the work on it, its answer; `Reach` and `OnlyIn` | - |
| `Questions_proofs` | induction, recursive definitions, `Reach`, `OnlyIn` | extends `Questions` |
| `Catalogs` | `planner/matching.py`: names, networks, port ranges | extends `Questions` |
| `Planner` | `plan_flow`, `PolicyMatcher`, `plan_insertion` | extends `Catalogs` |
| `RuleLookup` | `rule_lookup.py` and its route | extends `Catalogs` |
| `Zones` | the query of `zone_db.py`, the risk of `standards.py` | extends `Catalogs` |
| `RuleReview` | `rr_analyze` and `analyze_flows` | extends `Catalogs` |
| `Hygiene` | `hygiene.py` and the resolvers of `hygiene_routes.py` | extends `Questions` |
| `DeviceReview` | `device_review.py`, its routes and readers | extends `Questions` |
| `Decisions_proofs` | the answers of the last six | extends them and `Questions_proofs` |
| `MC...` | the small instances | extend the above |

`MCWorkers` puts the reports, backups, previews, alerts and caches into one state
graph, `MCBackground` the summary, the caches, the reports and the file writes with their
fairness, and `MCDecisions` the procedures that answer a question.  In the first two a variable
`part` says whose behaviour it is and the others stay at rest: these parts share no
file and no lock.  Previews and alerts do meet, in one call: a job hands the previews
to `evaluate_alerts`.  What `PackageAlerts` takes a preview to show (all that is pending,
an error, or without one less than that) is what `PreviewIsComplete` says of the
previews.

Operators with the comment "Mutants" above them are what a plausible bug would make
of the definition that follows; no specification uses them.

### JobScheduler

Variables and code:

* `table`, `torn`: the job file.  `Load` is `_load`: a file that does not parse
  reads as no jobs.  A job is its `enabled` flag, its cron trigger and its run
  history; `adom`, `format` and `email` behave as the trigger does and are left
  out.  A run record is the ordinal of the email it reports, 0 for an error.
* `lock[w]`, `running[w]`, `sched[w]`: `_lock`, `_running_jobs` and the cron
  entries of `_scheduler` in worker `w`; `due[w]` is what that scheduler has
  given to its pool and no thread has begun.
* `flock[j]`: the lock file `/tmp/4thealth_cdiff_<j>.lock`.
* `thr[t]`: where thread `t` is, and its locals (`snap` is the list it loaded).

A request is `CreateJob`, `UpdateJob` or `DeleteJob` (the id is drawn, or the
route entered), then `Enter` (`with _lock: jobs = _load()`), `Save` (`_save`, in
two steps on a bind mount), and `Unregister` and `Register` after the lock has been
released.  An execution is `Fire` or `RunJobNow`, `AcquireJobLock` or
`SkipBusyJob`, `LoadJob`, `Fetch`, `SendEmail`, then the same `Enter` and `Save`
with `op = "append"` and `op = "prune"`, or `RunFails` and `op = "error"`, and the
`finally` block as `DiscardRunning` and `ReleaseJobLock`.  `AfterSave` and
`AfterFailure` say where each caller goes on, so a failing write takes the path
that the code's `except` blocks give it.  Taking the lock file and marking the job
are one step: between the two statements the status route would still answer "not
running", and `RunningReported` leaves that instant out.

`Tick` is the clock: all workers that have an entry for the time submit the job at
once, and each runs it when a pool thread gets to it.  `Misfire` is APScheduler's
grace time.  `Crash` kills a worker with its threads; the kernel drops its lock
files, and `Boot` (`init_scheduler`) reads the file again.

`Retained` is `_prune_runs`.  `run_history_days` is a setting that nothing validates, so each
reading of it is any member of `RetentionDays`, integers of any sign: with a day or more the run
just recorded stays and what is out of retention is a suffix, with less every run goes.

### ReportJobs

One job of one `kind`: a review, hygiene, NAT or policy report.  The four modules
are copies that have drifted apart, and where they have is what this module is about:
who takes `_lock` to mark the job (`MarkRunning`) and to find it (`FindJob`), when the
record turns "ok" (`Ready` for hygiene and policy reports, before any email; `SendPart`
for reviews and NAT), where the record is written (in the `try` block of a review, in
the `finally` block of the others), and so what a write that raises leaves undone
(`AfterFailedSave`): a review goes to its `except` block and records again, the others
leave the `finally` block half done and the mark set (`"raised"`), and give the lock file
back only because the handle is collected with the frame (`CollectFrame`).  A process can
die at any point (`CrashWorker`).  The administrator's edit (`SaveEdit`) stands for update
and delete, which `JobScheduler` has in full.

### AtomicFile

Names map to inodes and descriptors to inodes, because a rename under an open
descriptor is exactly what is in question.  A text has two parts: a text longer
than the buffer of `open()` reaches the file in several writes, and half of one
does not parse.  `mounted` chooses between the rename and the `EBUSY` path.
`Interrupt` is both the death of the process and a write that raises; in both the
descriptor is closed and the files stay as they are.

### BackgroundCache and Caches

One process each.  Data are reduced to the generation of what was read, so that
"older" and "newer" can be told apart.

In `BackgroundCache`, `refreshing` is `_running`, and `held` is `_lock` where it is held
for longer than a statement: in `_startup`, which sleeps and retries inside it.
Everywhere else the lock guards a few assignments, which are one action with the guard
`~held`.  `raced` is a history variable: two threads have been between the test of
`_running` and its `set()`.

`Caches` has the six others, by `cache`.  They keep overlapping refreshes out in three
ways: with an event that is tested and later set (`TestMark`, `SetMark`: versions,
licences, map), with a set of ADOMs or a status under `_lock` (`Busy` in `EnterAdom` and
`EnterPending`: rules, pending changes), or not at all (the list of ADOMs).  They serve a
result as a whole (`PublishResult`), or ADOM by ADOM (`StorePending`, and the rules).
`SkipAdom` is an ADOM that fails: the first kind then serves nothing of it, the others what
they had.  `short` has the ADOMs that are served in part: `rule_lookup_cache.py` passes over a
package that fails, `pending_status_cache.py` takes its status for empty, and both store the rest
as the ADOM (`BuildAdom`, `FetchAdom`).

`Starter` is the thread that `_startup` of the map runs in: after its refresh it looks, under
`_lock` (`Held`), whether that has worked, sleeps, and refreshes again (`InspectFirst`, `WakeUp`,
`RetryTest`, `RetryMark`).  That second refresh takes `_lock` and stays where it is ("stuck"), and
with it, at its next `~Held`, every other refresh of the map.

### Backups

`config` is the one JSON file.  It has three kinds of writers: job CRUD and run records
under the scheduler's `_lock`, and `backup_put_config`, which takes none.  `defaults` is
the list inside `_DEFAULT_CONFIG`, which a load without a file hands out and `create_job`
appends to.  `Write` marks everyone who has loaded and not yet written as stale, and
`crossed` records that a stale one has written.  `directory` is the archives in order of
modification; an archive is named by the minute, written in place (`OpenArchive`,
`CloseArchive`), and whole when its only writer has closed it.  `Transfer` runs after the
lock was released and finds what is there under the name by then.

### PendingChanges, Previews and PackageAlerts

A target is a VDOM of a device, and has one package.  `Previews` follows
`get_install_preview`: the VDOMs and their packages (`Survey`), then for each package
`Stage`, `Generate`, `Fetch`, `Cancel`, and `Conclude`.  FortiManager's staging context is
external, modelled from the client's calls and comments: one per ADOM, replaced by
whoever stages, removed by whoever cancels, so two previews that overlap take each
other's.  The ghost `blind` notes whose preview has lost something without an error.  A
browser's preview also has its task file, which is read and rewritten by the thread and
removed by any other request (`EvictTaskFile`).

`PackageAlerts` is one rule and the evaluations of it: `ReadRules` under `_lock`, `Lookup`
of the packages and device groups, `Compare` (skip a package with a device that could not
be previewed, forget what was sent when a package is clean, mail what differs from what
was sent), `Mail`, then `LoadRule` and `SaveState`.  The ghost `misled` notes the causes
that can make a change be mailed twice.

### Questions and the decision procedures

A procedure without state is a small state machine: `asked` is the question and never
changes, `known` the work so far with its step, `answer` the result.  The steps are those
at which something outside can differ: one reply of FortiManager, one device, one round of
a loop whose order is not determined.

* `DeviceReview`: a question is a check, the demand, the route that asks, the state of the
  device, and what its configuration is.  `FetchSection` reads a section through the
  reader of `fmg_client.py`, with one of four `Outcomes`; `Judged` is `run_checks`.  All 26
  checks are there, with both spellings of a field where the code reads both (`Get`, `OrElse`:
  a 0 under the hyphenated name falls through to the other, a 0 under the other counts), parts
  of a version that are no number, and lists of accounts in their order.  `Meets` says for each
  check what a pass should mean, after `CHECKS` and `help.js`; `Overlooks` where it does not.
  A trusted host at its default is a field that is not set.
* `Hygiene`: `CheckRules` (shadowed and redundant rules), `CheckRule` (the checks of one
  rule), `ReadHits` and `CheckUnhit` (live hit counts of the first devices of a scope),
  `ExpandGroup` and `ReportUnused` (unused objects; `BuiltIns` are those that `_is_builtin_obj`
  passes over).  A rule has its interfaces, schedule,
  negated fields and users too, although the checks of pairs look only at the users: `Hits` is
  what the firewall goes by.  A "misread" object is one that the resolver takes for another set
  of addresses or ports than it is.  Virtual IPs with `match-vip`, and IPv6, internet-service and
  NAT fields beyond "the field has no names", are left out.
* `Catalogs`: `_resolve` is a descent that shares one `seen` set.  `Resolution` is what it comes
  to: a name has the parts of all leaves under it, and is known when a leaf is or when the descent
  met a name twice (`MetTwice`), since a name in `seen` counts as known and adds nothing, even one
  that is in no table.  `MCCatalogs` has the descent itself (`Descent`), and its assumption
  `DescentIsResolution` has TLC compare the two on the tables of the runs and on all tables of two
  groups of up to two members, repeated, nested, circular or in no table.  An address is a number and a network a set of numbers, so that containment is
  `\subseteq`.  `AddrMeaning` and `SvcMeaning` are not code: they say what a rule takes on the
  firewall, and `elsewhere` is what an FQDN or a country happens to be.
* `Planner`: `MatchRules`, `EvaluateRules`, `PlaceRule`, `FinishFlow` are `plan_flow`.
* `RuleLookup`: `Search` with `match_rule`, `compare_networks`, `compare_ranges`.
* `Zones`: `QueryZones` with `zones_for_endpoint`, `ancestor_zones`,
  `find_matching_policies`, `evaluate`, `risk_level`.
* `RuleReview`: the request from the login and the selected firewalls to the rows, with what each
  fetch that fails counts as: one of objects, groups or services as an empty table,
  one of rules or routes as none, one of packages as an ADOM without any, of which each firewall
  gets an error.  The tables of the ADOMs, each followed by the global ones, are put one
  after the other (`Pools`); of a group the earliest counts (`Earliest`), of an object the last
  (`Latest`).  Addresses are expanded with a warning for what is lost, services without
  (`ExpandAddr`, `ExpandSvc`).

Their properties compare the answer with the meaning, over every connection, and never
with a second copy of the procedure.

## 3. Runs

| Run | Instance | Result |
|---|---|---|
| `jobs_one_worker` | one process, 2 threads, 2 jobs, 3 requests, 2 triggers, 1 fault, rename, runs kept for 0 or 30 days | holds: `TypeOK`, `NoDuplicateExecution`, `RunningReported`, `DeliveryRecorded`, `RefinesJobStore`, `RunsFinish` |
| `jobs_two_workers` | two processes, one bind-mounted file, 2 requests, 2 triggers, 1 fault, runs kept for 0 or 30 days | holds: `OneRunPerJob`, `HistoryIsTrue` |
| `jobs_duplicate` | two processes, no faults | `NoDuplicateExecution` is violated |
| `jobs_schedule` | one process, 3 requests, no faults | `ScheduleMatchesFile` is violated |
| `atomic_file_shared` | 2 writers, 2 calls, no faults | `ReadersSeeWholeFiles` is violated |
| `workers` | reports, backups, previews, alerts, caches; processes that die, calls and writes that fail, edits | holds: `OkMeansDelivered`, `MarkIsOwned`, `LockFileComesBack`, `SuccessIsKept`, `SavedIsKept`, `PreviewIsComplete`, `SentMeansMailed`, `AlertedOnce`, `CacheKeepsNewest` |
| `background` | summary, caches, reports, file writes (2 writers, 2 calls, 2 faults, on and off a bind mount) with fairness | holds: `SerialReadersSeeWholeFiles`, `AcknowledgedWriteStands`, `WriteReturns`, `MarkHasOwner`, `OverlapNeedsRace`, `StatusIsLive`, `HistoryMatchesStore`, `TotalsNeverGoBack`, `EveryoneEnds`, `RunningEnds`, `ExecutionsEnd` |
| `summary_retry` | start-up thread and 1 other, 1 failure | `StartupEnds` is violated |
| `decisions` | every question of the small universes below | holds: `PassIsEarned`, `UnreadSettingsNeverPass`, `CleanupIsSafe`, `UnhitEverywhere`, `UnusedIsReported`, `VerdictIsTruthful`, `NewRuleTakesEffect`, `AlternativeIsEnough`, `NothingHidden`, `LabelsAreTrue`, `BlockWins`, `NothingDroppedSilently` |
| `shadow_hit` | the packages of `decisions` | `ShadowedNeverHit` is violated |
| `unused_nested` | the group tables of `decisions` | `UsedThroughGroups` is violated |
| `permitted_denied` | the packages and flows of `decisions` | `PermittedIsAllowed` is violated |

What the violated ones show:

* **`jobs_duplicate`**: the lock file separates executions in time, it does not
  remember them.  Both workers' schedulers submit the job at the same tick; the
  one whose pool starts later than the other has finished sends the email again.
* **`jobs_schedule`**: an update and a delete of one job write the file in one
  order and change the cron entries in the other, so a deleted job keeps firing,
  or an enabled one has no entry, until the worker restarts.
* **`atomic_file_shared`**: both processes write `<file>.tmp`; one renames what the
  other has just truncated.
* **`summary_retry`**: after one failed start-up run, `_startup` takes `_lock` and
  calls `_run_job`, which takes it again.  The thread waits for itself, and
  every request for the summary waits for it.  `EveryoneEnds` shows that nothing
  but a failed run or a race leads there: without them every thread ends.  `map_cache.py`
  has the same lines (219), under the same comment (212: "One retry after 15 s handles
  transient FMG connectivity at container startup"); `RunningEnds` says that nothing else
  keeps a refresh from ending.
* **`shadow_hit`**: two rules with the same names, the first bound to one interface: the second is
  reported as one that will never be hit, and is hit by what comes in elsewhere.
* **`unused_nested`**: `_expand_group_members` marks the members of a group as visited
  when it opens the group, and passes over a group that is marked.  A group inside a
  group is never opened, and what is used only through it is reported as unused.
* **`permitted_denied`**: `plan_flow` says PERMITTED when any enabled rule that covers the
  flow accepts it; a deny before it is not looked at.

Several properties that hold have an exception in them, and each exception is something the
code really does.  The properties say that nothing else leads there.  Some of these places
contradict a text of the repository; the text is quoted.

* `DeliveryRecorded`: where runs may be kept for less than a day (`LongRetention`), the history of
  a job that has mailed may have no delivery, for `_prune_runs` takes the record at once.
  Nothing validates `run_history_days` (`routes/admin_routes.py:340-349`).  `help.js:453`: "Each job
  row shows a Last Run status (ok / error) and timestamp."
* `RunningEnds`: the second try of the map at start-up (`Hung`), which `summary_retry` shows for
  the same lines of the summary.
* `PreviewIsComplete`: a preview that another one overtook, or an error that was swallowed
  (`blind`).
* `AlertedOnce`: overlapping evaluations, a record that was lost, a failure that a reader
  swallowed (`misled`).  `docs/features.md:171`, without them: "the same pending diff is never
  emailed twice".
* `SuccessIsKept`: a backup in the same minute, or one that others pruned.  `SavedIsKept`: a
  write that crossed another.
* `CacheKeepsNewest`, `OverlapNeedsRace`: two refreshes that passed the test of an event together,
  and the list of ADOMs, which has no test.
* `MarkIsOwned`: a record that could not be written in a `finally` block.
* `PassIsEarned`: the checks and settings in `Overlooks`.
    * Log severity: the order of the levels is taken the other way round, so a log that keeps
      emergencies only passes a demand for information.  `device_review.py:1897`: "verify disk log
      severity captures at least the expected level (e.g. information)"; `help.js:227` likewise.
    * A demanded TLS version is compared with nothing: 1.2 passes a demand for 1.3.  The parameter
      is labelled "Minimum TLS version" (`device_review.py:1968`), and `help.js:240` has it left
      "blank to auto-detect without a target".
    * A wildcard beside a restriction among the trusted hosts.  `help.js:217`: "flags any admin
      account that allows management access from any IP".
    * A minimum firmware with a part that is no number, a disabled "admin" listed before another
      of the name, an SNMP section without a status, ciphers that are not reported or that the list
      of weak ones does not name, a cluster without members, a factory hostname with letters, a
      management port reported under no name or under both, the Diffie-Hellman groups of phase 2,
      a phase 2 that does not report its PFS: no text says what should come of these.
* `UnreadSettingsNeverPass`: the checks that take a list that did not come for an empty one.
* `CleanupIsSafe`: packages that are not `Plain`, in which rules differ in what the checks do not
  look at (`shadow_hit`).
* `UnusedIsReported`: an object whose name is taken for a built-in one (`BuiltIns`).
* `VerdictIsTruthful` and the other two of the planner: groups with a member that cannot be
  resolved (`Planned`).
* `BlockWins`: zone policies with the same key, of which the second is dropped.  And it says nothing
  of a flow between zones with nothing but blocks of other services: the last line of `evaluate`
  (`zone_db.py:286`) makes it ALLOWED.  `docs/features.md:247`: "non-matching services fall through",
  and `docs/features.md:240`: "allow all → implicit UNKNOWN".
* `NothingDroppedSilently`: tables that are put together and do not agree on a name
  (`OneMeaning`): of an object the last counts, the global one.  `planner/matching.py:260-261`:
  "Per-ADOM names shadow global-ADOM names".  And services that have no one range
  (`Expressible`): of the others the answer has a part, without a warning.  `rule_review.py:86`:
  "Resolve a FortiGate service object or group name to a list of port-spec strings".

### Bounds

The constants `Max...` bound what the outside world does, never what the code does: every
thread that has begun can always go on.  `CHECK_DEADLOCK FALSE` stands for the end of
the world's budget, for an answered question, and in `background` and `summary_retry` for
the retry that never ends.

* Jobs: two threads are as many as a lost update, a race for a lock or an overlap takes; a
  third job, worker or thread adds symmetric copies, and for the properties that are proved
  their number does not matter.  Three requests suffice for create, then update against
  delete; two triggers for an execution that meets its successor; one fault for a crash or
  a failed write at every place of every operation.  `MaxTriggers` is given to one job: the
  other is a bystander in the same file whose record must not change.  `RetentionDays` has what any one reading of `run_history_days`
  may give: 0 stands for every number below 1, which prune all that is recorded, 30 for the
  others, which keep the latest run.  So `jobs_one_worker` checks of `DeliveryRecorded` that the
  history has the delivery or none; that it has it when all readings are a day or more is proved.
  `Runs` in
  `jobs_two_workers` has an ordinal for every email that two triggers can cause in two workers.
* `AtomicFile` has an inode for each name, writer and reader; two calls let a write follow one
  that was interrupted, or overlap one.
* `workers`, reports: two executions in one process and an administrator in another, so that
  an execution meets a competitor for the lock file and a lost update of the file; two parts,
  so that an email can fail after one that was sent; one failing write and one crash.
* `workers`, backups: one request of each kind, a run and a manual backup in two processes, one
  archive kept, so that the second prunes the first; two minutes, so that both share a minute
  or do not; one trouble.
* `workers`, previews: three VDOMs on two devices with two packages, so that a device has two
  packages and a package two devices; a job and a browser; one edit, one fault.  Alerts: two
  evaluations, one editor, one mishap.  `MCPending` starts with all, all but one, or one of
  the targets pending; edits lead to the rest.
* `workers`, caches: two ADOMs and refreshers, of which one is the start-up thread, two
  changes of each ADOM's data, one outage.
* `background`: the start-up thread and two more, three runs, two failures, and one change, which
  is enough to tell older totals from newer; the caches with one change and two outages;
  two executions and an administrator in one process, where they share `_lock`, with a failing
  write.  No crash: it ends every execution of the process.
* `decisions`: addresses of three bits with every CIDR block; packages of two rules out of
  twelve, which between them have negation, a disabled rule, a policy block, groups that are
  nested, cyclic, half known and unknown, a schedule, interfaces, and the actions that are
  neither accept nor deny, with and without a last rule that denies all.  Two rules are what
  an insertion point has to get between and what one rule shadows of another; hygiene has
  packages of three, for what a deletion does to a third.  Group tables two deep; each field
  of a device's section absent, right and wrong, and lists of up to two entries; flows whose
  combinations exceed `ComboLimit`; a range that runs backwards.  `BroadPrefix` stands for /24
  and `HostPrefix` for /32.  Rules of the
  hygiene report are bound to one interface or to none, in force always or at one time, and one
  has a negated field.  The requests of the rule review choose one or two firewalls of three ADOMs: two
  that share nothing, two that share a name, and one that shares a name with the global tables;
  an ADOM's objects, groups or services, or the global objects, can be unreadable (`Faulty`).

No symmetry is used: threads live in different workers, and the instances are small
enough without.

### Fairness

`JobScheduler` and `BackgroundCache` assume weak fairness of `Step(t)` for each thread,
`AtomicFile` of `WriterStep(p)` for each writer, `FairReportSpec` of each execution's `ExecutionStep` and of `SaveEdit` once the file was
loaded, `FairCachesSpec` of each `RefreshStep`, the start-up thread's among them, which sleeps for
a while and no longer; `MCBackground` conjoins all but the first for its
parts.  A thread that has been given work and can run does run: the interpreter and the kernel
schedule all threads, and every call to FortiManager and SMTP ends with a result, an error
or a timeout.  No fairness is assumed of requests, of the clock, of faults and restarts, nor
of what starts an execution or a refresh, so nothing rests on the pool being prompt.  Taking
`_lock` needs no strong fairness: each critical section is short, the number of competitors
is bounded by the bounded requests, and APScheduler and gunicorn have a fixed number of
threads.

## 4. Proofs

The proofs are for any number of workers, threads, jobs, faults, devices, rules and
objects, with and without the bind mount.  Three theorems have a hypothesis on the
deployment, and a run that shows what happens without it: the refinement and
`DeliveryRecorded` are of one process whose file is renamed (`OneProcess`),
`NoDuplicateExecution` is of one process (`SingleWorker`).  The other hypotheses are part of the
properties themselves, and are listed with the exceptions above.

Every theorem has the same shape: an inductive invariant, one lemma for its start, one for
each action that touches it, and one that says that it implies the property.

`JobScheduler`.  Assumptions on the constants: every thread belongs to a worker
(`HomeAssumption`), "no holder" is not a thread (`NoneAssumption`), run ordinals are
naturals with 0 among them (`RunsAssumption`), and the retention is some integer, positive or not
(`RetentionAssumption`).

* `TypeCorrect`: `Spec => []TypeOK /\ []Coherent`.  `TypeOK` is not inductive: that
  `Edited(t)` is a table needs to know that a thread about to write has a job, an
  operation, a trigger time when it needs one and, in an update, the job in its
  snapshot.  `Coherent` says so for each place of a thread; the two are
  inductive together.
* `ExecutionCorrect`: `Spec => []ExecutionInv`.  `LockFileHeld`: between taking the
  lock file and giving it back a thread is the holder.  `MarksMatch`: a job is in
  `_running_jobs` of a worker exactly when one of its threads is between marking
  and unmarking it.  The second rests on the first: `discard` removes the mark of
  *the* execution only because no other has the lock file.
* `OneRunPerJobCorrect` and `RunningReportedCorrect` follow from it.
* `OneWriterPerProcessCorrect`: in each process at most one thread is between the
  load and the end of the write, from `LockHeld`.
* `OneProcessRefinesJobStore`: under `OneProcess` (one worker, rename),
  `Spec => RefinesJobStore`.  `StoreInv` adds to `LockHeld` that what a thread has
  loaded is still what the file holds (`SnapshotCurrent`, which two processes
  violate) and that no two create requests share an id (`FreshIds`, for
  the refinement mapping `used <- issued \ Pending`).  `Save` maps to the operation
  its thread is in, `SaveFails` and `Crash` of a create request to `Spend`, and
  everything else to a stutter.
* `HistoryIsTrueCorrect`: `Spec => []HistoryIsTrue`, for any number of processes.  A stale
  table that is written back must itself be true, so `HistoryInv` speaks of all `Copies`:
  the file and what every thread has loaded of it.  Of the email that an execution is about
  to record it says that it is the newest of its job and in no copy yet; the lock file
  (`ExecutionInv`) is why no other execution of the job mails in between.
* `DeliveryRecordedCorrect`, under `OneProcess`: `RecordedOrDue` (the latest email is in the
  file, or an execution is about to put it there) is kept by a write only because what is
  written was loaded under `_lock` (`SnapshotCurrent` of `StoreInv`), and by the pruning only
  because the run is at the front by then (`PrunesAfterRecord`) and the pruning takes it either
  not at all or with everything else (`PruningKeepsNewest`).  `FailureInFront` is the record of a
  failed run, which hides no delivery.
* `NoDuplicateExecutionCorrect`, under `SingleWorker`: `TriggersPay` counts.  What was mailed,
  the threads that may still mail and the entry that waits in the pool are together no more
  than the triggers.

`ReportJobs`, for all four kinds, from `ReportAssumption` (every thread has a process, no
thread is both an execution and a request, `NoOne` is neither):

* `LockFileCorrect` and `MarkCorrect`, from the inductive `LockInv`: the types, `LockMatches`
  (the lock file is with exactly the execution that is in its middle) and `MarkIsOwned`.  The
  second half of `MarkIsOwned`, that an execution's mark stays while it runs, needs the first
  two: `DiscardMark` takes the mark of a process away, and only the exclusive lock file says
  that it is no other execution's.
* `DeliveryCorrect`, from the inductive `SendInv`: `Sending` relates what an execution has sent
  to what its record will say at each place, and `HistoriesTrue` says that every line of a run
  history is true *and final*, in the file and in what every thread has loaded.  The last is
  what lost updates between processes need: a stale table that is written back must
  still be true.

`AtomicFile`, from `AtomicAssumption` (there are three inodes more than writers, the value of
a gap in a file is no text):

* `WholeCorrect`, `StandsCorrect`: while no two writes have overlapped (`~crossed`) the state is
  `Serial`: one writer is under way, `Progress` says what it has put where by each system call,
  and `Served` what the file has meanwhile: off a bind mount the last text that a write
  returned with, on one either that or a write in place is under way.  `TmpApart` holds without
  the condition: the temporary file is never the inode that a reader has open, so truncating it
  takes nothing from a reader.

`BackgroundCache` and `Caches`:

* `MarkCorrect`, `OverlapCorrect`, `StatusCorrect`, `HistoryCorrect`, `TotalsCorrect`, from
  `JobInv`: the mark has an owner always; unless two threads raced there is one job (`OneJob`),
  what it has counted is no older than what is shown (`Counted`), and today's entry follows it
  or is about to (`Recorded`).  A step of one thread is what the lemmas `GotoStep` and
  `ReturnStep` make of it, whichever thread it is.
* `NewestCorrect`, from `StarterAssumption` (the start-up thread is a thread): what is served in
  part was read in part (`ShortInv`), and for each way of keeping overlapping refreshes out
  there is an invariant (`EventInv`, `AdomInv`, `RuleInv`, `PendingInv`), and each has the same conclusion: what a
  refresh has read is at least as new as what is served when it will be served.

`Previews` and `PackageAlerts`, from `PendingAssumption` (the device list is a list),
`PreviewsAssumption` and `AlertsAssumption` (who previews, evaluates and edits are different):

* `PreviewCorrect`: `PreviewIsComplete` speaks of the end of a preview.  `PreviewInv` says of
  each place what has been gathered is the device's own (`Gathered`), what is pending has been
  fetched, is staged, or is still to do (`Accounted`), and an error has a cause (`Caused`).
* `SentCorrect`: what an evaluation carries was mailed, in the file, in what it loaded and in
  what it will write (`AllMailed`).
* `OnceCorrect`: as long as nothing misled an evaluation, the state is `Orderly`: one
  evaluation at a time, and what was mailed last and still waits is known to whoever decides
  what to mail next, the file or the evaluation that is about to write it.

`Backups`, from `BackupsAssumption` (each thread does one thing in one process, a new job's id
is not the first job's, and `max_files` is a natural number):

* `SavedCorrect`, from `ConfigInv`: a thread that will write has loaded, and what it loaded and
  is not stale is what the file has (`Current`), so its write adds to what is saved and takes
  nothing away.  A job whose creation failed beside a file is in no copy, neither the file,
  nor a process's defaults, nor what any thread has loaded (`Nowhere`): a stale write brings
  back much, but nothing that was never there.
* `SuccessCorrect`, from `ArchiveInv`: a backup that is being written or was closed is `Kept`.
  Its archive is in the directory and every archive behind it is of a backup that counts
  against it (`Stands`), or another has its name (`Rival`), or as many as are kept count
  against it (`Crowded`).  Opening or closing another archive only moves it up, or makes a
  rival (`StandsBehind`); it is pruned only from in front of `MaxFiles` archives with different
  names, so of that many backups (`PrunedStands`).  `TrueRuns` carries this to the records, in
  the file and in what every thread has loaded.

The decision procedures, from assumptions on the tables that a question may be asked of
(`HygieneAssumption`, `ReviewAssumption`, `ZonesAssumption`, `RequestAssumption`,
`CatalogAssumption`, `PlannerAssumption`, `LookupAssumption`: finite tables, member lists that
are sequences, fields of the type that the readers give them).  Of FortiManager
`CatalogAssumption` takes that an object and a group never share a name, that no group is called
`all` or `any`, and that the range of a service object goes from low to high; `LookupAssumption`
that the wildcard in a group is one of the objects, as it is there.  The ranges of a flow are any
pair of numbers, those of a lookup have passed `_validated`.  The questions take few steps; the
work is in lemmas on what the operators compute.

* Induction.  A definition by recursion `f[n \in S] == e` stands for *some* function with that
  equation, so before its equation can be used one must show that there is one.
  `Questions_proofs` does both from the well-foundedness of `<` on the naturals:
  `LeastNatural`, `Induction` (over a set that stands for the predicate), `Iteration` (the
  iterates of a function exist).  From them follow `ReachIsClosed` and `ReachIsLeast`: the
  breadth-first search that the code writes out in several places computes the least closed set.
* `EarnedCorrect`, `UnreadCorrect`: for each check what its verdict says of the settings
  (`...Earned`, all 26 of them, outside `Overlooks`), and that a section nothing was read of is `Blank` and passes no check but those
  that trust an empty list.  `DeviceInv` carries them through the fetches of the sections.
* `CleanupCorrect`: `ResolvedExact` and `ResolveExact` (the hygiene resolver, through any depth
  of groups and round cycles of them, finds exactly the networks that well-read objects mean, or
  says that it cannot), `CoversMeans` (under `Plain`, a covered rule takes no connection that the
  covering one does not, in all fields, users, interfaces and times), and `CleanupKeepsDecision` (the first rule that a connection meets is never reported, so
  deleting all that are changes no decision).
* `UnusedCorrect`: what the expansion has marked or queued is in `Reach` of the references
  (`UnusedInv`), in whatever order it is expanded, so what
  is outside is reported unless it is a `BuiltIns`.
* `UnhitCorrect`: the replies are those of the devices asked so far (`HitsInv`).
* `BlockWinsCorrect`: `AncestorsExact` (the walk up the hierarchy finds the zones above, and
  ends when the hierarchy has a cycle).
* `DroppedCorrect`: `EarliestFacts` and `LatestFacts` (a table that has a name, when there is one),
  `TextFacts` (under `OneMeaning` it says of the name what the ADOM of each firewall says, if that
  could be read), `ExpandAddrFacts` (so every address that a name stands for there is in the list,
  or the list has a warning), `SpecsFacts` and `ServiceFacts` (the same for services that are
  `Expressible`, which have no warning), `CombinationsFacts` (every triple of them is in a
  combination, or the limit is noted).  From `Questions_proofs` they use `GreatestNatural` and
  `OnlyInKeeps`.
* What the names of a rule stand for, for `Planner` and `RuleLookup`: `UnderFacts` and `TableFacts`
  (from `ReachIsClosed` and `ReachIsLeast`: a name has exactly the parts of the leaves under it,
  through any depth of groups and round cycles of them), `AddrMeaningFacts` and `SvcMeaningFacts`
  (the networks and ranges of a rule are among what it takes, and all of it when no name is
  unresolved and no group hides a member), `RangeFacts` (what `contains` and `overlaps` say of
  connections).  That a group may hide a member is why the planner's three theorems speak of
  `Planned` answers: in the other case (`Mixed`) `_resolve` drops the member in silence.
* `VerdictCorrect`, `PlaceCorrect`, `AlternativeCorrect`, from `FlowInv`: each step of `plan_flow`
  leaves what the next one reads (`Decided`, `Placed`, `Near`).  `AddrDimFacts` and `SvcDimFacts`
  say of one side of a rule that full means that the rule takes it and not matched that it does
  not, negation included; `MatchFacts` joins the three sides, `WithinFacts` is the converse for the
  rules that a new one shadows.
* `HiddenCorrect`, `LabelsCorrect`, from `LookupInv`: `NetworkLabels`, `RangeLabels`,
  `ServiceLabels` (what a label says of one name), `AddrFieldFacts`, `PortFieldFacts` (of a field:
  the best label of its names), `SortedHasAll` and `RowsHaveAll` (sorting and splitting the rows
  loses none).

## 5. Only model-checked

* Liveness: `RunsFinish`, `WriteReturns`, `EveryoneEnds`, `RunningEnds`, `ExecutionsEnd`; the
  prover has no fairness.
* That `Resolution` is what `Descent` computes: a fold inside a recursive function, which is
  induction over data.

## 6. Not modelled yet, and the plan

Every safety property of a passing run is a theorem.  The next proofs are those of the modules
below.

Next modules, in this order:

1. `ZoneStore`: the editing of zones, routes and zone policies (`zone_db.py:402-541` and the
   routes), a read-modify-write with an index that the other worker does not see.
2. `NatReport`: which rules and virtual IPs a NAT and a policy report list
   (`nat_report_scheduler.py:237-480`, `rule_policy_scheduler.py:275-417`).
3. The object lookups and the policy search of `hygiene_routes.py` (where used, hit counts,
   duplicates).
4. The 30-day window of `summary_history.py`, which two workers write in place.
5. Groups and session revalidation, `infra_health_cache.py` and `host_metrics.py`.

Left out for good: rendering of pages, HTML, PDF and CSV, the command lines of `cli_gen.py`;
LDAP, RADIUS, SNMP and SMTP protocols; SQLite metrics and logging; small settings files behind
one lock; deployment files.  They are I/O or layout, and what they can do to a modelled
component (fail, take long, die) is an action there.

### Noticed, and modelled as it is

The models follow the code in these places too, and no run calls them wrong.  Of most of them the
repository says nothing; where it does and the code differs, the text is quoted with the exceptions
in section 3 (log severity, TLS version, trusted hosts, retention, the map's retry, policies that
only block, global objects, ranges of services, alerts that are mailed twice).

* `matching.py`: a group is known when one member is; the others are dropped from it.
* `zone_db.py`: the second of two policies with one key is dropped.
* `backup_engine.py`: the archive is written under its final name, by the minute.
* `fmg_client.py`: a device group that cannot be read has no members, so an alert rule
  forgets what it mailed about the package and mails it again; VDOMs and packages that
  cannot be read are left out of a preview.
* Versions, licence and map caches: an ADOM that fails disappears while the status says "ok".
* `hygiene.py`: hit counts are asked of the first ten devices of a scope; objects whose names
  look built in are never reported as unused.
* `device_review.py`: `device_review_run` without a client judges empty sections.
* `rule_review.py`: groups are expanded one level deep, with a warning; a table that cannot be
  read counts as empty.
* `rule_lookup_cache.py`, `pending_status_cache.py`: a package that fails leaves a part of its ADOM
  in the cache with the status "ok" (named in `package_errors` by the first).
