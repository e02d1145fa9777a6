------------------------------ MODULE Previews ------------------------------
(***************************************************************************)
(* Install previews (FMGClient.get_install_preview): what would change on  *)
(* a device if its policy packages were installed now.  They are made for  *)
(* all devices of an ADOM, one after another, by the config-delta jobs     *)
(* (bulk_preview_adom), and for one device, by a thread whose task file    *)
(* the browser polls, by pending_changes_preview.                          *)
(*                                                                         *)
(* FortiManager, modelled from the comments and the calls of the client,   *)
(* keeps one staging context per ADOM: a package that is staged replaces   *)
(* it, and a cancel removes it, whosever it is.                            *)
(***************************************************************************)
EXTENDS PendingChanges

CONSTANTS
    Bulk,          \* the executions that preview the ADOM
    Viewers,       \* the previews that the browser asks for
    ViewedDevice,  \* ViewedDevice[v]: the device v is about
    Nobody,
    MaxFaults      \* how many calls may fail, and threads die

VARIABLES
    context,       \* the staging context: [by, diff]
    preview,       \* preview[t]: [pc, devices, left, scope, parts]
    results,       \* results[t]: [device, status, diff] of each device done
    task,          \* task[v]: the status in the task file
    blind,         \* ghost: who was shown less than was pending, as if that
                   \* were all
    faulty         \* the calls that have failed and the threads that died

previewVars == <<pendingVars, context, preview, results, task, blind, faulty>>

Previewers == Bulk \cup Viewers

ASSUME PreviewsAssumption == Nobody \notin Previewers

CurrentDevice(t) == Head(preview[t].devices)
NoContext == [by |-> Nobody, diff |-> {}]

PreviewsInit ==
    /\ PendingInit
    /\ context = NoContext
    /\ preview = [t \in Previewers |->
          [pc |-> "idle", left |-> {}, scope |-> {}, parts |-> {},
           devices |-> IF t \in Bulk THEN DeviceOrder ELSE <<ViewedDevice[t]>>]]
    /\ results = [t \in Previewers |-> {}]
    /\ task = [v \in Viewers |-> "none"]
    /\ blind = {}
    /\ faulty = 0

Before(t, pc) == preview[t].pc = pc
GoOn(t, pc) == preview' = [preview EXCEPT ![t].pc = pc]
Fault == /\ faulty < MaxFaults
         /\ faulty' = faulty + 1
Overlook(t, scope) == blind' = IF WaitingIn(scope) = {} THEN blind ELSE blind \cup {t}

-----------------------------------------------------------------------------
(* get_install_preview *)

(* bulk_preview_adom lists the devices; pending_changes_preview writes the   *)
(* task file and starts the thread.                                          *)
StartPreview(t) ==
    /\ Before(t, "idle")
    /\ GoOn(t, "survey")
    /\ task' = IF t \in Viewers THEN [task EXCEPT ![t] = "running"] ELSE task
    /\ UNCHANGED <<pendingVars, context, results, blind, faulty>>

(* The VDOMs and their packages.  A VDOM or a package that cannot be read is *)
(* as good as not there (get_device_vdoms, get_package_info).                *)
Survey(t) ==
    /\ Before(t, "survey")
    /\ \E seen \in SUBSET TargetsOf(CurrentDevice(t)) :
          /\ IF seen = TargetsOf(CurrentDevice(t)) THEN UNCHANGED faulty ELSE Fault
          /\ Overlook(t, TargetsOf(CurrentDevice(t)) \ seen)
          /\ preview' = [preview EXCEPT ![t].parts = {}, ![t].left = seen,
                                        ![t].pc = IF seen = {} THEN "status" ELSE "stage"]
    /\ UNCHANGED <<pendingVars, context, results, task>>

(* install/package: one package, for the VDOMs that have it.                 *)
Stage(t) ==
    /\ Before(t, "stage")
    /\ \E p \in {AssignedTo[r] : r \in preview[t].left} :
          LET scope == {r \in preview[t].left : AssignedTo[r] = p}
          IN  preview' = [preview EXCEPT ![t].pc = "generate", ![t].scope = scope,
                                         ![t].left = @ \ scope]
    /\ context' = [by |-> t, diff |-> {}]
    /\ UNCHANGED <<pendingVars, results, task, blind, faulty>>

(* A rejected call, or one whose answer names no task: the package is        *)
(* skipped, and what is staged is cancelled all the same.                    *)
SkipPackage(t) ==
    /\ Before(t, "stage") \/ Before(t, "generate")
    /\ Fault
    /\ \E p \in {AssignedTo[r] : r \in preview[t].left \cup preview[t].scope} :
          LET scope == IF Before(t, "generate") THEN preview[t].scope
                       ELSE {r \in preview[t].left : AssignedTo[r] = p}
          IN  /\ preview' = [preview EXCEPT ![t].pc = "cancel", ![t].scope = scope,
                                            ![t].left = @ \ scope]
              /\ Overlook(t, scope)
    /\ UNCHANGED <<pendingVars, context, results, task>>

(* install/preview, for what is staged now.                                  *)
Generate(t) ==
    /\ Before(t, "generate")
    /\ GoOn(t, "fetch")
    /\ context' = IF context.by = t
                  THEN [context EXCEPT !.diff = WaitingIn(preview[t].scope)] ELSE context
    /\ UNCHANGED <<pendingVars, results, task, blind, faulty>>

(* The task of a stage or a preview fails, or does not end in time: FMGError *)
(* for the device, after the cancel (_poll).                                 *)
TaskFails(t) ==
    /\ Before(t, "generate") \/ Before(t, "fetch")
    /\ Fault
    /\ GoOn(t, "give up")
    /\ UNCHANGED <<pendingVars, context, results, task, blind>>

(* Mutants, here and below: what a plausible bug would make of the           *)
(* definition that follows.  No behaviour of PreviewsSpec uses them.         *)

(* Only the last package's diff would survive. *)
WithPartLast(parts, part) == part

(* raw_parts.append *)
WithPart(parts, part) == parts \cup part

(* preview/result: nothing when the context is no longer t's.                *)
Fetch(t) ==
    /\ Before(t, "fetch")
    /\ LET part == IF context.by = t THEN context.diff ELSE {}
       IN  preview' = [preview EXCEPT ![t].pc = "cancel",
                                      ![t].parts = WithPart(@, part)]
    /\ IF context.by = t THEN UNCHANGED blind ELSE Overlook(t, preview[t].scope)
    /\ UNCHANGED <<pendingVars, context, results, task, faulty>>

(* preview/result raises for both task ids, or has nothing for the device.   *)
FetchFails(t) ==
    /\ Before(t, "fetch")
    /\ Fault
    /\ GoOn(t, "cancel")
    /\ Overlook(t, preview[t].scope)
    /\ UNCHANGED <<pendingVars, context, results, task>>

(* finally: package/cancel/install, then the next package.                   *)
Cancel(t) ==
    /\ Before(t, "cancel") \/ Before(t, "give up")
    /\ context' = NoContext
    /\ GoOn(t, IF Before(t, "give up") THEN "error"
               ELSE IF preview[t].left = {} THEN "status" ELSE "stage")
    /\ UNCHANGED <<pendingVars, results, task, blind, faulty>>

-----------------------------------------------------------------------------
(* What becomes of it *)

Finish(t, status, diff) ==
    /\ results' = [results EXCEPT
          ![t] = @ \cup {[device |-> CurrentDevice(t), status |-> status, diff |-> diff]}]
    /\ preview' = [preview EXCEPT
          ![t].parts = {}, ![t].scope = {}, ![t].left = {},
          ![t].pc = IF Len(preview[t].devices) > 1 THEN "survey"
                    ELSE IF t \in Bulk THEN "previewed" ELSE "answer",
          ![t].devices = IF Len(@) > 1 THEN Tail(@) ELSE @]

(* parse_preview_diff and get_device_pkg_status, which says "" when it       *)
(* cannot be read.                                                           *)
Conclude(t) ==
    /\ Before(t, "status")
    /\ \E modified \in BOOLEAN :
          Finish(t, CASE preview[t].parts # {} -> "ok"
                      [] preview[t].parts = {} /\ modified -> "pkg_pending_no_diff"
                      [] preview[t].parts = {} /\ ~modified -> "no_changes",
                 preview[t].parts)
    /\ UNCHANGED <<pendingVars, context, task, blind, faulty>>

(* except: the device could not be previewed, be it that the client could    *)
(* not be made; _preview_one makes another one for the status.               *)
PreviewError(t) ==
    /\ \/ Before(t, "error") /\ UNCHANGED faulty
       \/ Before(t, "survey") /\ Fault
       \/ Before(t, "status") /\ t \in Bulk /\ Fault
    /\ Finish(t, "error", {})
    /\ UNCHANGED <<pendingVars, context, task, blind>>

(* _run: the task file is read, and written only if it is still there; it    *)
(* may go between the two.                                                   *)
ReadTaskFile(v) ==
    /\ Before(v, "answer")
    /\ GoOn(v, IF task[v] = "none" THEN "ended" ELSE "write")
    /\ UNCHANGED <<pendingVars, context, results, task, blind, faulty>>

WriteTaskFile(v) ==
    /\ Before(v, "write")
    /\ task' = [task EXCEPT ![v] = IF \E res \in results[v] : res.status = "error"
                                   THEN "error" ELSE "done"]
    /\ GoOn(v, "ended")
    /\ UNCHANGED <<pendingVars, context, results, blind, faulty>>

(* _evict_old_tasks, which every request runs; a preview may well take       *)
(* longer than a task file is kept.                                          *)
EvictTaskFile(v) ==
    /\ task[v] # "none"
    /\ task' = [task EXCEPT ![v] = "none"]
    /\ UNCHANGED <<pendingVars, context, preview, results, blind, faulty>>

(* A thread dies with its process; what it had staged stays staged.          *)
PreviewerDies(t) ==
    /\ preview[t].pc \notin {"idle", "ended"}
    /\ Fault
    /\ GoOn(t, "ended")
    /\ UNCHANGED <<pendingVars, context, results, task, blind>>

PreviewStep(t) ==
    \/ StartPreview(t) \/ Survey(t) \/ Stage(t) \/ SkipPackage(t) \/ Generate(t)
    \/ TaskFails(t) \/ Fetch(t) \/ FetchFails(t) \/ Cancel(t) \/ Conclude(t)
    \/ PreviewError(t)

PreviewsNext ==
    \/ \E t \in Previewers : PreviewStep(t) \/ PreviewerDies(t)
    \/ \E v \in Viewers : ReadTaskFile(v) \/ WriteTaskFile(v) \/ EvictTaskFile(v)
    \/ \E r \in Targets : EditPending(r) /\ UNCHANGED <<context, preview, results, task,
                                                        blind, faulty>>

PreviewsSpec == PreviewsInit /\ [][PreviewsNext]_previewVars

-----------------------------------------------------------------------------
(* Properties *)

(* What a preview without an error shows of a device is what is pending      *)
(* there, all packages of all VDOMs: unless a call failed that the client    *)
(* takes for an empty answer, another preview of the ADOM got in between, or *)
(* the change changed.  It never shows what is not pending, and an error has *)
(* a cause (get_install_preview, _preview_one).                              *)
PreviewIsComplete ==
    \A t \in Previewers : \A res \in results[t] :
        /\ edits = 0 => res.diff \subseteq WaitingIn(TargetsOf(res.device))
        /\ edits = 0 /\ res.status # "error" /\ t \notin blind =>
              res.diff = WaitingIn(TargetsOf(res.device))
        /\ res.status = "error" => faulty > 0
=============================================================================
