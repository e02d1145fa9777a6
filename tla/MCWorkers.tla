------------------------------ MODULE MCWorkers ------------------------------
(* What runs in the background, part by part in one state graph: a behaviour *)
(* takes the steps of one part and leaves the state of the others as it is   *)
(* at rest.  They share no file, lock or cache; the previews and the alerts, *)
(* which do, are joined by what PreviewIsComplete says of a preview.         *)
EXTENDS MCReportJobs, MCCaches, Backups, Previews, PackageAlerts

CONSTANTS
    x1, m2, c1, d1, s2, \* Backups: a run, one by hand, and a request of each kind
    r1, r2, r3, fw1, fw2, p1, p2, u1,
                        \* three VDOMs of two devices, two packages, a change
    b1, v1,             \* Previews: a job and a browser
    j1, j2, q1          \* PackageAlerts: two jobs and an editor

MCHomeOf == x1 :> w1 @@ m2 :> w2 @@ c1 :> w1 @@ d1 :> w1 @@ s2 :> w2
MCOnDevice == r1 :> fw1 @@ r2 :> fw2 @@ r3 :> fw1
MCAssignedTo == r1 :> p1 @@ r2 :> p1 @@ r3 :> p2
MCDeviceOrder == <<fw1, fw2>>
MCViewedDevice == v1 :> fw1

VARIABLE part

(* All is pending, or all but on one device; edits lead to the rest.         *)
MCPending == {[r \in Targets |-> IF r \in some THEN u1 ELSE NoChange] :
                 some \in {Targets, Targets \ {r1}, {r2}}}

ownPreviewVars == <<context, preview, results, task, blind, faulty>>
ownAlertVars == <<rule, evaluation, alerts, lastAlert, misled, mishaps>>

Init ==
    /\ part \in {"reports", "backups", "previews", "alerts", "caches"}
    /\ ReportInit /\ (part = "reports" \/ kind = "nat")
    /\ BackupsInit /\ (part = "backups" \/ config.there)
    /\ PreviewsInit /\ pending \in (IF part \in {"previews", "alerts"} THEN MCPending
                                        ELSE {NothingPending})
    /\ AlertsInit /\ (part = "alerts" \/ lastAlert = Unsent)
    /\ CachesInit /\ (part = "caches" \/ cache = "adoms")

Next ==
    /\ UNCHANGED part
    /\ \/ part = "reports" /\ ReportNext
             /\ UNCHANGED <<backupVars, previewVars, ownAlertVars, cacheVars>>
       \/ part = "backups" /\ BackupsNext
             /\ UNCHANGED <<reportVars, previewVars, ownAlertVars, cacheVars>>
       \/ part = "previews" /\ PreviewsNext
             /\ UNCHANGED <<reportVars, backupVars, ownAlertVars, cacheVars>>
       \/ part = "alerts" /\ AlertsNext
             /\ UNCHANGED <<reportVars, backupVars, ownPreviewVars, cacheVars>>
       \/ part = "caches" /\ CachesNext
             /\ UNCHANGED <<reportVars, backupVars, previewVars, ownAlertVars>>

Spec == Init /\ [][Next]_<<part, reportVars, backupVars, previewVars, ownAlertVars, cacheVars>>
=============================================================================
