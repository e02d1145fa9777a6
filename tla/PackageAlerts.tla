---------------------------- MODULE PackageAlerts ----------------------------
(***************************************************************************)
(* Package change alerts (package_change_alerts.py): after its previews, a *)
(* config-delta job evaluates the rules of its ADOM and mails the pending  *)
(* policy changes of each watched package, unless they are what it mailed  *)
(* last, which is kept with the rule in its file.                          *)
(*                                                                         *)
(* One rule, and several evaluations of it in one process or in several.   *)
(* A preview is one step here (Previews has them in full), and shows of a  *)
(* device what is pending, an error, or, without one, less than is pending.*)
(* The digest of a diff is the diff.                                       *)
(***************************************************************************)
EXTENDS PendingChanges, FiniteSets

CONSTANTS
    PolicyChanges,   \* the changes that have lines in a policy section
    Evaluations,     \* the config-delta jobs that run
    RuleEditors,     \* requests that change or delete the rule
    MaxMishaps       \* how many calls may fail and threads may die

ASSUME AlertsAssumption == Evaluations \cap RuleEditors = {}

VARIABLES
    rule,        \* the rule in its file: [exists, enabled, watched, sent]
    evaluation,  \* evaluation[t]: [pc, devices, read, base, keep, sent, due]
    alerts,      \* the emails that were accepted: [by, package, diff]
    lastAlert,   \* ghost: what was mailed last of a package, since its
                 \* pending changes have changed
    misled,      \* ghost: an answer was short without an error, evaluations
                 \* overlapped, what one had mailed was not recorded, or a
                 \* change changed before it was evaluated
    mishaps      \* the calls that have failed and the threads that died

alertVars == <<pendingVars, rule, evaluation, alerts, lastAlert, misled, mishaps>>

Packages == {AssignedTo[r] : r \in Targets}
Unsent == [p \in Packages |-> {}]
ScopeOf(p) == {r \in Targets : AssignedTo[r] = p}

NoRule == [exists |-> FALSE, enabled |-> FALSE, watched |-> {}, sent |-> Unsent]

(* What a thread holds at a step where it has read and done nothing yet.     *)
Holding(pc) == [pc |-> pc, devices |-> DeviceOrder, read |-> {}, base |-> NoRule,
           keep |-> FALSE, sent |-> Unsent, due |-> {}]

DiffIn(scope) == {x \in WaitingIn(scope) : x[2] \in PolicyChanges}

(* A rule that is new, or one that has told of what is pending.              *)
AlertsInit ==
    /\ PendingInit
    /\ lastAlert \in {Unsent, [p \in Packages |-> DiffIn(ScopeOf(p))]}
    /\ alerts = {[by |-> "earlier", package |-> p, diff |-> lastAlert[p]] :
                    p \in {q \in Packages : lastAlert[q] # {}}}
    /\ rule = [exists |-> TRUE, enabled |-> TRUE, watched |-> Packages, sent |-> lastAlert]
    /\ evaluation = [t \in Evaluations \cup RuleEditors |-> Holding("idle")]
    /\ misled = FALSE
    /\ mishaps = 0

InEvaluation(t, pc) == evaluation[t].pc = pc
End(t) == evaluation' = [evaluation EXCEPT ![t] = Holding("ended")]
Mishap == /\ mishaps < MaxMishaps
          /\ mishaps' = mishaps + 1
NoMishap == UNCHANGED <<misled, mishaps>>
Misleading == Mishap /\ misled' = TRUE
Handled == Mishap /\ UNCHANGED misled

-----------------------------------------------------------------------------
(* bulk_preview_adom, one device: its status and its diff.                   *)
PreviewDevice(t) ==
    /\ InEvaluation(t, "idle")
    /\ LET d == Head(evaluation[t].devices)
           all == WaitingIn(TargetsOf(d))
           Shown(status, diff) ==
               evaluation' = [evaluation EXCEPT
                  ![t].read = @ \cup {[device |-> d, status |-> status, diff |-> diff]},
                  ![t].pc = IF Len(evaluation[t].devices) > 1 THEN "idle" ELSE "previewed",
                  ![t].devices = IF Len(@) > 1 THEN Tail(@) ELSE @]
       IN  \/ Shown(IF all = {} THEN "no_changes" ELSE "ok", all) /\ NoMishap
           \/ Shown("error", {}) /\ Handled
           \/ \E some \in (SUBSET all) \ {all} :
                 Shown(IF some = {} THEN "pkg_pending_no_diff" ELSE "ok", some) /\ Misleading
    /\ UNCHANGED <<pendingVars, rule, alerts, lastAlert>>

(* evaluate_alerts: the enabled rules of the ADOM, under _lock.  Two         *)
(* evaluations at a time do not know of each other.                          *)
ReadRules(t) ==
    /\ InEvaluation(t, "previewed")
    /\ IF rule.exists /\ rule.enabled
       THEN /\ evaluation' = [evaluation EXCEPT ![t].pc = "lookup", ![t].base = rule]
            /\ misled' = (misled \/ \E u \in Evaluations \ {t} :
                             evaluation[u].pc \in {"lookup", "mail", "record", "save"})
       ELSE End(t) /\ UNCHANGED misled
    /\ UNCHANGED <<pendingVars, rule, alerts, lastAlert, mishaps>>

(* _record_failure: what was sent stays as it is.                            *)
LookupFails(t) ==
    /\ InEvaluation(t, "lookup")
    /\ Handled
    /\ evaluation' = [evaluation EXCEPT ![t] = [Holding("record") EXCEPT !.keep = TRUE]]
    /\ UNCHANGED <<pendingVars, rule, alerts, lastAlert>>

(* collect_package_diffs and filter_policy_changes: the diffs of the devices *)
(* whose status is "ok".                                                     *)
DiffOf(t, scope) ==
    {x \in UNION {res.diff : res \in {q \in evaluation[t].read : q.status = "ok"}} :
        x[1] \in scope /\ x[2] \in PolicyChanges}

(* Mutants, here and below: what a plausible bug would make of the           *)
(* definition that follows.  No behaviour of the specification uses them.    *)

(* Only a package with no readable device would be left alone. *)
HasUnreadableAll(t, scope) ==
    scope # {} /\ \A r \in scope : \A res \in evaluation[t].read :
        res.device = OnDevice[r] => res.status = "error"

(* has_unreadable_targets                                                    *)
HasUnreadable(t, scope) ==
    \E r \in scope : ~\E res \in evaluation[t].read :
        res.device = OnDevice[r] /\ res.status # "error"

(* _evaluate_rule, up to the mails, with the packages found and, of each,    *)
(* the targets found.                                                        *)
Compare(t, found, scope) ==
    LET known == {p \in found \cap evaluation[t].base.watched : ~HasUnreadable(t, scope[p])}
        last == evaluation[t].base.sent
    IN  evaluation' = [evaluation EXCEPT ![t].pc = "mail", ![t].read = {}, ![t].base = NoRule,
            ![t].sent = [p \in Packages |->
                IF p \in known /\ DiffOf(t, scope[p]) = {} THEN {} ELSE last[p]],
            ![t].due = {[package |-> p, diff |-> DiffOf(t, scope[p])] :
                p \in {q \in known : DiffOf(t, scope[q]) \notin {{}, last[q]}}}]

(* _fetch_packages_and_groups: everything, or fewer packages, or a device    *)
(* group whose members cannot be read and that counts as empty.              *)
Lookup(t) ==
    /\ InEvaluation(t, "lookup")
    /\ LET whole == [p \in Packages |-> ScopeOf(p)]
       IN  \/ Compare(t, Packages, whole) /\ NoMishap
           \/ \E found \in (SUBSET Packages) \ {{}, Packages} : Compare(t, found, whole) /\ Handled
           \/ \E p \in Packages : \E some \in (SUBSET ScopeOf(p)) \ {ScopeOf(p)} :
                 Compare(t, Packages, [whole EXCEPT ![p] = some]) /\ Misleading
    /\ UNCHANGED <<pendingVars, rule, alerts, lastAlert>>

-----------------------------------------------------------------------------
(* The emails, and what is remembered of them *)

Mail(t, a) ==
    /\ InEvaluation(t, "mail")
    /\ a \in evaluation[t].due
    /\ alerts' = alerts \cup {[by |-> t, package |-> a.package, diff |-> a.diff]}
    /\ lastAlert' = [lastAlert EXCEPT ![a.package] = a.diff]
    /\ evaluation' = [evaluation EXCEPT ![t].due = @ \ {a}, ![t].sent[a.package] = a.diff]
    /\ NoMishap
    /\ UNCHANGED <<pendingVars, rule>>

(* It would be marked before it was sent. *)
MailFailsMarked(t, a) ==
    /\ InEvaluation(t, "mail")
    /\ a \in evaluation[t].due
    /\ evaluation' = [evaluation EXCEPT ![t].due = @ \ {a}, ![t].sent[a.package] = a.diff]
    /\ Handled
    /\ UNCHANGED <<pendingVars, rule, alerts, lastAlert>>

(* The mail is refused, or the report to go with it is not available.        *)
MailFails(t, a) ==
    /\ InEvaluation(t, "mail")
    /\ a \in evaluation[t].due
    /\ evaluation' = [evaluation EXCEPT ![t].due = @ \ {a}]
    /\ Handled
    /\ UNCHANGED <<pendingVars, rule, alerts, lastAlert>>

(* _policy_reports fails: none is.                                           *)
ReportsFail(t) ==
    /\ InEvaluation(t, "mail")
    /\ evaluation[t].due # {}
    /\ ~\E a \in alerts : a.by = t
    /\ evaluation' = [evaluation EXCEPT ![t].due = {}]
    /\ Handled
    /\ UNCHANGED <<pendingVars, rule, alerts, lastAlert>>

(* _save_rule_state, update_rule and delete_rule: the rules are loaded.      *)
LoadRule(t) ==
    /\ \/ InEvaluation(t, "record")
       \/ InEvaluation(t, "mail") /\ evaluation[t].due = {}
       \/ t \in RuleEditors /\ InEvaluation(t, "idle")
    /\ evaluation' = [evaluation EXCEPT ![t].pc = "save", ![t].base = rule]
    /\ NoMishap
    /\ UNCHANGED <<pendingVars, rule, alerts, lastAlert>>

(* atomic_write_json.  _lock keeps the writers of one process apart, not     *)
(* those of two.                                                             *)
WriteRule(t, new) ==
    /\ InEvaluation(t, "save")
    /\ rule' = new
    /\ misled' = (misled \/ evaluation[t].base # rule)
    /\ End(t)
    /\ UNCHANGED <<pendingVars, alerts, lastAlert, mishaps>>

(* A rule that was deleted stays as it is.                                   *)
SaveState(t) ==
    /\ t \in Evaluations
    /\ IF evaluation[t].base.exists
       THEN WriteRule(t, IF evaluation[t].keep THEN evaluation[t].base
                         ELSE [evaluation[t].base EXCEPT !.sent = evaluation[t].sent])
       ELSE /\ InEvaluation(t, "save") /\ End(t) /\ NoMishap
            /\ UNCHANGED <<pendingVars, rule, alerts, lastAlert>>

(* The failure is recorded instead, and that failing is only logged.         *)
SaveStateFails(t) ==
    /\ t \in Evaluations
    /\ InEvaluation(t, "save")
    /\ Misleading
    /\ IF evaluation[t].keep THEN End(t)
       ELSE evaluation' = [evaluation EXCEPT ![t] = [Holding("record") EXCEPT !.keep = TRUE]]
    /\ UNCHANGED <<pendingVars, rule, alerts, lastAlert>>

SaveRule(t) ==
    /\ t \in RuleEditors
    /\ evaluation[t].base.exists
    /\ \/ WriteRule(t, [evaluation[t].base EXCEPT !.enabled = FALSE])
       \/ \E p \in Packages : WriteRule(t, [evaluation[t].base EXCEPT !.watched = {p}])
       \/ WriteRule(t, [evaluation[t].base EXCEPT !.exists = FALSE, !.sent = Unsent])

EvaluationDies(t) ==
    /\ evaluation[t].pc \notin {"idle", "ended"}
    /\ Misleading
    /\ End(t)
    /\ UNCHANGED <<pendingVars, rule, alerts, lastAlert>>

ChangeEdited(r) ==
    /\ EditPending(r)
    /\ lastAlert' = [lastAlert EXCEPT ![AssignedTo[r]] = {}]
    /\ misled' = (misled \/ \E t \in Evaluations :
                     evaluation[t] \notin {Holding("idle"), Holding("ended")})
    /\ UNCHANGED <<rule, evaluation, alerts, mishaps>>

AlertsNext ==
    \/ \E t \in Evaluations :
          \/ PreviewDevice(t) \/ ReadRules(t) \/ LookupFails(t) \/ Lookup(t)
          \/ \E a \in evaluation[t].due : Mail(t, a) \/ MailFails(t, a)
          \/ ReportsFail(t) \/ SaveState(t) \/ SaveStateFails(t) \/ EvaluationDies(t)
    \/ \E t \in Evaluations \cup RuleEditors : LoadRule(t)
    \/ \E t \in RuleEditors : SaveRule(t)
    \/ \E r \in Targets : ChangeEdited(r)

AlertsSpec == AlertsInit /\ [][AlertsNext]_alertVars

-----------------------------------------------------------------------------
(* Properties *)

(* What a rule remembers as sent was mailed: neither a refused mail, nor a   *)
(* missing report, nor a failed lookup, nor another writer of the rule makes *)
(* a change count as told that nobody was told of (_evaluate_rule).          *)
SentMeansMailed ==
    \A p \in Packages : rule.sent[p] # {} =>
        \E a \in alerts : a.package = p /\ a.diff = rule.sent[p]

(* The same pending change is not mailed twice, however many evaluations     *)
(* fail in between in a way that they notice: a preview that ends in an      *)
(* error, packages that are missing, mails that are refused.  Swallowed      *)
(* failures, overlapping evaluations and a lost record may repeat it         *)
(* (has_unreadable_targets, _evaluate_rule, _save_rule_state).               *)
AlertedOnce ==
    [][\A a \in alerts' \ alerts : lastAlert[a.package] = a.diff => misled]_alertVars
=============================================================================
