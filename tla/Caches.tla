------------------------------- MODULE Caches -------------------------------
(***************************************************************************)
(* The caches of what FortiManager says, ADOM by ADOM: versions, licences  *)
(* and map (versions_cache.py, license_cache.py, map_cache.py), the list   *)
(* of ADOMs (adom_cache.py), the rules (rule_lookup_cache.py) and the      *)
(* pending changes (pending_status_cache.py).  They differ in how a        *)
(* refresh keeps others out, in whether it publishes ADOM by ADOM, in what *)
(* an ADOM that cannot be read does to what was cached of it, and in the   *)
(* map's second try at start-up.                                           *)
(*                                                                         *)
(* One process.  The data of an ADOM is its generation, 0 if none; it is   *)
(* short if a package or a device of it could not be read.                 *)
(***************************************************************************)
EXTENDS Naturals, FiniteSets

CONSTANTS
    Adoms,
    Refreshers,      \* the threads of start-up, of the interval and of requests
    Starter,         \* for the map, the one that _startup runs in
    MaxGeneration,   \* how often the data of an ADOM changes
    MaxOutages       \* how many calls may fail

ASSUME StarterAssumption == Starter \in Refreshers

VARIABLES
    cache,        \* whose cache it is
    generation,   \* generation[a]: FortiManager's data now
    cached,       \* cached[a]: what the cache serves
    short,        \* the ADOMs of which it serves a part only
    status,       \* status[a]: "pending", "running", "ok" or "error"; one for
                  \* all but in the rule cache
    marks,        \* the ADOMs in _building, or all while _running is set
    refresh,      \* refresh[t]: [pc, left, got, short]
    doubled,      \* ghost: two refreshes passed one guard, or there was none
    outages

cacheVars == <<cache, generation, cached, short, status, marks, refresh, doubled,
               outages>>
served == <<cached, short>>

EventCaches == {"versions", "licences", "map"}
CacheKinds == EventCaches \cup {"adoms", "rules", "pending changes"}
NoRefresh == [pc |-> "idle", left |-> {}, got |-> << >>, short |-> FALSE]

(* Between the guard and the end of a refresh.                               *)
InRun == {"begin", "list", "enter", "fetch", "store", "publish", "clear"}

CachesInit ==
    /\ cache \in CacheKinds
    /\ generation = [a \in Adoms |-> 1]
    /\ cached = [a \in Adoms |-> 0]
    /\ short = {}
    /\ status = [a \in Adoms |-> "pending"]
    /\ marks = {}
    /\ refresh = [t \in Refreshers |-> NoRefresh]
    /\ doubled = FALSE
    /\ outages = 0

Refreshing(t, pc) == refresh[t].pc = pc
Turn(t, pc) == refresh' = [refresh EXCEPT ![t].pc = pc]
Overlaps(t) == \E u \in Refreshers \ {t} : refresh[u].pc \in InRun
Outage == /\ outages < MaxOutages
          /\ outages' = outages + 1

(* _startup of the map sleeps, and tries again, inside "with _lock".  No     *)
(* other step holds _lock from one state to the next.                        *)
Held == refresh[Starter].pc \in {"sleep", "retry", "remark", "stuck"}

-----------------------------------------------------------------------------
(* Who may refresh *)

(* A cron firing, refresh_now, or for the rules a request for one ADOM       *)
(* (refresh_adom_async).                                                     *)
StartRefresh(t) ==
    /\ Refreshing(t, "idle")
    /\ \/ refresh' = [refresh EXCEPT ![t].pc = IF cache \in EventCaches THEN "check"
                                               ELSE IF cache = "pending changes" THEN "enter"
                                               ELSE "list"]
       \/ /\ cache = "rules"
          /\ \E a \in Adoms : refresh' = [refresh EXCEPT ![t].pc = "enter", ![t].left = {a}]
    /\ UNCHANGED <<cache, generation, served, status, marks, doubled, outages>>

(* _running.is_set(), and later _running.set().                              *)
TestMark(t) ==
    /\ Refreshing(t, "check")
    /\ Turn(t, IF marks = {} THEN "mark" ELSE "over")
    /\ UNCHANGED <<cache, generation, served, status, marks, doubled, outages>>

SetMark(t) ==
    /\ Refreshing(t, "mark")
    /\ marks' = Adoms
    /\ doubled' = (doubled \/ Overlaps(t))
    /\ Turn(t, "begin")
    /\ UNCHANGED <<cache, generation, served, status, outages>>

BeginRefresh(t) ==
    /\ Refreshing(t, "begin")
    /\ ~Held
    /\ status' = [a \in Adoms |-> "running"]
    /\ Turn(t, "list")
    /\ UNCHANGED <<cache, generation, served, marks, doubled, outages>>

(* Mutants, here and below: what a plausible bug would make of the           *)
(* definition that follows.  No behaviour of CachesSpec uses them.           *)

(* The set would be added to, and never looked at. *)
BusyNever(a) == FALSE

(* if adom in _building, if _state["status"] == "running": under _lock.      *)
Busy(a) == IF cache = "rules" THEN a \in marks ELSE status[a] = "running"

EnterPending(t) ==
    /\ cache = "pending changes"
    /\ Refreshing(t, "enter")
    /\ IF \E a \in Adoms : Busy(a)
       THEN Turn(t, "over") /\ UNCHANGED status
       ELSE Turn(t, "list") /\ status' = [a \in Adoms |-> "running"]
    /\ UNCHANGED <<cache, generation, served, marks, doubled, outages>>

(* refresh_adom: the next ADOM, unless it is being built.                    *)
EnterAdom(t, a) ==
    /\ cache = "rules"
    /\ Refreshing(t, "enter")
    /\ a \in refresh[t].left
    /\ IF Busy(a)
       THEN /\ refresh' = [refresh EXCEPT ![t].left = @ \ {a}]
            /\ UNCHANGED <<marks, status>>
       ELSE /\ marks' = marks \cup {a}
            /\ status' = IF status[a] = "pending" THEN status
                         ELSE [status EXCEPT ![a] = "running"]
            /\ refresh' = [refresh EXCEPT ![t].pc = "fetch", ![t].left = @ \ {a},
                                          ![t].got = [b \in {a} |-> 0]]
    /\ UNCHANGED <<cache, generation, served, doubled, outages>>

LeaveRules(t) ==
    /\ cache = "rules"
    /\ Refreshing(t, "enter")
    /\ refresh[t].left = {}
    /\ Turn(t, "over")
    /\ UNCHANGED <<cache, generation, served, status, marks, doubled, outages>>

-----------------------------------------------------------------------------
(* What is read *)

(* get_adoms.  For the ADOM cache that is all; the map notes the ADOMs as    *)
(* pending, under _lock.                                                     *)
ListAdoms(t) ==
    /\ Refreshing(t, "list")
    /\ ~Held
    /\ refresh' = [refresh EXCEPT ![t] =
          CASE cache = "adoms" -> [NoRefresh EXCEPT !.pc = "publish", !.got = generation]
            [] cache = "rules" -> [NoRefresh EXCEPT !.pc = "enter", !.left = Adoms]
            [] OTHER -> [NoRefresh EXCEPT !.pc = "fetch", !.left = Adoms]]
    /\ doubled' = (doubled \/ (cache = "adoms" /\ Overlaps(t)))
    /\ UNCHANGED <<cache, generation, served, status, marks, outages>>

(* The failure would only be logged. *)
ListFailsSilently(t) ==
    /\ Refreshing(t, "list")
    /\ ~Held
    /\ Outage
    /\ Turn(t, IF cache \in EventCaches THEN "clear" ELSE "over")
    /\ UNCHANGED <<cache, generation, served, status, marks, doubled>>

(* The status says so, but for the rules, where it is only logged.           *)
ListFails(t) ==
    /\ Refreshing(t, "list")
    /\ ~Held
    /\ Outage
    /\ status' = IF cache = "rules" THEN status ELSE [a \in Adoms |-> "error"]
    /\ Turn(t, IF cache \in EventCaches THEN "clear" ELSE "over")
    /\ UNCHANGED <<cache, generation, served, marks, doubled>>

(* get_devices and its proxies, ADOM by ADOM; what was read of an ADOM goes  *)
(* to the result, and for the pending changes to the cache, where a device   *)
(* whose status could not be read has none (_fetch_pkg).  The map notes the  *)
(* progress before and after, under _lock.                                   *)
FetchAdom(t, a) ==
    /\ cache # "rules"
    /\ Refreshing(t, "fetch")
    /\ ~Held
    /\ a \in refresh[t].left
    /\ \E part \in {FALSE} \cup (IF cache = "pending changes" THEN {TRUE} ELSE {}) :
          /\ IF part THEN Outage ELSE UNCHANGED outages
          /\ refresh' = [refresh EXCEPT ![t].left = @ \ {a}, ![t].short = part,
                ![t].pc = IF cache = "pending changes" THEN "store" ELSE "fetch",
                ![t].got = [b \in DOMAIN @ \cup {a} |-> IF b = a THEN generation[a] ELSE @[b]]]
    /\ UNCHANGED <<cache, generation, served, status, marks, doubled>>

(* An ADOM that fails is skipped.                                            *)
SkipAdom(t, a) ==
    /\ cache # "rules"
    /\ Refreshing(t, "fetch")
    /\ ~Held
    /\ a \in refresh[t].left
    /\ Outage
    /\ refresh' = [refresh EXCEPT ![t].left = @ \ {a}]
    /\ UNCHANGED <<cache, generation, served, status, marks, doubled>>

(* A new entry takes the place of the old one, and may be short of a part.   *)
ServeShort(t) ==
    LET read == DOMAIN refresh[t].got
    IN  short' = (short \ read) \cup (IF refresh[t].short THEN read ELSE {})

StorePending(t) ==
    /\ Refreshing(t, "store")
    /\ cached' = [a \in Adoms |-> IF a \in DOMAIN refresh[t].got THEN refresh[t].got[a]
                                  ELSE cached[a]]
    /\ ServeShort(t)
    /\ refresh' = [refresh EXCEPT ![t].pc = "fetch", ![t].got = << >>, ![t].short = FALSE]
    /\ UNCHANGED <<cache, generation, status, marks, doubled, outages>>

(* _build_adom: the packages and the objects of one ADOM.  A package or a    *)
(* policy block that fails is left out and named in package_errors.          *)
BuildAdom(t) ==
    /\ cache = "rules"
    /\ Refreshing(t, "fetch")
    /\ \E part \in BOOLEAN :
          /\ IF part THEN Outage ELSE UNCHANGED outages
          /\ refresh' = [refresh EXCEPT ![t].pc = "publish", ![t].short = part,
                                        ![t].got = [a \in DOMAIN @ |-> generation[a]]]
    /\ UNCHANGED <<cache, generation, served, status, marks, doubled>>

(* except: what was cached is kept.                                          *)
BuildFails(t) ==
    /\ cache = "rules"
    /\ Refreshing(t, "fetch")
    /\ Outage
    /\ status' = [a \in Adoms |-> IF a \in DOMAIN refresh[t].got THEN "error" ELSE status[a]]
    /\ Turn(t, "clear")
    /\ UNCHANGED <<cache, generation, served, marks, doubled>>

-----------------------------------------------------------------------------
(* What is served *)

Fetched(t) ==
    \/ Refreshing(t, "publish")
    \/ cache \in EventCaches /\ Refreshing(t, "fetch") /\ refresh[t].left = {}

(* The result replaces what was cached, for the rules that of the one ADOM.  *)
PublishResult(t) ==
    /\ Fetched(t)
    /\ ~Held
    /\ LET got == refresh[t].got
           replaced == IF cache = "rules" THEN DOMAIN got ELSE Adoms
       IN  /\ cached' = [a \in Adoms |-> IF a \in DOMAIN got THEN got[a]
                                         ELSE IF a \in replaced THEN 0 ELSE cached[a]]
           /\ status' = [a \in Adoms |-> IF a \in replaced THEN "ok" ELSE status[a]]
    /\ ServeShort(t)
    /\ refresh' = [refresh EXCEPT ![t].pc = IF cache = "adoms" THEN "over" ELSE "clear"]
    /\ UNCHANGED <<cache, generation, marks, doubled, outages>>

(* finally                                                                   *)
ClearMark(t) ==
    /\ Refreshing(t, "clear")
    /\ marks' = IF cache = "rules" THEN marks \ DOMAIN refresh[t].got ELSE {}
    /\ refresh' = [refresh EXCEPT ![t].pc = IF cache = "rules" THEN "enter" ELSE "over",
                                  ![t].got = << >>, ![t].short = FALSE]
    /\ UNCHANGED <<cache, generation, served, status, doubled, outages>>

EndPending(t) ==
    /\ cache = "pending changes"
    /\ Refreshing(t, "fetch")
    /\ refresh[t].left = {}
    /\ status' = [a \in Adoms |-> "ok"]
    /\ Turn(t, "over")
    /\ UNCHANGED <<cache, generation, served, marks, doubled, outages>>

(* The map's first run in _startup.                                          *)
FirstOfMap(t) == cache = "map" /\ t = Starter

ForgetRefresh(t) ==
    /\ Refreshing(t, "over")
    /\ refresh' = [refresh EXCEPT ![t] = IF FirstOfMap(t) THEN [NoRefresh EXCEPT !.pc = "inspect"]
                                         ELSE NoRefresh]
    /\ UNCHANGED <<cache, generation, served, status, marks, doubled, outages>>

-----------------------------------------------------------------------------
(* The map's second try at start-up *)

(* with _lock: if _store["status"] != "ok": sleep(15)                        *)
InspectFirst(t) ==
    /\ Refreshing(t, "inspect")
    /\ Turn(t, IF \A a \in Adoms : status[a] = "ok" THEN "done" ELSE "sleep")
    /\ UNCHANGED <<cache, generation, served, status, marks, doubled, outages>>

WakeUp(t) ==
    /\ Refreshing(t, "sleep")
    /\ Turn(t, "retry")
    /\ UNCHANGED <<cache, generation, served, status, marks, doubled, outages>>

(* _run_job again: it returns if a refresh is under way, and otherwise sets  *)
(* _running and waits for _lock, which its own thread holds.                 *)
RetryTest(t) ==
    /\ Refreshing(t, "retry")
    /\ Turn(t, IF marks = {} THEN "remark" ELSE "done")
    /\ UNCHANGED <<cache, generation, served, status, marks, doubled, outages>>

RetryMark(t) ==
    /\ Refreshing(t, "remark")
    /\ marks' = Adoms
    /\ Turn(t, "stuck")
    /\ UNCHANGED <<cache, generation, served, status, doubled, outages>>

AdomChanges(a) ==
    /\ generation[a] < MaxGeneration
    /\ generation' = [generation EXCEPT ![a] = @ + 1]
    /\ UNCHANGED <<cache, served, status, marks, refresh, doubled, outages>>

RefreshStep(t) ==
    \/ TestMark(t) \/ SetMark(t) \/ BeginRefresh(t) \/ EnterPending(t) \/ LeaveRules(t)
    \/ ListAdoms(t) \/ ListFails(t) \/ StorePending(t) \/ BuildAdom(t) \/ BuildFails(t)
    \/ PublishResult(t) \/ ClearMark(t) \/ EndPending(t) \/ ForgetRefresh(t)
    \/ InspectFirst(t) \/ WakeUp(t) \/ RetryTest(t) \/ RetryMark(t)
    \/ \E a \in Adoms : EnterAdom(t, a) \/ FetchAdom(t, a) \/ SkipAdom(t, a)

CachesNext ==
    \/ \E t \in Refreshers : StartRefresh(t) \/ RefreshStep(t)
    \/ \E a \in Adoms : AdomChanges(a)

CachesSpec == CachesInit /\ [][CachesNext]_cacheVars

(* A refresh that has begun goes on; nothing says that one begins.           *)
FairCachesSpec ==
    CachesSpec /\ \A t \in Refreshers : WF_cacheVars(RefreshStep(t))

-----------------------------------------------------------------------------
(* Properties *)

(* What a cache serves of an ADOM is never replaced by something older.      *)
(* Only two refreshes that passed the guard of an event together, or of the  *)
(* ADOM cache, which has none, may do that; and nothing takes the place of   *)
(* something only in the caches that are rebuilt as a whole, when an ADOM    *)
(* could not be read.  The rules and the pending changes keep it, but when   *)
(* a call for a part of the ADOM failed a part takes the place of the whole  *)
(* (_run_job, _run_refresh, refresh_adom, _fetch_pkg, _fetch_package).       *)
CacheKeepsNewest ==
    [][\A a \in Adoms :
          /\ cached'[a] < cached[a] =>
                /\ cache \in EventCaches \cup {"adoms"}
                /\ doubled \/ (cached'[a] = 0 /\ cache \in EventCaches /\ outages > 0)
          /\ a \in short' \ short =>
                cache \in {"rules", "pending changes"} /\ outages > 0]_cacheVars

(* The map's second try waits for itself: after its first run, or the one    *)
(* that kept it out, had failed, or two had passed the guard together.       *)
Hung ==
    /\ cache = "map" /\ Refreshing(Starter, "stuck")
    /\ outages > 0 \/ doubled

(* A refresh that was begun ends, and a cache does not stay "running",       *)
(* whatever fails and however refreshes meet: a page that waits for it goes  *)
(* on, and the cache of the pending changes, which takes no other refresh    *)
(* meanwhile, can be refreshed again (the except and finally clauses of      *)
(* _run_job, _run_refresh, refresh_adom).  The exception is the map, for     *)
(* good, once its second try at start-up waits for itself.                   *)
RunningEnds ==
    /\ \A t \in Refreshers :
          ~Refreshing(t, "idle") ~> (Refreshing(t, "idle") \/ Refreshing(t, "done") \/ Hung)
    /\ \A a \in Adoms : status[a] = "running" ~> (status[a] # "running" \/ Hung)
=============================================================================
