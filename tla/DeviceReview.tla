---------------------------- MODULE DeviceReview ----------------------------
(***************************************************************************)
(* One check of device_review.py on one FortiGate, from the routes that    *)
(* ask for it (audit_review_routes.py) through the readers of              *)
(* fmg_client.py, which never raise, to the verdict.                       *)
(*                                                                         *)
(* A section of the configuration is a record, or a set of records, whose  *)
(* fields are the keys the answer has: an absent key is not in the DOMAIN. *)
(* The spellings of a key are fields of their own where the code tells     *)
(* them apart: for a number, of which 0 falls through to the next one.  A  *)
(* text that is empty is absent under every spelling.                      *)
(*                                                                         *)
(* The answers a device can give to a check are ReviewAnswers; the values  *)
(* the user can ask for, ReviewParams, are sets: {} is a parameter that    *)
(* was not supplied, several values are those of a list of hosts.          *)
(***************************************************************************)
EXTENDS Questions, Integers, Sequences, FiniteSets

CONSTANTS
    DnsOf,             \* DnsOf[h]: what _resolve_host returns for a host name
    ReviewParams(_),   \* ReviewParams(check): the demands a user can make
    ReviewAnswers(_)   \* ReviewAnswers(check): what the sections it reads can be

Field(r, f, default) == IF f \in DOMAIN r THEN r[f] ELSE default
Empty(r) == DOMAIN r = {}

(* cfg.get(f), {} being None.                                                *)
Get(cfg, f) == IF f \in DOMAIN cfg THEN {cfg[f]} ELSE {}

(* x or y, on numbers.                                                       *)
OrElse(x, y) == IF x \ {0} # {} THEN x ELSE y

-----------------------------------------------------------------------------
(* fmg_client.py: _proxy and the readers *)

Listed == {"interfaces", "syslog", "admins", "log_faz", "snmp_community",
           "snmp_users", "ipsec_phase1", "ipsec_phase2"}

Nothing == [f \in {} |-> {}]

(* _proxy: a reply without response or results is itself handed on as the    *)
(* payload: the device's error answer ("refused") or FortiManager's wrapper, *)
(* which has a status of its own ("wrapped").                                *)
Outcomes == {"answers", "refused", "wrapped", "fails"}
Payload == [http_status |-> 500]

(* The readers of one record: the first of a list, a dict, or {}.            *)
RecordReader(outcome, section) ==
    CASE outcome = "answers" -> section
      [] outcome \in {"refused", "wrapped"} -> Payload
      [] outcome = "fails" -> Nothing

(* The readers of a list take a dict for its values: numbers and strings,    *)
(* for which Nothing stands and which every check skips, and, of a wrapper,  *)
(* the dict of its status.                                                   *)
ListReader(outcome, section) ==
    CASE outcome = "answers" -> section
      [] outcome = "refused" -> {Nothing}
      [] outcome = "wrapped" -> {Nothing, [code |-> -11]}
      [] outcome = "fails" -> {}
Dicts(list) == {r \in list : DOMAIN r # {}}

(* get_device_admins keeps the order of the accounts.                        *)
AccountsReader(outcome, accounts) ==
    CASE outcome = "answers" -> accounts
      [] outcome = "refused" -> <<Nothing>>
      [] outcome = "wrapped" -> <<Nothing, [code |-> -11]>>
      [] outcome = "fails" -> << >>

(* Each syslogd profile that is enabled and has a server.                    *)
SyslogReader(outcome, profiles) ==
    IF outcome # "answers" THEN {}
    ELSE {s \in profiles :
             Field(s, "status", "disable") = "enable" /\ Field(s, "server", "") # ""}

(* Each FortiAnalyzer slot that answers with anything at all.                *)
FazReader(outcome, slots) ==
    CASE outcome = "answers" -> {s \in slots : ~Empty(s)}
      [] outcome \in {"refused", "wrapped"} -> {Payload}
      [] outcome = "fails" -> {}

(* _fetch_device_data, for one key.                                          *)
Fetched(k, outcome, section) ==
    CASE k = "device_meta" -> IF outcome = "fails" THEN Nothing ELSE section
      [] k = "syslog" -> SyslogReader(outcome, section)
      [] k = "log_faz" -> FazReader(outcome, section)
      [] k = "admins" -> AccountsReader(outcome, section)
      [] k \in Listed \ {"syslog", "log_faz", "admins"} -> ListReader(outcome, section)
      [] OTHER -> RecordReader(outcome, section)

-----------------------------------------------------------------------------
(* device_review.py: the helpers *)

InsecureProtos == {"http", "telnet", "http-redirect"}

(* _match_host: the same name, or a routable address in common.              *)
MatchHost(expected, configured) ==
    \/ expected = configured
    \/ DnsOf[expected] \cap DnsOf[configured] # {}

Found(expected, configured) ==
    \A e \in expected : \E s \in configured : MatchHost(e, s)

Servers(profiles) == {Field(s, "server", "") : s \in profiles} \ {""}

(* What the checks of a set of servers share, once the section is there.     *)
ServersVerdict(configured, expected) ==
    CASE expected = {} -> "CONFIG_MISSING"
      [] expected # {} /\ Found(expected, configured) -> "PASS"
      [] expected # {} /\ ~Found(expected, configured) ->
            IF configured = {} THEN "FAIL" ELSE "WARN"

Beyond(bound, configured, param) ==
    CASE bound = "at most" -> configured > param
      [] bound = "at least" -> configured < param

(* What the checks of one number share: configured is {} for None.           *)
NumberVerdict(cfg, configured, param, bound) ==
    CASE Empty(cfg) -> "FAIL"
      [] ~Empty(cfg) /\ (configured = {} \/ param = {}) -> "CONFIG_MISSING"
      [] OTHER -> IF \E n \in configured, m \in param : Beyond(bound, n, m)
                  THEN "FAIL" ELSE "PASS"

(* _parse_version keeps the parts before the first that is not a number, so  *)
(* that a text without numbers has none.                                     *)
NotANumber == -1
HasPart(version, i) ==
    i <= Len(version) /\ \A j \in 1..i : version[j] # NotANumber

(* The comparison of two _parse_version tuples.                              *)
Older(v, w) ==
    \E i \in 1..Len(w) :
        /\ HasPart(w, i)
        /\ \A j \in 1..(i - 1) : HasPart(v, j) /\ v[j] = w[j]
        /\ ~HasPart(v, i) \/ v[i] < w[i]

-----------------------------------------------------------------------------
(* device_review.py: the checks.  d is device_data, p the parameter. *)

(* Mutants, here and below: what a plausible bug would make of the           *)
(* definition that follows.  No behaviour of ReviewSpec uses them.           *)

InterfaceProtocols(d, p) ==
    LET shown == {i \in d.interfaces : Field(i, "ip", "0.0.0.0") # "0.0.0.0"}
    IN  CASE shown = {} -> "no rows"
          [] \E i \in shown : Field(i, "allowaccess", {}) \cap InsecureProtos # {}
                -> "INSECURE"
          [] OTHER -> "INFO"

NtpConfig(d, p) ==
    IF Field(d.ntp, "ntpsync", "disable") # "enable" THEN "FAIL"
    ELSE ServersVerdict(Field(d.ntp, "ntpserver", {}), p)

SyslogConfig(d, p) == ServersVerdict(Servers(d.syslog), p)

Wildcards == {"0.0.0.0/0", "0.0.0.0 0.0.0.0", "0.0.0.0/0.0.0.0"}

(* The trusthosts that are set.                                              *)
Trusted(acct) == Field(acct, "trusthosts", {}) \ {"", "0.0.0.0/255.255.255.255"}

(* An account none of whose trusthosts restricts it.                         *)
Unrestricted(acct) == Trusted(acct) \subseteq Wildcards

(* The first account would do for all. *)
TrustedHostsAny(d, p) ==
    IF d.admins # << >> /\ \A a \in Dicts(RangeOf(d.admins)) : Unrestricted(a)
    THEN "FAIL" ELSE "PASS"

TrustedHosts(d, p) ==
    IF \E a \in Dicts(RangeOf(d.admins)) : Unrestricted(a) THEN "FAIL" ELSE "PASS"

(* The names whose lower case is that of the built-in account.               *)
AdminNames == {"admin", "Admin"}
IsDisabled(acct) == Field(acct, "status", "enable") = "disable"

(* The first account with such a name decides.                               *)
DefaultAdmin(d, p) ==
    IF \E i \in DOMAIN d.admins :
          /\ Field(d.admins[i], "name", "") \in AdminNames
          /\ \A j \in 1..(i - 1) : Field(d.admins[j], "name", "") \notin AdminNames
          /\ ~IsDisabled(d.admins[i])
    THEN "FAIL" ELSE "PASS"

(* The one check that tells "not fetched" from "empty".                      *)
AdminMfa(d, p) ==
    IF "admins" \notin DOMAIN d THEN "CONFIG_MISSING"
    ELSE IF \E a \in Dicts(RangeOf(d.admins)) :
               Field(a, "two_factor", "disable") = "disable"
         THEN "FAIL" ELSE "PASS"

IdleTimeout(d, p) ==
    NumberVerdict(d.system_global, Get(d.system_global, "admintimeout"), p, "at most")

LockoutThreshold(d, p) ==
    NumberVerdict(d.system_global,
        OrElse(Get(d.system_global, "admin-lockout-threshold"),
               Get(d.system_global, "admin_lockout_threshold")), p, "at most")

PasswordLength(d, p) ==
    NumberVerdict(d.password_policy,
        OrElse(Get(d.password_policy, "minimum-length"),
               Get(d.password_policy, "minimum_length")), p, "at least")

(* A missing status is taken for the one that was asked for. *)
LogDiskTrusting(d, p) ==
    IF Field(d.log_disk, "status", "enable") = "enable" THEN "PASS" ELSE "FAIL"

LogDisk(d, p) ==
    IF Field(d.log_disk, "status", "disable") = "enable" THEN "PASS" ELSE "FAIL"

(* Indices in _SEVERITY_ORDER, emergency .. debug: the larger, the more is   *)
(* logged.  Any other value is not recognised.                               *)
LogSeverity(d, p) ==
    NumberVerdict(d.log_disk, Get(d.log_disk, "severity") \cap 0..7, p \cap 0..7, "at most")

LogFaz(d, p) ==
    LET enabled == {s \in d.log_faz : Field(s, "status", "disable") = "enable"}
        servers == Servers(enabled)
    IN  CASE enabled = {} -> "FAIL"
          [] enabled # {} /\ p = {} -> "CONFIG_MISSING"
          [] enabled # {} /\ \E e \in p : Found({e}, servers) -> "PASS"
          [] OTHER -> IF servers = {} THEN "FAIL" ELSE "WARN"

DnsServers(d, p) ==
    IF Empty(d.dns) THEN "FAIL"
    ELSE ServersVerdict({Field(d.dns, "primary", ""), Field(d.dns, "secondary", "")}
                           \ {"", "0.0.0.0"}, p)

(* No sysinfo at all counts as enabled, sysinfo without a status does not.   *)
SnmpVersion(d, p) ==
    IF ~Empty(d.snmp_sysinfo) /\ Field(d.snmp_sysinfo, "status", "disable") # "enable"
    THEN "PASS"
    ELSE IF \E c \in Dicts(d.snmp_community) : Field(c, "status", "enable") = "enable"
         THEN "FAIL" ELSE "PASS"

SnmpReadonly(d, p) ==
    IF \E u \in Dicts(d.snmp_users) : Field(u, "write_access", "disable") = "enable"
    THEN "FAIL" ELSE "PASS"

(* The versions of TLS 1 by their second number.                             *)
WeakTls == {0, 1}

(* min_tls is only quoted in the detail of a missing field.                  *)
TlsVersion(d, p) ==
    LET cfg == d.system_global
        offered == Field(cfg, "admin_https_ssl_versions", {})
        least == Get(cfg, "ssl_min_proto_version")
    IN  CASE Empty(cfg) -> "FAIL"
          [] ~Empty(cfg) /\ offered \cup least = {} -> "CONFIG_MISSING"
          [] OTHER -> IF (offered \cup least) \cap WeakTls # {}
                      THEN "FAIL" ELSE "PASS"

(* One of each kind, of those that the lists name.                           *)
WeakSsh == {"aes128-cbc", "arcfour", "hmac-md5"}

SshCiphers(d, p) ==
    LET algos == Field(d.system_global, "ssh_enc_algo", {})
                    \cup Field(d.system_global, "ssh_mac_algo", {})
    IN  CASE Empty(d.system_global) -> "FAIL"
          [] ~Empty(d.system_global) /\ algos = {} -> "CONFIG_MISSING"
          [] OTHER -> IF algos \cap WeakSsh # {} THEN "FAIL" ELSE "PASS"

FirmwareVersion(d, p) ==
    LET running == Field(d.device_meta, "version", <<0>>)
    IN  IF running \in {<<0>>, <<0, 0>>, <<0, 0, 0>>} \/ p = {}
        THEN "CONFIG_MISSING"
        ELSE IF \E least \in p : Older(running, least) THEN "FAIL" ELSE "PASS"

HaSync(d, p) ==
    CASE Empty(d.ha_status) -> "CONFIG_MISSING"
      [] ~Empty(d.ha_status) /\ Field(d.ha_status, "mode", "standalone") = "standalone"
            -> "INFO"
      [] OTHER -> IF Field(d.ha_status, "members", {}) \subseteq
                        {"synchronized", "in_sync", "insync"}
                  THEN "PASS" ELSE "FAIL"

HostnameChanged(d, p) ==
    CASE Empty(d.system_global) -> "FAIL"
      [] ~Empty(d.system_global) /\ "hostname" \notin DOMAIN d.system_global
            -> "CONFIG_MISSING"
      [] OTHER -> IF d.system_global.hostname \in {"", "fortigate", "fgt123"}
                  THEN "FAIL" ELSE "PASS"

(* The port under the first of the spellings that has one.                   *)
HttpsPort(cfg) == OrElse(Get(cfg, "admin-sport"), Get(cfg, "adminsport"))
HttpPort(cfg) == OrElse(Get(cfg, "admin-port"), Get(cfg, "adminport"))

AdminPort(d, p) ==
    LET https == HttpsPort(d.system_global)
        http == HttpPort(d.system_global)
    IN  CASE https \cup http = {} -> "CONFIG_MISSING"
          [] 443 \in https \/ 80 \in http -> "WARN"
          [] OTHER -> "PASS"

PreloginBanner(d, p) ==
    IF Field(d.system_global, "pre_login_banner", "disable") = "enable"
    THEN "PASS" ELSE "FAIL"

TimezoneSet(d, p) ==
    IF Field(d.system_global, "timezone", "") = "" THEN "CONFIG_MISSING" ELSE "PASS"

WeakVpn == {"des", "3des", "md5"}
WeakDh == {1, 2, 5}

VpnWeakCrypto(d, p) ==
    LET tunnels == d.ipsec_phase1 \cup d.ipsec_phase2
    IN  CASE tunnels = {} -> "INFO"
          [] \/ \E t \in Dicts(tunnels) : Field(t, "proposal", {}) \cap WeakVpn # {}
             \/ \E t \in Dicts(d.ipsec_phase1) : Field(t, "dhgrp", {}) \cap WeakDh # {}
                -> "FAIL"
          [] OTHER -> "PASS"

VpnPfs(d, p) ==
    CASE d.ipsec_phase2 = {} -> "INFO"
      [] \E t \in Dicts(d.ipsec_phase2) : Field(t, "pfs", "enable") = "disable" -> "WARN"
      [] OTHER -> "PASS"

VpnIkeVersion(d, p) ==
    LET old == {t \in Dicts(d.ipsec_phase1) : Field(t, "ike_version", 1) = 1}
    IN  CASE d.ipsec_phase1 = {} -> "INFO"
          [] \E t \in old : Field(t, "mode", "main") = "aggressive" -> "FAIL"
          [] OTHER -> IF old # {} THEN "WARN" ELSE "PASS"

-----------------------------------------------------------------------------
(* CHECKS and run_checks *)

DataKeys ==
    [interface_protocols |-> {"interfaces"}, ntp_config |-> {"ntp"},
     syslog_config |-> {"syslog"}, trusted_hosts |-> {"admins"},
     default_admin |-> {"admins"}, admin_mfa |-> {"admins"},
     idle_timeout |-> {"system_global"},
     lockout_threshold |-> {"system_global"},
     password_length |-> {"password_policy"}, log_disk |-> {"log_disk"},
     log_severity |-> {"log_disk"}, log_faz |-> {"log_faz"},
     dns_servers |-> {"dns"},
     snmp_version |-> {"snmp_community", "snmp_sysinfo"},
     snmp_readonly |-> {"snmp_users"},
     tls_version |-> {"system_global"},
     ssh_ciphers |-> {"system_global"},
     firmware_version |-> {"device_meta"}, ha_sync |-> {"ha_status"},
     hostname_changed |-> {"system_global"},
     admin_port_nondefault |-> {"system_global"},
     prelogin_banner |-> {"system_global"},
     timezone_set |-> {"system_global"},
     vpn_weak_crypto |-> {"ipsec_phase1", "ipsec_phase2"},
     vpn_pfs |-> {"ipsec_phase2"}, vpn_ike_version |-> {"ipsec_phase1"}]

CHECKS == DOMAIN DataKeys

(* The numbers that are compared, by section and spellings.                  *)
NumericFields ==
    [idle_timeout |-> <<"system_global", {"admintimeout"}>>,
     lockout_threshold |-> <<"system_global", {"admin-lockout-threshold",
                                               "admin_lockout_threshold"}>>,
     password_length |-> <<"password_policy", {"minimum-length", "minimum_length"}>>]

(* An account or a tunnel has at least one key, a numeric setting is a       *)
(* number, a version a sequence of numbers and of parts that are none.       *)
ASSUME ReviewAssumption ==
    \A check \in CHECKS : \A p \in ReviewParams(check), a \in ReviewAnswers(check) :
        /\ "admins" \in DataKeys[check] =>
              /\ DOMAIN a.admins = 1..Len(a.admins) /\ Len(a.admins) \in Nat
              /\ \A t \in RangeOf(a.admins) : ~Empty(t)
        /\ \A k \in {"ipsec_phase1", "ipsec_phase2", "snmp_community"}
                       \cap DataKeys[check] : \A t \in a[k] : ~Empty(t)
        /\ check = "vpn_ike_version" =>
              \A t \in a.ipsec_phase1 :
                 "ike_version" \in DOMAIN t => t.ike_version \in {1, 2}
        /\ check = "firmware_version" =>
              /\ p \subseteq Seq(Int)
              /\ "version" \in DOMAIN a.device_meta => a.device_meta.version \in Seq(Int)
        /\ check \in DOMAIN NumericFields =>
              LET section == a[NumericFields[check][1]]
              IN  /\ p \subseteq Nat
                  /\ \A f \in NumericFields[check][2] \cap DOMAIN section :
                        section[f] \in Nat

(* What device_data.get returns for a section that was not fetched.          *)
NotFetched(k) ==
    CASE k = "admins" -> << >>
      [] k \in Listed \ {"admins"} -> {}
      [] OTHER -> Nothing

(* run_checks: data is device_data, whose missing keys every check but       *)
(* admin_mfa takes for an empty section.                                     *)
Judged(check, data, p) ==
    LET d == [k \in DataKeys[check] |-> Field(data, k, NotFetched(k))]
    IN  CASE check = "interface_protocols" -> InterfaceProtocols(d, p)
          [] check = "ntp_config" -> NtpConfig(d, p)
          [] check = "syslog_config" -> SyslogConfig(d, p)
          [] check = "trusted_hosts" -> TrustedHosts(d, p)
          [] check = "default_admin" -> DefaultAdmin(d, p)
          [] check = "admin_mfa" -> AdminMfa(data, p)
          [] check = "idle_timeout" -> IdleTimeout(d, p)
          [] check = "lockout_threshold" -> LockoutThreshold(d, p)
          [] check = "password_length" -> PasswordLength(d, p)
          [] check = "log_disk" -> LogDisk(d, p)
          [] check = "log_severity" -> LogSeverity(d, p)
          [] check = "log_faz" -> LogFaz(d, p)
          [] check = "dns_servers" -> DnsServers(d, p)
          [] check = "snmp_version" -> SnmpVersion(d, p)
          [] check = "snmp_readonly" -> SnmpReadonly(d, p)
          [] check = "tls_version" -> TlsVersion(d, p)
          [] check = "ssh_ciphers" -> SshCiphers(d, p)
          [] check = "firmware_version" -> FirmwareVersion(d, p)
          [] check = "ha_sync" -> HaSync(d, p)
          [] check = "hostname_changed" -> HostnameChanged(d, p)
          [] check = "admin_port_nondefault" -> AdminPort(d, p)
          [] check = "prelogin_banner" -> PreloginBanner(d, p)
          [] check = "timezone_set" -> TimezoneSet(d, p)
          [] check = "vpn_weak_crypto" -> VpnWeakCrypto(d, p)
          [] check = "vpn_pfs" -> VpnPfs(d, p)
          [] check = "vpn_ike_version" -> VpnIkeVersion(d, p)

-----------------------------------------------------------------------------
(* The routes and the scheduled job *)

(* device_review_run_one, device_review_run, bulk_device_review_adom.        *)
Routes == {"one", "run", "bulk"}

(* known.fetched is device_data, known.unread the keys whose request did not *)
(* bring the section.                                                        *)
ReviewInit ==
    /\ \E check \in CHECKS : \E p \in ReviewParams(check), route \in Routes,
          state \in {"up", "offline", "not_deployed"}, a \in ReviewAnswers(check) :
          asked = [part |-> "device_review", check |-> check, param |-> p,
                   route |-> route, state |-> state, actual |-> a]
    /\ known = [step |-> "fetch", fetched |-> Nothing, unread |-> {}]
    /\ answer = "none"

Untouched == Asked("device_review") /\ AtStep("fetch") /\ Empty(known.fetched)

(* _device_skip_reason: device_review_run does not ask, run_one cannot when  *)
(* the device record does not come.                                          *)
SkipDevice ==
    /\ Untouched
    /\ asked.state # "up"
    /\ asked.route \in {"one", "bulk"}
    /\ Answer("SKIPPED")

(* An unreachable device answers nothing; the record of dvmdb comes from     *)
(* FortiManager, with the device list except in run_one.                     *)
PossibleOutcomes(k) ==
    IF k = "device_meta"
    THEN {"answers"} \cup (IF asked.route = "one" THEN {"fails"} ELSE {})
    ELSE Outcomes \ (IF asked.state = "up" THEN {} ELSE {"answers"})

FetchSection(k, outcome) ==
    /\ Asked("device_review") /\ AtStep("fetch")
    /\ asked.state = "up" \/ asked.route \in {"one", "run"}
    /\ k \in DataKeys[asked.check] \ DOMAIN known.fetched
    /\ outcome \in PossibleOutcomes(k)
    /\ known' = [known EXCEPT
                    !.fetched = [j \in {k} \cup DOMAIN @ |->
                       IF j = k THEN Fetched(k, outcome, asked.actual[k]) ELSE @[j]],
                    !.unread = IF outcome = "answers" THEN @ ELSE @ \cup {k}]
    /\ UNCHANGED <<asked, answer>>

Judge ==
    /\ Asked("device_review") /\ AtStep("fetch")
    /\ DOMAIN known.fetched = DataKeys[asked.check]
    /\ Answer(Judged(asked.check, known.fetched, asked.param))

(* device_review_run when the client cannot log in: client is None and       *)
(* device_data is {}.                                                        *)
JudgeWithoutClient ==
    /\ Untouched
    /\ asked.route = "run"
    /\ known' = [known EXCEPT !.step = "done", !.unread = DataKeys[asked.check]]
    /\ answer' = Judged(asked.check, Nothing, asked.param)
    /\ UNCHANGED asked

ReviewNext ==
    \/ SkipDevice
    \/ \E k \in UNION {DataKeys[c] : c \in CHECKS}, outcome \in Outcomes :
          FetchSection(k, outcome)
    \/ Judge
    \/ JudgeWithoutClient

ReviewSpec == ReviewInit /\ [][ReviewNext]_questionVars

-----------------------------------------------------------------------------
(* Properties *)

(* What each check demands, said of the device instead of what was read, in  *)
(* the words of its description in CHECKS and of the help page.              *)
Among(expected, configured) ==
    \A e \in expected : \E s \in configured : e = s \/ DnsOf[e] \cap DnsOf[s] # {}

SettingEnabled(r, f) == f \in DOMAIN r /\ r[f] = "enable"
EnabledServers(profiles) == {t.server : t \in {s \in profiles : s.status = "enable"}} \ {""}

ReportedVersions(cfg) ==
    Field(cfg, "admin_https_ssl_versions", {}) \cup Get(cfg, "ssl_min_proto_version")
CbcOrMd5 == {"aes128-cbc", "blowfish-cbc", "hmac-md5", "hmac-md5-etm"}
FactoryHostnames == {"", "fortigate", "fgt123", "fgt60e4q"}
PortsUnder(cfg, spellings) == UNION {Get(cfg, f) : f \in spellings}

AtLeast(version, least) ==
    \A i \in 1..Len(least) :
        (\A j \in 1..(i - 1) : version[j] = least[j])
           => i <= Len(version) /\ version[i] >= least[i]

Meets(check, a, p) ==
    CASE check = "interface_protocols" -> FALSE
      [] check = "ntp_config" ->
            p # {} /\ SettingEnabled(a.ntp, "ntpsync") /\ Among(p, a.ntp.ntpserver)
      [] check = "syslog_config" -> p # {} /\ Among(p, EnabledServers(a.syslog))
      [] check = "log_faz" -> \E e \in p : Among({e}, EnabledServers(a.log_faz))
      [] check = "dns_servers" ->
            p # {} /\ Among(p, {a.dns.primary, a.dns.secondary} \ {"0.0.0.0"})
      [] check = "trusted_hosts" ->
            \A t \in RangeOf(a.admins) : Trusted(t) # {} /\ Trusted(t) \cap Wildcards = {}
      [] check = "default_admin" ->
            \A t \in RangeOf(a.admins) :
               ("name" \in DOMAIN t /\ t.name = "admin") => IsDisabled(t)
      [] check = "admin_mfa" ->
            \A t \in RangeOf(a.admins) :
               "two_factor" \in DOMAIN t /\ t.two_factor # "disable"
      [] check \in {"idle_timeout", "lockout_threshold"} ->
            \A m \in p : \E f \in NumericFields[check][2] :
               f \in DOMAIN a.system_global /\ a.system_global[f] <= m
      [] check = "password_length" ->
            \A m \in p : \E f \in NumericFields[check][2] :
               f \in DOMAIN a.password_policy /\ a.password_policy[f] >= m
      [] check = "log_disk" -> SettingEnabled(a.log_disk, "status")
      [] check = "log_severity" ->
            \A least \in p : "severity" \in DOMAIN a.log_disk /\ a.log_disk.severity >= least
      [] check = "snmp_version" ->
            \/ "status" \in DOMAIN a.snmp_sysinfo /\ a.snmp_sysinfo.status # "enable"
            \/ \A c \in a.snmp_community : "status" \in DOMAIN c /\ c.status # "enable"
      [] check = "snmp_readonly" -> \A u \in a.snmp_users : ~SettingEnabled(u, "write_access")
      [] check = "tls_version" ->
            LET versions == ReportedVersions(a.system_global)
            IN  versions # {} /\ versions \cap WeakTls = {}
                  /\ \A least \in p, v \in versions : v >= least
      [] check = "ssh_ciphers" ->
            /\ {"ssh_enc_algo", "ssh_mac_algo"} \subseteq DOMAIN a.system_global
            /\ a.system_global.ssh_enc_algo \cap CbcOrMd5 = {}
            /\ a.system_global.ssh_mac_algo \cap CbcOrMd5 = {}
      [] check = "firmware_version" ->
            \A least \in p : "version" \in DOMAIN a.device_meta
                              /\ AtLeast(a.device_meta.version, least)
      [] check = "ha_sync" ->
            LET members == Field(a.ha_status, "members", {})
            IN  members # {} /\ members \subseteq {"synchronized", "in_sync", "insync"}
      [] check = "hostname_changed" ->
            "hostname" \in DOMAIN a.system_global
              /\ a.system_global.hostname \notin FactoryHostnames
      [] check = "admin_port_nondefault" ->
            LET https == PortsUnder(a.system_global, {"admin-sport", "adminsport"})
                http == PortsUnder(a.system_global, {"admin-port", "adminport"})
            IN  https # {} /\ http # {} /\ 443 \notin https /\ 80 \notin http
      [] check = "prelogin_banner" -> SettingEnabled(a.system_global, "pre_login_banner")
      [] check = "timezone_set" ->
            "timezone" \in DOMAIN a.system_global /\ a.system_global.timezone # ""
      [] check = "vpn_weak_crypto" ->
            \A t \in a.ipsec_phase1 \cup a.ipsec_phase2 :
               /\ Field(t, "proposal", {}) \cap WeakVpn = {}
               /\ Field(t, "dhgrp", {}) \cap WeakDh = {}
      [] check = "vpn_pfs" -> \A t \in a.ipsec_phase2 : "pfs" \in DOMAIN t /\ t.pfs # "disable"
      [] check = "vpn_ike_version" -> \A t \in a.ipsec_phase1 : t.ike_version = 2

(* What a check overlooks: it does not compare what it was asked to, passes  *)
(* on a part of the settings or reads them otherwise than it says.           *)
Overlooks(check, a, p) ==
    CASE check = "log_severity" ->      \* the order is taken the other way round,
            \* against CHECKS: "captures at least the expected level"
            TRUE
      [] check = "tls_version" ->       \* "Minimum TLS version" is never compared
            p # {}
      [] check = "firmware_version" ->  \* a minimum with a part that is no number
            \E least \in p : \E i \in 1..Len(least) : least[i] = NotANumber
      [] check = "default_admin" ->     \* a disabled one of the name listed before
            \E i, j \in DOMAIN a.admins :
               /\ i < j /\ Field(a.admins[j], "name", "") = "admin"
               /\ Field(a.admins[i], "name", "") \in AdminNames /\ IsDisabled(a.admins[i])
      [] check = "trusted_hosts" ->     \* a wildcard beside a restriction
            \E t \in RangeOf(a.admins) : Trusted(t) \cap Wildcards # {} /\ ~Unrestricted(t)
      [] check = "snmp_version" ->      \* sysinfo without a status
            ~Empty(a.snmp_sysinfo) /\ "status" \notin DOMAIN a.snmp_sysinfo
      [] check = "ssh_ciphers" ->       \* one kind not reported; names not in the lists
            \/ ~({"ssh_enc_algo", "ssh_mac_algo"} \subseteq DOMAIN a.system_global)
            \/ (a.system_global.ssh_enc_algo \cup a.system_global.ssh_mac_algo)
                  \cap (CbcOrMd5 \ WeakSsh) # {}
      [] check = "ha_sync" ->           \* a cluster that reports no member
            Field(a.ha_status, "members", {}) = {}
      [] check = "hostname_changed" ->  \* a serial number with letters
            Field(a.system_global, "hostname", "") = "fgt60e4q"
      [] check = "admin_port_nondefault" ->   \* a port not reported, or twice
            LET cfg == a.system_global
            IN  \/ "admin-sport" \in DOMAIN cfg <=> "adminsport" \in DOMAIN cfg
                \/ "admin-port" \in DOMAIN cfg <=> "adminport" \in DOMAIN cfg
      [] check = "vpn_weak_crypto" ->   \* the groups of phase 2
            \E t \in a.ipsec_phase2 : Field(t, "dhgrp", {}) \cap WeakDh # {}
      [] check = "vpn_pfs" ->           \* pfs not reported
            \E t \in a.ipsec_phase2 : "pfs" \notin DOMAIN t
      [] OTHER -> FALSE

Passed == Answered("device_review") /\ answer = "PASS"

(* A PASS that rests on sections that were read is true of the device, on    *)
(* every route, for every answer and demand, missing fields, zeros and short *)
(* version numbers included, except for what the check is known to overlook  *)
(* (run_checks and the _run_ functions).                                     *)
PassIsEarned ==
    (Passed /\ known.unread = {} /\ ~Overlooks(asked.check, asked.actual, asked.param))
        => Meets(asked.check, asked.actual, asked.param)

(* The checks that read a list of accounts, users, communities or tunnels    *)
(* and take a list that did not come for an empty one.                       *)
TrustsAnEmptyList == {"trusted_hosts", "default_admin", "admin_mfa", "snmp_version",
                      "snmp_readonly", "vpn_weak_crypto", "vpn_pfs",
                      "vpn_ike_version"}

(* Any other check never passes a device of which the sections it reads did  *)
(* not come, whether the request failed, was refused or was answered by the  *)
(* envelope, was not tried because there is no client, or the device is off. *)
UnreadSettingsNeverPass ==
    (Passed /\ known.unread # {}) => asked.check \in TrustsAnEmptyList
=============================================================================
