-------------------------- MODULE Decisions_proofs --------------------------
(***************************************************************************)
(* Proofs about the decision procedures: the checks of a device review, of *)
(* the rules of a package and of unused objects, the segmentation policy,  *)
(* a Rule Validation request, the planner behind it and the rule lookup,   *)
(* for any tables, settings, groups and rules.  Each question is decided   *)
(* in a few steps; the work is in the lemmas that say what the operators   *)
(* compute.                                                                *)
(***************************************************************************)
EXTENDS DeviceReview, Hygiene, Zones, RuleReview, Planner, RuleLookup, Questions_proofs

-----------------------------------------------------------------------------
(* DeviceReview *)

(* A section of which nothing was read: at most the status of a reply that  *)
(* carries no data.                                                         *)
Blank(r) == DOMAIN r \subseteq {"http_status", "code"}

BlankSection(k, s) ==
    CASE k = "admins" -> \A r \in RangeOf(s) : Blank(r)
      [] k \in Listed \ {"admins"} -> \A r \in s : Blank(r)
      [] OTHER -> Blank(s)

(* No setting is in it.                                                     *)
LEMMA BlankField ==
  ASSUME NEW r, Blank(r), NEW f, f \notin {"http_status", "code"}, NEW v
  PROVE  f \notin DOMAIN r /\ Field(r, f, v) = v /\ Get(r, f) = {}
BY DEF Blank, Field, Get

(* What the readers make of a section that was not answered is blank        *)
(* (_safe_get, _safe_list).                                                 *)
LEMMA UnreadIsBlank ==
  ASSUME NEW k, NEW s, NEW o \in Outcomes \ {"answers"}, k = "device_meta" => o = "fails"
  PROVE  BlankSection(k, Fetched(k, o, s))
<1>1. Blank(Nothing) /\ Blank(Payload) /\ Blank([code |-> -11])
  BY DEF Blank, Nothing, Payload
<1>2. /\ RecordReader(o, s) \in {Nothing, Payload}
      /\ ListReader(o, s) \in {{}, {Nothing}, {Nothing, [code |-> -11]}}
      /\ SyslogReader(o, s) = {}
      /\ FazReader(o, s) \in {{}, {Payload}}
      /\ AccountsReader(o, s) \in {<< >>, <<Nothing>>, <<Nothing, [code |-> -11]>>}
  BY DEF Outcomes, RecordReader, ListReader, SyslogReader, FazReader, AccountsReader
<1>3. CASE k = "device_meta"
  BY <1>1, <1>3 DEF Fetched, BlankSection, Listed
<1>4. CASE k = "syslog"
  BY <1>1, <1>2, <1>4 DEF Fetched, BlankSection, Listed
<1>5. CASE k = "log_faz"
  <2>1. Fetched(k, o, s) = FazReader(o, s)
    BY <1>5 DEF Fetched
  <2>2. k \in Listed \ {"admins"}
    BY <1>5 DEF Listed
  <2>3. BlankSection(k, Fetched(k, o, s)) <=> \A r \in FazReader(o, s) : Blank(r)
    BY <2>1, <2>2 DEF BlankSection
  <2> QED BY <1>1, <1>2, <2>3
<1>8. CASE k = "admins"
  <2>1. Fetched(k, o, s) = AccountsReader(o, s)
    BY <1>8 DEF Fetched, Listed
  <2>2. RangeOf(AccountsReader(o, s)) \subseteq {Nothing, [code |-> -11]}
    BY <1>2 DEF RangeOf
  <2> QED BY <1>1, <1>8, <2>1, <2>2 DEF BlankSection
<1>6. CASE k \in Listed \ {"syslog", "log_faz", "admins"}
  <2>1. Fetched(k, o, s) = ListReader(o, s)
    BY <1>6 DEF Fetched, Listed
  <2> QED BY <1>1, <1>2, <1>6, <2>1 DEF BlankSection
<1>7. CASE k \notin Listed \cup {"device_meta"}
  <2>1. Fetched(k, o, s) = RecordReader(o, s)
    BY <1>7 DEF Fetched, Listed
  <2>2. k # "admins" /\ k \notin Listed \ {"admins"}
    BY <1>7 DEF Listed
  <2>3. BlankSection(k, Fetched(k, o, s)) <=> Blank(RecordReader(o, s))
    BY <2>1, <2>2 DEF BlankSection
  <2> QED BY <1>1, <1>2, <2>3
<1> QED BY <1>3, <1>4, <1>5, <1>6, <1>7, <1>8

(* The checks of one record say something other than PASS when it is blank. *)
LEMMA BlankRecordsNeverPass ==
  ASSUME NEW d, NEW p
  PROVE  /\ Blank(d.ntp) => NtpConfig(d, p) # "PASS"
         /\ Blank(d.log_disk) => LogDisk(d, p) # "PASS" /\ LogSeverity(d, p) # "PASS"
         /\ Blank(d.dns) => DnsServers(d, p) # "PASS"
         /\ Blank(d.password_policy) => PasswordLength(d, p) # "PASS"
         /\ Blank(d.device_meta) => FirmwareVersion(d, p) # "PASS"
         /\ Blank(d.ha_status) => HaSync(d, p) # "PASS"
<1>1. Blank(d.ntp) => NtpConfig(d, p) # "PASS"
  BY BlankField DEF NtpConfig
<1>2. ASSUME Blank(d.dns) PROVE DnsServers(d, p) # "PASS"
  <2>1. Field(d.dns, "primary", "") = ""
    BY <1>2, BlankField
  <2>2. Field(d.dns, "secondary", "") = ""
    BY <1>2, BlankField
  <2> QED BY <2>1, <2>2 DEF DnsServers, ServersVerdict, Found
<1>3. Blank(d.log_disk) => LogDisk(d, p) # "PASS"
  BY BlankField DEF LogDisk
<1>4. ASSUME Blank(d.log_disk) PROVE LogSeverity(d, p) # "PASS"
  <2>1. Get(d.log_disk, "severity") = {}
    BY <1>4, BlankField
  <2> QED BY <2>1 DEF LogSeverity, NumberVerdict
<1>5. ASSUME Blank(d.password_policy) PROVE PasswordLength(d, p) # "PASS"
  <2>1. Get(d.password_policy, "minimum-length") = {}
    BY <1>5, BlankField
  <2>2. Get(d.password_policy, "minimum_length") = {}
    BY <1>5, BlankField
  <2> QED BY <2>1, <2>2 DEF PasswordLength, NumberVerdict, OrElse
<1>6. ASSUME Blank(d.device_meta) PROVE FirmwareVersion(d, p) # "PASS"
  <2>1. Field(d.device_meta, "version", <<0>>) = <<0>>
    BY <1>6, BlankField
  <2> QED BY <2>1 DEF FirmwareVersion
<1>7. ASSUME Blank(d.ha_status) PROVE HaSync(d, p) # "PASS"
  <2>1. Field(d.ha_status, "mode", "standalone") = "standalone"
    BY <1>7, BlankField
  <2> QED BY <2>1 DEF HaSync
<1> QED BY <1>1, <1>2, <1>3, <1>4, <1>5, <1>6, <1>7

(* So do the checks of system_global.                                       *)
LEMMA BlankGlobalNeverPasses ==
  ASSUME NEW d, NEW p, Blank(d.system_global)
  PROVE  /\ IdleTimeout(d, p) # "PASS" /\ LockoutThreshold(d, p) # "PASS"
         /\ TlsVersion(d, p) # "PASS" /\ SshCiphers(d, p) # "PASS"
         /\ HostnameChanged(d, p) # "PASS" /\ AdminPort(d, p) # "PASS"
         /\ PreloginBanner(d, p) # "PASS" /\ TimezoneSet(d, p) # "PASS"
<1>1. IdleTimeout(d, p) # "PASS" /\ LockoutThreshold(d, p) # "PASS"
  <2>1. Get(d.system_global, "admintimeout") = {}
    BY BlankField
  <2>2. Get(d.system_global, "admin-lockout-threshold") = {}
    BY BlankField
  <2>3. Get(d.system_global, "admin_lockout_threshold") = {}
    BY BlankField
  <2> QED BY <2>1, <2>2, <2>3 DEF IdleTimeout, LockoutThreshold, NumberVerdict, OrElse
<1>2. TlsVersion(d, p) # "PASS"
  <2>1. Field(d.system_global, "admin_https_ssl_versions", {}) = {}
    BY BlankField
  <2>2. Get(d.system_global, "ssl_min_proto_version") = {}
    BY BlankField
  <2> QED BY <2>1, <2>2 DEF TlsVersion
<1>3. SshCiphers(d, p) # "PASS"
  <2>1. Field(d.system_global, "ssh_enc_algo", {}) = {}
    BY BlankField
  <2>2. Field(d.system_global, "ssh_mac_algo", {}) = {}
    BY BlankField
  <2> QED BY <2>1, <2>2 DEF SshCiphers
<1>4. HostnameChanged(d, p) # "PASS"
  BY DEF HostnameChanged, Blank
<1>5. AdminPort(d, p) # "PASS"
  <2>1. Get(d.system_global, "admin-sport") = {} /\ Get(d.system_global, "adminsport") = {}
    BY BlankField
  <2>2. Get(d.system_global, "admin-port") = {} /\ Get(d.system_global, "adminport") = {}
    BY BlankField
  <2>3. HttpsPort(d.system_global) = {} /\ HttpPort(d.system_global) = {}
    BY <2>1, <2>2 DEF HttpsPort, HttpPort, OrElse
  <2> QED BY <2>3 DEF AdminPort
<1>6. PreloginBanner(d, p) # "PASS"
  <2>1. Field(d.system_global, "pre_login_banner", "disable") = "disable"
    BY BlankField
  <2> QED BY <2>1 DEF PreloginBanner
<1>7. TimezoneSet(d, p) # "PASS"
  <2>1. Field(d.system_global, "timezone", "") = ""
    BY BlankField
  <2> QED BY <2>1 DEF TimezoneSet
<1> QED BY <1>1, <1>2, <1>3, <1>4, <1>5, <1>6, <1>7

(* So do three of the checks that look at a list.                           *)
LEMMA BlankListsNeverPass ==
  ASSUME NEW d, NEW p
  PROVE  /\ (\A r \in d.interfaces : Blank(r)) => InterfaceProtocols(d, p) # "PASS"
         /\ (\A r \in d.syslog : Blank(r)) => SyslogConfig(d, p) # "PASS"
         /\ (\A r \in d.log_faz : Blank(r)) => LogFaz(d, p) # "PASS"
<1>1. InterfaceProtocols(d, p) # "PASS"
  BY DEF InterfaceProtocols
<1>2. ASSUME \A r \in d.syslog : Blank(r) PROVE SyslogConfig(d, p) # "PASS"
  <2>1. \A r \in d.syslog : Field(r, "server", "") = ""
    BY <1>2, BlankField
  <2>2. Servers(d.syslog) = {}
    BY <2>1 DEF Servers
  <2> QED BY <2>2 DEF SyslogConfig, ServersVerdict, Found
<1>3. ASSUME \A r \in d.log_faz : Blank(r) PROVE LogFaz(d, p) # "PASS"
  <2>1. \A r \in d.log_faz : Field(r, "status", "disable") = "disable"
    BY <1>3, BlankField
  <2>2. {s \in d.log_faz : Field(s, "status", "disable") = "enable"} = {}
    BY <2>1
  <2> QED BY <2>2 DEF LogFaz
<1> QED BY <1>1, <1>2, <1>3

(* Servers that are found are configured; those that the readers of syslog  *)
(* and FortiAnalyzer settings keep are enabled.                             *)
LEMMA ServersEarned ==
  ASSUME NEW configured, NEW expected, NEW a
  PROVE  /\ ServersVerdict(configured, expected) = "PASS" =>
               expected # {} /\ Found(expected, configured)
         /\ Found(expected, configured) => Among(expected, configured)
         /\ Servers(SyslogReader("answers", a)) \subseteq EnabledServers(a)
         /\ Servers({s \in FazReader("answers", a) : Field(s, "status", "disable") = "enable"})
               \subseteq EnabledServers(a)
<1>1. ServersVerdict(configured, expected) = "PASS" =>
               expected # {} /\ Found(expected, configured)
  BY DEF ServersVerdict
<1>2. Found(expected, configured) => Among(expected, configured)
  BY DEF Found, Among, MatchHost
<1>3. ASSUME NEW s, Field(s, "status", "disable") = "enable", s \in a,
             Field(s, "server", "") # ""
      PROVE  Field(s, "server", "") \in EnabledServers(a)
  BY <1>3 DEF Field, EnabledServers
<1>4. Servers(SyslogReader("answers", a)) \subseteq EnabledServers(a)
  BY <1>3 DEF Servers, SyslogReader
<1>5. Servers({s \in FazReader("answers", a) : Field(s, "status", "disable") = "enable"})
               \subseteq EnabledServers(a)
  BY <1>3 DEF Servers, FazReader
<1> QED BY <1>1, <1>2, <1>4, <1>5

(* Servers that are among some are among more.                              *)
LEMMA AmongMore ==
  ASSUME NEW e, NEW S, NEW T, S \subseteq T, Among(e, S)
  PROVE  Among(e, T)
BY DEF Among

(* A PASS of the checks that look for servers is earned by the settings.    *)
LEMMA ServerChecksEarned ==
  ASSUME NEW d, NEW p, NEW a
  PROVE  /\ d.ntp = a.ntp /\ NtpConfig(d, p) = "PASS" => Meets("ntp_config", a, p)
         /\ d.syslog = SyslogReader("answers", a.syslog) /\ SyslogConfig(d, p) = "PASS"
              => Meets("syslog_config", a, p)
         /\ d.log_faz = FazReader("answers", a.log_faz) /\ LogFaz(d, p) = "PASS"
              => Meets("log_faz", a, p)
         /\ d.dns = a.dns /\ DnsServers(d, p) = "PASS" => Meets("dns_servers", a, p)
<1>1. ASSUME d.ntp = a.ntp, NtpConfig(d, p) = "PASS"
      PROVE  Meets("ntp_config", a, p)
  <2>1. /\ Field(a.ntp, "ntpsync", "disable") = "enable"
        /\ p # {} /\ Among(p, Field(a.ntp, "ntpserver", {}))
    BY <1>1, ServersEarned DEF NtpConfig
  <2>2. SettingEnabled(a.ntp, "ntpsync")
    BY <2>1 DEF Field, SettingEnabled
  <2>3. Field(a.ntp, "ntpserver", {}) # {}
    BY <2>1 DEF Among
  <2>4. Field(a.ntp, "ntpserver", {}) = a.ntp.ntpserver
    BY <2>3 DEF Field
  <2> QED BY <2>1, <2>2, <2>4 DEF Meets
<1>2. ASSUME d.syslog = SyslogReader("answers", a.syslog), SyslogConfig(d, p) = "PASS"
      PROVE  Meets("syslog_config", a, p)
  <2>1. p # {} /\ Among(p, Servers(d.syslog))
    BY <1>2, ServersEarned DEF SyslogConfig
  <2>2. Servers(d.syslog) \subseteq EnabledServers(a.syslog)
    BY <1>2, ServersEarned
  <2>3. Among(p, EnabledServers(a.syslog))
    BY <2>1, <2>2, AmongMore
  <2> QED BY <2>1, <2>3 DEF Meets
<1>3. ASSUME d.log_faz = FazReader("answers", a.log_faz), LogFaz(d, p) = "PASS"
      PROVE  Meets("log_faz", a, p)
  <2> DEFINE up == {s \in d.log_faz : Field(s, "status", "disable") = "enable"}
  <2>1. PICK e \in p : Found({e}, Servers(up))
    BY <1>3 DEF LogFaz
  <2>2. Servers(up) \subseteq EnabledServers(a.log_faz)
    BY <1>3, ServersEarned
  <2> HIDE DEF up
  <2>3. Among({e}, Servers(up))
    BY <2>1, ServersEarned
  <2>4. Among({e}, EnabledServers(a.log_faz))
    BY <2>2, <2>3, AmongMore
  <2> QED BY <2>4 DEF Meets
<1>4. ASSUME d.dns = a.dns, DnsServers(d, p) = "PASS"
      PROVE  Meets("dns_servers", a, p)
  <2> DEFINE S == {Field(a.dns, "primary", ""), Field(a.dns, "secondary", "")}
                     \ {"", "0.0.0.0"}
  <2>1. ServersVerdict(S, p) = "PASS"
    BY <1>4 DEF DnsServers
  <2>2. S \subseteq {a.dns.primary, a.dns.secondary} \ {"0.0.0.0"}
    BY DEF Field
  <2> HIDE DEF S
  <2>3. p # {} /\ Among(p, S)
    BY <2>1, ServersEarned
  <2>4. Among(p, {a.dns.primary, a.dns.secondary} \ {"0.0.0.0"})
    BY <2>2, <2>3, AmongMore
  <2> QED BY <2>3, <2>4 DEF Meets
<1> QED BY <1>1, <1>2, <1>3, <1>4

(* So is a PASS of the checks of the administrators, each of which is a     *)
(* record that is not empty.                                                *)
LEMMA AccountChecksEarned ==
  ASSUME NEW d, NEW p, NEW a, d.admins = a.admins, \A t \in RangeOf(a.admins) : ~Empty(t),
         NEW n \in Nat, DOMAIN a.admins = 1..n
  PROVE  /\ TrustedHosts(d, p) = "PASS" /\ ~Overlooks("trusted_hosts", a, p)
              => Meets("trusted_hosts", a, p)
         /\ DefaultAdmin(d, p) = "PASS" /\ ~Overlooks("default_admin", a, p)
              => Meets("default_admin", a, p)
         /\ AdminMfa(d, p) = "PASS" => Meets("admin_mfa", a, p)
<1>1. Dicts(RangeOf(d.admins)) = RangeOf(a.admins)
  BY DEF Dicts, Empty
<1>2. ASSUME TrustedHosts(d, p) = "PASS", ~Overlooks("trusted_hosts", a, p)
      PROVE  Meets("trusted_hosts", a, p)
  <2>1. ASSUME NEW t \in RangeOf(a.admins)
        PROVE  Trusted(t) # {} /\ Trusted(t) \cap Wildcards = {}
    <3>1. ~Unrestricted(t)
      BY <1>1, <1>2 DEF TrustedHosts
    <3>2. Trusted(t) \cap Wildcards = {}
      BY <1>2, <3>1 DEF Overlooks
    <3> QED BY <3>1, <3>2 DEF Unrestricted
  <2> QED BY <2>1 DEF Meets
<1>3. ASSUME DefaultAdmin(d, p) = "PASS", ~Overlooks("default_admin", a, p)
      PROVE  Meets("default_admin", a, p)
  <2> DEFINE Named(i) == Field(a.admins[i], "name", "") \in AdminNames
  <2>1. ASSUME NEW j \in DOMAIN a.admins, Field(a.admins[j], "name", "") = "admin",
               ~IsDisabled(a.admins[j])
        PROVE  FALSE
    <3>1. Named(j) /\ j \in 1..n
      BY <2>1 DEF AdminNames
    <3> HIDE DEF Named
    <3>2. PICK i \in 1..j : Named(i) /\ \A h \in 1..(i - 1) : ~Named(h)
      <4> DEFINE S == {m \in 1..j : Named(m)}
      <4>1. S # {} /\ S \in SUBSET Nat
        BY <3>1
      <4> HIDE DEF S
      <4>2. PICK i \in S : \A m \in S : i <= m
        BY <4>1, LeastNatural
      <4>3. i \in 1..j /\ Named(i)
        BY <4>2 DEF S
      <4>4. ASSUME NEW h \in 1..(i - 1), Named(h) PROVE FALSE
        <5>1. h \in S /\ ~(i <= h)
          BY <3>1, <4>3, <4>4 DEF S
        <5> QED BY <4>2, <5>1
      <4> QED BY <4>3, <4>4
    <3>3. i \in 1..n /\ i \in DOMAIN d.admins /\ i \in DOMAIN a.admins
      BY <3>1, <3>2
    <3>4. IsDisabled(a.admins[i])
      BY <1>3, <3>2, <3>3 DEF DefaultAdmin, Named
    <3>5. i # j
      BY <2>1, <3>4
    <3>6. i < j
      BY <3>1, <3>2, <3>5
    <3>7. Field(a.admins[i], "name", "") \in AdminNames
      BY <3>2 DEF Named
    <3>8. ~\E h, k \in DOMAIN a.admins :
             /\ h < k /\ Field(a.admins[k], "name", "") = "admin"
             /\ Field(a.admins[h], "name", "") \in AdminNames /\ IsDisabled(a.admins[h])
      BY <1>3 DEF Overlooks
    <3> QED BY <2>1, <3>3, <3>4, <3>6, <3>7, <3>8
  <2>2. ASSUME NEW t \in RangeOf(a.admins), "name" \in DOMAIN t, t.name = "admin"
        PROVE  IsDisabled(t)
    <3>1. PICK j \in DOMAIN a.admins : t = a.admins[j]
      BY DEF RangeOf
    <3>2. Field(t, "name", "") = "admin"
      BY <2>2 DEF Field
    <3> QED BY <2>1, <3>1, <3>2
  <2> QED BY <2>2 DEF Meets
<1>4. ASSUME AdminMfa(d, p) = "PASS" PROVE Meets("admin_mfa", a, p)
  <2>1. ASSUME NEW t \in RangeOf(a.admins)
        PROVE  "two_factor" \in DOMAIN t /\ t.two_factor # "disable"
    BY <1>1, <1>4 DEF AdminMfa, Field
  <2> QED BY <2>1 DEF Meets
<1> QED BY <1>2, <1>3, <1>4

(* A PASS of a check that compares a number with a bound means that the     *)
(* number is there and within it.                                           *)
LEMMA NumberEarned ==
  ASSUME NEW cfg, NEW configured, NEW p, NEW bound,
         NumberVerdict(cfg, configured, p, bound) = "PASS"
  PROVE  \A m \in p : \E n \in configured : ~Beyond(bound, n, m)
BY DEF NumberVerdict

(* A number read through "or" is that of one of the spellings.              *)
LEMMA SpelledNumber ==
  ASSUME NEW cfg, NEW f, NEW g, NEW n \in OrElse(Get(cfg, f), Get(cfg, g))
  PROVE  \E h \in {f, g} : h \in DOMAIN cfg /\ n = cfg[h]
BY DEF OrElse, Get

(* A PASS of the checks that compare numbers is earned.                     *)
LEMMA NumberChecksEarned ==
  ASSUME NEW d, NEW p \in SUBSET Nat, NEW a
  PROVE  /\ /\ d.system_global = a.system_global
            /\ \A f \in NumericFields["idle_timeout"][2] \cap DOMAIN a.system_global :
                  a.system_global[f] \in Nat
            /\ IdleTimeout(d, p) = "PASS"
            => Meets("idle_timeout", a, p)
         /\ /\ d.system_global = a.system_global
            /\ \A f \in NumericFields["lockout_threshold"][2] \cap DOMAIN a.system_global :
                  a.system_global[f] \in Nat
            /\ LockoutThreshold(d, p) = "PASS"
            => Meets("lockout_threshold", a, p)
         /\ /\ d.password_policy = a.password_policy
            /\ \A f \in NumericFields["password_length"][2] \cap DOMAIN a.password_policy :
                  a.password_policy[f] \in Nat
            /\ PasswordLength(d, p) = "PASS"
            => Meets("password_length", a, p)
<1>1. ASSUME d.system_global = a.system_global, IdleTimeout(d, p) = "PASS",
             \A f \in NumericFields["idle_timeout"][2] \cap DOMAIN a.system_global :
                a.system_global[f] \in Nat
      PROVE  Meets("idle_timeout", a, p)
  <2> DEFINE cfg == a.system_global
  <2>1. NumericFields["idle_timeout"][2] = {"admintimeout"}
    BY DEF NumericFields
  <2>2. ASSUME NEW m \in p PROVE \E f \in {"admintimeout"} : f \in DOMAIN cfg /\ cfg[f] <= m
    <3>1. PICK n \in Get(cfg, "admintimeout") : ~Beyond("at most", n, m)
      BY <1>1, NumberEarned DEF IdleTimeout
    <3>2. "admintimeout" \in DOMAIN cfg /\ n = cfg["admintimeout"]
      BY <3>1 DEF Get
    <3>3. n \in Nat
      BY <1>1, <2>1, <3>2
    <3> QED BY <3>1, <3>2, <3>3 DEF Beyond
  <2> QED BY <2>1, <2>2 DEF Meets
<1>2. ASSUME d.system_global = a.system_global, LockoutThreshold(d, p) = "PASS",
             \A f \in NumericFields["lockout_threshold"][2] \cap DOMAIN a.system_global :
                a.system_global[f] \in Nat
      PROVE  Meets("lockout_threshold", a, p)
  <2> DEFINE cfg == a.system_global
             F == {"admin-lockout-threshold", "admin_lockout_threshold"}
  <2>1. NumericFields["lockout_threshold"][2] = F
    BY DEF NumericFields
  <2>2. ASSUME NEW m \in p PROVE \E f \in F : f \in DOMAIN cfg /\ cfg[f] <= m
    <3>1. PICK n \in OrElse(Get(cfg, "admin-lockout-threshold"),
                            Get(cfg, "admin_lockout_threshold")) : ~Beyond("at most", n, m)
      BY <1>2, NumberEarned DEF LockoutThreshold
    <3>2. PICK f \in F : f \in DOMAIN cfg /\ n = cfg[f]
      BY SpelledNumber
    <3>3. n \in Nat
      BY <1>2, <2>1, <3>2
    <3> QED BY <3>1, <3>2, <3>3 DEF Beyond
  <2> QED BY <2>1, <2>2 DEF Meets
<1>3. ASSUME d.password_policy = a.password_policy, PasswordLength(d, p) = "PASS",
             \A f \in NumericFields["password_length"][2] \cap DOMAIN a.password_policy :
                a.password_policy[f] \in Nat
      PROVE  Meets("password_length", a, p)
  <2> DEFINE cfg == a.password_policy
             F == {"minimum-length", "minimum_length"}
  <2>1. NumericFields["password_length"][2] = F
    BY DEF NumericFields
  <2>2. ASSUME NEW m \in p PROVE \E f \in F : f \in DOMAIN cfg /\ cfg[f] >= m
    <3>1. PICK n \in OrElse(Get(cfg, "minimum-length"), Get(cfg, "minimum_length")) :
             ~Beyond("at least", n, m)
      BY <1>3, NumberEarned DEF PasswordLength
    <3>2. PICK f \in F : f \in DOMAIN cfg /\ n = cfg[f]
      BY SpelledNumber
    <3>3. n \in Nat
      BY <1>3, <2>1, <3>2
    <3> QED BY <3>1, <3>2, <3>3 DEF Beyond
  <2> QED BY <2>1, <2>2 DEF Meets
<1> QED BY <1>1, <1>2, <1>3

(* A PASS of the checks that look at the settings of one record is earned.  *)
LEMMA SettingChecksEarned ==
  ASSUME NEW d, NEW p, NEW a
  PROVE  /\ d.log_disk = a.log_disk /\ LogDisk(d, p) = "PASS" => Meets("log_disk", a, p)
         /\ d.ha_status = a.ha_status /\ HaSync(d, p) = "PASS" /\ ~Overlooks("ha_sync", a, p)
              => Meets("ha_sync", a, p)
         /\ d.system_global = a.system_global =>
              /\ PreloginBanner(d, p) = "PASS" => Meets("prelogin_banner", a, p)
              /\ TimezoneSet(d, p) = "PASS" => Meets("timezone_set", a, p)
              /\ HostnameChanged(d, p) = "PASS" /\ ~Overlooks("hostname_changed", a, p)
                   => Meets("hostname_changed", a, p)
              /\ TlsVersion(d, p) = "PASS" /\ ~Overlooks("tls_version", a, p)
                   => Meets("tls_version", a, p)
              /\ SshCiphers(d, p) = "PASS" /\ ~Overlooks("ssh_ciphers", a, p)
                   => Meets("ssh_ciphers", a, p)
              /\ AdminPort(d, p) = "PASS" /\ ~Overlooks("admin_port_nondefault", a, p)
                   => Meets("admin_port_nondefault", a, p)
<1> DEFINE cfg == a.system_global
<1>1. d.log_disk = a.log_disk /\ LogDisk(d, p) = "PASS" => Meets("log_disk", a, p)
  BY DEF LogDisk, Field, Meets, SettingEnabled
<1>2. ASSUME d.ha_status = a.ha_status, HaSync(d, p) = "PASS", ~Overlooks("ha_sync", a, p)
      PROVE  Meets("ha_sync", a, p)
  <2> DEFINE members == Field(a.ha_status, "members", {})
  <2>1. members \subseteq {"synchronized", "in_sync", "insync"}
    BY <1>2 DEF HaSync
  <2>2. members # {}
    BY <1>2 DEF Overlooks
  <2> QED BY <2>1, <2>2 DEF Meets
<1>3. d.system_global = cfg /\ PreloginBanner(d, p) = "PASS" => Meets("prelogin_banner", a, p)
  BY DEF PreloginBanner, Field, Meets, SettingEnabled
<1>4. d.system_global = cfg /\ TimezoneSet(d, p) = "PASS" => Meets("timezone_set", a, p)
  BY DEF TimezoneSet, Field, Meets
<1>5. ASSUME d.system_global = cfg, HostnameChanged(d, p) = "PASS",
             ~Overlooks("hostname_changed", a, p)
      PROVE  Meets("hostname_changed", a, p)
  <2>1. "hostname" \in DOMAIN cfg /\ cfg.hostname \notin {"", "fortigate", "fgt123"}
    BY <1>5 DEF HostnameChanged
  <2>2. cfg.hostname # "fgt60e4q"
    BY <1>5, <2>1 DEF Overlooks, Field
  <2> QED BY <2>1, <2>2 DEF Meets, FactoryHostnames
<1>6. ASSUME d.system_global = cfg, TlsVersion(d, p) = "PASS", ~Overlooks("tls_version", a, p)
      PROVE  Meets("tls_version", a, p)
  <2>1. ReportedVersions(cfg) # {} /\ ReportedVersions(cfg) \cap WeakTls = {}
    BY <1>6 DEF TlsVersion, ReportedVersions
  <2>2. p = {}
    BY <1>6 DEF Overlooks
  <2> QED BY <2>1, <2>2 DEF Meets
<1>7. ASSUME d.system_global = cfg, SshCiphers(d, p) = "PASS", ~Overlooks("ssh_ciphers", a, p)
      PROVE  Meets("ssh_ciphers", a, p)
  <2>1. /\ {"ssh_enc_algo", "ssh_mac_algo"} \subseteq DOMAIN cfg
        /\ (cfg.ssh_enc_algo \cup cfg.ssh_mac_algo) \cap (CbcOrMd5 \ WeakSsh) = {}
    BY <1>7 DEF Overlooks
  <2>2. (cfg.ssh_enc_algo \cup cfg.ssh_mac_algo) \cap WeakSsh = {}
    BY <1>7, <2>1 DEF SshCiphers, Field
  <2>3. cfg.ssh_enc_algo \cap CbcOrMd5 = {} /\ cfg.ssh_mac_algo \cap CbcOrMd5 = {}
    BY <2>1, <2>2
  <2> QED BY <2>1, <2>3 DEF Meets
<1>8. ASSUME d.system_global = cfg, AdminPort(d, p) = "PASS",
             ~Overlooks("admin_port_nondefault", a, p)
      PROVE  Meets("admin_port_nondefault", a, p)
  <2>1. 443 \notin HttpsPort(cfg) /\ 80 \notin HttpPort(cfg)
    BY <1>8 DEF AdminPort
  <2>2. /\ ~("admin-sport" \in DOMAIN cfg <=> "adminsport" \in DOMAIN cfg)
        /\ ~("admin-port" \in DOMAIN cfg <=> "adminport" \in DOMAIN cfg)
    BY <1>8 DEF Overlooks
  <2>3. ASSUME NEW f, NEW g, ~(f \in DOMAIN cfg <=> g \in DOMAIN cfg), NEW n \in Nat \ {0},
               n \notin OrElse(Get(cfg, f), Get(cfg, g))
        PROVE  PortsUnder(cfg, {f, g}) # {} /\ n \notin PortsUnder(cfg, {f, g})
    <3>1. PortsUnder(cfg, {f, g}) = Get(cfg, f) \cup Get(cfg, g)
      BY DEF PortsUnder
    <3>2. CASE f \in DOMAIN cfg
      BY <2>3, <3>1, <3>2 DEF OrElse, Get
    <3>3. CASE g \in DOMAIN cfg
      BY <2>3, <3>1, <3>3 DEF OrElse, Get
    <3> QED BY <2>3, <3>2, <3>3
  <2>4. /\ PortsUnder(cfg, {"admin-sport", "adminsport"}) # {}
        /\ 443 \notin PortsUnder(cfg, {"admin-sport", "adminsport"})
    BY <2>1, <2>2, <2>3 DEF HttpsPort
  <2>5. /\ PortsUnder(cfg, {"admin-port", "adminport"}) # {}
        /\ 80 \notin PortsUnder(cfg, {"admin-port", "adminport"})
    BY <2>1, <2>2, <2>3 DEF HttpPort
  <2> QED BY <2>4, <2>5 DEF Meets
<1> QED BY <1>1, <1>2, <1>3, <1>4, <1>5, <1>6, <1>7, <1>8

(* So is a PASS of those that look at a list of communities, users or       *)
(* tunnels.                                                                 *)
LEMMA ListChecksEarned ==
  ASSUME NEW d, NEW p, NEW a
  PROVE  /\ /\ d.snmp_sysinfo = a.snmp_sysinfo /\ d.snmp_community = a.snmp_community
            /\ \A c \in a.snmp_community : ~Empty(c)
            /\ SnmpVersion(d, p) = "PASS" /\ ~Overlooks("snmp_version", a, p)
            => Meets("snmp_version", a, p)
         /\ d.snmp_users = a.snmp_users /\ SnmpReadonly(d, p) = "PASS"
              => Meets("snmp_readonly", a, p)
         /\ /\ d.ipsec_phase1 = a.ipsec_phase1 /\ d.ipsec_phase2 = a.ipsec_phase2
            /\ VpnWeakCrypto(d, p) = "PASS" /\ ~Overlooks("vpn_weak_crypto", a, p)
            => Meets("vpn_weak_crypto", a, p)
         /\ /\ d.ipsec_phase2 = a.ipsec_phase2 /\ VpnPfs(d, p) = "PASS"
            /\ ~Overlooks("vpn_pfs", a, p)
            => Meets("vpn_pfs", a, p)
<1>1. ASSUME d.snmp_sysinfo = a.snmp_sysinfo, d.snmp_community = a.snmp_community,
             \A c \in a.snmp_community : ~Empty(c), SnmpVersion(d, p) = "PASS",
             ~Overlooks("snmp_version", a, p)
      PROVE  Meets("snmp_version", a, p)
  <2>1. CASE /\ ~Empty(a.snmp_sysinfo)
             /\ Field(a.snmp_sysinfo, "status", "disable") # "enable"
    <3>1. "status" \in DOMAIN a.snmp_sysinfo
      BY <1>1, <2>1 DEF Overlooks
    <3> QED BY <2>1, <3>1 DEF Meets, Field
  <2>2. CASE \A c \in Dicts(a.snmp_community) : Field(c, "status", "enable") # "enable"
    <3>1. ASSUME NEW c \in a.snmp_community
          PROVE  "status" \in DOMAIN c /\ c.status # "enable"
      BY <1>1, <2>2 DEF Dicts, Empty, Field
    <3> QED BY <3>1 DEF Meets
  <2> QED BY <1>1, <2>1, <2>2 DEF SnmpVersion
<1>2. ASSUME d.snmp_users = a.snmp_users, SnmpReadonly(d, p) = "PASS"
      PROVE  Meets("snmp_readonly", a, p)
  <2>1. \A u \in a.snmp_users : ~SettingEnabled(u, "write_access")
    BY <1>2 DEF SnmpReadonly, Dicts, Field, SettingEnabled
  <2> QED BY <2>1 DEF Meets
<1>3. ASSUME d.ipsec_phase1 = a.ipsec_phase1, d.ipsec_phase2 = a.ipsec_phase2,
             VpnWeakCrypto(d, p) = "PASS", ~Overlooks("vpn_weak_crypto", a, p)
      PROVE  Meets("vpn_weak_crypto", a, p)
  <2>1. ASSUME NEW t \in a.ipsec_phase1 \cup a.ipsec_phase2, DOMAIN t # {}
        PROVE  Field(t, "proposal", {}) \cap WeakVpn = {}
    BY <1>3, <2>1 DEF VpnWeakCrypto, Dicts
  <2>2. ASSUME NEW t \in a.ipsec_phase1, DOMAIN t # {}
        PROVE  Field(t, "dhgrp", {}) \cap WeakDh = {}
    BY <1>3, <2>2 DEF VpnWeakCrypto, Dicts
  <2>3. \A t \in a.ipsec_phase2 : Field(t, "dhgrp", {}) \cap WeakDh = {}
    BY <1>3 DEF Overlooks
  <2>4. ASSUME NEW t, DOMAIN t = {}
        PROVE  Field(t, "proposal", {}) = {} /\ Field(t, "dhgrp", {}) = {}
    BY <2>4 DEF Field
  <2>5. ASSUME NEW t \in a.ipsec_phase1 \cup a.ipsec_phase2
        PROVE  /\ Field(t, "proposal", {}) \cap WeakVpn = {}
               /\ Field(t, "dhgrp", {}) \cap WeakDh = {}
    BY <2>1, <2>2, <2>3, <2>4
  <2> QED BY <2>5 DEF Meets
<1>4. ASSUME d.ipsec_phase2 = a.ipsec_phase2, VpnPfs(d, p) = "PASS",
             ~Overlooks("vpn_pfs", a, p)
      PROVE  Meets("vpn_pfs", a, p)
  <2>1. ASSUME NEW t \in a.ipsec_phase2 PROVE "pfs" \in DOMAIN t /\ t.pfs # "disable"
    <3>1. "pfs" \in DOMAIN t
      BY <1>4 DEF Overlooks
    <3>2. t \in Dicts(a.ipsec_phase2)
      BY <3>1 DEF Dicts
    <3> QED BY <1>4, <3>1, <3>2 DEF VpnPfs, Field
  <2> QED BY <2>1 DEF Meets
<1> QED BY <1>1, <1>2, <1>3, <1>4

(* A version that is not older than a minimum made of numbers has, at the   *)
(* first place where they differ, the larger number.                        *)
LEMMA FirmwareEarned ==
  ASSUME NEW v \in Seq(Int), NEW w \in Seq(Int), ~Older(v, w),
         \A i \in 1..Len(w) : w[i] # NotANumber
  PROVE  AtLeast(v, w)
<1> SUFFICES ASSUME NEW i \in 1..Len(w), \A j \in 1..(i - 1) : v[j] = w[j]
             PROVE  i <= Len(v) /\ v[i] >= w[i]
  BY DEF AtLeast
<1>1. \A n \in 1..Len(w) : HasPart(w, n)
  BY DEF HasPart
<1>2. CASE i <= Len(v)
  <2>1. ASSUME NEW j \in 1..(i - 1) PROVE HasPart(v, j) /\ v[j] = w[j]
    <3>1. j <= Len(v) /\ \A h \in 1..j : h \in 1..(i - 1) /\ h \in 1..Len(w)
      BY <1>2
    <3>2. \A h \in 1..j : v[h] # NotANumber
      BY <3>1
    <3> QED BY <3>1, <3>2 DEF HasPart
  <2>2. ~(v[i] < w[i])
    BY <1>1, <2>1 DEF Older
  <2>3. v[i] \in Int /\ w[i] \in Int
    BY <1>2
  <2> QED BY <1>2, <2>2, <2>3
<1>3. CASE i > Len(v)
  <2> DEFINE n == Len(v) + 1
  <2>1. n \in 1..Len(w) /\ n <= i /\ ~HasPart(v, n)
    BY <1>3 DEF HasPart
  <2>2. ASSUME NEW j \in 1..(n - 1) PROVE HasPart(v, j) /\ v[j] = w[j]
    <3>1. j <= Len(v) /\ \A h \in 1..j : h \in 1..(i - 1) /\ h \in 1..Len(w)
      BY <1>3
    <3>2. \A h \in 1..j : v[h] # NotANumber
      BY <3>1
    <3> QED BY <3>1, <3>2 DEF HasPart
  <2> HIDE DEF n
  <2>3. Older(v, w)
    BY <1>1, <2>1, <2>2 DEF Older
  <2> QED BY <2>3
<1> QED BY <1>2, <1>3

(* A PASS of the firmware check is earned when the minimum is a number in   *)
(* every part.                                                              *)
LEMMA FirmwareCheckEarned ==
  ASSUME NEW d, NEW p \in SUBSET Seq(Int), NEW a, d.device_meta = a.device_meta,
         "version" \in DOMAIN a.device_meta => a.device_meta.version \in Seq(Int),
         FirmwareVersion(d, p) = "PASS", ~Overlooks("firmware_version", a, p)
  PROVE  Meets("firmware_version", a, p)
<1>1. "version" \in DOMAIN a.device_meta
  BY DEF FirmwareVersion, Field
<1>2. Field(d.device_meta, "version", <<0>>) = a.device_meta.version
  BY <1>1 DEF Field
<1>3. ASSUME NEW least \in p PROVE AtLeast(a.device_meta.version, least)
  <2>1. ~Older(a.device_meta.version, least)
    BY <1>2 DEF FirmwareVersion
  <2>2. \A i \in 1..Len(least) : least[i] # NotANumber
    BY DEF Overlooks
  <2> QED BY <1>1, <2>1, <2>2, FirmwareEarned
<1> QED BY <1>1, <1>3 DEF Meets

(* A PASS of the IKE check means that every tunnel has version 2.           *)
LEMMA IkeEarned ==
  ASSUME NEW d, NEW p, NEW a, d.ipsec_phase1 = a.ipsec_phase1,
         VpnIkeVersion(d, p) = "PASS",
         \A t \in a.ipsec_phase1 :
            ~Empty(t) /\ ("ike_version" \in DOMAIN t => t.ike_version \in {1, 2})
  PROVE  Meets("vpn_ike_version", a, p)
<1>1. Dicts(d.ipsec_phase1) = a.ipsec_phase1
  BY DEF Dicts, Empty
<1>2. {t \in Dicts(d.ipsec_phase1) : Field(t, "ike_version", 1) = 1} = {}
  BY DEF VpnIkeVersion
<1>3. ASSUME NEW t \in a.ipsec_phase1 PROVE t.ike_version = 2
  BY <1>1, <1>2 DEF Field
<1> QED BY <1>3 DEF Meets

(* What a check is given: its sections, and an empty value for a missing    *)
(* one.                                                                     *)
Read(check, data) == [k \in DataKeys[check] |-> Field(data, k, NotFetched(k))]

(* run_checks gives each check its own sections.                            *)
LEMMA JudgedByItsCheck ==
  ASSUME NEW data, NEW p
  PROVE  /\ Judged("interface_protocols", data, p)
              = InterfaceProtocols(Read("interface_protocols", data), p)
         /\ Judged("ntp_config", data, p) = NtpConfig(Read("ntp_config", data), p)
         /\ Judged("syslog_config", data, p) = SyslogConfig(Read("syslog_config", data), p)
         /\ Judged("trusted_hosts", data, p) = TrustedHosts(Read("trusted_hosts", data), p)
         /\ Judged("default_admin", data, p) = DefaultAdmin(Read("default_admin", data), p)
         /\ Judged("idle_timeout", data, p) = IdleTimeout(Read("idle_timeout", data), p)
         /\ Judged("lockout_threshold", data, p)
              = LockoutThreshold(Read("lockout_threshold", data), p)
         /\ Judged("password_length", data, p) = PasswordLength(Read("password_length", data), p)
         /\ Judged("log_disk", data, p) = LogDisk(Read("log_disk", data), p)
         /\ Judged("log_severity", data, p) = LogSeverity(Read("log_severity", data), p)
         /\ Judged("log_faz", data, p) = LogFaz(Read("log_faz", data), p)
         /\ Judged("dns_servers", data, p) = DnsServers(Read("dns_servers", data), p)
         /\ Judged("snmp_readonly", data, p) = SnmpReadonly(Read("snmp_readonly", data), p)
         /\ Judged("tls_version", data, p) = TlsVersion(Read("tls_version", data), p)
         /\ Judged("ssh_ciphers", data, p) = SshCiphers(Read("ssh_ciphers", data), p)
         /\ Judged("firmware_version", data, p)
              = FirmwareVersion(Read("firmware_version", data), p)
         /\ Judged("ha_sync", data, p) = HaSync(Read("ha_sync", data), p)
         /\ Judged("hostname_changed", data, p)
              = HostnameChanged(Read("hostname_changed", data), p)
         /\ Judged("admin_port_nondefault", data, p)
              = AdminPort(Read("admin_port_nondefault", data), p)
         /\ Judged("prelogin_banner", data, p) = PreloginBanner(Read("prelogin_banner", data), p)
         /\ Judged("timezone_set", data, p) = TimezoneSet(Read("timezone_set", data), p)
         /\ Judged("snmp_version", data, p) = SnmpVersion(Read("snmp_version", data), p)
         /\ Judged("vpn_weak_crypto", data, p)
              = VpnWeakCrypto(Read("vpn_weak_crypto", data), p)
         /\ Judged("vpn_pfs", data, p) = VpnPfs(Read("vpn_pfs", data), p)
         /\ Judged("vpn_ike_version", data, p) = VpnIkeVersion(Read("vpn_ike_version", data), p)
         /\ Judged("admin_mfa", data, p) = AdminMfa(data, p)
BY DEF Judged, Read

(* A check that does not trust an empty list never passes on blank          *)
(* sections.                                                                *)
LEMMA BlindChecksNeverPass ==
  ASSUME NEW check \in CHECKS \ TrustsAnEmptyList, NEW data, NEW p,
         \A k \in DataKeys[check] : BlankSection(k, Read(check, data)[k])
  PROVE  Judged(check, data, p) # "PASS"
<1> DEFINE d == Read(check, data)
<1>1. \A k \in DataKeys[check] :
         IF k \in Listed THEN \A r \in d[k] : Blank(r) ELSE Blank(d[k])
  <2>1. "admins" \notin DataKeys[check]
    BY DEF TrustsAnEmptyList, CHECKS, DataKeys
  <2> QED BY <2>1 DEF BlankSection
<1> HIDE DEF d
<1>2. CASE check \in {"ntp_config", "log_disk", "log_severity", "dns_servers",
                     "password_length", "firmware_version", "ha_sync"}
  <2>1. /\ check = "ntp_config" => Blank(d.ntp)
        /\ check \in {"log_disk", "log_severity"} => Blank(d.log_disk)
        /\ check = "dns_servers" => Blank(d.dns)
        /\ check = "password_length" => Blank(d.password_policy)
        /\ check = "firmware_version" => Blank(d.device_meta)
        /\ check = "ha_sync" => Blank(d.ha_status)
    BY <1>1 DEF DataKeys, Listed
  <2> QED BY <1>2, <2>1, BlankRecordsNeverPass, JudgedByItsCheck DEF d
<1>3. CASE check \in {"idle_timeout", "lockout_threshold", "tls_version", "ssh_ciphers",
                     "hostname_changed", "admin_port_nondefault", "prelogin_banner",
                     "timezone_set"}
  <2>1. Blank(d.system_global)
    BY <1>1, <1>3 DEF DataKeys, Listed
  <2> QED BY <1>3, <2>1, BlankGlobalNeverPasses, JudgedByItsCheck DEF d
<1>4. CASE check \in {"interface_protocols", "syslog_config", "log_faz"}
  <2>1. /\ check = "interface_protocols" => \A r \in d.interfaces : Blank(r)
        /\ check = "syslog_config" => \A r \in d.syslog : Blank(r)
        /\ check = "log_faz" => \A r \in d.log_faz : Blank(r)
    BY <1>1 DEF DataKeys, Listed
  <2> QED BY <1>4, <2>1, BlankListsNeverPass, JudgedByItsCheck DEF d
<1> QED BY <1>2, <1>3, <1>4 DEF CHECKS, DataKeys, TrustsAnEmptyList

(* When every section was answered, PASS means that the settings meet the   *)
(* rule, unless the check overlooks something.                              *)
LEMMA ReadChecksAreEarned ==
  ASSUME NEW check \in CHECKS, NEW p \in ReviewParams(check), NEW a \in ReviewAnswers(check),
         NEW data, DOMAIN data = DataKeys[check],
         \A k \in DataKeys[check] : data[k] = Fetched(k, "answers", a[k]),
         Judged(check, data, p) = "PASS", ~Overlooks(check, a, p)
  PROVE  Meets(check, a, p)
<1> DEFINE d == Read(check, data)
<1>1. \A k \in DataKeys[check] : data[k] = Fetched(k, "answers", a[k]) /\ d[k] = data[k]
  BY DEF Field, Read
<1>2. \A k \in DataKeys[check] \ {"syslog", "log_faz"} : d[k] = a[k]
  BY <1>1 DEF Fetched, RecordReader, ListReader, AccountsReader
<1> HIDE DEF d
<1>3. CASE check \in {"ntp_config", "syslog_config", "log_faz", "dns_servers"}
  <2>1. /\ check = "ntp_config" => d.ntp = a.ntp
        /\ check = "syslog_config" => d.syslog = SyslogReader("answers", a.syslog)
        /\ check = "log_faz" => d.log_faz = FazReader("answers", a.log_faz)
        /\ check = "dns_servers" => d.dns = a.dns
    BY <1>1 DEF DataKeys, Fetched, RecordReader, Listed
  <2> QED BY <1>3, <2>1, ServerChecksEarned, JudgedByItsCheck DEF d
<1>4. CASE check \in {"trusted_hosts", "default_admin", "admin_mfa"}
  <2>1. DataKeys[check] = {"admins"}
    BY <1>4 DEF DataKeys
  <2>2. data.admins = a.admins /\ d.admins = a.admins
    BY <1>1, <1>2, <2>1
  <2>3. /\ \A t \in RangeOf(a.admins) : ~Empty(t)
        /\ DOMAIN a.admins = 1..Len(a.admins) /\ Len(a.admins) \in Nat
    BY <2>1, ReviewAssumption
  <2>4. /\ check = "trusted_hosts" => TrustedHosts(d, p) = "PASS"
        /\ check = "default_admin" => DefaultAdmin(d, p) = "PASS"
        /\ check = "admin_mfa" => AdminMfa(data, p) = "PASS"
    BY JudgedByItsCheck DEF d
  <2> QED BY <1>4, <2>2, <2>3, <2>4, AccountChecksEarned
<1>5. CASE check \in {"idle_timeout", "lockout_threshold", "password_length"}
  <2>1. LET section == a[NumericFields[check][1]]
        IN  /\ p \subseteq Nat
            /\ \A f \in NumericFields[check][2] \cap DOMAIN section : section[f] \in Nat
    <3>1. check \in DOMAIN NumericFields
      BY <1>5 DEF NumericFields
    <3> QED BY <3>1, ReviewAssumption
  <2>2. CASE check = "idle_timeout"
    <3>1. d.system_global = a.system_global
      BY <1>2, <2>2 DEF DataKeys
    <3>2. NumericFields["idle_timeout"][1] = "system_global"
      BY DEF NumericFields
    <3>3. IdleTimeout(d, p) = "PASS"
      BY <2>2, JudgedByItsCheck DEF d
    <3> QED BY <2>1, <2>2, <3>1, <3>2, <3>3, NumberChecksEarned
  <2>3. CASE check = "lockout_threshold"
    <3>1. d.system_global = a.system_global
      BY <1>2, <2>3 DEF DataKeys
    <3>2. NumericFields["lockout_threshold"][1] = "system_global"
      BY DEF NumericFields
    <3>3. LockoutThreshold(d, p) = "PASS"
      BY <2>3, JudgedByItsCheck DEF d
    <3> QED BY <2>1, <2>3, <3>1, <3>2, <3>3, NumberChecksEarned
  <2>4. CASE check = "password_length"
    <3>1. d.password_policy = a.password_policy
      BY <1>2, <2>4 DEF DataKeys
    <3>2. NumericFields["password_length"][1] = "password_policy"
      BY DEF NumericFields
    <3>3. PasswordLength(d, p) = "PASS"
      BY <2>4, JudgedByItsCheck DEF d
    <3> QED BY <2>1, <2>4, <3>1, <3>2, <3>3, NumberChecksEarned
  <2> QED BY <1>5, <2>2, <2>3, <2>4
<1>6. CASE check \in {"log_disk", "ha_sync"}
  <2>1. /\ check = "log_disk" => d.log_disk = a.log_disk
        /\ check = "ha_sync" => d.ha_status = a.ha_status
    BY <1>2 DEF DataKeys
  <2> QED BY <1>6, <2>1, SettingChecksEarned, JudgedByItsCheck DEF d
<1>7. CASE check \in {"prelogin_banner", "timezone_set", "hostname_changed", "tls_version",
                      "ssh_ciphers", "admin_port_nondefault"}
  <2>1. d.system_global = a.system_global
    BY <1>2, <1>7 DEF DataKeys
  <2> QED BY <1>7, <2>1, SettingChecksEarned, JudgedByItsCheck DEF d
<1>8. CASE check = "firmware_version"
  <2>1. d.device_meta = a.device_meta
    BY <1>2, <1>8 DEF DataKeys
  <2>2. /\ p \subseteq Seq(Int)
        /\ "version" \in DOMAIN a.device_meta => a.device_meta.version \in Seq(Int)
    BY <1>8, ReviewAssumption
  <2>3. FirmwareVersion(d, p) = "PASS"
    BY <1>8, JudgedByItsCheck DEF d
  <2> QED BY <1>8, <2>1, <2>2, <2>3, FirmwareCheckEarned
<1>9. CASE check \in {"snmp_version", "snmp_readonly", "vpn_weak_crypto", "vpn_pfs"}
  <2>1. /\ check = "snmp_version" =>
             /\ d.snmp_sysinfo = a.snmp_sysinfo /\ d.snmp_community = a.snmp_community
             /\ \A c \in a.snmp_community : ~Empty(c)
        /\ check = "snmp_readonly" => d.snmp_users = a.snmp_users
        /\ check = "vpn_weak_crypto" =>
             d.ipsec_phase1 = a.ipsec_phase1 /\ d.ipsec_phase2 = a.ipsec_phase2
        /\ check = "vpn_pfs" => d.ipsec_phase2 = a.ipsec_phase2
    BY <1>2, ReviewAssumption DEF DataKeys
  <2> QED BY <1>9, <2>1, ListChecksEarned, JudgedByItsCheck DEF d
<1>10. CASE check = "vpn_ike_version"
  <2>1. DataKeys[check] = {"ipsec_phase1"}
    BY <1>10 DEF DataKeys
  <2>2. d.ipsec_phase1 = a.ipsec_phase1
    BY <1>2, <2>1
  <2>3. \A t \in a.ipsec_phase1 :
           ~Empty(t) /\ ("ike_version" \in DOMAIN t => t.ike_version \in {1, 2})
    BY <1>10, <2>1, ReviewAssumption
  <2>4. VpnIkeVersion(d, p) = "PASS"
    BY <1>10, JudgedByItsCheck DEF d
  <2> QED BY <1>10, <2>2, <2>3, <2>4, IkeEarned
<1>11. check # "log_severity"
  BY DEF Overlooks
<1>12. check # "interface_protocols"
  BY JudgedByItsCheck DEF InterfaceProtocols
<1> QED BY <1>3, <1>4, <1>5, <1>6, <1>7, <1>8, <1>9, <1>10, <1>11, <1>12 DEF CHECKS, DataKeys

(* The question is one that is asked of a device.                           *)
DeviceQuestion ==
    /\ asked.check \in CHECKS
    /\ asked.param \in ReviewParams(asked.check)
    /\ asked.actual \in ReviewAnswers(asked.check)

(* A section that has been fetched is what the reader makes of some         *)
(* outcome, and is marked as unread unless that was an answer.              *)
ReadSection(k, outcome) ==
    /\ k = "device_meta" => outcome \in {"answers", "fails"}
    /\ k \in known.unread <=> outcome # "answers"
    /\ known.fetched[k] = Fetched(k, outcome, asked.actual[k])

(* So are all sections so far.                                              *)
Sections ==
    /\ known = [step |-> known.step, fetched |-> known.fetched, unread |-> known.unread]
    /\ known.fetched = [k \in DOMAIN known.fetched |-> known.fetched[k]]
    /\ DOMAIN known.fetched \subseteq DataKeys[asked.check]
    /\ \A k \in DOMAIN known.fetched : \E outcome \in Outcomes : ReadSection(k, outcome)

(* The answer is that of the check on what was fetched, or on nothing.      *)
DeviceVerdict ==
    known.step = "done" =>
       \/ answer = "SKIPPED"
       \/ /\ known.fetched = Nothing
          /\ known.unread = DataKeys[asked.check]
          /\ answer = Judged(asked.check, Nothing, asked.param)
       \/ /\ DOMAIN known.fetched = DataKeys[asked.check]
          /\ known.unread \subseteq DataKeys[asked.check]
          /\ answer = Judged(asked.check, known.fetched, asked.param)

(* The inductive invariant: PassIsEarned speaks of the answer only, which   *)
(* the sections that were fetched one at a time decide.                     *)
DeviceInv ==
    /\ DeviceQuestion
    /\ Sections
    /\ known.unread \subseteq DOMAIN known.fetched \/ known.step = "done"
    /\ DeviceVerdict

(* It holds at first.                                                       *)
LEMMA DeviceInit == ReviewInit => DeviceInv
<1> SUFFICES ASSUME ReviewInit PROVE DeviceInv
  OBVIOUS
<1>1. DeviceQuestion
  BY DEF ReviewInit, DeviceQuestion
<1>2. known = [step |-> "fetch", fetched |-> Nothing, unread |-> {}] /\ DOMAIN Nothing = {}
  BY DEF ReviewInit, Nothing
<1> QED BY <1>1, <1>2 DEF DeviceInv, Sections, DeviceVerdict

(* Fetching a section keeps it, whatever the outcome.                       *)
LEMMA DeviceFetch ==
  ASSUME DeviceInv, NEW k, NEW outcome \in Outcomes, FetchSection(k, outcome)
  PROVE  DeviceInv'
<1> DEFINE section == Fetched(k, outcome, asked.actual[k])
           fetched == [j \in {k} \cup DOMAIN known.fetched |->
                         IF j = k THEN section ELSE known.fetched[j]]
           unread == IF outcome = "answers" THEN known.unread ELSE known.unread \cup {k}
<1>1. /\ known = [step |-> known.step, fetched |-> known.fetched, unread |-> known.unread]
      /\ known.step = "fetch" /\ UNCHANGED asked
      /\ known' = [known EXCEPT !.fetched = fetched, !.unread = unread]
      /\ k \in DataKeys[asked.check] \ DOMAIN known.fetched
      /\ outcome \in PossibleOutcomes(k)
  BY DEF DeviceInv, Sections, FetchSection, AtStep
<1>2. /\ DOMAIN fetched = {k} \cup DOMAIN known.fetched
      /\ fetched[k] = section
      /\ \A j \in DOMAIN known.fetched : fetched[j] = known.fetched[j]
  BY <1>1
<1>3. fetched = [j \in DOMAIN fetched |-> fetched[j]]
  OBVIOUS
<1>4. known.unread \subseteq DOMAIN known.fetched
  BY <1>1 DEF DeviceInv
<1>5. /\ k \in unread <=> outcome # "answers"
      /\ \A j \in DOMAIN known.fetched : j \in unread <=> j \in known.unread
      /\ unread \subseteq {k} \cup DOMAIN known.fetched
  BY <1>1, <1>4
<1> HIDE DEF fetched, unread, section
<1>6. known' = [step |-> "fetch", fetched |-> fetched, unread |-> unread]
  <2>1. known = [step |-> "fetch", fetched |-> known.fetched, unread |-> known.unread]
    BY <1>1
  <2> QED BY <1>1, <2>1
<1>7. known'.step = "fetch" /\ known'.fetched = fetched /\ known'.unread = unread
  BY <1>6
<1>8. ReadSection(k, outcome)'
  <2>1. k = "device_meta" => outcome \in {"answers", "fails"}
    BY <1>1 DEF PossibleOutcomes
  <2> QED BY <1>1, <1>2, <1>5, <1>7, <2>1 DEF ReadSection, section
<1>9. ASSUME NEW j \in DOMAIN known.fetched
      PROVE  \E o \in Outcomes : ReadSection(j, o)'
  <2>1. PICK o \in Outcomes : ReadSection(j, o)
    BY DEF DeviceInv, Sections
  <2>2. ReadSection(j, o)'
    BY <1>1, <1>2, <1>5, <1>7, <2>1 DEF ReadSection
  <2> QED BY <2>2
<1>10. Sections'
  <2>1. known' = [step |-> known'.step, fetched |-> known'.fetched, unread |-> known'.unread]
    BY <1>6, <1>7
  <2>2. known'.fetched = [j \in DOMAIN known'.fetched |-> known'.fetched[j]]
    BY <1>3, <1>7
  <2>3. DOMAIN known'.fetched \subseteq DataKeys[asked.check]
    BY <1>1, <1>2, <1>7 DEF DeviceInv, Sections
  <2>4. \A j \in DOMAIN known'.fetched : \E o \in Outcomes : ReadSection(j, o)'
    BY <1>2, <1>7, <1>8, <1>9
  <2> QED BY <1>1, <2>1, <2>2, <2>3, <2>4 DEF Sections
<1>11. DeviceQuestion'
  BY <1>1 DEF DeviceInv, DeviceQuestion
<1> QED BY <1>2, <1>5, <1>7, <1>10, <1>11 DEF DeviceInv, DeviceVerdict

(* So does every step.                                                      *)
LEMMA DeviceStep == DeviceInv /\ [ReviewNext]_questionVars => DeviceInv'
<1> SUFFICES ASSUME DeviceInv, [ReviewNext]_questionVars PROVE DeviceInv'
  OBVIOUS
<1>1. known = [step |-> known.step, fetched |-> known.fetched, unread |-> known.unread]
  BY DEF DeviceInv, Sections
<1>2. ASSUME NEW unread, UNCHANGED asked, known.step = "fetch",
             known' = [step |-> "done", fetched |-> known.fetched, unread |-> unread],
             known.fetched = Nothing \/ unread = known.unread, DeviceVerdict'
      PROVE  DeviceInv'
  <2>1. /\ known'.step = "done" /\ known'.fetched = known.fetched
        /\ known'.unread = unread
    BY <1>2
  <2>2. known' = [step |-> known'.step, fetched |-> known'.fetched, unread |-> known'.unread]
    BY <1>2, <2>1
  <2>3. ASSUME NEW k \in DOMAIN known.fetched
        PROVE  \E o \in Outcomes : ReadSection(k, o)'
    <3>1. known.unread = unread
      BY <1>2 DEF Nothing
    <3>2. PICK o \in Outcomes : ReadSection(k, o)
      BY DEF DeviceInv, Sections
    <3>3. ReadSection(k, o)'
      BY <1>2, <2>1, <3>1, <3>2 DEF ReadSection
    <3> QED BY <3>3
  <2>4. Sections'
    BY <1>2, <2>1, <2>2, <2>3 DEF DeviceInv, Sections
  <2>5. DeviceQuestion'
    BY <1>2 DEF DeviceInv, DeviceQuestion
  <2> QED BY <1>2, <2>1, <2>4, <2>5 DEF DeviceInv
<1>3. CASE SkipDevice
  <2>1. /\ UNCHANGED asked /\ known.step = "fetch" /\ answer' = "SKIPPED"
        /\ known' = [known EXCEPT !.step = "done"]
    BY <1>3 DEF SkipDevice, Untouched, AtStep, Answer
  <2>2. known' = [step |-> "done", fetched |-> known.fetched, unread |-> known.unread]
    BY <1>1, <2>1
  <2> QED BY <1>2, <2>1, <2>2 DEF DeviceVerdict
<1>4. CASE \E k \in UNION {DataKeys[c] : c \in CHECKS}, outcome \in Outcomes :
              FetchSection(k, outcome)
  BY <1>4, DeviceFetch
<1>5. CASE Judge
  <2>1. /\ UNCHANGED asked /\ known.step = "fetch"
        /\ answer' = Judged(asked.check, known.fetched, asked.param)
        /\ known' = [known EXCEPT !.step = "done"]
        /\ DOMAIN known.fetched = DataKeys[asked.check]
    BY <1>5 DEF Judge, AtStep, Answer
  <2>2. known' = [step |-> "done", fetched |-> known.fetched, unread |-> known.unread]
    BY <1>1, <2>1
  <2>3. known'.fetched = known.fetched /\ known'.unread = known.unread
    BY <2>2
  <2>4. known.unread \subseteq DataKeys[asked.check]
    BY <2>1 DEF DeviceInv
  <2>5. DeviceVerdict'
    BY <2>1, <2>3, <2>4 DEF DeviceVerdict
  <2> QED BY <1>2, <2>1, <2>2, <2>5
<1>6. CASE JudgeWithoutClient
  <2>1. /\ UNCHANGED asked /\ known.step = "fetch" /\ DOMAIN known.fetched = {}
        /\ answer' = Judged(asked.check, Nothing, asked.param)
        /\ known' = [known EXCEPT !.step = "done", !.unread = DataKeys[asked.check]]
    BY <1>6 DEF JudgeWithoutClient, Untouched, AtStep, Empty
  <2>2. known' = [step |-> "done", fetched |-> known.fetched,
                  unread |-> DataKeys[asked.check]]
    BY <1>1, <2>1
  <2>3. known'.fetched = known.fetched /\ known'.unread = DataKeys[asked.check]
    BY <2>2
  <2>4. known.fetched = Nothing
    BY <2>1 DEF DeviceInv, Sections, Nothing
  <2>5. DeviceVerdict'
    BY <2>1, <2>3, <2>4 DEF DeviceVerdict
  <2> QED BY <1>2, <2>1, <2>2, <2>4, <2>5
<1>7. CASE UNCHANGED questionVars
  BY <1>7 DEF questionVars, DeviceInv, DeviceQuestion, Sections, DeviceVerdict, ReadSection
<1> QED BY <1>3, <1>4, <1>5, <1>6, <1>7 DEF ReviewNext

(* It implies both properties: a check that passes is blank on none of its  *)
(* sections, or all of them were answered.                                  *)
LEMMA DeviceMeans == DeviceInv => PassIsEarned /\ UnreadSettingsNeverPass
<1> SUFFICES ASSUME DeviceInv, Passed PROVE PassIsEarned /\ UnreadSettingsNeverPass
  BY DEF PassIsEarned, UnreadSettingsNeverPass
<1>1. asked.check \in CHECKS /\ DataKeys[asked.check] # {}
  BY DEF DeviceInv, DeviceQuestion, CHECKS, DataKeys
<1>2. CASE /\ known.fetched = Nothing
           /\ known.unread = DataKeys[asked.check]
           /\ answer = Judged(asked.check, Nothing, asked.param)
  <2>1. \A k \in DataKeys[asked.check] : BlankSection(k, Read(asked.check, Nothing)[k])
    <3>1. ASSUME NEW k \in DataKeys[asked.check]
          PROVE  Read(asked.check, Nothing)[k] = NotFetched(k)
      BY DEF Read, Field, Nothing
    <3>2. \A k : BlankSection(k, NotFetched(k))
      BY DEF Nothing, NotFetched, RangeOf, BlankSection, Blank
    <3> QED BY <3>1, <3>2
  <2>2. asked.check \in TrustsAnEmptyList
    BY <1>1, <1>2, <2>1, BlindChecksNeverPass DEF Passed
  <2> QED BY <1>1, <1>2, <2>2 DEF PassIsEarned, UnreadSettingsNeverPass
<1>3. CASE /\ DOMAIN known.fetched = DataKeys[asked.check]
           /\ known.unread \subseteq DataKeys[asked.check]
           /\ answer = Judged(asked.check, known.fetched, asked.param)
  <2>1. CASE known.unread = {}
    <3>1. \A k \in DataKeys[asked.check] :
             known.fetched[k] = Fetched(k, "answers", asked.actual[k])
      BY <1>3, <2>1 DEF DeviceInv, Sections, ReadSection
    <3>2. ~Overlooks(asked.check, asked.actual, asked.param)
             => Meets(asked.check, asked.actual, asked.param)
      BY <1>1, <1>3, <3>1, ReadChecksAreEarned DEF DeviceInv, DeviceQuestion, Passed
    <3> QED BY <2>1, <3>2 DEF PassIsEarned, UnreadSettingsNeverPass
  <2>2. CASE known.unread # {}
    <3> SUFFICES ASSUME asked.check \notin TrustsAnEmptyList PROVE FALSE
      BY <2>2 DEF PassIsEarned, UnreadSettingsNeverPass
    <3>1. PICK k : DataKeys[asked.check] = {k}
      BY <1>1 DEF TrustsAnEmptyList, CHECKS, DataKeys
    <3>2. known.unread = {k} /\ k \in DOMAIN known.fetched
      BY <1>3, <2>2, <3>1
    <3>3. PICK outcome \in Outcomes : ReadSection(k, outcome)
      BY <3>2 DEF DeviceInv, Sections
    <3>4. BlankSection(k, known.fetched[k])
      BY <3>2, <3>3, UnreadIsBlank DEF ReadSection
    <3>5. Read(asked.check, known.fetched)[k] = known.fetched[k]
      BY <3>1, <3>2 DEF Read, Field
    <3> QED BY <1>1, <1>3, <3>1, <3>4, <3>5, BlindChecksNeverPass DEF Passed
  <2> QED BY <2>1, <2>2
<1> QED BY <1>2, <1>3 DEF DeviceInv, DeviceVerdict, Passed, Answered, AtStep

(* A check that passes, has read what it needs and overlooks nothing passes *)
(* because the settings of the device meet its rule: PassIsEarned.          *)
THEOREM EarnedCorrect == ReviewSpec => []PassIsEarned
BY DeviceInit, DeviceStep, DeviceMeans, PTL DEF ReviewSpec

(* A check some of whose sections did not come never passes, unless it is   *)
(* one of those that trust an empty list: UnreadSettingsNeverPass.          *)
THEOREM UnreadCorrect == ReviewSpec => []UnreadSettingsNeverPass
BY DeviceInit, DeviceStep, DeviceMeans, PTL DEF ReviewSpec

-----------------------------------------------------------------------------
(* Hygiene: rules that were never hit *)

(* The inductive invariant of a question about hit counts: the replies are  *)
(* those of the devices asked so far.                                       *)
HitsInv ==
    "hits" \in DOMAIN asked =>
        /\ \E n \in Nat : asked.hits \in [1..n -> {"fails", "omits", "zero", "some"}]
        /\ \/ /\ known.step = "hits"
              /\ known = [step |-> "hits", next |-> known.next, replies |-> known.replies]
              /\ known.next \in Nat /\ known.next >= 1
              /\ known.next <= Len(asked.hits) + 1
              /\ known.replies = {asked.hits[i] : i \in 1..(known.next - 1)} \ {"fails"}
              /\ answer = {}
           \/ /\ known.step = "done"
              /\ (answer # {} /\ Len(asked.hits) <= ScopeLimit) =>
                    Unhit(Overlaid(asked.stored,
                                   {asked.hits[i] : i \in DOMAIN asked.hits} \ {"fails"}))

(* It holds at first.                                                       *)
LEMMA HitsInit == HygieneInit => HitsInv
<1> SUFFICES ASSUME HygieneInit, "hits" \in DOMAIN asked PROVE HitsInv
  BY DEF HitsInv
<1>1. ~AskRules /\ ~AskRule /\ ~AskUnused
  <2>1. ~AskRules
    <3> SUFFICES ASSUME NEW rules, NEW resolver,
                        asked = [part |-> "hygiene", rules |-> rules, resolver |-> resolver]
                 PROVE  FALSE
      BY DEF AskRules
    <3>1. DOMAIN asked = {"part", "rules", "resolver"}
      OBVIOUS
    <3> QED BY <3>1
  <2>2. ~AskRule
    <3> SUFFICES ASSUME NEW r, asked = [part |-> "hygiene", rule |-> r] PROVE FALSE
      BY DEF AskRule
    <3>1. DOMAIN asked = {"part", "rule"}
      OBVIOUS
    <3> QED BY <3>1
  <2>3. ~AskUnused
    <3> SUFFICES ASSUME NEW groups, NEW refs,
                        asked = [part |-> "hygiene", groups |-> groups, refs |-> refs]
                 PROVE  FALSE
      BY DEF AskUnused
    <3>1. DOMAIN asked = {"part", "groups", "refs"}
      OBVIOUS
    <3> QED BY <3>1
  <2> QED BY <2>1, <2>2, <2>3
<1>2. PICK stored \in {"none", "zero", "some"}, n \in 1..(ScopeLimit + 1) :
        \E hits \in [1..n -> {"fails", "omits", "zero", "some"}] :
            /\ asked = [part |-> "hygiene", stored |-> stored, hits |-> hits]
            /\ known = [step |-> "hits", next |-> 1, replies |-> {}]
  BY <1>1 DEF HygieneInit, AskUnhit
<1>3. n \in Nat
  BY HygieneAssumption
<1>4. PICK hits \in [1..n -> {"fails", "omits", "zero", "some"}] :
            /\ asked = [part |-> "hygiene", stored |-> stored, hits |-> hits]
            /\ known = [step |-> "hits", next |-> 1, replies |-> {}]
  BY <1>2
<1>5. asked.hits = hits /\ Len(hits) = n
  BY <1>3, <1>4
<1>6. known.step = "hits" /\ known.next = 1 /\ known.replies = {}
  BY <1>4
<1>7. {asked.hits[i] : i \in 1..(known.next - 1)} = {}
  BY <1>6
<1> QED
  BY <1>3, <1>4, <1>5, <1>6, <1>7 DEF HygieneInit, HitsInv

(* Every step keeps it.                                                     *)
LEMMA HitsStep == HitsInv /\ [HygieneNext]_questionVars => HitsInv'
<1> SUFFICES ASSUME HitsInv, [HygieneNext]_questionVars, "hits" \in DOMAIN asked'
             PROVE HitsInv'
  BY DEF HitsInv
<1>1. asked' = asked
  BY DEF HygieneNext, CheckRules, CheckRule, ReadHits, CheckUnhit, ExpandGroup, ReportUnused,
     Answer, questionVars
<1>2. "hits" \in DOMAIN asked
  BY <1>1
<1>3. PICK n \in Nat : asked.hits \in [1..n -> {"fails", "omits", "zero", "some"}]
  BY <1>2 DEF HitsInv
<1>4. Len(asked.hits) = n /\ DOMAIN asked.hits = 1..n
  BY <1>3
<1>5. known.step \in {"hits", "done"}
  BY <1>2 DEF HitsInv
<1>6. CASE ReadHits
  <2>1. AtStep("hits") /\ known.next <= n /\ known.step = "hits"
    BY <1>6, <1>4 DEF ReadHits, AtStep
  <2>2. /\ known = [step |-> "hits", next |-> known.next, replies |-> known.replies]
        /\ known.next \in Nat /\ known.next >= 1
        /\ known.replies = {asked.hits[i] : i \in 1..(known.next - 1)} \ {"fails"}
    BY <1>2, <2>1 DEF HitsInv
  <2> DEFINE k == [step |-> "hits", next |-> known.next + 1,
                   replies |-> known.replies \cup ({asked.hits[known.next]} \ {"fails"})]
  <2>3. known' = k
    <3>1. PICK next, replies :
            known = [step |-> "hits", next |-> next, replies |-> replies]
      BY <2>2
    <3>2. known.next = next /\ known.replies = replies
      BY <3>1
    <3>3. known' = [known EXCEPT !.next = next + 1,
                                !.replies = replies \cup ({asked.hits[next]} \ {"fails"})]
      BY <1>6, <3>2 DEF ReadHits
    <3> QED BY <3>1, <3>2, <3>3
  <2>4. /\ known'.step = "hits" /\ known'.next = known.next + 1
        /\ known'.replies = known.replies \cup ({asked.hits[known.next]} \ {"fails"})
    BY <2>3
  <2>5. known' = [step |-> "hits", next |-> known'.next, replies |-> known'.replies]
    BY <2>3, <2>4
  <2>6. known'.replies = {asked.hits[i] : i \in 1..(known'.next - 1)} \ {"fails"}
    <3>1. 1..(known'.next - 1) = 1..(known.next - 1) \cup {known.next}
      BY <2>2, <2>4
    <3> QED BY <3>1, <2>2, <2>4
  <2>7. answer' = {}
    BY <1>6, <1>2, <2>1 DEF ReadHits, HitsInv
  <2> QED
    BY <1>1, <1>3, <1>4, <2>1, <2>2, <2>4, <2>5, <2>6, <2>7 DEF HitsInv
<1>7. CASE CheckUnhit
  <2>1. known.step = "hits" /\ known'.step = "done"
    BY <1>7, <1>2 DEF CheckUnhit, AtStep, Answer, HitsInv
  <2>2. /\ known.next \in Nat /\ known.next >= 1 /\ known.next <= n + 1
        /\ known.replies = {asked.hits[i] : i \in 1..(known.next - 1)} \ {"fails"}
    BY <1>2, <1>4, <2>1 DEF HitsInv
  <2>3. ASSUME answer' # {}, n <= ScopeLimit
        PROVE Unhit(Overlaid(asked.stored, {asked.hits[i] : i \in DOMAIN asked.hits} \ {"fails"}))
    <3>1. known.next = n + 1
      BY <1>7, <1>4, <2>2, <2>3, HygieneAssumption DEF CheckUnhit
    <3>2. 1..(known.next - 1) = DOMAIN asked.hits
      BY <3>1, <1>4
    <3>3. Unhit(Overlaid(asked.stored, known.replies))
      BY <1>7, <2>3 DEF CheckUnhit, Answer
    <3> QED BY <3>2, <3>3, <2>2
  <2> QED
    BY <1>1, <1>3, <1>4, <2>1, <2>3 DEF HitsInv
<1>8. CASE UNCHANGED questionVars
  BY <1>8 DEF HitsInv, questionVars
<1>9. ~CheckRules /\ ~CheckRule /\ ~ExpandGroup /\ ~ReportUnused
  BY <1>5 DEF CheckRules, CheckRule, ExpandGroup, ReportUnused, AtStep
<1> QED
  BY <1>6, <1>7, <1>8, <1>9 DEF HygieneNext

(* Once all devices have been asked, no reply of "some" is overlaid with    *)
(* zero.                                                                    *)
LEMMA HitsMean == HitsInv => UnhitEverywhere
<1> SUFFICES ASSUME HitsInv,
                    "hits" \in DOMAIN asked, known.step = "done", answer # {},
                    Len(asked.hits) <= ScopeLimit,
                    \A i \in DOMAIN asked.hits : asked.hits[i] \in {"zero", "some"},
                    NEW i \in DOMAIN asked.hits
             PROVE  asked.hits[i] = "zero"
  BY DEF UnhitEverywhere, Answered, AtStep
<1> DEFINE replies == {asked.hits[j] : j \in DOMAIN asked.hits} \ {"fails"}
<1>1. Unhit(Overlaid(asked.stored, replies))
  BY DEF HitsInv
<1>2. asked.hits[i] \in replies
  OBVIOUS
<1> HIDE DEF replies
<1>3. "some" \notin replies
  BY <1>1, <1>2 DEF Unhit, Overlaid
<1> QED BY <1>2, <1>3

(* When every device of the scope was asked and has answered for the rule,  *)
(* a rule is reported as unhit only if all of them count zero:              *)
(* UnhitEverywhere.                                                         *)
THEOREM UnhitCorrect == HygieneSpec => []UnhitEverywhere
BY HitsInit, HitsStep, HitsMean, PTL DEF HygieneSpec

-----------------------------------------------------------------------------
(* Hygiene: rules that hide or repeat others *)

(* A chain of groups without repetition is no longer than this.             *)
Depth == Cardinality(DOMAIN Groups) + 1

(* It is a natural.                                                         *)
LEMMA DepthType == Depth \in Nat
BY FS_CardinalityType, HygieneAssumption DEF Depth

(* What a name can resolve to.                                              *)
NetsOf == SUBSET SUBSET Points

(* An object resolves to networks.                                          *)
LEMMA ParsedType ==
  ASSUME NEW n \in DOMAIN Objects PROVE ParsedSubnet(Objects[n]) \in NetsOf
BY HygieneAssumption DEF ParsedSubnet, ReadAs, NetsOf

(* ResolvedAt satisfies the equations it is defined by.                     *)
LEMMA ResolvedAtDef ==
  /\ \A d \in 0..Depth : DOMAIN ResolvedAt[d] = Names
  /\ \A d \in 0..Depth, n \in Names :
       ResolvedAt[d][n] = IF n \in DOMAIN Objects THEN ParsedSubnet(Objects[n])
                          ELSE IF d = 0 THEN {} ELSE GroupNets(ResolvedAt[d - 1], n)
<1> DEFINE V == [Names -> NetsOf]
           base == [n \in Names |-> IF n \in DOMAIN Objects THEN ParsedSubnet(Objects[n]) ELSE {}]
           step == [v \in V |-> [n \in Names |->
                      IF n \in DOMAIN Objects THEN ParsedSubnet(Objects[n]) ELSE GroupNets(v, n)]]
<1>1. base \in V
  BY ParsedType DEF NetsOf
<1>2. ASSUME NEW v \in V, NEW n \in Names PROVE GroupNets(v, n) \in NetsOf
  <2> DEFINE nets == {IF m \in DOMAIN v THEN v[m] ELSE {} : m \in Groups[n]}
  <2>1. \A x \in nets : x \in NetsOf
    BY DEF NetsOf
  <2>2. UNION nets \in NetsOf /\ {} \in NetsOf
    BY <2>1 DEF NetsOf
  <2> QED BY <2>2 DEF GroupNets
<1>3. step \in [V -> V]
  BY <1>2, ParsedType
<1> HIDE DEF V, base, step
<1>4. PICK f : Iterates(f, V, base, step, Depth)
  BY <1>1, <1>3, DepthType, Iteration
<1> USE DEF V, base, step
<1>5. /\ f \in [0..Depth -> V]
      /\ f[0] = base
      /\ \A d \in 1..Depth : f[d] = step[f[d - 1]]
  BY <1>4 DEF Iterates
<1> DEFINE Body(g) ==
  [depth \in 0..Depth |->
    [name \in Names |->
        IF name \in DOMAIN Objects THEN ParsedSubnet(Objects[name])
        ELSE IF depth = 0 THEN {} ELSE GroupNets(g[depth - 1], name)]]
<1>6. f = Body(f)
  <2> SUFFICES ASSUME NEW d \in 0..Depth PROVE f[d] = Body(f)[d]
    <3>1. f = [d \in 0..Depth |-> f[d]]
      BY <1>5
    <3>2. Body(f) = [d \in 0..Depth |-> Body(f)[d]]
      OBVIOUS
    <3> HIDE DEF Body
    <3> QED BY <3>1, <3>2
  <2>1. CASE d = 0
    <3>1. Body(f)[0] = base
      BY DepthType
    <3> QED BY <1>5, <2>1, <3>1
  <2>2. CASE d # 0
    <3>1. d \in 1..Depth /\ d - 1 \in 0..Depth
      BY <2>2, DepthType
    <3>2. f[d - 1] \in V /\ DOMAIN f[d - 1] = Names
      BY <1>5, <3>1
    <3>3. f[d] = step[f[d - 1]]
      BY <1>5, <3>1
    <3>4. f[d] = [n \in Names |->
                    IF n \in DOMAIN Objects THEN ParsedSubnet(Objects[n])
                    ELSE GroupNets(f[d - 1], n)]
      BY <3>2, <3>3
    <3> QED BY <2>2, <3>4
  <2> QED BY <2>1, <2>2
<1> HIDE DEF Body
<1>7. \E g : g = Body(g)
  BY <1>6
<1> USE DEF Body
<1>8. ResolvedAt = Body(ResolvedAt)
  BY <1>7 DEF ResolvedAt, Depth, Names
<1>9. ASSUME NEW d \in 0..Depth, NEW n \in Names
      PROVE  ResolvedAt[d][n] = IF n \in DOMAIN Objects THEN ParsedSubnet(Objects[n])
                                ELSE IF d = 0 THEN {} ELSE GroupNets(ResolvedAt[d - 1], n)
  <2>1. ResolvedAt[d] = Body(ResolvedAt)[d]
    BY <1>8, Zenon
  <2>2. Body(ResolvedAt)[d][n] = IF n \in DOMAIN Objects THEN ParsedSubnet(Objects[n])
                                ELSE IF d = 0 THEN {} ELSE GroupNets(ResolvedAt[d - 1], n)
    OBVIOUS
  <2> HIDE DEF Body
  <2> QED BY <2>1, <2>2
<1>10. ASSUME NEW d \in 0..Depth PROVE DOMAIN ResolvedAt[d] = Names
  <2>1. ResolvedAt[d] = Body(ResolvedAt)[d]
    BY <1>8, Zenon
  <2>2. DOMAIN Body(ResolvedAt)[d] = Names
    OBVIOUS
  <2> HIDE DEF Body
  <2> QED BY <2>1, <2>2
<1> QED BY <1>9, <1>10

(* The leaves of the members of a group.                                    *)
GroupLeaves(v, n) == UNION {IF m \in Names THEN v[m] ELSE {m} : m \in Groups[n]}

(* Closure satisfies the equations it is defined by.                        *)
LEMMA ClosureDef ==
  \A d \in 0..Depth, n \in Names :
     Closure[d][n] = IF d = 0 \/ n \notin DOMAIN Groups THEN {n}
                     ELSE GroupLeaves(Closure[d - 1], n)
<1> DEFINE W == Names \cup UNION {Groups[n] : n \in DOMAIN Groups}
           V == [Names -> SUBSET W]
           base == [n \in Names |-> {n}]
           step == [v \in V |-> [n \in Names |->
                      IF n \notin DOMAIN Groups THEN {n} ELSE GroupLeaves(v, n)]]
<1>1. base \in V
  OBVIOUS
<1>2. ASSUME NEW v \in V, NEW n \in DOMAIN Groups PROVE GroupLeaves(v, n) \in SUBSET W
  <2>1. \A m \in Groups[n] : (IF m \in Names THEN v[m] ELSE {m}) \subseteq W
    OBVIOUS
  <2> HIDE DEF W
  <2> QED BY <2>1 DEF GroupLeaves
<1>3. step \in [V -> V]
  <2> SUFFICES ASSUME NEW v \in V PROVE step[v] \in V
    OBVIOUS
  <2>1. \A n \in Names :
          (IF n \notin DOMAIN Groups THEN {n} ELSE GroupLeaves(v, n)) \in SUBSET W
    BY <1>2
  <2> HIDE DEF W
  <2> QED BY <2>1
<1> HIDE DEF V, base, step
<1>4. PICK f : Iterates(f, V, base, step, Depth)
  BY <1>1, <1>3, DepthType, Iteration
<1>5. /\ f \in [0..Depth -> V]
      /\ f[0] = base
      /\ \A d \in 1..Depth : f[d] = step[f[d - 1]]
  BY <1>4 DEF Iterates
<1> USE DEF V, base, step
<1> DEFINE Body(g) ==
  [d \in 0..Depth |->
    [n \in Names |->
        IF d = 0 \/ n \notin DOMAIN Groups THEN {n}
        ELSE UNION {IF m \in Names THEN g[d - 1][m] ELSE {m} : m \in Groups[n]}]]
<1>6. f = Body(f)
  <2>1. ASSUME NEW d \in 0..Depth PROVE f[d] = Body(f)[d]
    <3>1. CASE d = 0
      <4>1. Body(f)[0] = base
        BY DepthType
      <4> QED BY <1>5, <3>1, <4>1
    <3>2. CASE d # 0
      <4>1. d \in 1..Depth /\ d - 1 \in 0..Depth /\ f[d - 1] \in V
        BY <1>5, <3>2, DepthType
      <4>2. f[d] = [n \in Names |->
                     IF n \notin DOMAIN Groups THEN {n} ELSE GroupLeaves(f[d - 1], n)]
        BY <1>5, <4>1
      <4> QED BY <3>2, <4>2 DEF GroupLeaves
    <3> QED BY <3>1, <3>2
  <2>2. f = [d \in 0..Depth |-> f[d]]
    BY <1>5
  <2>3. Body(f) = [d \in 0..Depth |-> Body(f)[d]]
    OBVIOUS
  <2> HIDE DEF Body
  <2> QED BY <2>1, <2>2, <2>3
<1> HIDE DEF Body
<1>7. \E g : g = Body(g)
  BY <1>6
<1> USE DEF Body
<1>8. Closure = Body(Closure)
  BY <1>7 DEF Closure, Depth
<1> SUFFICES ASSUME NEW d \in 0..Depth, NEW n \in Names
             PROVE  Closure[d][n] = IF d = 0 \/ n \notin DOMAIN Groups THEN {n}
                                    ELSE GroupLeaves(Closure[d - 1], n)
  OBVIOUS
<1>9. Closure[d] = Body(Closure)[d]
  BY <1>8, Zenon
<1>10. Body(Closure)[d][n] = IF d = 0 \/ n \notin DOMAIN Groups THEN {n}
                             ELSE GroupLeaves(Closure[d - 1], n)
  BY DEF GroupLeaves
<1> HIDE DEF Body
<1> QED BY <1>9, <1>10

(* n is a largest prefix inside points that has p.                          *)
LargestAt(n, p, points) ==
    /\ p \in n /\ n \subseteq points
    /\ \A m \in Cidrs : (m \subseteq points /\ n \subseteq m) => n = m

(* Every point of a range is in a largest prefix of it, so that a range is  *)
(* the union of its maximal prefixes (summarize_address_range).             *)
LEMMA MaximalPrefixes ==
  ASSUME NEW points \in SUBSET Points, NEW p \in points
  PROVE  \E n \in Cidrs : LargestAt(n, p, points)
<1> USE HygieneAssumption
<1>1. p \in Nat /\ p \in Points
  OBVIOUS
<1>2. CASE points = Points
  <2>1. Points \in Cidrs
    BY DEF Cidrs
  <2>2. LargestAt(Points, p, points)
    BY <1>2 DEF LargestAt
  <2> QED BY <2>1, <2>2
<1>3. CASE /\ points # Points
           /\ \E k \in Points : k % 2 = 0 /\ p \in {k, k + 1} /\ {k, k + 1} \subseteq points
  <2>1. PICK k \in Points : k % 2 = 0 /\ p \in {k, k + 1} /\ {k, k + 1} \subseteq points
    BY <1>3
  <2>2. {k, k + 1} \in Cidrs
    BY <2>1 DEF Cidrs
  <2>3. ASSUME NEW m \in Cidrs, m \subseteq points, {k, k + 1} \subseteq m
        PROVE  {k, k + 1} = m
    <3>1. k \in Nat
      OBVIOUS
    <3>2. m # Points
      BY <1>3, <2>3
    <3>3. ASSUME NEW q \in Points, m = {q} PROVE FALSE
      BY <3>3, <2>3, <3>1
    <3>4. ASSUME NEW q \in Points, q % 2 = 0, m = {q, q + 1} PROVE {k, k + 1} = m
      <4>1. q \in Nat
        OBVIOUS
      <4>2. k = q \/ k = q + 1
        BY <3>4, <2>3
      <4>3. k # q + 1
        BY <3>4, <2>1, <4>1
      <4> QED BY <4>2, <4>3, <3>4
    <3> QED BY <3>2, <3>3, <3>4 DEF Cidrs
  <2>4. LargestAt({k, k + 1}, p, points)
    BY <2>1, <2>3 DEF LargestAt
  <2> QED BY <2>2, <2>4
<1>4. CASE /\ points # Points
           /\ ~\E k \in Points : k % 2 = 0 /\ p \in {k, k + 1} /\ {k, k + 1} \subseteq points
  <2>1. {p} \in Cidrs
    BY <1>1 DEF Cidrs
  <2>2. ASSUME NEW m \in Cidrs, m \subseteq points, p \in m PROVE {p} = m
    <3>1. m # Points
      BY <1>4, <2>2
    <3>2. ASSUME NEW q \in Points, m = {q} PROVE {p} = m
      BY <3>2, <2>2
    <3>3. ASSUME NEW q \in Points, q % 2 = 0, m = {q, q + 1} PROVE FALSE
      BY <3>3, <2>2, <1>4
    <3> QED BY <3>1, <3>2, <3>3 DEF Cidrs
  <2>3. LargestAt({p}, p, points)
    BY <2>2 DEF LargestAt
  <2> QED BY <2>1, <2>3
<1> QED BY <1>2, <1>3, <1>4

(* An object that is parsed, and not misread, has exactly the addresses     *)
(* that it has on the firewall.                                             *)
LEMMA ParsedExact ==
  ASSUME NEW n \in DOMAIN Objects, ParsedSubnet(Objects[n]) # {}, ~Misread(n)
  PROVE  UNION ParsedSubnet(Objects[n]) = Objects[n].points /\ ~Opaque(n)
<1> USE HygieneAssumption
<1> DEFINE points == Objects[n].points
<1>1. CASE Objects[n].kind = "ipmask"
  BY <1>1 DEF ParsedSubnet, Opaque
<1>2. CASE Objects[n].kind = "iprange"
  <2>1. ParsedSubnet(Objects[n]) =
          {k \in {j \in Cidrs : j \subseteq points} :
             \A m \in {j \in Cidrs : j \subseteq points} : k \subseteq m => k = m}
    BY <1>2 DEF ParsedSubnet
  <2>2. UNION ParsedSubnet(Objects[n]) \subseteq points
    BY <2>1
  <2>3. ASSUME NEW p \in points PROVE p \in UNION ParsedSubnet(Objects[n])
    <3>1. points \in SUBSET Points
      OBVIOUS
    <3> HIDE DEF points
    <3>2. PICK k \in Cidrs : LargestAt(k, p, points)
      BY <2>3, <3>1, MaximalPrefixes
    <3>3. k \in ParsedSubnet(Objects[n])
      BY <2>1, <3>2 DEF LargestAt
    <3> QED BY <3>2, <3>3 DEF LargestAt
  <2> QED BY <1>2, <2>2, <2>3 DEF Opaque
<1>3. CASE Objects[n].kind = "fqdn"
  BY <1>3 DEF ParsedSubnet
<1> QED BY <1>1, <1>2, <1>3 DEF Misread

(* What the leaves of a name stand for together.                            *)
LeavesMean(leaves, elsewhere) == UNION {LeafMeaning(l, elsewhere) : l \in leaves}

(* None of them is misread.                                                 *)
AllRead(leaves) == \A l \in leaves : ~Misread(l)

(* What is resolved, and not misread, is what it stands for.                *)
Agree(r, c, elsewhere) ==
    \A m \in Names :
        r[m] # {} /\ AllRead(c[m]) => UNION r[m] = LeavesMean(c[m], elsewhere)

(* So it is for an object,                                                  *)
LEMMA ObjectExact ==
  ASSUME NEW n \in DOMAIN Objects, ParsedSubnet(Objects[n]) # {}, ~Misread(n),
         NEW elsewhere
  PROVE  UNION ParsedSubnet(Objects[n]) = LeavesMean({n}, elsewhere)
<1>1. LeafMeaning(n, elsewhere) = Objects[n].points
  BY ParsedExact, HygieneAssumption DEF LeafMeaning
<1> QED BY <1>1, ParsedExact DEF LeavesMean

(* for a group whose members are,                                           *)
LEMMA GroupExact ==
  ASSUME NEW r, NEW c, NEW n \in DOMAIN Groups, NEW elsewhere, DOMAIN r = Names,
         GroupNets(r, n) # {}, AllRead(GroupLeaves(c, n)), Agree(r, c, elsewhere)
  PROVE  UNION GroupNets(r, n) = LeavesMean(GroupLeaves(c, n), elsewhere)
<1> DEFINE nets == {IF m \in DOMAIN r THEN r[m] ELSE {} : m \in Groups[n]}
<1>1. {} \notin nets /\ GroupNets(r, n) = UNION nets
  BY DEF GroupNets
<1>2. ASSUME NEW m \in Groups[n] PROVE m \in Names /\ r[m] # {} /\ r[m] \in nets
  BY <1>1
<1>3. \A s \in nets : \E m \in Groups[n] : s = r[m]
  BY <1>2
<1>6. ASSUME NEW m \in Groups[n] PROVE AllRead(c[m])
  BY <1>2 DEF GroupLeaves, AllRead
<1> HIDE DEF nets
<1>4. ASSUME NEW p \in UNION GroupNets(r, n) PROVE p \in LeavesMean(GroupLeaves(c, n), elsewhere)
  <2>1. PICK m \in Groups[n] : p \in UNION r[m]
    BY <1>1, <1>3
  <2>2. p \in LeavesMean(c[m], elsewhere)
    BY <1>2, <1>6, <2>1 DEF Agree
  <2>3. c[m] \subseteq GroupLeaves(c, n)
    BY <1>2 DEF GroupLeaves
  <2> QED BY <2>2, <2>3 DEF LeavesMean
<1>5. ASSUME NEW p \in LeavesMean(GroupLeaves(c, n), elsewhere) PROVE p \in UNION GroupNets(r, n)
  <2>1. PICK l \in GroupLeaves(c, n) : p \in LeafMeaning(l, elsewhere)
    BY DEF LeavesMean
  <2>2. PICK m \in Groups[n] : l \in c[m]
    BY <1>2 DEF GroupLeaves
  <2>3. p \in UNION r[m]
    BY <1>2, <1>6, <2>1, <2>2 DEF LeavesMean, Agree
  <2> QED BY <1>1, <1>2, <2>3
<1> QED BY <1>4, <1>5

(* and so for every name: build_addr_resolver resolves a name to exactly    *)
(* its addresses, or not at all. By induction on the depth of the groups.   *)
LEMMA ResolvedExact ==
  ASSUME NEW elsewhere, NEW name \in Names, AddrResolver[name] # {},
         AllRead(LeafMembers(name))
  PROVE  UNION AddrResolver[name] = LeavesMean(LeafMembers(name), elsewhere)
<1> DEFINE S == {d \in Nat : d <= Depth => Agree(ResolvedAt[d], Closure[d], elsewhere)}
<1>1. \A n \in Names : n \notin DOMAIN Objects => n \in DOMAIN Groups
  BY DEF Names
<1>2. 0 \in S
  <2>1. 0 \in 0..Depth
    BY DepthType
  <2>2. ASSUME NEW n \in Names, ResolvedAt[0][n] # {}, AllRead(Closure[0][n])
        PROVE  UNION ResolvedAt[0][n] = LeavesMean(Closure[0][n], elsewhere)
    <3>1. n \in DOMAIN Objects /\ ResolvedAt[0][n] = ParsedSubnet(Objects[n])
      BY <2>1, <2>2, ResolvedAtDef
    <3>2. Closure[0][n] = {n}
      BY <2>1, ClosureDef
    <3> QED BY <2>2, <3>1, <3>2, ObjectExact DEF AllRead
  <2> QED BY <2>2 DEF Agree
<1>3. ASSUME NEW d \in S \cap Nat PROVE d + 1 \in S
  <2>1. d \in Nat /\ (d <= Depth => Agree(ResolvedAt[d], Closure[d], elsewhere))
    <3> HIDE DEF S
    <3>1. d \in S /\ d \in Nat
      OBVIOUS
    <3> QED BY <3>1 DEF S
  <2> HIDE DEF S
  <2> SUFFICES ASSUME d + 1 <= Depth
               PROVE  Agree(ResolvedAt[d + 1], Closure[d + 1], elsewhere)
    BY <2>1 DEF S
  <2> SUFFICES ASSUME NEW n \in Names, ResolvedAt[d + 1][n] # {}, AllRead(Closure[d + 1][n])
               PROVE  UNION ResolvedAt[d + 1][n] = LeavesMean(Closure[d + 1][n], elsewhere)
    BY DEF Agree
  <2>2. /\ d \in 0..Depth /\ d + 1 \in 0..Depth /\ (d + 1) - 1 = d /\ d + 1 # 0
        /\ Agree(ResolvedAt[d], Closure[d], elsewhere)
    BY DepthType, <2>1
  <2>3. CASE n \in DOMAIN Objects
    <3>1. ResolvedAt[d + 1][n] = ParsedSubnet(Objects[n])
      BY <2>2, <2>3, ResolvedAtDef
    <3>2. Closure[d + 1][n] = {n}
      BY <2>2, <2>3, ClosureDef, HygieneAssumption
    <3> QED BY <2>3, <3>1, <3>2, ObjectExact DEF AllRead
  <2>4. CASE n \notin DOMAIN Objects
    <3>1. n \in DOMAIN Groups
      BY <1>1, <2>4
    <3>2. ResolvedAt[d + 1][n] = GroupNets(ResolvedAt[d], n) /\ DOMAIN ResolvedAt[d] = Names
      BY <2>2, <2>4, ResolvedAtDef
    <3>3. Closure[d + 1][n] = GroupLeaves(Closure[d], n)
      BY <2>2, <3>1, ClosureDef
    <3> QED BY <2>2, <3>1, <3>2, <3>3, GroupExact
  <2> QED BY <2>3, <2>4
<1> HIDE DEF S
<1>4. Depth \in S
  BY <1>2, <1>3, DepthType, Induction
<1>5. Agree(ResolvedAt[Depth], Closure[Depth], elsewhere)
  BY <1>4, DepthType DEF S
<1> QED BY <1>5 DEF AddrResolver, LeafMembers, Depth, Agree

(* The meaning of a set of names is that of its members.                    *)
LEMMA MeaningMember ==
  ASSUME NEW names, NEW elsewhere, NEW p
  PROVE  p \in Meaning(names, elsewhere)
            <=> \E m \in names : p \in LeavesMean(LeafMembers(m), elsewhere)
BY DEF Meaning, LeavesMean

(* It is a set of addresses.                                                *)
LEMMA MeaningBound ==
  ASSUME NEW names, NEW elsewhere \in SUBSET Points
  PROVE  Meaning(names, elsewhere) \subseteq Points
<1>1. \A n : LeafMeaning(n, elsewhere) \subseteq Points
  BY HygieneAssumption DEF LeafMeaning
<1> QED BY <1>1 DEF Meaning

(* "all" stands for all of them.                                            *)
LEMMA MeaningAll ==
  ASSUME NEW names, "all" \in names, NEW elsewhere
  PROVE  Points \subseteq Meaning(names, elsewhere)
<1>1. LeafMembers("all") = {"all"}
  <2>1. Depth \in 0..Depth
    BY DepthType
  <2>2. CASE "all" \in Names
    BY <2>1, <2>2, ClosureDef, HygieneAssumption DEF LeafMembers, Depth
  <2>3. CASE "all" \notin Names
    BY <2>3 DEF LeafMembers
  <2> QED BY <2>2, <2>3
<1>2. LeafMeaning("all", elsewhere) = Points
  BY DEF LeafMeaning
<1> QED BY <1>1, <1>2, MeaningMember DEF LeavesMean

(* The same for a name that may be in no table.                             *)
LEMMA ResolveExact ==
  ASSUME NEW name, Resolve(name) # {}, AllRead(LeafMembers(name)), NEW elsewhere
  PROVE  UNION Resolve(name) = LeavesMean(LeafMembers(name), elsewhere)
<1>1. DOMAIN AddrResolver = Names
  <2>1. Depth \in 0..Depth
    BY DepthType
  <2> QED BY <2>1, ResolvedAtDef DEF AddrResolver, Depth
<1>2. name \in Names /\ Resolve(name) = AddrResolver[name]
  BY <1>1 DEF Resolve
<1> QED BY <1>2, ResolvedExact

(* _covers is sound: what as covers, as means, whatever the names that are  *)
(* not resolved stand for today, if no object is misread.                   *)
LEMMA CoversMeans ==
  ASSUME NEW as, NEW bs, NEW resolver, Covers(as, bs, resolver),
         WellRead(as), WellRead(bs),
         NEW elsewhere \in SUBSET Points
  PROVE  Meaning(bs, elsewhere) \subseteq Meaning(as, elsewhere)
<1>1. CASE bs \subseteq as
  BY <1>1, MeaningMember
<1>2. CASE "all" \in as
  BY <1>2, MeaningAll, MeaningBound
<1>3. CASE /\ \A name \in as \cup bs : Resolve(name) # {}
           /\ \A n \in UNION {Resolve(b) : b \in bs} :
                 \E m \in UNION {Resolve(a) : a \in as} : n \subseteq m
  <2> SUFFICES ASSUME NEW p \in Meaning(bs, elsewhere) PROVE p \in Meaning(as, elsewhere)
    OBVIOUS
  <2>1. PICK b \in bs : p \in LeavesMean(LeafMembers(b), elsewhere)
    BY MeaningMember
  <2>2. p \in UNION Resolve(b)
    <3>1. Resolve(b) # {}
      BY <1>3
    <3>2. UNION Resolve(b) = LeavesMean(LeafMembers(b), elsewhere)
      BY <3>1, ResolveExact DEF WellRead, AllRead
    <3> QED BY <2>1, <3>2
  <2>3. PICK n \in Resolve(b) : p \in n
    BY <2>2
  <2>4. n \in UNION {Resolve(x) : x \in bs}
    BY <2>3
  <2>5. PICK m \in UNION {Resolve(x) : x \in as} : n \subseteq m
    BY <1>3, <2>4
  <2>6. PICK a \in as : m \in Resolve(a)
    BY <2>5
  <2>7. p \in UNION Resolve(a)
    BY <2>3, <2>5, <2>6
  <2>8. p \in LeavesMean(LeafMembers(a), elsewhere)
    <3>1. Resolve(a) # {}
      BY <1>3
    <3>2. UNION Resolve(a) = LeavesMean(LeafMembers(a), elsewhere)
      BY <3>1, ResolveExact DEF WellRead, AllRead
    <3> QED BY <2>7, <3>2
  <2> QED BY <2>8, MeaningMember
<1>4. CASE bs = {}
  BY <1>4, <1>1
<1> QED BY <1>1, <1>2, <1>3, <1>4 DEF Covers

(* A connection that hits a rule of a plain package hits an earlier one     *)
(* that covers it.                                                          *)
LEMMA CoveringHits ==
  ASSUME NEW rules, Plain(rules), NEW i \in Live(rules), NEW j \in Live(rules), i < j,
         NEW resolver, NEW elsewhere \in SUBSET Points, NEW c,
         CoversRule(rules[i], rules[j], resolver),
         rules[i].identity = rules[j].identity,
         j \in Hits(rules, Means(rules, Live(rules), elsewhere), Live(rules), c)
  PROVE  i \in Hits(rules, Means(rules, Live(rules), elsewhere), Live(rules), c)
<1> DEFINE means == Means(rules, Live(rules), elsewhere)
           dims == {"src", "dst", "svc"}
<1>1. ASSUME NEW k \in Live(rules), NEW d \in dims
      PROVE  /\ means[k][d] = Meaning(rules[k][d], elsewhere)
             /\ rules[k].negated = {} /\ WellRead(rules[k][d])
  <2>1. rules[k][d] # {} /\ rules[k].negated = {} /\ WellRead(rules[k][d])
    BY DEF Plain
  <2>2. means[k][d] = FieldMeaning(rules[k][d], elsewhere)
    BY DEF Means
  <2> QED BY <2>1, <2>2 DEF FieldMeaning
<1>2. ASSUME NEW d \in dims
      PROVE  Meaning(rules[j][d], elsewhere) \subseteq Meaning(rules[i][d], elsewhere)
  <2>1. Covers(rules[i][d], rules[j][d], resolver)
    BY DEF CoversRule
  <2> QED BY <1>1, <2>1, CoversMeans
<1>3. NoNarrower(rules[i], rules[j])
  BY DEF Plain
<1> HIDE DEF means
<1>4. /\ \A d \in dims : c[d] \in means[j][d]
      /\ rules[j].identity = {} \/ c.user \in rules[j].identity
      /\ rules[j].intf \cap {"any", c.intf} # {}
      /\ rules[j].schedule \in {"always", c.time}
  <2>1. j \in Hits(rules, means, Live(rules), c)
    BY DEF means
  <2> QED BY <1>1, <2>1 DEF Hits
<1>5. \A d \in dims : c[d] \in means[i][d] /\ d \notin rules[i].negated
  BY <1>1, <1>2, <1>4
<1>6. /\ rules[i].intf \cap {"any", c.intf} # {}
      /\ rules[i].schedule \in {"always", c.time}
  <2>1. CASE "any" \in rules[i].intf
    BY <1>3, <1>4, <2>1 DEF NoNarrower
  <2>2. CASE rules[j].intf \subseteq rules[i].intf
    BY <1>3, <1>4, <2>2 DEF NoNarrower
  <2> QED BY <1>3, <2>1, <2>2 DEF NoNarrower
<1>7. i \in Hits(rules, means, Live(rules), c)
  BY <1>4, <1>5, <1>6 DEF Hits
<1> QED BY <1>7 DEF means

(* The first rule that a connection hits is never reported, for the rule    *)
(* that covers it would be an earlier one that is hit: the decision is the  *)
(* same without the rules that are.                                         *)
LEMMA CleanupKeepsDecision ==
  ASSUME NEW rules \in Packages, Plain(rules), NEW resolver,
         NEW elsewhere \in SUBSET Points, NEW c
  PROVE  LET live == Live(rules)
             keep == live \ {f[2] : f \in PairFindings(rules, resolver)}
             means == Means(rules, live, elsewhere)
         IN  Decision(rules, means, keep, c) = Decision(rules, means, live, c)
<1> DEFINE live == Live(rules)
           keep == live \ {f[2] : f \in PairFindings(rules, resolver)}
           means == Means(rules, live, elsewhere)
           all == Hits(rules, means, live, c)
           kept == Hits(rules, means, keep, c)
<1>1. kept \subseteq all /\ all \subseteq live /\ kept = all \cap keep
  BY DEF Hits
<1>2. live \subseteq Nat
  BY HygieneAssumption DEF Live
<1>3. CASE all = {}
  BY <1>1, <1>3 DEF Decision, Hits
<1>4. CASE all # {}
  <2>1. PICK j \in all : \A k \in all : j <= k
    BY <1>1, <1>2, <1>4, LeastNatural
  <2>2. \A i \in live : i < j => i \notin all
    BY <1>1, <1>2, <2>1
  <2>3. ASSUME j \in {f[2] : f \in PairFindings(rules, resolver)} PROVE FALSE
    <3>1. Shadowed(rules, j, resolver) \/ Redundant(rules, j, resolver)
      <4>1. PICK f \in PairFindings(rules, resolver) : f[2] = j
        BY <2>3
      <4>2. ASSUME NEW k, f = <<"shadow", k>>, Shadowed(rules, k, resolver)
            PROVE  Shadowed(rules, j, resolver)
        BY <4>1, <4>2
      <4>3. ASSUME NEW k, f = <<"redundant", k>>, Redundant(rules, k, resolver)
            PROVE  Redundant(rules, j, resolver)
        BY <4>1, <4>3
      <4>4. \/ \E k : f = <<"shadow", k>> /\ Shadowed(rules, k, resolver)
            \/ \E k : f = <<"redundant", k>> /\ Redundant(rules, k, resolver)
        BY <4>1 DEF PairFindings
      <4> QED BY <4>2, <4>3, <4>4
    <3>2. PICK i \in Live(rules) : /\ i < j /\ CoversRule(rules[i], rules[j], resolver)
                                   /\ rules[i].identity = rules[j].identity
      BY <3>1, Zenon DEF Shadowed, Redundant
    <3>3. i \in all
      BY <1>1, <2>1, <3>2, CoveringHits
    <3> QED BY <2>2, <3>2, <3>3
  <2>4. j \in kept
    BY <1>1, <2>1, <2>3
  <2> DEFINE first(S) == CHOOSE k \in S : \A l \in S : k <= l
  <2> HIDE DEF all, kept
  <2>5. first(all) = j
    BY <1>1, <1>2, <2>1
  <2>6. first(kept) = j
    BY <1>1, <1>2, <2>1, <2>4
  <2>7. Decision(rules, means, live, c) = rules[j].action
    BY <1>4, <2>5 DEF Decision, all, Hits
  <2>8. Decision(rules, means, keep, c) = rules[j].action
    BY <2>4, <2>6 DEF Decision, kept, Hits
  <2> QED BY <2>7, <2>8
<1> QED BY <1>3, <1>4

(* The inductive invariant of a question about two rules.                   *)
RulesInv ==
    "rules" \in DOMAIN asked =>
        /\ asked.rules \in Packages
        /\ known.step \in {"rules", "done"}
        /\ known.step = "done" => answer = PairFindings(asked.rules, asked.resolver)

(* It holds at first.                                                       *)
LEMMA RulesInit == HygieneInit => RulesInv
<1> SUFFICES ASSUME HygieneInit, "rules" \in DOMAIN asked PROVE RulesInv
  BY DEF RulesInv
<1>1. ~AskRule
  <2> SUFFICES ASSUME NEW r, asked = [part |-> "hygiene", rule |-> r] PROVE FALSE
    BY DEF AskRule
  <2>1. DOMAIN asked = {"part", "rule"}
    OBVIOUS
  <2> QED BY <2>1
<1>2. ~AskUnhit
  <2> SUFFICES ASSUME NEW stored, NEW hits,
                      asked = [part |-> "hygiene", stored |-> stored, hits |-> hits]
               PROVE  FALSE
    BY DEF AskUnhit
  <2>1. DOMAIN asked = {"part", "stored", "hits"}
    OBVIOUS
  <2> QED BY <2>1
<1>3. ~AskUnused
  <2> SUFFICES ASSUME NEW groups, NEW refs,
                      asked = [part |-> "hygiene", groups |-> groups, refs |-> refs]
               PROVE  FALSE
    BY DEF AskUnused
  <2>1. DOMAIN asked = {"part", "groups", "refs"}
    OBVIOUS
  <2> QED BY <2>1
<1>4. PICK rules \in Packages, resolver \in BOOLEAN :
        /\ asked = [part |-> "hygiene", rules |-> rules, resolver |-> resolver]
        /\ known = [step |-> "rules"]
  BY <1>1, <1>2, <1>3 DEF HygieneInit, AskRules
<1> QED BY <1>4 DEF RulesInv

(* Every step keeps it.                                                     *)
LEMMA RulesStep == RulesInv /\ [HygieneNext]_questionVars => RulesInv'
<1> SUFFICES ASSUME RulesInv, [HygieneNext]_questionVars, "rules" \in DOMAIN asked'
             PROVE RulesInv'
  BY DEF RulesInv
<1>1. asked' = asked
  BY DEF HygieneNext, CheckRules, CheckRule, ReadHits, CheckUnhit, ExpandGroup,
         ReportUnused, Answer, questionVars
<1>2. "rules" \in DOMAIN asked /\ known.step \in {"rules", "done"}
  BY <1>1 DEF RulesInv
<1>3. CASE CheckRules
  <2>1. known'.step = "done"
    BY <1>3 DEF CheckRules, Answer
  <2> QED BY <1>1, <1>2, <1>3 DEF CheckRules, Answer, RulesInv
<1>4. CASE UNCHANGED questionVars
  BY <1>4 DEF RulesInv, questionVars
<1>5. ~CheckRule /\ ~ReadHits /\ ~CheckUnhit /\ ~ExpandGroup /\ ~ReportUnused
  BY <1>2 DEF CheckRule, ReadHits, CheckUnhit, ExpandGroup, ReportUnused, AtStep
<1> QED BY <1>3, <1>4, <1>5 DEF HygieneNext

(* It implies the property.                                                 *)
LEMMA RulesMean == RulesInv => CleanupIsSafe
<1> SUFFICES ASSUME RulesInv, "rules" \in DOMAIN asked, known.step = "done",
                    Plain(asked.rules), NEW elsewhere \in {{}, {0}, Points}, NEW c \in Connections
             PROVE  LET rules == asked.rules
                        live == Live(rules)
                        keep == live \ {f[2] : f \in answer}
                        means == Means(rules, live, elsewhere)
                    IN  Decision(rules, means, keep, c) = Decision(rules, means, live, c)
  BY DEF CleanupIsSafe, Answered, AtStep
<1>1. asked.rules \in Packages /\ answer = PairFindings(asked.rules, asked.resolver)
  BY DEF RulesInv
<1>2. elsewhere \in SUBSET Points
  BY HygieneAssumption
<1> QED BY <1>1, <1>2, CleanupKeepsDecision

(* Deleting every rule of a plain package that is reported as shadowed or   *)
(* as redundant changes the decision on no connection: CleanupIsSafe.       *)
THEOREM CleanupCorrect == HygieneSpec => []CleanupIsSafe
BY RulesInit, RulesStep, RulesMean, PTL DEF HygieneSpec

-----------------------------------------------------------------------------
(* Hygiene: unused objects *)

(* What is used through groups has the members of its groups.               *)
LEMMA UsedClosed ==
  ASSUME NEW groups, IsFiniteSet(DOMAIN groups), NEW refs
  PROVE  /\ refs \subseteq UsedThrough(groups, refs)
         /\ \A g \in UsedThrough(groups, refs) \cap DOMAIN groups :
               RangeOf(groups[g]) \subseteq UsedThrough(groups, refs)
<1> DEFINE next == [g \in DOMAIN groups |-> RangeOf(groups[g])]
<1>1. /\ DOMAIN next = DOMAIN groups
      /\ \A g \in DOMAIN groups : next[g] = RangeOf(groups[g])
      /\ UsedThrough(groups, refs) = Reach(refs, next)
  BY DEF UsedThrough
<1> HIDE DEF next
<1> QED BY <1>1, ReachIsClosed

(* The inductive invariant of a question about unused objects: what is      *)
(* marked, and what is still to be expanded, is used.                       *)
UnusedInv ==
    "groups" \in DOMAIN asked =>
        /\ asked.groups \in GroupTables
        /\ \/ /\ known.step = "expand"
              /\ known = [step |-> "expand", visited |-> known.visited, queue |-> known.queue]
              /\ known.visited \subseteq UsedThrough(asked.groups, asked.refs)
              /\ known.queue \in Seq(UsedThrough(asked.groups, asked.refs)
                                         \cap DOMAIN asked.groups)
           \/ /\ known.step = "done"
              /\ (Catalog \cup DOMAIN asked.groups)
                    \ (BuiltIns \cup UsedThrough(asked.groups, asked.refs)) \subseteq answer

(* It holds at first.                                                       *)
LEMMA UnusedInit == HygieneInit => UnusedInv
<1> SUFFICES ASSUME HygieneInit, "groups" \in DOMAIN asked PROVE UnusedInv
  BY DEF UnusedInv
<1>1. ~AskRule
  <2> SUFFICES ASSUME NEW r, asked = [part |-> "hygiene", rule |-> r] PROVE FALSE
    BY DEF AskRule
  <2>1. DOMAIN asked = {"part", "rule"}
    OBVIOUS
  <2> QED BY <2>1
<1>2. ~AskUnhit
  <2> SUFFICES ASSUME NEW stored, NEW hits,
                      asked = [part |-> "hygiene", stored |-> stored, hits |-> hits]
               PROVE  FALSE
    BY DEF AskUnhit
  <2>1. DOMAIN asked = {"part", "stored", "hits"}
    OBVIOUS
  <2> QED BY <2>1
<1>3. ~AskRules
  <2> SUFFICES ASSUME NEW rules, NEW resolver,
                      asked = [part |-> "hygiene", rules |-> rules, resolver |-> resolver]
               PROVE  FALSE
    BY DEF AskRules
  <2>1. DOMAIN asked = {"part", "rules", "resolver"}
    OBVIOUS
  <2> QED BY <2>1
<1>4. PICK groups \in GroupTables, refs \in SUBSET Catalog :
        \E queue \in Orders(refs \cap DOMAIN groups) :
            /\ asked = [part |-> "hygiene", groups |-> groups, refs |-> refs]
            /\ known = [step |-> "expand", visited |-> {}, queue |-> queue]
  BY <1>1, <1>2, <1>3 DEF HygieneInit, AskUnused
<1>5. PICK queue \in Orders(refs \cap DOMAIN groups) :
        /\ asked = [part |-> "hygiene", groups |-> groups, refs |-> refs]
        /\ known = [step |-> "expand", visited |-> {}, queue |-> queue]
  BY <1>4
<1>6. asked.groups = groups /\ asked.refs = refs
  BY <1>5
<1>7. IsFiniteSet(DOMAIN groups)
  BY HygieneAssumption
<1>8. queue \in Seq(refs \cap DOMAIN groups)
  <2> DEFINE G == refs \cap DOMAIN groups
  <2>1. G \subseteq DOMAIN groups
    OBVIOUS
  <2>2. Cardinality(G) \in Nat
    BY <1>7, <2>1, FS_Subset, FS_CardinalityType
  <2>3. queue \in [1..Cardinality(G) -> G]
    BY DEF Orders
  <2> HIDE DEF G
  <2>4. queue \in Seq(G)
    BY <2>2, <2>3
  <2> QED BY <2>4 DEF G
<1>9. queue \in Seq(UsedThrough(groups, refs) \cap DOMAIN groups)
  BY <1>7, <1>8, UsedClosed
<1>10. known.step = "expand" /\ known.visited = {} /\ known.queue = queue
  BY <1>5
<1> QED BY <1>5, <1>6, <1>9, <1>10 DEF UnusedInv

(* Every step keeps it: the members of a used group are used.               *)
LEMMA UnusedStep == UnusedInv /\ [HygieneNext]_questionVars => UnusedInv'
<1> SUFFICES ASSUME UnusedInv, [HygieneNext]_questionVars, "groups" \in DOMAIN asked'
             PROVE UnusedInv'
  BY DEF UnusedInv
<1>1. asked' = asked
  BY DEF HygieneNext, CheckRules, CheckRule, ReadHits, CheckUnhit, ExpandGroup,
         ReportUnused, Answer, questionVars
<1>2. /\ "groups" \in DOMAIN asked /\ known.step \in {"expand", "done"}
      /\ asked.groups \in GroupTables
  BY <1>1 DEF UnusedInv
<1> DEFINE groups == asked.groups
           U == UsedThrough(asked.groups, asked.refs)
<1>3. /\ IsFiniteSet(DOMAIN groups)
      /\ \A g \in DOMAIN groups : groups[g] \in Seq(STRING)
      /\ \A g \in U \cap DOMAIN groups : RangeOf(groups[g]) \subseteq U
  BY <1>2, HygieneAssumption, UsedClosed
<1>4. CASE ExpandGroup
  <2>1. /\ known.step = "expand"
        /\ known.visited \subseteq U /\ known.queue \in Seq(U \cap DOMAIN groups)
        /\ known.queue # << >>
    BY <1>1, <1>2, <1>4 DEF ExpandGroup, AtStep, UnusedInv
  <2>2. PICK visited, queue :
          /\ known = [step |-> "expand", visited |-> visited, queue |-> queue]
          /\ visited = known.visited /\ queue = known.queue
    BY <1>1, <1>2, <2>1 DEF UnusedInv
  <2> DEFINE name == queue[Len(queue)]
             rest == SubSeq(queue, 1, Len(queue) - 1)
             members == groups[name]
             more == OnlyIn(members, DOMAIN groups)
  <2>3. name \in U \cap DOMAIN groups
    BY <2>1, <2>2
  <2>4. rest \in Seq(U \cap DOMAIN groups)
    BY <2>1, <2>2
  <2>5. members \in Seq(STRING) /\ RangeOf(members) \subseteq U
    BY <1>3, <2>3
  <2>6. more \in Seq(U \cap DOMAIN groups)
    <3>1. more \in Seq({members[i] : i \in DOMAIN members} \cap DOMAIN groups)
      BY <2>5, OnlyInFacts
    <3>2. {members[i] : i \in DOMAIN members} \cap DOMAIN groups \subseteq U \cap DOMAIN groups
      BY <2>5 DEF RangeOf
    <3> HIDE DEF more, members, U
    <3> QED BY <3>1, <3>2
  <2>7. rest \o more \in Seq(U \cap DOMAIN groups)
    <3> HIDE DEF rest, more, U
    <3> QED BY <2>4, <2>6
  <2>8. known' = IF name \in visited
                 THEN [known EXCEPT !.queue = rest]
                 ELSE [known EXCEPT !.visited = visited \cup {name} \cup RangeOf(members),
                                   !.queue = rest \o more]
    BY <1>4, <2>2 DEF ExpandGroup
  <2> HIDE DEF name, rest, members, more, U
  <2>9. CASE name \in visited
    <3>1. known' = [step |-> "expand", visited |-> visited, queue |-> rest]
      BY <2>2, <2>8, <2>9
    <3>2. known'.step = "expand" /\ known'.visited = visited /\ known'.queue = rest
      BY <3>1
    <3> QED BY <1>1, <1>2, <2>1, <2>2, <2>4, <3>1, <3>2 DEF UnusedInv, U
  <2>10. CASE name \notin visited
    <3>1. known' = [step |-> "expand", visited |-> visited \cup {name} \cup RangeOf(members),
                    queue |-> rest \o more]
      BY <2>2, <2>8, <2>10
    <3>2. /\ known'.step = "expand"
          /\ known'.visited = visited \cup {name} \cup RangeOf(members)
          /\ known'.queue = rest \o more
      BY <3>1
    <3>3. visited \cup {name} \cup RangeOf(members) \subseteq U
      BY <2>1, <2>2, <2>3, <2>5
    <3> QED BY <1>1, <1>2, <2>7, <3>1, <3>2, <3>3 DEF UnusedInv, U
  <2> QED BY <2>9, <2>10
<1>5. CASE ReportUnused
  <2>1. known.step = "expand" /\ known.visited \subseteq U
    BY <1>1, <1>2, <1>5 DEF ReportUnused, AtStep, UnusedInv
  <2>2. /\ known'.step = "done"
        /\ answer' = (Catalog \cup DOMAIN groups)
                        \ (BuiltIns \cup asked.refs \cup known.visited)
    BY <1>5, <2>1 DEF ReportUnused, Answer, UnusedInv
  <2>3. asked.refs \subseteq U
    BY <1>3, UsedClosed
  <2> HIDE DEF U
  <2>4. (Catalog \cup DOMAIN groups) \ (BuiltIns \cup U) \subseteq answer'
    BY <2>1, <2>2, <2>3
  <2> QED BY <1>1, <1>2, <2>2, <2>4 DEF UnusedInv, U
<1>6. CASE UNCHANGED questionVars
  BY <1>6 DEF UnusedInv, questionVars
<1>7. ~CheckRules /\ ~CheckRule /\ ~ReadHits /\ ~CheckUnhit
  BY <1>2 DEF CheckRules, CheckRule, ReadHits, CheckUnhit, AtStep
<1> QED BY <1>4, <1>5, <1>6, <1>7 DEF HygieneNext

(* It implies the property.                                                 *)
LEMMA UnusedMean == UnusedInv => UnusedIsReported
BY DEF UnusedInv, UnusedIsReported, Answered, AtStep

(* An object that no reference of a rule reaches is reported, unless its    *)
(* name is taken for a built-in one: UnusedIsReported.                      *)
THEOREM UnusedCorrect == HygieneSpec => []UnusedIsReported
BY UnusedInit, UnusedStep, UnusedMean, PTL DEF HygieneSpec

-----------------------------------------------------------------------------
(* Zones *)

(* Ancestors finds the zones that hold a zone, and no others: the search    *)
(* goes up the whole chain of parents, around cycles too.                   *)
LEMMA AncestorsExact ==
  ASSUME NEW y, NEW z
  PROVE  y \in Ancestors(z) <=> Holds(y, z)
<1> DEFINE next == [x \in DOMAIN ZoneTable |-> ZoneTable[x].parents]
           above == Reach({z}, next)
<1>1. /\ DOMAIN next = DOMAIN ZoneTable /\ IsFiniteSet(DOMAIN next)
      /\ \A x \in DOMAIN ZoneTable : next[x] = ZoneTable[x].parents
  BY ZonesAssumption
<1>2. Ancestors(z) = above
  BY DEF Ancestors
<1> HIDE DEF next
<1>3. {z} \subseteq above /\ \A x \in above \cap DOMAIN next : next[x] \subseteq above
  BY <1>1, ReachIsClosed
<1>4. ASSUME y \in above PROVE Holds(y, z)
  <2>1. CASE z \in ZoneNames
    <3> SUFFICES ASSUME NEW S \in Closed, z \in S PROVE y \in S
      BY <2>1 DEF Holds
    <3>1. {z} \subseteq S /\ \A x \in S \cap DOMAIN next : next[x] \subseteq S
      BY <1>1 DEF Closed
    <3>2. above \subseteq S
      BY <1>1, <3>1, ReachIsLeast
    <3> QED BY <1>4, <3>2
  <2>2. CASE z \notin ZoneNames
    <3>1. \A x \in {z} \cap DOMAIN next : next[x] \subseteq {z}
      BY <1>1, <2>2 DEF ZoneNames
    <3>2. above \subseteq {z}
      BY <1>1, <3>1, ReachIsLeast
    <3> QED BY <1>4, <3>2 DEF Holds
  <2> QED BY <2>1, <2>2
<1>5. ASSUME Holds(y, z) PROVE y \in above
  <2>1. CASE z \in ZoneNames
    <3>1. /\ {z} \subseteq ZoneNames
          /\ \A x \in ZoneNames \cap DOMAIN next : next[x] \subseteq ZoneNames
      BY <1>1, <2>1 DEF ZoneNames
    <3>2. above \subseteq ZoneNames
      BY <1>1, <3>1, ReachIsLeast
    <3>3. above \in Closed
      BY <1>1, <1>3, <3>2 DEF Closed
    <3> QED BY <1>3, <1>5, <3>3 DEF Holds
  <2>2. CASE z \notin ZoneNames
    BY <1>3, <1>5, <2>2 DEF Holds
  <2> QED BY <2>1, <2>2
<1> QED BY <1>2, <1>4, <1>5

(* The inductive invariant: the verdict is that of the policies that match  *)
(* the zones of the two ends.                                               *)
ZonesInv ==
    /\ asked.policies \in ZonePolicies
    /\ known.step \in {"zones", "done"}
    /\ known.step = "done" =>
          /\ answer.src = ZonesFor(asked.src) /\ answer.dst = ZonesFor(asked.dst)
          /\ answer.verdict =
                Verdict({asked.policies[i] :
                            i \in MatchingPolicies(asked.policies, answer.src, answer.dst)},
                        asked.tokens)

(* It holds at first.                                                       *)
LEMMA ZonesStart == ZonesInit => ZonesInv
BY DEF ZonesInit, AskZones, ZonesInv

(* Every step keeps it.                                                     *)
LEMMA ZonesStep == ZonesInv /\ [ZonesNext]_questionVars => ZonesInv'
<1> SUFFICES ASSUME ZonesInv, [ZonesNext]_questionVars PROVE ZonesInv'
  OBVIOUS
<1>1. CASE QueryZones
  <2> DEFINE src == ZonesFor(asked.src)
             dst == ZonesFor(asked.dst)
             ps == {asked.policies[i] : i \in MatchingPolicies(asked.policies, src, dst)}
             v == Verdict(ps, asked.tokens)
             r == RiskLevel(src, dst)
  <2>1. /\ asked' = asked /\ known'.step = "done"
        /\ answer' = [src |-> src, dst |-> dst, risk |-> r, verdict |-> v]
    BY <1>1 DEF QueryZones, Answer, AtStep, ZonesInv
  <2> HIDE DEF r, v
  <2>2. answer'.src = src /\ answer'.dst = dst /\ answer'.verdict = v
    BY <2>1
  <2> QED BY <2>1, <2>2 DEF v, ZonesInv
<1>2. CASE UNCHANGED questionVars
  BY <1>2 DEF questionVars, ZonesInv
<1> QED BY <1>1, <1>2 DEF ZonesNext

(* It implies the property: the policies between the zones are those that   *)
(* match, unless one was dropped as a duplicate.                            *)
LEMMA ZonesMean == ZonesInv => BlockWins
<1> DEFINE policies == asked.policies
           between == {i \in DOMAIN policies :
               /\ \E z \in answer.src : Holds(policies[i].from_zone, z)
               /\ \E z \in answer.dst : Holds(policies[i].to_zone, z)}
           matching == MatchingPolicies(policies, answer.src, answer.dst)
           ps == {policies[i] : i \in matching}
           blocks == {i \in between :
               \/ policies[i].access_type = "block all"
               \/ /\ policies[i].access_type = "block only"
                  /\ \E t \in asked.tokens :
                        \/ "any" \in policies[i].services
                        \/ ({t} \cup ServiceAliases[t]) \cap policies[i].services # {}}
<1> SUFFICES ASSUME ZonesInv, known.step = "done",
                    \A i, j \in DOMAIN policies :
                       PolicyKey(policies[i]) = PolicyKey(policies[j]) => i = j
             PROVE  /\ blocks # {} => answer.verdict = "BLOCKED"
                    /\ between = {} => answer.verdict = "UNKNOWN"
  BY DEF BlockWins, Answered, AtStep
<1>1. answer.verdict = Verdict(ps, asked.tokens)
  BY DEF ZonesInv
<1>2. between = matching
  <2>1. ASSUME NEW i \in DOMAIN policies, NEW j \in 1..(i - 1)
        PROVE  PolicyKey(policies[j]) # PolicyKey(policies[i])
    <3>1. Len(policies) \in Nat /\ DOMAIN policies = 1..Len(policies)
      BY ZonesAssumption DEF ZonesInv
    <3>2. j \in DOMAIN policies /\ j # i
      BY <3>1
    <3> QED BY <3>2
  <2>2. \A zone, zones : zone \in UNION {Ancestors(z) : z \in zones}
                           <=> \E z \in zones : Holds(zone, z)
    BY AncestorsExact
  <2> QED BY <2>1, <2>2 DEF MatchingPolicies
<1>3. ASSUME between = {} PROVE answer.verdict = "UNKNOWN"
  <2>1. ps = {}
    BY <1>2, <1>3
  <2> QED BY <1>1, <2>1 DEF Verdict
<1>4. ASSUME NEW i \in blocks PROVE answer.verdict = "BLOCKED"
  <2>1. policies[i] \in ps
    BY <1>2
  <2>2. CASE policies[i].access_type = "block all"
    <3>1. {p \in ps : p.access_type = "block all"} # {} /\ ps # {}
      BY <2>1, <2>2
    <3> HIDE DEF ps
    <3> QED BY <1>1, <3>1 DEF Verdict
  <2>3. CASE policies[i].access_type = "block only" /\ policies[i].access_type # "block all"
    <3>1. PICK t \in asked.tokens :
             \/ "any" \in policies[i].services
             \/ ({t} \cup ServiceAliases[t]) \cap policies[i].services # {}
      BY <2>3
    <3>2. Lists(policies[i], asked.tokens)
      BY <3>1 DEF Lists, Spellings
    <3>3. /\ asked.tokens # {} /\ ps # {}
          /\ \E p \in {q \in ps : q.access_type = "block only"} : Lists(p, asked.tokens)
      BY <2>1, <2>3, <3>1, <3>2
    <3> HIDE DEF ps
    <3> QED BY <1>1, <3>3 DEF Verdict
  <2> QED BY <2>2, <2>3
<1> QED BY <1>3, <1>4

(* A policy that blocks the service between zones that hold the two ends    *)
(* decides whatever else is allowed, and no policy is no permission:        *)
(* BlockWins.                                                               *)
THEOREM BlockWinsCorrect == ZonesSpec => []BlockWins
BY ZonesStart, ZonesStep, ZonesMean, PTL DEF ZonesSpec

-----------------------------------------------------------------------------
(* RuleReview *)

(* An earliest and a latest place.                                          *)
LEMMA EarliestFacts ==
  ASSUME NEW S \in SUBSET Nat, S # {}
  PROVE  Earliest(S) \in S
<1>1. \E k \in S : \A j \in S : k <= j
  BY LeastNatural
<1> QED BY <1>1 DEF Earliest

LEMMA LatestFacts ==
  ASSUME NEW S \in SUBSET Nat, S # {}, NEW N \in Nat, \A k \in S : k <= N
  PROVE  Latest(S) \in S
<1>1. \E k \in S : \A j \in S : j <= k
  BY GreatestNatural
<1> QED BY <1>1 DEF Latest

(* The selections that are the first of their ADOM are places in a sequence, *)
(* and every ADOM of the request has one.                                    *)
LEMMA FirstsFacts ==
  ASSUME asked.selections \in Selections
  PROVE  /\ Len(asked.selections) \in Nat
         /\ DOMAIN asked.selections = 1..Len(asked.selections)
         /\ Firsts \in SUBSET (1..Len(asked.selections)) /\ Firsts \in SUBSET Nat
         /\ \A i \in DOMAIN asked.selections :
               /\ asked.selections[i].adom \in DOMAIN ServiceTables
               /\ \E f \in Firsts : asked.selections[f].adom = asked.selections[i].adom
<1> DEFINE sel == asked.selections
           Place == [adom : DOMAIN ServiceTables, device : STRING, vdom : STRING]
<1>1. sel \in Seq(Place) /\ \A p \in Place : p.adom \in DOMAIN ServiceTables
  BY RequestAssumption
<1> HIDE DEF sel, Place
<1>2. /\ Len(sel) \in Nat /\ DOMAIN sel = 1..Len(sel)
      /\ \A i \in DOMAIN sel : sel[i].adom \in DOMAIN ServiceTables
  <2>1. /\ Len(sel) \in Nat /\ DOMAIN sel = 1..Len(sel)
        /\ \A i \in DOMAIN sel : sel[i] \in Place
    BY <1>1
  <2> QED BY <1>1, <2>1
<1>3. Firsts = {i \in DOMAIN sel : \A j \in 1..(i - 1) : sel[j].adom # sel[i].adom}
  BY DEF Firsts, sel
<1>4. ASSUME NEW i \in DOMAIN sel PROVE \E f \in Firsts : sel[f].adom = sel[i].adom
  <2> DEFINE T == {f \in DOMAIN sel : sel[f].adom = sel[i].adom}
  <2>1. T \in SUBSET Nat /\ T # {}
    BY <1>2
  <2>2. PICK f \in T : \A m \in T : f <= m
    BY <2>1, LeastNatural
  <2>3. f \in DOMAIN sel /\ sel[f].adom = sel[i].adom
    OBVIOUS
  <2>4. ASSUME NEW j \in 1..(f - 1) PROVE sel[j].adom # sel[f].adom
    <3>1. j \in DOMAIN sel /\ ~(f <= j)
      BY <1>2, <2>3
    <3> QED BY <2>2, <2>3, <3>1
  <2> QED BY <1>3, <2>3, <2>4
<1> QED BY <1>2, <1>3, <1>4 DEF sel

(* The places of the address tables, and whose tables they are.              *)
LEMMA PoolFacts ==
  ASSUME asked.selections \in Selections
  PROVE  /\ Pools \in SUBSET Nat
         /\ \A k \in Pools : /\ k <= 2 * Len(asked.selections)
                             /\ PoolName(k) \in DOMAIN AddressTables
         /\ \A i \in DOMAIN asked.selections :
               /\ \E k \in Pools : PoolName(k) = asked.selections[i].adom
               /\ \E k \in Pools : PoolName(k) = "global"
<1>1. /\ Len(asked.selections) \in Nat
      /\ DOMAIN asked.selections = 1..Len(asked.selections)
      /\ Firsts \in SUBSET (1..Len(asked.selections))
      /\ \A i \in DOMAIN asked.selections :
            /\ asked.selections[i].adom \in DOMAIN ServiceTables
            /\ \E f \in Firsts : asked.selections[f].adom = asked.selections[i].adom
  BY FirstsFacts
<1>2. ASSUME NEW f \in Firsts
      PROVE  /\ 2 * f - 1 \in Nat /\ 2 * f \in Nat
             /\ 2 * f - 1 <= 2 * Len(asked.selections) /\ 2 * f <= 2 * Len(asked.selections)
             /\ PoolName(2 * f - 1) = asked.selections[f].adom
             /\ PoolName(2 * f) = "global"
  <2>1. f \in 1..Len(asked.selections)
    BY <1>1
  <2>2. /\ (2 * f - 1) % 2 = 1 /\ ((2 * f - 1) + 1) \div 2 = f
        /\ (2 * f) % 2 = 0
    BY <2>1
  <2> QED BY <1>1, <2>1, <2>2 DEF PoolName
<1>3. ASSUME NEW k \in Pools
      PROVE  /\ k \in Nat /\ k <= 2 * Len(asked.selections)
             /\ PoolName(k) \in DOMAIN AddressTables
  <2>1. PICK f \in Firsts : k = 2 * f - 1 \/ k = 2 * f
    BY DEF Pools
  <2>2. f \in DOMAIN asked.selections
    BY <1>1
  <2>3. asked.selections[f].adom \in DOMAIN AddressTables /\ "global" \in DOMAIN AddressTables
    BY <1>1, <2>2, RequestAssumption
  <2> QED BY <1>2, <2>1, <2>3
<1>4. ASSUME NEW i \in DOMAIN asked.selections
      PROVE  /\ \E k \in Pools : PoolName(k) = asked.selections[i].adom
             /\ \E k \in Pools : PoolName(k) = "global"
  <2>1. PICK f \in Firsts : asked.selections[f].adom = asked.selections[i].adom
    BY <1>1
  <2>2. 2 * f - 1 \in Pools /\ 2 * f \in Pools
    BY DEF Pools
  <2> QED BY <1>2, <2>1, <2>2
<1> QED BY <1>3, <1>4

(* The tables of the ADOM of a selection are among those of the request.     *)
LEMMA OwnTables ==
  ASSUME asked.selections \in Selections, NEW i \in DOMAIN asked.selections,
         NEW adom, adom = asked.selections[i].adom, NEW n
  PROVE  /\ n \in DOMAIN ObjectsOf(adom) =>
               \E k \in Pools : /\ n \in DOMAIN AddressTables[PoolName(k)].objects
                                /\ ObjectsOf(adom)[n] = AddressTables[PoolName(k)].objects[n]
         /\ n \in DOMAIN GroupsOf(adom) =>
               \E k \in Pools : /\ n \in DOMAIN AddressTables[PoolName(k)].groups
                                /\ GroupsOf(adom)[n] = AddressTables[PoolName(k)].groups[n]
<1>1. PICK k \in Pools : PoolName(k) = adom
  BY PoolFacts
<1>2. PICK l \in Pools : PoolName(l) = "global"
  BY PoolFacts
<1> DEFINE A == AddressTables[adom]
           G == AddressTables["global"]
<1>3. /\ DOMAIN ObjectsOf(adom) = DOMAIN A.objects \cup DOMAIN G.objects
      /\ n \in DOMAIN ObjectsOf(adom) =>
            ObjectsOf(adom)[n] = IF n \in DOMAIN A.objects THEN A.objects[n] ELSE G.objects[n]
  BY DEF ObjectsOf, Shadowing
<1>4. /\ DOMAIN GroupsOf(adom) = DOMAIN A.groups \cup DOMAIN G.groups
      /\ n \in DOMAIN GroupsOf(adom) =>
            GroupsOf(adom)[n] = IF n \in DOMAIN A.groups THEN A.groups[n] ELSE G.groups[n]
  BY DEF GroupsOf, Shadowing
<1> QED BY <1>1, <1>2, <1>3, <1>4

(* The text of a name: when an object of the name was read, that of any of   *)
(* the request's tables which has it, for they agree; else none.             *)
LEMMA TextFacts ==
  ASSUME asked.selections \in Selections, OneMeaning, NEW name
  PROVE  LET at == {k \in Pools : name \in DOMAIN ObjectsRead(k)}
         IN  /\ at = {} => TextOf(name) = ""
             /\ \A k \in at : name \in DOMAIN AddressTables[PoolName(k)].objects
             /\ at # {} => \A k \in Pools :
                   /\ name \in DOMAIN AddressTables[PoolName(k)].objects =>
                         TextOf(name) = AddressTables[PoolName(k)].objects[name]
                   /\ name \notin DOMAIN AddressTables[PoolName(k)].groups
<1> DEFINE at == {k \in Pools : name \in DOMAIN ObjectsRead(k)}
           objects(k) == AddressTables[PoolName(k)].objects
<1>1. \A k \in at : name \in DOMAIN objects(k) /\ ObjectsRead(k) = objects(k)
  <2> SUFFICES ASSUME NEW k \in at
               PROVE  name \in DOMAIN objects(k) /\ ObjectsRead(k) = objects(k)
    OBVIOUS
  <2>1. name \in DOMAIN ObjectsRead(k) /\ DOMAIN << >> = {}
    OBVIOUS
  <2>2. <<k, "objects">> \notin known.lost
    BY <2>1 DEF ObjectsRead
  <2> QED BY <2>1, <2>2 DEF ObjectsRead
<1>2. at = {} => TextOf(name) = ""
  BY DEF TextOf
<1>3. ASSUME at # {}, NEW k \in Pools
      PROVE  /\ name \in DOMAIN objects(k) => TextOf(name) = objects(k)[name]
             /\ name \notin DOMAIN AddressTables[PoolName(k)].groups
  <2> DEFINE l == Latest(at)
  <2>1. /\ at \in SUBSET Nat /\ 2 * Len(asked.selections) \in Nat
        /\ \A j \in at : j <= 2 * Len(asked.selections)
    BY PoolFacts, FirstsFacts
  <2> HIDE DEF at
  <2>2. l \in at
    BY <1>3, <2>1, LatestFacts
  <2>3. TextOf(name) = ObjectsRead(l)[name]
    BY <1>3 DEF TextOf, at
  <2>4. TextOf(name) = objects(l)[name] /\ name \in DOMAIN objects(l) /\ l \in Pools
    BY <1>1, <2>2, <2>3 DEF at
  <2>5. Agreeing(AddressTables[PoolName(l)], AddressTables[PoolName(k)])
    BY <2>4 DEF OneMeaning
  <2> QED BY <2>4, <2>5 DEF Agreeing
<1> QED BY <1>1, <1>2, <1>3

(* Without a warning all members of a group have a text, and the expansion  *)
(* is these.                                                                *)
LEMMA MembersFacts ==
  ASSUME NEW text, NEW members \in Seq(STRING)
  PROVE  LET e == ExpandMembers(text, members)
         IN  /\ e.found /\ Len(e.texts) \in Nat \ {0} /\ DOMAIN e.texts = 1..Len(e.texts)
             /\ ~e.warned => \A m \in ToSet(members) :
                                TextOf(m) # "" /\ TextOf(m) \in ToSet(e.texts)
<1> DEFINE e == ExpandMembers(text, members)
           all == [i \in DOMAIN members |-> TextOf(members[i])]
           some == OnlyIn(all, Written)
           V == {TextOf(members[i]) : i \in DOMAIN members}
<1>1. /\ Len(members) \in Nat /\ DOMAIN members = 1..Len(members)
  OBVIOUS
<1>2. /\ all \in Seq(V) /\ Len(all) = Len(members) /\ DOMAIN all = DOMAIN members
      /\ \A i \in DOMAIN members : all[i] = TextOf(members[i])
  BY <1>1
<1>3. e = Expansion(IF some = << >> THEN <<text>> ELSE some, Len(some) < Len(members))
  BY DEF ExpandMembers
<1> HIDE DEF all, V
<1>4. /\ some \in Seq({all[i] : i \in DOMAIN all} \cap Written)
      /\ Len(some) <= Len(all)
      /\ Len(some) = Len(all) => some = all /\ \A i \in DOMAIN all : all[i] \in Written
  BY <1>2, OnlyInFacts
<1> HIDE DEF some
<1>5. /\ e.found /\ e.texts = IF some = << >> THEN <<text>> ELSE some
      /\ e.warned = (Len(some) < Len(members))
  BY <1>3 DEF Expansion
<1> HIDE DEF e
<1>6. Len(some) \in Nat /\ DOMAIN some = 1..Len(some) /\ (some # << >> => Len(some) # 0)
  BY <1>4
<1>7. Len(e.texts) \in Nat \ {0} /\ DOMAIN e.texts = 1..Len(e.texts)
  <2>1. CASE some = << >>
    <3>1. e.texts = <<text>>
      BY <1>5, <2>1
    <3> QED BY <3>1
  <2>2. CASE some # << >>
    BY <1>5, <1>6, <2>2
  <2> QED BY <2>1, <2>2
<1>8. ASSUME ~e.warned, NEW m \in ToSet(members)
      PROVE  TextOf(m) # "" /\ TextOf(m) \in ToSet(e.texts)
  <2>1. ~(Len(some) < Len(members))
    BY <1>5, <1>8, Zenon
  <2>2. some = all /\ \A i \in DOMAIN all : all[i] \in Written
    <3>1. Len(some) = Len(all)
      <4>1. /\ Len(some) \in Nat /\ Len(members) \in Nat
            /\ Len(some) <= Len(members) /\ ~(Len(some) < Len(members))
        BY <1>1, <1>2, <1>4, <1>6, <2>1, Zenon
      <4>2. Len(some) = Len(members)
        BY ONLY <4>1
      <4> QED BY <1>2, <4>2, Zenon
    <3> QED BY <1>4, <3>1, Zenon
  <2>3. PICK i \in DOMAIN members : members[i] = m
    BY <1>8 DEF ToSet
  <2>4. /\ TextOf(m) = some[i] /\ i \in DOMAIN some /\ some[i] # ""
    BY <1>2, <2>2, <2>3 DEF Written
  <2>5. some # << >> /\ e.texts = some
    <3>1. DOMAIN << >> = {}
      OBVIOUS
    <3>2. some # << >>
      BY <2>4, <3>1
    <3> QED BY <1>5, <3>2
  <2> QED BY <2>4, <2>5 DEF ToSet
<1> QED BY <1>5, <1>7, <1>8 DEF e

(* What a group that was read is in the tables of the request.               *)
LEMMA GroupFacts ==
  ASSUME asked.selections \in Selections, NEW text,
         NEW k \in Pools, text \in DOMAIN GroupsRead(k)
  PROVE  /\ GroupsRead(k)[text] = AddressTables[PoolName(k)].groups[text]
         /\ text \in DOMAIN AddressTables[PoolName(k)].groups
         /\ GroupsRead(k)[text] \in Seq(STRING)
         /\ text \notin DOMAIN AddressTexts
<1>1. DOMAIN << >> = {}
  OBVIOUS
<1>2. <<k, "groups">> \notin known.lost
  BY <1>1 DEF GroupsRead
<1>3. GroupsRead(k) = AddressTables[PoolName(k)].groups
  BY <1>2 DEF GroupsRead
<1>4. PoolName(k) \in DOMAIN AddressTables
  BY PoolFacts
<1>5. LET t == AddressTables[PoolName(k)]
      IN  /\ \A g \in DOMAIN t.groups : t.groups[g] \in Seq(STRING)
          /\ (DOMAIN t.groups \cup DOMAIN t.objects) \cap DOMAIN AddressTexts = {}
  BY <1>4, RequestAssumption
<1> QED BY <1>3, <1>5

(* The groups of an ADOM and the global ones are finitely many.              *)
LEMMA FiniteGroups ==
  ASSUME asked.selections \in Selections, NEW i \in DOMAIN asked.selections
  PROVE  IsFiniteSet(DOMAIN GroupsOf(asked.selections[i].adom))
<1> DEFINE adom == asked.selections[i].adom
<1>1. adom \in DOMAIN AddressTables /\ "global" \in DOMAIN AddressTables
  BY FirstsFacts, RequestAssumption
<1>2. DOMAIN GroupsOf(adom) =
         DOMAIN AddressTables[adom].groups \cup DOMAIN AddressTables["global"].groups
  BY DEF GroupsOf, Shadowing
<1>3. /\ IsFiniteSet(DOMAIN AddressTables[adom].groups)
      /\ IsFiniteSet(DOMAIN AddressTables["global"].groups)
  BY <1>1, RequestAssumption
<1> QED BY <1>2, <1>3, FS_Union

(* A name that has nothing but objects, or nothing at all, in the tables of  *)
(* the request stands for no more than itself and the text of the object.    *)
LEMMA NoGroupFacts ==
  ASSUME asked.selections \in Selections, NEW i \in DOMAIN asked.selections,
         NEW adom, adom = asked.selections[i].adom, NEW text,
         \A k \in Pools : text \notin DOMAIN AddressTables[PoolName(k)].groups
  PROVE  StandsFor(adom, text) \subseteq
            ({text} \cup {ObjectsOf(adom)[n] : n \in {text} \cap DOMAIN ObjectsOf(adom)})
               \cap DOMAIN AddressTexts
<1> DEFINE next == [g \in DOMAIN GroupsOf(adom) |-> ToSet(GroupsOf(adom)[g])]
<1>1. text \notin DOMAIN GroupsOf(adom)
  BY OwnTables
<1>2. IsFiniteSet(DOMAIN GroupsOf(adom))
  BY FiniteGroups
<1>3. Under(GroupsOf(adom), text) = Reach({text}, next) /\ DOMAIN next = DOMAIN GroupsOf(adom)
  BY DEF Under
<1> HIDE DEF next
<1>4. Reach({text}, next) \subseteq {text}
  BY <1>1, <1>2, <1>3, ReachIsLeast
<1> QED BY <1>3, <1>4 DEF StandsFor

(* The expansion of a name that is found is never empty, and without a      *)
(* warning it has every address that the name stands for in an ADOM of the  *)
(* request.                                                                 *)
LEMMA ExpandAddrFacts ==
  ASSUME asked.selections \in Selections, OneMeaning, NEW i \in DOMAIN asked.selections,
         NEW text, ExpandAddr(text).found
  PROVE  LET e == ExpandAddr(text)
         IN  /\ Len(e.texts) \in Nat \ {0} /\ DOMAIN e.texts = 1..Len(e.texts)
             /\ e.warned \/ StandsFor(asked.selections[i].adom, text) \subseteq ToSet(e.texts)
<1> DEFINE e == ExpandAddr(text)
           adom == asked.selections[i].adom
           groups == {k \in Pools : text \in DOMAIN GroupsRead(k)}
           objects == {k \in Pools : text \in DOMAIN ObjectsRead(k)}
           table(k) == AddressTables[PoolName(k)]
           Fine(x) == /\ Len(x.texts) \in Nat \ {0} /\ DOMAIN x.texts = 1..Len(x.texts)
                      /\ x.warned \/ StandsFor(adom, text) \subseteq ToSet(x.texts)
<1>1. Len(<<text>>) = 1 /\ DOMAIN <<text>> = 1..1 /\ ToSet(<<text>>) = {text}
  BY DEF ToSet
<1>2. \A k \in Pools : /\ PoolName(k) \in DOMAIN AddressTables
                       /\ (DOMAIN table(k).groups \cup DOMAIN table(k).objects)
                             \cap DOMAIN AddressTexts = {}
  BY PoolFacts, RequestAssumption
<1>3. ASSUME NEW n
      PROVE  /\ n \in DOMAIN ObjectsOf(adom) =>
                   \E k \in Pools : /\ n \in DOMAIN table(k).objects
                                    /\ ObjectsOf(adom)[n] = table(k).objects[n]
             /\ n \in DOMAIN GroupsOf(adom) =>
                   \E k \in Pools : /\ n \in DOMAIN table(k).groups
                                    /\ GroupsOf(adom)[n] = table(k).groups[n]
  BY OwnTables
<1>4. CASE text \in DOMAIN AddressTexts
  <2>1. e.texts = <<text>>
    BY <1>4 DEF ExpandAddr, Expansion
  <2>2. \A k \in Pools : text \notin DOMAIN table(k).groups
    BY <1>2, <1>4
  <2>3. StandsFor(adom, text) \subseteq
           ({text} \cup {ObjectsOf(adom)[n] : n \in {text} \cap DOMAIN ObjectsOf(adom)})
              \cap DOMAIN AddressTexts
    BY <2>2, NoGroupFacts
  <2>4. text \notin DOMAIN ObjectsOf(adom)
    BY <1>2, <1>4, <1>3
  <2> HIDE DEF e
  <2> QED BY <1>1, <2>1, <2>3, <2>4 DEF e
<1>5. CASE groups # {} /\ text \notin DOMAIN AddressTexts
  <2> DEFINE k == Earliest(groups)
             members == GroupsRead(k)[text]
  <2>1. e = ExpandMembers(text, members)
    BY <1>5 DEF ExpandAddr
  <2>2. k \in groups
    BY <1>5, PoolFacts, EarliestFacts
  <2>3. k \in Pools /\ text \in DOMAIN GroupsRead(k)
    BY <2>2
  <2> HIDE DEF k
  <2>4. /\ members = table(k).groups[text] /\ text \in DOMAIN table(k).groups
        /\ members \in Seq(STRING)
    BY <2>3, GroupFacts
  <2> HIDE DEF members
  <2>5. /\ Len(e.texts) \in Nat \ {0} /\ DOMAIN e.texts = 1..Len(e.texts)
        /\ ~e.warned => \A m \in ToSet(members) :
                           TextOf(m) # "" /\ TextOf(m) \in ToSet(e.texts)
    BY <2>1, <2>4, MembersFacts
  <2>6. ASSUME ~e.warned PROVE StandsFor(adom, text) \subseteq ToSet(e.texts)
    <3> DEFINE next == [g \in DOMAIN GroupsOf(adom) |-> ToSet(GroupsOf(adom)[g])]
               C == {text} \cup ToSet(members)
    <3>1. ASSUME NEW m \in ToSet(members)
          PROVE  /\ TextOf(m) \in ToSet(e.texts)
                 /\ m \notin DOMAIN GroupsOf(adom)
                 /\ m \in DOMAIN ObjectsOf(adom) => ObjectsOf(adom)[m] = TextOf(m)
      <4>1. TextOf(m) # "" /\ TextOf(m) \in ToSet(e.texts)
        BY <2>5, <2>6
      <4>2. \A l \in Pools :
               /\ m \in DOMAIN table(l).objects => TextOf(m) = table(l).objects[m]
               /\ m \notin DOMAIN table(l).groups
        BY <4>1, TextFacts
      <4> HIDE DEF e
      <4> QED BY <4>1, <4>2, <1>3
    <3>2. \A l \in Pools : Agreeing(table(k), table(l)) /\ Agreeing(table(l), table(k))
      BY <2>3 DEF OneMeaning
    <3>3. text \in DOMAIN GroupsOf(adom) => GroupsOf(adom)[text] = members
      BY <2>4, <3>2, <1>3 DEF Agreeing
    <3>4. text \notin DOMAIN ObjectsOf(adom)
      BY <2>4, <3>2, <1>3 DEF Agreeing
    <3>5. /\ Under(GroupsOf(adom), text) = Reach({text}, next)
          /\ DOMAIN next = DOMAIN GroupsOf(adom) /\ IsFiniteSet(DOMAIN next)
      BY FiniteGroups DEF Under
    <3>6. \A x \in C \cap DOMAIN next : next[x] \subseteq C
      BY <3>1, <3>3
    <3> HIDE DEF next
    <3>7. Under(GroupsOf(adom), text) \subseteq C
      <4>1. {text} \subseteq C
        OBVIOUS
      <4> HIDE DEF C
      <4> QED BY <3>5, <3>6, <4>1, ReachIsLeast
    <3>8. text \notin DOMAIN AddressTexts
      BY <1>5
    <3>9. ASSUME NEW n \in Under(GroupsOf(adom), text) \cap DOMAIN ObjectsOf(adom)
          PROVE  ObjectsOf(adom)[n] \in ToSet(e.texts)
      <4>1. n \in ToSet(members)
        BY <3>4, <3>7, <3>9
      <4> QED BY <3>1, <3>9, <4>1
    <3> HIDE DEF e
    <3> QED BY <3>8, <3>9 DEF StandsFor
  <2> QED BY <2>5, <2>6
<1>6. CASE groups = {} /\ objects # {} /\ text \notin DOMAIN AddressTexts
  <2>1. e.texts = <<IF TextOf(text) = "" THEN text ELSE TextOf(text)>>
    BY <1>6 DEF ExpandAddr, Expansion
  <2>2. \A k \in Pools : /\ text \in DOMAIN table(k).objects =>
                               TextOf(text) = table(k).objects[text]
                         /\ text \notin DOMAIN table(k).groups
    BY <1>6, TextFacts
  <2>3. StandsFor(adom, text) \subseteq
           ({text} \cup {ObjectsOf(adom)[n] : n \in {text} \cap DOMAIN ObjectsOf(adom)})
              \cap DOMAIN AddressTexts
    BY <2>2, NoGroupFacts
  <2>4. text \in DOMAIN ObjectsOf(adom) => ObjectsOf(adom)[text] = TextOf(text)
    BY <2>2, <1>3
  <2>5. "" \notin DOMAIN AddressTexts
    BY RequestAssumption DEF Written
  <2> HIDE DEF e
  <2>6. StandsFor(adom, text) \subseteq {TextOf(text)} \ {""}
    BY <1>6, <2>3, <2>4, <2>5
  <2> DEFINE t == IF TextOf(text) = "" THEN text ELSE TextOf(text)
  <2>7. StandsFor(adom, text) \subseteq {t}
    BY <2>6
  <2>8. e.texts = <<t>>
    BY <2>1
  <2> HIDE DEF t
  <2>9. Len(<<t>>) = 1 /\ DOMAIN <<t>> = 1..1 /\ ToSet(<<t>>) = {t}
    BY DEF ToSet
  <2> QED BY <2>9, <2>7, <2>8 DEF e
<1>7. CASE /\ groups = {} /\ objects = {} /\ text \notin DOMAIN AddressTexts
           /\ text \in DOMAIN HostNames /\ HostNames[text] # << >>
  <2>1. e = Expansion(HostNames[text], TRUE)
    BY <1>7 DEF ExpandAddr
  <2>2. e.texts = HostNames[text] /\ e.warned
    BY <2>1 DEF Expansion
  <2>3. HostNames[text] \in Seq(STRING) /\ HostNames[text] # << >>
    BY <1>7, RequestAssumption
  <2> HIDE DEF e
  <2> QED BY <2>2, <2>3 DEF e
<1>8. CASE /\ groups = {} /\ objects = {} /\ text \notin DOMAIN AddressTexts
           /\ ~(text \in DOMAIN HostNames /\ HostNames[text] # << >>)
  <2>1. e = NotFound
    BY <1>8 DEF ExpandAddr
  <2> QED BY <2>1 DEF NotFound
<1> QED BY <1>4, <1>5, <1>6, <1>7, <1>8

(* The specs of the names that a service or a group consists of: a sequence *)
(* that has, of each name, the first range of either protocol.              *)
LEMMA SpecsFacts ==
  ASSUME NEW X, NEW names \in Seq(X)
  PROVE  /\ Len(SpecsOf(names)) \in Nat /\ DOMAIN SpecsOf(names) = 1..Len(SpecsOf(names))
         /\ SpecsOf(names) # << >> => Len(SpecsOf(names)) # 0
         /\ \A n \in ToSet(names), protocol \in {"tcp", "udp"} :
               SpecOf(n, protocol) \in Written =>
                  SpecOf(n, protocol) \in ToSet(SpecsOf(names))
<1> DEFINE N == Len(names)
           at(k) == SpecOf(names[(k + 1) \div 2], IF k % 2 = 1 THEN "tcp" ELSE "udp")
           all == [k \in 1..(2 * N) |-> at(k)]
           some == OnlyIn(all, Written)
           V == {at(k) : k \in 1..(2 * N)}
<1>1. N \in Nat /\ DOMAIN names = 1..N /\ 2 * N \in Nat
  OBVIOUS
<1>2. SpecsOf(names) = some
  BY DEF SpecsOf
<1>3. /\ all \in Seq(V) /\ DOMAIN all = 1..(2 * N) /\ \A k \in 1..(2 * N) : all[k] = at(k)
  <2> HIDE DEF N, at
  <2> QED BY <1>1
<1> HIDE DEF V, all, at, N
<1>4. some \in Seq({all[k] : k \in DOMAIN all} \cap Written)
  BY <1>3, OnlyInFacts
<1>5. ASSUME NEW n \in ToSet(names), NEW protocol \in {"tcp", "udp"},
             SpecOf(n, protocol) \in Written
      PROVE  SpecOf(n, protocol) \in ToSet(some)
  <2>1. PICK j \in 1..N : names[j] = n
    BY <1>1 DEF ToSet
  <2> DEFINE k == IF protocol = "tcp" THEN 2 * j - 1 ELSE 2 * j
  <2>2. k \in 1..(2 * N)
    BY <1>1
  <2>3. (k + 1) \div 2 = j /\ (k % 2 = 1 <=> protocol = "tcp")
    BY <1>1
  <2>4. at(k) = SpecOf(n, protocol)
    <3> HIDE DEF k
    <3>1. CASE protocol = "tcp"
      BY <2>1, <2>3, <3>1 DEF at
    <3>2. CASE protocol = "udp"
      BY <2>1, <2>3, <3>2 DEF at
    <3> QED BY <3>1, <3>2
  <2> HIDE DEF k
  <2>5. k \in DOMAIN all /\ all[k] = SpecOf(n, protocol) /\ all[k] \in Written
    BY <1>3, <1>5, <2>2, <2>4
  <2>6. \E m \in DOMAIN some : some[m] = all[k]
    BY <1>3, <2>5, OnlyInKeeps
  <2> QED BY <2>5, <2>6 DEF ToSet
<1> HIDE DEF some
<1>6. /\ Len(some) \in Nat /\ DOMAIN some = 1..Len(some)
      /\ some # << >> => Len(some) # 0
  BY <1>4
<1> QED BY <1>2, <1>5, <1>6

(* The service tables that were read are those of the selection's ADOM.      *)
LEMMA ServiceReads ==
  ASSUME NEW i
  PROVE  /\ \A n \in DOMAIN ServiceGroupsRead(i) :
               /\ n \in DOMAIN ServiceTable(i).groups
               /\ ServiceGroupsRead(i)[n] = ServiceTable(i).groups[n]
         /\ \A n \in DOMAIN ServicesRead(i) :
               /\ n \in DOMAIN ServiceTable(i).objects
               /\ ServicesRead(i)[n] = ServiceTable(i).objects[n]
         /\ known.lost \cap (Firsts \X {"services", "service groups"}) = {} /\ i \in Firsts =>
               /\ ServiceGroupsRead(i) = ServiceTable(i).groups
               /\ ServicesRead(i) = ServiceTable(i).objects
<1>1. DOMAIN << >> = {}
  OBVIOUS
<1>2. ASSUME NEW n \in DOMAIN ServiceGroupsRead(i)
      PROVE  /\ n \in DOMAIN ServiceTable(i).groups
             /\ ServiceGroupsRead(i)[n] = ServiceTable(i).groups[n]
  <2>1. <<i, "service groups">> \notin known.lost
    BY <1>1 DEF ServiceGroupsRead
  <2>2. ServiceGroupsRead(i) = ServiceTable(i).groups
    BY <2>1 DEF ServiceGroupsRead
  <2> QED BY <2>2
<1>3. ASSUME NEW n \in DOMAIN ServicesRead(i)
      PROVE  /\ n \in DOMAIN ServiceTable(i).objects
             /\ ServicesRead(i)[n] = ServiceTable(i).objects[n]
  <2>1. <<i, "services">> \notin known.lost
    BY <1>1 DEF ServicesRead
  <2>2. ServicesRead(i) = ServiceTable(i).objects
    BY <2>1 DEF ServicesRead
  <2> QED BY <2>2
<1>4. ASSUME known.lost \cap (Firsts \X {"services", "service groups"}) = {}, i \in Firsts
      PROVE  /\ ServiceGroupsRead(i) = ServiceTable(i).groups
             /\ ServicesRead(i) = ServiceTable(i).objects
  <2>1. \A kind \in {"services", "service groups"} : <<i, kind>> \notin known.lost
    <3> DEFINE Kinds == {"services", "service groups"}
    <3>1. \A kind \in Kinds : <<i, kind>> \in Firsts \X Kinds
      BY <1>4
    <3> HIDE DEF Kinds
    <3> QED BY <1>4, <3>1 DEF Kinds
  <2> QED BY <2>1 DEF ServiceGroupsRead, ServicesRead
<1> QED BY <1>2, <1>3, <1>4

(* The expansion of a service that is found is never empty.                 *)
LEMMA ExpandSvcFacts ==
  ASSUME asked.selections \in Selections, NEW text, ExpandSvc(text).found
  PROVE  LET e == ExpandSvc(text)
         IN  Len(e.texts) \in Nat \ {0} /\ DOMAIN e.texts = 1..Len(e.texts)
<1> DEFINE e == ExpandSvc(text)
           groups == {i \in Firsts : text \in DOMAIN ServiceGroupsRead(i)}
           objects == {i \in Firsts : text \in DOMAIN ServicesRead(i)}
           Specs(names) == IF SpecsOf(names) = << >> THEN <<text>> ELSE SpecsOf(names)
<1>1. ASSUME NEW X, NEW names \in Seq(X)
      PROVE  Len(Specs(names)) \in Nat \ {0} /\ DOMAIN Specs(names) = 1..Len(Specs(names))
  <2>1. CASE SpecsOf(names) = << >>
    <3>1. Specs(names) = <<text>>
      BY <2>1
    <3>2. Len(<<text>>) = 1 /\ DOMAIN <<text>> = 1..1
      OBVIOUS
    <3> HIDE DEF Specs
    <3> QED BY <3>1, <3>2
  <2>2. CASE SpecsOf(names) # << >>
    BY <2>2, SpecsFacts
  <2> QED BY <2>1, <2>2
<1>2. CASE text \in ServiceTexts
  <2>1. e.texts = <<text>>
    BY <1>2 DEF ExpandSvc, Expansion
  <2>2. Len(<<text>>) = 1 /\ DOMAIN <<text>> = 1..1
    OBVIOUS
  <2> QED BY <2>1, <2>2
<1>3. CASE text \notin ServiceTexts /\ groups # {}
  <2> DEFINE k == Earliest(groups)
  <2>1. k \in groups
    BY <1>3, FirstsFacts, EarliestFacts
  <2>2. e.texts = Specs(ServiceGroupsRead(k)[text])
    BY <1>3 DEF ExpandSvc, Expansion
  <2> HIDE DEF k
  <2>3. /\ text \in DOMAIN ServiceTable(k).groups
        /\ ServiceGroupsRead(k)[text] = ServiceTable(k).groups[text]
    BY <2>1, ServiceReads
  <2>4. ServiceTable(k).groups[text] \in Seq(STRING)
    BY <2>1, <2>3, FirstsFacts, RequestAssumption DEF ServiceTable
  <2> HIDE DEF Specs, e
  <2> QED BY <1>1, <2>2, <2>3, <2>4 DEF e
<1>4. CASE text \notin ServiceTexts /\ groups = {} /\ objects # {}
  <2>1. e.texts = Specs(<<text>>)
    BY <1>4 DEF ExpandSvc, Expansion
  <2>2. <<text>> \in Seq({text})
    OBVIOUS
  <2> HIDE DEF Specs, e
  <2> QED BY <1>1, <2>1, <2>2 DEF e
<1>5. CASE text \notin ServiceTexts /\ groups = {} /\ objects = {}
  BY <1>5 DEF ExpandSvc, NotFound
<1> QED BY <1>2, <1>3, <1>4, <1>5

(* A service that can be expressed is expanded to all that it stands for.    *)
LEMMA ServiceFacts ==
  ASSUME asked.selections \in Selections, NEW i \in DOMAIN asked.selections,
         NEW adom, adom = asked.selections[i].adom, NEW text, Expressible(adom, text)
  PROVE  ServicesFor(adom, text) \subseteq ToSet(ExpandSvc(text).texts)
<1> DEFINE t == ServiceTables[adom]
           e == ExpandSvc(text)
           groups == {k \in Firsts : text \in DOMAIN ServiceGroupsRead(k)}
           objects == {k \in Firsts : text \in DOMAIN ServicesRead(k)}
           names == IF text \in DOMAIN t.groups THEN t.groups[text] ELSE <<text>>
           S == ToSet(names)
           specs == SpecsOf(names)
<1>1. ToSet(<<text>>) = {text}
  BY DEF ToSet
<1>2. CASE text \in ServiceTexts
  <2>1. e.texts = <<text>> /\ ServicesFor(adom, text) = {text}
    BY <1>2 DEF ExpandSvc, Expansion, ServicesFor
  <2> QED BY <1>1, <2>1
<1>3. CASE text \notin ServiceTexts
  <2>1. /\ known.lost \cap (Firsts \X {"services", "service groups"}) = {}
        /\ \A k, l \in Firsts : Agreeing(ServiceTable(k), ServiceTable(l))
        /\ \A n \in IF text \in DOMAIN t.groups THEN ToSet(t.groups[text]) ELSE {text} :
              n \in DOMAIN t.objects /\ Single(t.objects[n])
    BY <1>3 DEF Expressible
  <2>2. \A n \in S : n \in DOMAIN t.objects /\ Single(t.objects[n])
    BY <1>1, <2>1
  <2>3. adom \in DOMAIN ServiceTables
    BY FirstsFacts
  <2>4. PICK f \in Firsts : ServiceTable(f) = t
    BY FirstsFacts DEF ServiceTable
  <2>5. \A k \in Firsts :
           /\ ServiceGroupsRead(k) = ServiceTable(k).groups
           /\ ServicesRead(k) = ServiceTable(k).objects
           /\ Agreeing(t, ServiceTable(k))
    BY <2>1, <2>4, ServiceReads
  <2>6. /\ IsFiniteSet(DOMAIN t.groups)
        /\ DOMAIN t.groups \cap DOMAIN t.objects = {}
        /\ \A g \in DOMAIN t.groups : t.groups[g] \in Seq(STRING)
        /\ \A o \in DOMAIN t.objects : /\ t.objects[o].tcp \in Seq(ServiceTexts)
                                       /\ t.objects[o].udp \in Seq(ServiceTexts)
    BY <2>3, RequestAssumption
  <2> HIDE DEF t
  <2>7. e.texts = IF specs = << >> THEN <<text>> ELSE specs
    <3>1. CASE text \in DOMAIN t.groups
      <4> DEFINE k == Earliest(groups)
      <4>1. f \in groups
        BY <2>4, <2>5, <3>1
      <4>2. k \in groups
        BY <4>1, FirstsFacts, EarliestFacts
      <4>3. e.texts = IF SpecsOf(ServiceGroupsRead(k)[text]) = << >> THEN <<text>>
                      ELSE SpecsOf(ServiceGroupsRead(k)[text])
        BY <1>3, <4>1 DEF ExpandSvc, Expansion
      <4> HIDE DEF k, e
      <4>4. ServiceGroupsRead(k)[text] = t.groups[text]
        BY <2>5, <3>1, <4>2 DEF Agreeing
      <4> QED BY <3>1, <4>3, <4>4
    <3>2. CASE text \notin DOMAIN t.groups
      <4>1. text \in DOMAIN t.objects
        BY <2>1, <3>2
      <4>2. groups = {}
        BY <2>5, <4>1 DEF Agreeing
      <4>3. f \in objects
        BY <2>4, <2>5, <4>1
      <4>4. e.texts = IF SpecsOf(<<text>>) = << >> THEN <<text>> ELSE SpecsOf(<<text>>)
        BY <1>3, <4>2, <4>3 DEF ExpandSvc, Expansion
      <4> HIDE DEF e
      <4> QED BY <3>2, <4>4
    <3> QED BY <3>1, <3>2
  <2>8. ASSUME NEW n \in S, NEW protocol \in {"tcp", "udp"}
        PROVE  SpecOf(n, protocol) = FirstOf(t.objects[n][protocol])
    <3> DEFINE at == {k \in Firsts : n \in DOMAIN ServicesRead(k)}
    <3>1. f \in at
      BY <2>2, <2>4, <2>5
    <3>2. Latest(at) \in at
      <4>1. at \in SUBSET Nat /\ at # {} /\ Len(asked.selections) \in Nat
        BY <3>1, FirstsFacts
      <4>2. \A k \in at : k <= Len(asked.selections)
        BY FirstsFacts
      <4> HIDE DEF at
      <4> QED BY <4>1, <4>2, LatestFacts
    <3>3. SpecOf(n, protocol) = FirstOf(ServicesRead(Latest(at))[n][protocol])
      BY <3>1 DEF SpecOf
    <3>4. ServicesRead(Latest(at))[n] = t.objects[n]
      BY <2>2, <2>5, <3>2 DEF Agreeing
    <3> QED BY <3>3, <3>4
  <2>9. Under(t.groups, text) \cap DOMAIN t.objects \subseteq S
    <3> DEFINE next == [g \in DOMAIN t.groups |-> ToSet(t.groups[g])]
               C == {text} \cup S
    <3>1. Under(t.groups, text) = Reach({text}, next) /\ DOMAIN next = DOMAIN t.groups
      BY DEF Under
    <3>2. {text} \subseteq C
      OBVIOUS
    <3>3. ASSUME NEW x \in C \cap DOMAIN next PROVE next[x] \subseteq C
      <4>1. x \in DOMAIN t.groups /\ next[x] = ToSet(t.groups[x])
        OBVIOUS
      <4>2. x = text
        BY <2>2, <2>6, <4>1
      <4> QED BY <4>1, <4>2
    <3> HIDE DEF next, C
    <3>4. Under(t.groups, text) \subseteq C
      BY <2>6, <3>1, <3>2, <3>3, ReachIsLeast
    <3>5. text \in DOMAIN t.objects => text \in S
      BY <1>1, <2>6
    <3> QED BY <3>4, <3>5 DEF C
  <2>10. ASSUME NEW v \in ServicesFor(adom, text) PROVE v \in ToSet(e.texts)
    <3>1. PICK n \in Under(t.groups, text) \cap DOMAIN t.objects :
             v \in ToSet(t.objects[n].tcp) \/ v \in ToSet(t.objects[n].udp)
      BY <1>3 DEF ServicesFor, t
    <3>2. n \in S /\ n \in DOMAIN t.objects /\ Single(t.objects[n])
      BY <2>2, <2>9, <3>1
    <3>3. PICK protocol \in {"tcp", "udp"} : v \in ToSet(t.objects[n][protocol])
      BY <3>1
    <3> DEFINE r == t.objects[n][protocol]
    <3>4. r \in Seq(ServiceTexts) /\ Len(r) <= 1
      <4>1. CASE protocol = "tcp"
        BY <2>6, <3>2, <4>1 DEF Single
      <4>2. CASE protocol = "udp"
        BY <2>6, <3>2, <4>2 DEF Single
      <4> QED BY <4>1, <4>2
    <3> HIDE DEF r
    <3>5. PICK j \in DOMAIN r : v = r[j]
      BY <3>3 DEF ToSet, r
    <3>6. j = 1 /\ v \in ServiceTexts /\ r # << >>
      BY <3>4, <3>5
    <3>7. FirstOf(r) = v /\ v \in Written
      BY <3>5, <3>6, RequestAssumption DEF FirstOf
    <3>8. SpecOf(n, protocol) = v
      BY <2>8, <3>2, <3>7 DEF r
    <3>9. names \in Seq(STRING \cup {text})
      <4>1. <<text>> \in Seq(STRING \cup {text})
        OBVIOUS
      <4>2. ASSUME text \in DOMAIN t.groups PROVE t.groups[text] \in Seq(STRING \cup {text})
        BY <2>6, <4>2
      <4> QED BY <4>1, <4>2
    <3> HIDE DEF names
    <3>10. v \in ToSet(specs)
      BY <3>2, <3>7, <3>8, <3>9, SpecsFacts
    <3>11. specs # << >>
      <4>1. ToSet(<< >>) = {}
        BY DEF ToSet
      <4> QED BY <3>10, <4>1
    <3> HIDE DEF e, specs
    <3> QED BY <2>7, <3>10, <3>11
  <2> HIDE DEF e
  <2> QED BY <2>10 DEF e
<1> HIDE DEF e
<1> QED BY <1>2, <1>3 DEF e

(* Division with remainder.                                                 *)
LEMMA Divides ==
  ASSUME NEW m \in Nat \ {0}, NEW q \in Nat, NEW r \in 0..(m - 1)
  PROVE  (q * m + r) \div m = q /\ (q * m + r) % m = r
OBVIOUS

(* There is a combination; and unless the limit cuts some off, there is one *)
(* of every source, destination and service.                                *)
LEMMA CombinationsFacts ==
  ASSUME NEW src, NEW dst, NEW svc,
         Len(src) \in Nat \ {0}, Len(dst) \in Nat \ {0}, Len(svc) \in Nat \ {0}
  PROVE  LET combos == Combinations(src, dst, svc)
             all == Len(src) * Len(dst) * Len(svc)
         IN  /\ ToSet(combos) # {}
             /\ Len(combos) < all \/
                  \A a \in 1..Len(src), b \in 1..Len(dst), d \in 1..Len(svc) :
                     \E c \in ToSet(combos) :
                        c.src = src[a] /\ c.dst = dst[b] /\ c.svc = svc[d]
<1> DEFINE A == Len(src)
           B == Len(dst)
           C == Len(svc)
           K == A * B * C
           at(n) == [src |-> src[((n - 1) \div (C * B)) + 1],
                     dst |-> dst[(((n - 1) \div C) % B) + 1],
                     svc |-> svc[((n - 1) % C) + 1]]
           all == [n \in 1..K |-> at(n)]
           L == IF Len(all) < ComboLimit THEN Len(all) ELSE ComboLimit
           combos == Combinations(src, dst, svc)
<1>1. combos = SubSeq(all, 1, L)
  BY DEF Combinations
<1> HIDE DEF combos
<1>2. /\ A \in Nat \ {0} /\ B \in Nat \ {0} /\ C \in Nat \ {0}
  OBVIOUS
<1> HIDE DEF A, B, C
<1>3. K \in Nat \ {0}
  BY <1>2
<1>4. Len(all) = K
  <2> HIDE DEF K, at
  <2> QED BY <1>3
<1>5. L \in 1..K /\ L \in Nat /\ (L = K \/ L < K)
  <2> HIDE DEF K, all
  <2> QED BY <1>3, <1>4, RequestAssumption
<1> HIDE DEF L
<1>6. Len(combos) = L /\ \A n \in 1..L : combos[n] = at(n)
  <2> HIDE DEF K, at
  <2>1. combos = [n \in 1..L |-> all[n]]
    BY <1>1, <1>3, <1>4, <1>5
  <2>2. \A n \in 1..L : n \in 1..K
    BY <1>3, <1>5
  <2>3. \A n \in 1..L : all[n] = at(n)
    BY <2>2
  <2> HIDE DEF all
  <2> QED BY <1>5, <2>1, <2>3
<1>7. DOMAIN combos = 1..L
  <2> HIDE DEF K, at
  <2> QED BY <1>1, <1>3, <1>4, <1>5
<1>8. ToSet(combos) # {}
  <2>1. 1 \in DOMAIN combos
    BY <1>3, <1>5, <1>7
  <2> QED BY <2>1 DEF ToSet
<1>9. ASSUME L = K, NEW a \in 1..A, NEW b \in 1..B, NEW d \in 1..C
      PROVE  \E c \in ToSet(combos) : c.src = src[a] /\ c.dst = dst[b] /\ c.svc = svc[d]
  <2> DEFINE r == (b - 1) * C + (d - 1)
             n == (a - 1) * (C * B) + r + 1
  <2>1. /\ a - 1 \in Nat /\ b - 1 \in 0..(B - 1) /\ b - 1 \in Nat
        /\ d - 1 \in 0..(C - 1) /\ d - 1 \in Nat
        /\ C * B \in Nat \ {0} /\ (b - 1) * C \in Nat
    BY <1>2
  <2>2. r \in 0..(C * B - 1)
    <3>1. (b - 1) * C <= (B - 1) * C
      BY <1>2, <2>1
    <3>2. (B - 1) * C + C = C * B /\ (B - 1) * C \in Nat
      BY <1>2
    <3> QED BY <1>2, <2>1, <3>1, <3>2
  <2>3. (n - 1) \div (C * B) = a - 1
    <3> HIDE DEF r
    <3>1. n - 1 = (a - 1) * (C * B) + r
      BY <1>2, <2>1, <2>2
    <3> QED BY ZenonT(40), <2>1, <2>2, <3>1, Divides
  <2>4. (n - 1) % C = d - 1
    <3> DEFINE q == (a - 1) * B + (b - 1)
    <3>1. q \in Nat /\ n - 1 = q * C + (d - 1)
      BY <1>2, <2>1
    <3> HIDE DEF n, q, r
    <3> QED BY ZenonT(40), <1>2, <2>1, <3>1, Divides
  <2>5. ((n - 1) \div C) % B = b - 1
    <3> DEFINE q == (a - 1) * B + (b - 1)
    <3>1. q \in Nat /\ n - 1 = q * C + (d - 1)
      BY <1>2, <2>1
    <3>2. (n - 1) \div C = q
      <4> HIDE DEF n, q, r
      <4> QED BY <1>2, <2>1, <3>1, Divides
    <3>3. q % B = b - 1
      BY <1>2, <2>1, Divides
    <3> QED BY <3>2, <3>3
  <2>6. n \in 1..K
    <3> DEFINE P == (a - 1) * (C * B)
               Q == (A - 1) * (C * B)
               M == C * B
    <3>1. P <= Q
      BY <1>2, <2>1
    <3>2. Q + M = K /\ Q \in Nat
      BY <1>2
    <3>3. P \in Nat /\ M \in Nat /\ r \in 0..(M - 1) /\ n = P + r + 1
      BY <1>2, <2>1, <2>2
    <3> HIDE DEF n, r, K, P, Q, M
    <3> QED BY <1>3, <2>1, <2>2, <3>1, <3>2, <3>3
  <2>7. combos[n] = at(n) /\ n \in DOMAIN combos
    BY <1>6, <1>7, <1>9, <2>6
  <2>8. at(n).src = src[a] /\ at(n).dst = dst[b] /\ at(n).svc = svc[d]
    <3>1. /\ ((n - 1) \div (C * B)) + 1 = a
          /\ (((n - 1) \div C) % B) + 1 = b
          /\ ((n - 1) % C) + 1 = d
      BY <2>1, <2>3, <2>5, <2>4
    <3> HIDE DEF n
    <3> QED BY <3>1
  <2> HIDE DEF n, at
  <2> QED BY <2>7, <2>8 DEF ToSet
<1> HIDE DEF K
<1> QED BY <1>3, <1>5, <1>6, <1>8, <1>9 DEF combos, A, B, C, K

(* What the property asks of the rows.                                      *)
Accounted(rows) ==
    \A i \in DOMAIN asked.selections :
        LET adom == asked.selections[i].adom
            flow == asked.flow
            Has(s, d) == {row \in rows : /\ row.selection = i
                                         /\ row.combo.src = s /\ row.combo.dst = d}
        IN  \/ Flagged(i, rows)
            \/ \A s \in StandsFor(adom, flow.src), d \in StandsFor(adom, flow.dst) :
                  /\ Has(s, d) # {}
                  /\ Expressible(adom, flow.svc) =>
                        \A v \in ServicesFor(adom, flow.svc) :
                           \E row \in Has(s, d) : row.combo.svc = v

(* The inductive invariant: the record of the work has the fields of its    *)
(* step, and the rows of an answer account for the request.                 *)
RequestInv ==
    /\ asked.selections \in Selections
    /\ \/ known = [step |-> "resolve"]
       \/ known = [step |-> "done"] /\ answer.status = "error"
       \/ /\ known.step \in {"policies", "routing", "done"}
          /\ known = [step |-> known.step, missing |-> known.missing,
                      policies |-> known.policies, lost |-> known.lost,
                      routing |-> known.routing]
          /\ (known.step = "done" /\ answer.status = "ok" /\ OneMeaning) =>
                Accounted(answer.rows)

(* The fields of a row.                                                     *)
LEMMA RowFacts ==
  ASSUME NEW i, NEW c, NEW w
  PROVE  Row(i, c, w).selection = i /\ Row(i, c, w).combo = c /\ Row(i, c, w).warned = w
<1> DEFINE v == IF ~Readable(c.src) \/ ~Readable(c.dst) \/ c.svc \notin ServiceTexts
                THEN "ERROR"
                ELSE IF known.policies[CHOOSE q \in PackageOf(asked.selections[i]) : TRUE]
                           = "none"
                     THEN "NEW_RULE_NEEDED" ELSE "judged"
           p == PathOf(c.src, c.dst, known.routing[asked.selections[i].device])
           z == ZoneVerdictOf(asked.flow)
<1>1. Row(i, c, w) = [selection |-> i, combo |-> c, warned |-> w, zone |-> z,
                      verdict |-> v, path |-> p]
  BY DEF Row
<1> HIDE DEF v, p, z
<1>2. [selection |-> i, combo |-> c, warned |-> w, zone |-> z, verdict |-> v,
       path |-> p].warned = w
  BY Zenon
<1> QED BY <1>1, <1>2

(* analyze_flows accounts for the whole request: by its errors, its         *)
(* warnings, or a row for each pair and each service it can express.        *)
LEMMA RequestAnswered ==
  ASSUME AnalyzeFlows, asked.selections \in Selections, OneMeaning
  PROVE  answer'.status = "ok" /\ Accounted(answer'.rows)
<1> DEFINE src == ExpandAddr(asked.flow.src)
           dst == ExpandAddr(asked.flow.dst)
           svc == ExpandSvc(asked.flow.svc)
           combos == Combinations(src.texts, dst.texts, svc.texts)
           truncated == Len(combos) < Len(src.texts) * Len(dst.texts) * Len(svc.texts)
           unanswered == {[selection |-> i, verdict |-> "ERROR"] : i \in known.missing}
           warned == src.warned \/ dst.warned \/ truncated
           judged == IF Chosen = {} THEN {}
                     ELSE IF ~(src.found /\ dst.found /\ svc.found)
                     THEN {[selection |-> 0, verdict |-> "ERROR"]}
                     ELSE {Row(i, c, warned) : i \in Chosen, c \in ToSet(combos)}
           rows == unanswered \cup judged
<1>1. answer' = [status |-> "ok", rows |-> rows]
  BY DEF AnalyzeFlows, Answer
<1>2. ASSUME NEW i \in DOMAIN asked.selections
      PROVE  LET adom == asked.selections[i].adom
                 flow == asked.flow
                 Has(s, d) == {row \in rows : /\ row.selection = i
                                              /\ row.combo.src = s /\ row.combo.dst = d}
             IN  \/ Flagged(i, rows)
                 \/ \A s \in StandsFor(adom, flow.src), d \in StandsFor(adom, flow.dst) :
                       /\ Has(s, d) # {}
                       /\ Expressible(adom, flow.svc) =>
                             \A v \in ServicesFor(adom, flow.svc) :
                                \E row \in Has(s, d) : row.combo.svc = v
  <2> DEFINE adom == asked.selections[i].adom
             flow == asked.flow
             Has(s, d) == {row \in rows : /\ row.selection = i
                                          /\ row.combo.src = s /\ row.combo.dst = d}
  <2>1. CASE i \in known.missing
    <3> DEFINE row == [selection |-> i, verdict |-> "ERROR"]
    <3>1. row \in rows /\ row.selection = i /\ row.verdict = "ERROR"
      BY <2>1
    <3> HIDE DEF row, rows
    <3>2. Flagged(i, rows)
      BY <3>1 DEF Flagged
    <3> QED BY <3>2
  <2>2. CASE i \notin known.missing /\ ~(src.found /\ dst.found /\ svc.found)
    <3> DEFINE row == [selection |-> 0, verdict |-> "ERROR"]
    <3>1. row \in rows /\ row.selection = 0 /\ row.verdict = "ERROR"
      <4>1. Chosen # {}
        BY <2>2 DEF Chosen
      <4> HIDE DEF src, dst, svc
      <4> QED BY <2>2, <4>1
    <3> HIDE DEF row, rows
    <3>2. Flagged(i, rows)
      BY <3>1 DEF Flagged
    <3> QED BY <3>2
  <2>3. CASE i \notin known.missing /\ src.found /\ dst.found /\ svc.found
    <3>1. /\ Len(src.texts) \in Nat \ {0} /\ DOMAIN src.texts = 1..Len(src.texts)
          /\ src.warned \/ StandsFor(adom, flow.src) \subseteq ToSet(src.texts)
      BY <2>3, ExpandAddrFacts
    <3>2. /\ Len(dst.texts) \in Nat \ {0} /\ DOMAIN dst.texts = 1..Len(dst.texts)
          /\ dst.warned \/ StandsFor(adom, flow.dst) \subseteq ToSet(dst.texts)
      BY <2>3, ExpandAddrFacts
    <3>3. /\ Len(svc.texts) \in Nat \ {0} /\ DOMAIN svc.texts = 1..Len(svc.texts)
          /\ Expressible(adom, flow.svc) =>
                ServicesFor(adom, flow.svc) \subseteq ToSet(svc.texts)
      BY <2>3, ExpandSvcFacts, ServiceFacts
    <3>4. i \in Chosen /\ judged = {Row(k, c, warned) : k \in Chosen, c \in ToSet(combos)}
      <4> HIDE DEF src, dst, svc, combos, warned
      <4>1. i \in Chosen
        BY <2>3 DEF Chosen
      <4> QED BY <2>3, <4>1
    <3>5. \A c \in ToSet(combos) : Row(i, c, warned) \in rows
      <4> HIDE DEF warned, combos, unanswered, judged
      <4> QED BY <3>4
    <3> HIDE DEF src, dst, svc, rows, unanswered, judged
    <3>6. /\ ToSet(combos) # {}
          /\ truncated \/
               \A a \in 1..Len(src.texts), b \in 1..Len(dst.texts), d \in 1..Len(svc.texts) :
                  \E c \in ToSet(combos) :
                     c.src = src.texts[a] /\ c.dst = dst.texts[b] /\ c.svc = svc.texts[d]
      <4> DEFINE S == src.texts
                 D == dst.texts
                 V == svc.texts
      <4> HIDE DEF S, D, V
      <4>1. /\ Len(S) \in Nat \ {0} /\ Len(D) \in Nat \ {0} /\ Len(V) \in Nat \ {0}
        BY <3>1, <3>2, <3>3 DEF S, D, V
      <4>2. LET cs == Combinations(S, D, V)
                all == Len(S) * Len(D) * Len(V)
            IN  /\ ToSet(cs) # {}
                /\ Len(cs) < all \/
                     \A a \in 1..Len(S), b \in 1..Len(D), d \in 1..Len(V) :
                        \E c \in ToSet(cs) : c.src = S[a] /\ c.dst = D[b] /\ c.svc = V[d]
        BY <4>1, CombinationsFacts
      <4> QED BY <4>2 DEF S, D, V
    <3> HIDE DEF combos
    <3>7. CASE warned
      <4> HIDE DEF warned
      <4>1. PICK c \in ToSet(combos) : TRUE
        BY <3>6
      <4>2. Row(i, c, warned).selection = i /\ Row(i, c, warned).warned
        <5>1. Row(i, c, warned).selection = i /\ Row(i, c, warned).warned = warned
          BY RowFacts
        <5> QED BY <3>7, <5>1, Zenon
      <4>3. Flagged(i, rows)
        BY <3>5, <4>1, <4>2 DEF Flagged
      <4> QED BY <4>3
    <3>8. CASE ~warned
      <4>1. ~src.warned /\ ~dst.warned /\ ~truncated
        BY <3>8
      <4> SUFFICES ASSUME NEW s \in StandsFor(adom, flow.src),
                          NEW d \in StandsFor(adom, flow.dst)
                   PROVE  /\ Has(s, d) # {}
                          /\ Expressible(adom, flow.svc) =>
                                \A v \in ServicesFor(adom, flow.svc) :
                                   \E row \in Has(s, d) : row.combo.svc = v
        OBVIOUS
      <4>2. s \in ToSet(src.texts) /\ d \in ToSet(dst.texts)
        BY <3>1, <3>2, <4>1
      <4>3. PICK a \in 1..Len(src.texts) : src.texts[a] = s
        BY <3>1, <4>2 DEF ToSet
      <4>4. PICK b \in 1..Len(dst.texts) : dst.texts[b] = d
        BY <3>2, <4>2 DEF ToSet
      <4>5. ASSUME NEW v \in ToSet(svc.texts)
            PROVE  \E row \in Has(s, d) : row.combo.svc = v
        <5>1. PICK e \in 1..Len(svc.texts) : svc.texts[e] = v
          BY <3>3 DEF ToSet
        <5>2. PICK c \in ToSet(combos) : c.src = s /\ c.dst = d /\ c.svc = v
          BY <3>6, <4>1, <4>3, <4>4, <5>1
        <5> HIDE DEF warned
        <5> DEFINE row == Row(i, c, warned)
        <5>3. row.selection = i /\ row.combo = c
          BY RowFacts
        <5>4. row \in rows
          BY <3>5
        <5> HIDE DEF row
        <5>5. row \in Has(s, d)
          BY <5>2, <5>3, <5>4
        <5> QED BY <5>2, <5>3, <5>5
      <4>6. svc.texts[1] \in ToSet(svc.texts)
        BY <3>3 DEF ToSet
      <4>7. Has(s, d) # {}
        BY <4>5, <4>6
      <4> HIDE DEF Has
      <4> QED BY <3>3, <4>5, <4>7
    <3> QED BY <3>7, <3>8, Zenon
  <2> HIDE DEF rows, src, dst, svc
  <2> QED BY <2>1, <2>2, <2>3
<1> HIDE DEF rows
<1>3. answer'.status = "ok" /\ answer'.rows = rows
  BY <1>1
<1>4. Accounted(rows)
  BY <1>2 DEF Accounted
<1> QED BY <1>3, <1>4

(* The invariant holds at first.                                            *)
LEMMA RequestInit == ReviewRequestInit => RequestInv
BY DEF ReviewRequestInit, AskReview, RequestInv

(* Every step keeps it.                                                     *)
LEMMA RequestStep == RequestInv /\ [ReviewRequestNext]_questionVars => RequestInv'
<1> SUFFICES ASSUME RequestInv, [ReviewRequestNext]_questionVars PROVE RequestInv'
  OBVIOUS
<1>1. asked.selections \in Selections
  BY DEF RequestInv
<1>2. known.step \in {"policies", "routing"} =>
         known = [step |-> known.step, missing |-> known.missing,
                  policies |-> known.policies, lost |-> known.lost,
                  routing |-> known.routing]
  <2>1. known = [step |-> "resolve"] => known.step = "resolve"
    OBVIOUS
  <2>2. known = [step |-> "done"] => known.step = "done"
    OBVIOUS
  <2> QED BY <2>1, <2>2 DEF RequestInv
<1>3. ASSUME NEW step \in {"policies", "routing", "done"}, NEW missing, NEW policies,
             NEW lost, NEW routing, UNCHANGED asked,
             known' = [step |-> step, missing |-> missing, policies |-> policies,
                       lost |-> lost, routing |-> routing],
             (step = "done" /\ answer'.status = "ok" /\ OneMeaning') =>
                 Accounted(answer.rows)'
      PROVE  RequestInv'
  <2>1. /\ known'.step = step /\ known'.missing = missing /\ known'.lost = lost
        /\ known'.policies = policies /\ known'.routing = routing
    BY <1>3
  <2>2. (known'.step = "done" /\ answer'.status = "ok" /\ OneMeaning') =>
           Accounted(answer.rows)'
    BY <1>3, <2>1
  <2>3. asked'.selections \in Selections
    BY <1>1, <1>3
  <2> QED BY <1>3, <2>1, <2>2, <2>3 DEF RequestInv
<1>4. CASE LoginFails
  <2>1. /\ known.step = "resolve" /\ UNCHANGED asked
        /\ known' = [known EXCEPT !.step = "done"] /\ answer' = [status |-> "error"]
    BY <1>4 DEF LoginFails, Answer, AtStep
  <2>2. known = [step |-> "resolve"]
    <3>1. known = [step |-> "done"] => known.step = "done"
      OBVIOUS
    <3> QED BY <2>1, <3>1 DEF RequestInv
  <2>3. known' = [step |-> "done"] /\ answer'.status = "error"
    BY <2>1, <2>2
  <2> QED BY <1>1, <2>1, <2>3 DEF RequestInv
<1>5. CASE ResolvePackages
  <2>1. PICK unread : known' =
            [step |-> "policies",
             missing |-> {i \in DOMAIN asked.selections :
                            \/ asked.selections[i].adom \in unread
                            \/ PackageOf(asked.selections[i]) = {}},
             policies |-> << >>, lost |-> {}, routing |-> << >>]
    BY <1>5 DEF ResolvePackages
  <2> DEFINE none == {i \in DOMAIN asked.selections :
                        \/ asked.selections[i].adom \in unread
                        \/ PackageOf(asked.selections[i]) = {}}
  <2>2. /\ known' = [step |-> "policies", missing |-> none, policies |-> << >>,
                     lost |-> {}, routing |-> << >>]
        /\ UNCHANGED asked
    BY <1>5, <2>1 DEF ResolvePackages
  <2> HIDE DEF none
  <2> QED BY <1>3, <2>2
<1>6. CASE FetchPolicies
  <2>1. PICK p : \E rules \in {"rules", "none"} :
          known' = [known EXCEPT !.policies = @ @@ (p :> rules)]
    BY <1>6 DEF FetchPolicies
  <2>2. PICK rules : known' = [known EXCEPT !.policies = @ @@ (p :> rules)]
    BY <2>1
  <2> DEFINE policies == known.policies @@ (p :> rules)
  <2>3. known.step = "policies" /\ UNCHANGED asked
    BY <1>6 DEF FetchPolicies, AtStep
  <2>4. known' = [known EXCEPT !.policies = policies]
    BY <2>2
  <2> HIDE DEF policies
  <2>5. known' = [step |-> "policies", missing |-> known.missing, policies |-> policies,
                  lost |-> known.lost, routing |-> known.routing]
    BY <1>2, <2>3, <2>4
  <2> QED BY <1>3, <2>3, <2>5
<1>7. CASE FetchObjects
  <2>1. known.step = "policies" /\ UNCHANGED asked
    BY <1>7 DEF FetchObjects, AtStep
  <2>2. PICK lost : known' = [known EXCEPT !.step = "routing", !.lost = lost]
    BY <1>7 DEF FetchObjects
  <2>3. known' = [step |-> "routing", missing |-> known.missing,
                  policies |-> known.policies, lost |-> lost, routing |-> known.routing]
    BY <1>2, <2>1, <2>2
  <2> QED BY <1>3, <2>1, <2>3
<1>8. CASE FetchRouting
  <2>1. PICK d : \E data \in {Routing[d], [interfaces |-> {}, routes |-> {}]} :
          known' = [known EXCEPT !.routing = @ @@ (d :> data)]
    BY <1>8 DEF FetchRouting
  <2>2. PICK data : known' = [known EXCEPT !.routing = @ @@ (d :> data)]
    BY <2>1
  <2> DEFINE routing == known.routing @@ (d :> data)
  <2>3. known.step = "routing" /\ UNCHANGED asked
    BY <1>8 DEF FetchRouting, AtStep
  <2>4. known' = [known EXCEPT !.routing = routing]
    BY <2>2
  <2> HIDE DEF routing
  <2>5. known' = [step |-> "routing", missing |-> known.missing,
                  policies |-> known.policies, lost |-> known.lost, routing |-> routing]
    BY <1>2, <2>3, <2>4
  <2> QED BY <1>3, <2>3, <2>5
<1>9. CASE AnalyzeFlows
  <2>1. /\ known.step = "routing" /\ UNCHANGED asked
        /\ known' = [known EXCEPT !.step = "done"]
    BY <1>9 DEF AnalyzeFlows, Answer, AtStep
  <2>2. known' = [step |-> "done", missing |-> known.missing,
                  policies |-> known.policies, lost |-> known.lost,
                  routing |-> known.routing]
    BY <1>2, <2>1
  <2>3. known'.lost = known.lost
    BY <2>2
  <2>4. OneMeaning' = OneMeaning
    BY <2>1 DEF OneMeaning, Pools, PoolName, Firsts
  <2>5. Accounted(answer.rows)' = Accounted(answer'.rows)
    BY <2>1, <2>3 DEF Accounted, Expressible, Firsts, ServiceTable, StandsFor, ServicesFor,
                      Flagged
  <2>6. OneMeaning' => Accounted(answer.rows)'
    BY <1>1, <1>9, <2>4, <2>5, RequestAnswered
  <2> QED BY <1>3, <2>1, <2>2, <2>6
<1>10. CASE UNCHANGED questionVars
  <2>1. OneMeaning' = OneMeaning
    BY <1>10 DEF questionVars, OneMeaning, Pools, PoolName, Firsts
  <2>2. Accounted(answer.rows)' = Accounted(answer.rows)
    BY <1>10 DEF questionVars, Accounted, Expressible, Firsts, ServiceTable, StandsFor,
                 ServicesFor, Flagged
  <2> QED BY <1>10, <2>1, <2>2 DEF questionVars, RequestInv
<1> QED BY <1>4, <1>5, <1>6, <1>7, <1>8, <1>9, <1>10 DEF ReviewRequestNext

(* It implies the property.                                                 *)
LEMMA RequestMeans == RequestInv => NothingDroppedSilently
<1> SUFFICES ASSUME RequestInv, Answered("review"), answer.status = "ok", OneMeaning
             PROVE  Accounted(answer.rows)
  BY DEF NothingDroppedSilently, Accounted
<1>1. known.step = "done"
  BY DEF Answered, AtStep
<1>2. known # [step |-> "resolve"]
  BY <1>1
<1> QED BY <1>1, <1>2 DEF RequestInv

(* Neither a nested group, nor an address table that could not be read, nor  *)
(* the limit on combinations, nor a firewall without a package drops a part  *)
(* of the request in silence, as long as the tables put together agree:      *)
(* NothingDroppedSilently.                                                  *)
THEOREM DroppedCorrect == ReviewRequestSpec => []NothingDroppedSilently
BY RequestInit, RequestStep, RequestMeans, PTL DEF ReviewRequestSpec

-----------------------------------------------------------------------------
(* Catalogs *)

(* A name that is no group has no other under it; what is under a name that  *)
(* can be carried can be carried.                                            *)
LEMMA UnderFacts ==
  ASSUME NEW objects, NEW groups, IsFiniteSet(DOMAIN groups), NEW name
  PROVE  /\ name \in Under(groups, name)
         /\ name \notin DOMAIN groups => Under(groups, name) = {name}
         /\ name \in NamesIn(objects, groups) =>
               Under(groups, name) \subseteq NamesIn(objects, groups)
<1> DEFINE next == [g \in DOMAIN groups |-> ToSet(groups[g])]
           Carried == NamesIn(objects, groups)
<1>1. DOMAIN next = DOMAIN groups /\ Under(groups, name) = Reach({name}, next)
  BY DEF Under
<1>2. \A g \in DOMAIN groups : next[g] = ToSet(groups[g])
  OBVIOUS
<1> HIDE DEF next
<1>3. {name} \subseteq Reach({name}, next)
  BY <1>1, ReachIsClosed
<1>4. ASSUME name \notin DOMAIN groups PROVE Reach({name}, next) \subseteq {name}
  <2>1. \A x \in {name} \cap DOMAIN next : next[x] \subseteq {name}
    BY <1>1, <1>4
  <2>2. {name} \subseteq {name}
    OBVIOUS
  <2> QED BY ONLY <2>1, <2>2, <1>1, IsFiniteSet(DOMAIN groups), ReachIsLeast
<1>5. ASSUME name \in Carried PROVE Reach({name}, next) \subseteq Carried
  <2>1. \A x \in Carried \cap DOMAIN next : next[x] \subseteq Carried
    BY <1>1, <1>2 DEF NamesIn
  <2>2. {name} \subseteq Carried
    BY <1>5
  <2> HIDE DEF Carried
  <2> QED BY ONLY <2>1, <2>2, <1>1, IsFiniteSet(DOMAIN groups), ReachIsLeast
<1> QED BY <1>1, <1>3, <1>4, <1>5

(* What the names of a table are, and what is under them: everything under a *)
(* wildcard, nothing under what is not known, and under any name the parts   *)
(* of its leaves.                                                            *)
LEMMA TableFacts ==
  ASSUME NEW objects, NEW groups, NEW things, NEW everything,
         Table(objects, groups, things), NEW name \in NamesIn(objects, groups),
         NEW ref, ref = Resolution(objects, groups, everything),
         NEW leaves, leaves = Leaves(objects, groups)
  PROVE  /\ leaves[name] \subseteq NamesIn(objects, groups)
         /\ ref[name].known \in BOOLEAN
         /\ ref[name].parts \subseteq things \cup {everything}
         /\ ref[name].parts = UNION {ref[leaf].parts : leaf \in leaves[name]}
         /\ IsWildcardName(name) => ref[name].known /\ ref[name].parts = {everything}
         /\ name \notin DOMAIN groups => leaves[name] = {name}
         /\ (\E leaf \in leaves[name] : ref[leaf].known) => ref[name].known
         /\ \A leaf \in leaves[name] :
               /\ ~ref[leaf].known => ref[leaf].parts = {}
               /\ ref[leaf].known => IsWildcardName(leaf) \/ leaf \in DOMAIN objects
<1> DEFINE Carried == NamesIn(objects, groups)
           Entry(n) == IF IsWildcardName(n) THEN Resolved({everything})
                       ELSE IF n \in DOMAIN objects THEN objects[n] ELSE Unresolved
<1>1. IsFiniteSet(DOMAIN groups)
  BY DEF Table
<1>2. \A n \in Carried : /\ leaves[n] = Under(groups, n) \ DOMAIN groups
                         /\ leaves[n] \subseteq Carried
                         /\ n \notin DOMAIN groups => leaves[n] = {n}
  <2> TAKE n \in Carried
  <2>1. leaves[n] = Under(groups, n) \ DOMAIN groups
    BY DEF Leaves
  <2>2. /\ n \in Under(groups, n)
        /\ n \notin DOMAIN groups => Under(groups, n) = {n}
        /\ Under(groups, n) \subseteq Carried
    BY <1>1, UnderFacts
  <2> HIDE DEF Carried
  <2> QED BY <2>1, <2>2
<1>3. \A n \in Carried :
         /\ ref[n].known = ((\E leaf \in leaves[n] : Entry(leaf).known) \/ MetTwice(groups, n))
         /\ ref[n].parts = UNION {Entry(leaf).parts : leaf \in leaves[n]}
  BY DEF Resolution
<1>4. \A n : /\ Entry(n).known \in BOOLEAN /\ Entry(n).parts \subseteq things \cup {everything}
             /\ ~Entry(n).known => Entry(n).parts = {}
             /\ Entry(n).known => IsWildcardName(n) \/ n \in DOMAIN objects
             /\ IsWildcardName(n) => Entry(n).known /\ Entry(n).parts = {everything}
  <2> TAKE n
  <2>1. CASE IsWildcardName(n)
    BY <2>1 DEF Resolved
  <2>2. CASE ~IsWildcardName(n) /\ n \in DOMAIN objects
    BY <2>2 DEF Table
  <2>3. CASE ~IsWildcardName(n) /\ n \notin DOMAIN objects
    BY <2>3 DEF Unresolved
  <2> QED BY <2>1, <2>2, <2>3
<1> HIDE DEF Entry
<1>5. \A n \in Carried : n \notin DOMAIN groups =>
         ref[n].parts = Entry(n).parts /\ (ref[n].known <=> Entry(n).known)
  <2> TAKE n \in Carried
  <2> HAVE n \notin DOMAIN groups
  <2>1. leaves[n] = {n} /\ Under(groups, n) = {n}
    <3>1. n \notin DOMAIN groups => Under(groups, n) = {n}
      BY <1>1, UnderFacts
    <3> QED BY <1>2, <3>1
  <2>2. ~MetTwice(groups, n)
    BY <2>1 DEF MetTwice
  <2>3. ref[n].parts = Entry(n).parts
    <3>1. ref[n].parts = UNION {Entry(leaf).parts : leaf \in {n}}
      BY <2>1, <1>3
    <3>2. UNION {Entry(leaf).parts : leaf \in {n}} = Entry(n).parts
      OBVIOUS
    <3> QED BY <3>1, <3>2
  <2>4. ref[n].known <=> Entry(n).known
    BY <2>1, <2>2, <1>3, <1>4
  <2> QED BY <2>3, <2>4
<1>6. \A leaf \in leaves[name] : leaf \in Carried /\ leaf \notin DOMAIN groups
  <2>1. name \in Carried
    OBVIOUS
  <2> HIDE DEF Carried
  <2> QED BY <1>2, <2>1
<1>7. ref[name].known \in BOOLEAN
  BY <1>3
<1>8. ref[name].parts \subseteq things \cup {everything}
  BY <1>3, <1>4
<1>9. ref[name].parts = UNION {ref[leaf].parts : leaf \in leaves[name]}
  BY <1>3, <1>5, <1>6
<1>10. ASSUME IsWildcardName(name)
       PROVE  ref[name].known /\ ref[name].parts = {everything}
  <2>1. name \notin DOMAIN groups
    BY <1>10 DEF Table
  <2> QED BY <2>1, <1>4, <1>5, <1>10
<1>11. \A leaf \in leaves[name] :
               /\ ~ref[leaf].known => ref[leaf].parts = {}
               /\ ref[leaf].known => IsWildcardName(leaf) \/ leaf \in DOMAIN objects
  BY <1>4, <1>5, <1>6
<1>12. (\E leaf \in leaves[name] : ref[leaf].known) => ref[name].known
  BY <1>3, <1>5, <1>6
<1>13. leaves[name] \subseteq Carried /\ (name \notin DOMAIN groups => leaves[name] = {name})
  <2>1. name \in Carried
    OBVIOUS
  <2> HIDE DEF Carried
  <2> QED BY <1>2, <2>1
<1> QED BY <1>7, <1>8, <1>9, <1>10, <1>11, <1>12, <1>13

(* The two tables.                                                           *)
LEMMA AddrFacts ==
  ASSUME NEW name \in AddrNames
  PROVE  /\ AddrLeaves[name] \subseteq AddrNames
         /\ AddrRef[name].known \in BOOLEAN
         /\ AddrRef[name].parts \subseteq SUBSET Addresses
         /\ AddrRef[name].parts = UNION {AddrRef[leaf].parts : leaf \in AddrLeaves[name]}
         /\ IsWildcardName(name) => AddrRef[name].known /\ AddrRef[name].parts = {Addresses}
         /\ name \notin DOMAIN AddrGroups => AddrLeaves[name] = {name}
         /\ \A leaf \in AddrLeaves[name] :
               /\ ~AddrRef[leaf].known => AddrRef[leaf].parts = {}
               /\ AddrRef[leaf].known => IsWildcardName(leaf) \/ leaf \in DOMAIN AddrObjects
<1>1. Table(AddrObjects, AddrGroups, SUBSET Addresses)
  BY CatalogAssumption
<1>2. name \in NamesIn(AddrObjects, AddrGroups)
  BY DEF AddrNames
<1>3. (SUBSET Addresses) \cup {Addresses} = SUBSET Addresses
  OBVIOUS
<1>4. AddrRef = Resolution(AddrObjects, AddrGroups, Addresses)
  BY DEF AddrRef
<1>5. AddrLeaves = Leaves(AddrObjects, AddrGroups)
  BY DEF AddrLeaves
<1> HIDE DEF AddrRef, AddrLeaves
<1> QED BY ONLY <1>1, <1>2, <1>3, <1>4, <1>5, TableFacts DEF AddrNames

LEMMA RangesAreRanges == PortRanges \subseteq PortRange /\ WildcardRange \in PortRange
BY DEF PortRanges, PortRange, WildcardRange

LEMMA SvcFacts ==
  ASSUME NEW name \in SvcNames
  PROVE  /\ SvcLeavesOf[name] \subseteq SvcNames
         /\ SvcRef[name].known \in BOOLEAN
         /\ SvcRef[name].parts \subseteq PortRanges \cup {WildcardRange}
         /\ SvcRef[name].parts = UNION {SvcRef[leaf].parts : leaf \in SvcLeavesOf[name]}
         /\ IsWildcardName(name) => SvcRef[name].known /\ SvcRef[name].parts = {WildcardRange}
         /\ (\E leaf \in SvcLeavesOf[name] : SvcRef[leaf].known) => SvcRef[name].known
         /\ \A leaf \in SvcLeavesOf[name] : ~SvcRef[leaf].known => SvcRef[leaf].parts = {}
<1>1. Table(SvcObjects, SvcGroups, PortRanges)
  BY CatalogAssumption
<1>2. name \in NamesIn(SvcObjects, SvcGroups)
  BY DEF SvcNames
<1>3. SvcRef = Resolution(SvcObjects, SvcGroups, WildcardRange)
  BY DEF SvcRef
<1>4. SvcLeavesOf = Leaves(SvcObjects, SvcGroups)
  BY DEF SvcLeavesOf
<1> HIDE DEF SvcRef, SvcLeavesOf
<1> QED BY ONLY <1>1, <1>2, <1>3, <1>4, TableFacts DEF SvcNames

(* A name that is known has all its leaves' parts, and names of which none   *)
(* hides a member have no other addresses than those that were resolved.     *)
LEMMA AddrMeaningFacts ==
  ASSUME NEW names \in SUBSET AddrNames, NEW elsewhere
  PROVE  /\ UNION UNION {AddrRef[n].parts : n \in names} \subseteq AddrMeaning(names, elsewhere)
         /\ ~UnknownAddr(names) /\ ~Mixed(AddrRef, AddrLeaves, names) =>
               AddrMeaning(names, elsewhere) \subseteq UNION UNION {AddrRef[n].parts : n \in names}
<1> DEFINE Of(n) == IF AddrRef[n].known THEN UNION AddrRef[n].parts ELSE elsewhere
           below == UNION {AddrLeaves[m] : m \in names}
<1>1. AddrMeaning(names, elsewhere) = UNION {Of(n) : n \in below}
  BY DEF AddrMeaning
<1>2. ASSUME NEW n \in names, NEW part \in AddrRef[n].parts, NEW a \in part
      PROVE  a \in AddrMeaning(names, elsewhere)
  <2>1. PICK leaf \in AddrLeaves[n] : part \in AddrRef[leaf].parts
    BY AddrFacts
  <2>2. leaf \in below /\ AddrRef[leaf].known
    BY <2>1, AddrFacts
  <2>3. a \in Of(leaf)
    BY <2>1, <2>2
  <2> QED BY <1>1, <2>2, <2>3
<1>3. ASSUME ~UnknownAddr(names), ~Mixed(AddrRef, AddrLeaves, names),
             NEW a \in AddrMeaning(names, elsewhere)
      PROVE  a \in UNION UNION {AddrRef[n].parts : n \in names}
  <2>1. PICK leaf \in below : a \in Of(leaf)
    BY <1>1
  <2>2. PICK n \in names : leaf \in AddrLeaves[n]
    BY <2>1
  <2>3. AddrRef[leaf].known
    BY <1>3, <2>2 DEF UnknownAddr, Mixed
  <2>4. PICK part \in AddrRef[leaf].parts : a \in part
    BY <2>1, <2>3
  <2>5. part \in AddrRef[n].parts
    BY <2>2, <2>4, AddrFacts
  <2> QED BY <2>2, <2>4, <2>5
<1>4. UNION UNION {AddrRef[n].parts : n \in names} \subseteq AddrMeaning(names, elsewhere)
  BY <1>2
<1> QED BY <1>3, <1>4

LEMMA TrafficOf ==
  ASSUME NEW ranges, NEW c
  PROVE  c \in Traffic(ranges) <=> \E r \in ranges : c \in Traffic({r})
BY DEF Traffic

LEMMA SvcMeaningFacts ==
  ASSUME NEW names \in SUBSET SvcNames, NEW elsewhere
  PROVE  /\ Traffic(Ranges(names)) \subseteq SvcMeaning(names, elsewhere)
         /\ ~UnknownSvc(names) /\ ~Mixed(SvcRef, SvcLeavesOf, names) =>
               SvcMeaning(names, elsewhere) \subseteq Traffic(Ranges(names))
<1> DEFINE Of(n) == IF SvcRef[n].known THEN Traffic(SvcRef[n].parts) ELSE elsewhere
           below == UNION {SvcLeavesOf[m] : m \in names}
<1>1. SvcMeaning(names, elsewhere) = UNION {Of(n) : n \in below}
  BY DEF SvcMeaning
<1>2. ASSUME NEW c \in Traffic(Ranges(names)) PROVE c \in SvcMeaning(names, elsewhere)
  <2>1. PICK r \in Ranges(names) : c \in Traffic({r})
    BY <1>2, TrafficOf
  <2>2. PICK n \in names : r \in SvcRef[n].parts
    BY <2>1 DEF Ranges
  <2>3. PICK leaf \in SvcLeavesOf[n] : r \in SvcRef[leaf].parts
    BY <2>2, SvcFacts
  <2>4. leaf \in below /\ SvcRef[leaf].known
    BY <2>2, <2>3, SvcFacts
  <2>5. c \in Traffic(SvcRef[leaf].parts)
    BY <2>1, <2>3, TrafficOf
  <2> QED BY <1>1, <2>4, <2>5
<1>3. ASSUME ~UnknownSvc(names), ~Mixed(SvcRef, SvcLeavesOf, names),
             NEW c \in SvcMeaning(names, elsewhere)
      PROVE  c \in Traffic(Ranges(names))
  <2>1. PICK leaf \in below : c \in Of(leaf)
    BY <1>1, <1>3
  <2>2. PICK n \in names : leaf \in SvcLeavesOf[n]
    BY <2>1
  <2>3. SvcRef[leaf].known
    BY <1>3, <2>2 DEF UnknownSvc, Mixed
  <2>4. PICK r \in SvcRef[leaf].parts : c \in Traffic({r})
    BY <2>1, <2>3, TrafficOf
  <2>5. r \in SvcRef[n].parts
    BY <2>2, <2>4, SvcFacts
  <2>6. r \in Ranges(names)
    BY <2>2, <2>5 DEF Ranges
  <2> QED BY <2>4, <2>6, TrafficOf
<1> QED BY <1>2, <1>3

(* What the comparison of two ranges says of the connections.                *)
LEMMA RangeFacts ==
  ASSUME NEW r \in PortRange, NEW q \in PortRange
  PROVE  /\ RangeContains(r, q) => Traffic({q}) \subseteq Traffic({r})
         /\ ~RangesOverlap(r, q) => Traffic({q}) \cap Traffic({r}) = {}
<1> DEFINE T(x) == IF x.protocol = "ip" THEN {"tcp", "udp", "sctp", "icmp"} \X Ports
                   ELSE {x.protocol} \X {p \in Ports : x.start <= p /\ p <= x.end}
<1>1. Traffic({r}) = T(r) /\ Traffic({q}) = T(q)
  BY DEF Traffic
<1>2. /\ r.protocol \in {"tcp", "udp", "sctp", "icmp", "ip"} /\ r.start \in Int /\ r.end \in Int
      /\ q.protocol \in {"tcp", "udp", "sctp", "icmp", "ip"} /\ q.start \in Int /\ q.end \in Int
  BY DEF PortRange
<1>3. ASSUME RangeContains(r, q), NEW c \in T(q) PROVE c \in T(r)
  <2>1. PICK p \in Ports : c = <<c[1], p>>
    BY <1>3
  <2>2. p \in Int
    BY CatalogAssumption
  <2>3. CASE r.protocol = "ip"
    BY <1>2, <1>3, <2>1, <2>3
  <2>4. CASE r.protocol # "ip"
    <3>1. q.protocol # "ip" /\ r.protocol = q.protocol /\ r.start <= q.start /\ q.end <= r.end
      BY <1>3, <2>4 DEF RangeContains, Compatible
    <3>2. c[1] = q.protocol /\ q.start <= p /\ p <= q.end
      BY <1>3, <2>1, <3>1
    <3>3. r.start <= p /\ p <= r.end
      BY <1>2, <2>2, <3>1, <3>2
    <3> QED BY <2>1, <2>4, <3>1, <3>2, <3>3
  <2> QED BY <2>3, <2>4
<1>4. ASSUME ~RangesOverlap(r, q), NEW c \in T(q) \cap T(r) PROVE FALSE
  <2>1. PICK p \in Ports : c = <<c[1], p>>
    BY <1>4
  <2>2. p \in Int
    BY CatalogAssumption
  <2>3. CASE r.protocol = "ip" \/ q.protocol = "ip"
    BY <1>4, <2>3 DEF RangesOverlap, Compatible
  <2>4. CASE r.protocol # "ip" /\ q.protocol # "ip"
    <3>1. /\ c[1] = q.protocol /\ q.start <= p /\ p <= q.end
          /\ c[1] = r.protocol /\ r.start <= p /\ p <= r.end
      BY <1>4, <2>1, <2>4
    <3>2. r.start <= q.end /\ q.start <= r.end
      BY <1>2, <2>2, <3>1
    <3> QED BY <1>4, <3>1, <3>2 DEF RangesOverlap, Compatible
  <2> QED BY <2>3, <2>4
<1> HIDE DEF T
<1>5. RangeContains(r, q) => T(q) \subseteq T(r)
  BY <1>3
<1>6. ~RangesOverlap(r, q) => T(q) \cap T(r) = {}
  BY <1>4
<1> QED BY <1>1, <1>5, <1>6

(* A range has connections.                                                  *)
LEMMA RangeNotEmpty ==
  ASSUME NEW r \in PortRanges
  PROVE  Traffic({r}) # {}
<1>1. r.start \in Ports /\ r.end \in Ports /\ r.start <= r.end
  BY DEF PortRanges, PortRange
<1>2. r.start \in Int
  BY <1>1, CatalogAssumption
<1>3. CASE r.protocol = "ip"
  <2>1. <<"tcp", r.start>> \in Traffic({r})
    BY <1>1, <1>3 DEF Traffic
  <2> QED BY <2>1
<1>4. CASE r.protocol # "ip"
  <2>1. r.start <= r.start
    BY <1>2
  <2>2. <<r.protocol, r.start>> \in Traffic({r})
    BY <1>1, <1>4, <2>1 DEF Traffic
  <2> QED BY <2>2
<1> QED BY <1>3, <1>4

-----------------------------------------------------------------------------
(* Planner *)

(* What the verdict on one side of a rule says of an address of the flow, if *)
(* no group of that side hides a member: full, that the rule takes it; not   *)
(* matched, that it does not.                                                *)
LEMMA AddrDimFacts ==
  ASSUME NEW names \in SUBSET AddrNames, NEW negate \in BOOLEAN,
         NEW target, IsFiniteSet(target), NEW a \in target, NEW elsewhere,
         ~Mixed(AddrRef, AddrLeaves, names)
  PROVE  LET dim == AddrDim(names, negate, target)
             takes == (a \in AddrMeaning(names, elsewhere)) # negate
         IN  (dim.f => takes) /\ (~dim.m => ~takes)
<1> DEFINE M == AddrMeaning(names, elsewhere)
           nets == Nets(names)
           overlap == \E n \in nets : n \cap target # {}
           contained == \E n \in Collapsed(nets) : target \subseteq n
           host == Cardinality(target) = 1
           verdict == AddrVerdict(negate, overlap, contained, UnknownAddr(names), host)
<1>1. nets = UNION {AddrRef[n].parts : n \in names}
  BY DEF Nets
<1>2. UNION nets \subseteq M
  BY <1>1, AddrMeaningFacts
<1>3. ~UnknownAddr(names) => M \subseteq UNION nets
  BY <1>1, AddrMeaningFacts
<1>4. contained => a \in UNION nets
  BY DEF Collapsed
<1>5. ~overlap => a \notin UNION nets
  OBVIOUS
<1>6. ASSUME host, overlap PROVE a \in UNION nets
  <2>1. PICK x : target = {x}
    BY <1>6, FS_Singleton
  <2> QED BY <1>6, <2>1
<1>7. AddrDim(names, negate, target) = verdict
  BY DEF AddrDim
<1> DEFINE Goal == /\ verdict.f => ((a \in M) # negate)
                   /\ ~verdict.m => ~((a \in M) # negate)
<1> HIDE DEF overlap, contained, host, M, nets, verdict
<1>8. ASSUME negate, UnknownAddr(names) PROVE Goal
  <2>1. verdict = Dim(TRUE, FALSE)
    BY <1>8 DEF AddrVerdict, verdict
  <2> QED BY <2>1 DEF Dim
<1>9. ASSUME negate, ~UnknownAddr(names) PROVE Goal
  <2>1. verdict = Dim(IF host THEN ~overlap ELSE ~contained, ~overlap)
    BY <1>9 DEF AddrVerdict, verdict
  <2>2. verdict.f => a \notin M
    BY <1>3, <1>5, <1>9, <2>1 DEF Dim
  <2>3. ~verdict.m => a \in M
    BY <1>2, <1>4, <1>6, <2>1 DEF Dim
  <2> QED BY <1>9, <2>2, <2>3
<1>10. ASSUME ~negate PROVE Goal
  <2>1. verdict = Dim(contained \/ overlap \/ UnknownAddr(names), contained)
    BY <1>10 DEF AddrVerdict, verdict
  <2>2. verdict.f => a \in M
    BY <1>2, <1>4, <2>1 DEF Dim
  <2>3. ~verdict.m => a \notin M
    BY <1>3, <1>5, <2>1 DEF Dim
  <2> QED BY <1>10, <2>2, <2>3
<1>11. Goal
  BY <1>8, <1>9, <1>10
<1> QED BY <1>7, <1>11 DEF M

LEMMA SvcDimFacts ==
  ASSUME NEW names \in SUBSET SvcNames, NEW requested \in SUBSET PortRange,
         NEW c \in Traffic(requested), NEW elsewhere,
         ~Mixed(SvcRef, SvcLeavesOf, names)
  PROVE  LET dim == SvcDim(names, requested)
             takes == c \in SvcMeaning(names, elsewhere)
         IN  (dim.f => takes) /\ (~dim.m => ~takes)
<1> DEFINE overlap == \E r \in Ranges(names), q \in requested : RangesOverlap(r, q)
           contained == requested # {} /\
              \A q \in requested : \E r \in Ranges(names) : RangeContains(r, q)
           verdict == Dim(contained \/ overlap \/ UnknownSvc(names), contained)
<1>1. SvcDim(names, requested) = verdict
  BY DEF SvcDim
<1>2. PICK q \in requested : c \in Traffic({q})
  BY TrafficOf
<1>3. q \in PortRange /\ Ranges(names) \subseteq PortRange
  BY SvcFacts, RangesAreRanges DEF Ranges
<1>4. contained => c \in SvcMeaning(names, elsewhere)
  <2> SUFFICES ASSUME contained PROVE c \in SvcMeaning(names, elsewhere)
    OBVIOUS
  <2>1. PICK r \in Ranges(names) : RangeContains(r, q)
    BY <1>2
  <2>2. c \in Traffic({r})
    BY <1>2, <1>3, <2>1, RangeFacts
  <2> QED BY <2>1, <2>2, TrafficOf, SvcMeaningFacts
<1>5. ~overlap /\ ~UnknownSvc(names) => c \notin SvcMeaning(names, elsewhere)
  <2> SUFFICES ASSUME ~overlap, ~UnknownSvc(names), c \in SvcMeaning(names, elsewhere)
               PROVE  FALSE
    OBVIOUS
  <2>1. c \in Traffic(Ranges(names))
    BY SvcMeaningFacts
  <2>2. PICK r \in Ranges(names) : c \in Traffic({r})
    BY <2>1, TrafficOf
  <2>3. ~RangesOverlap(r, q)
    BY <1>2
  <2> QED BY <1>2, <1>3, <2>2, <2>3, RangeFacts
<1>6. /\ verdict.f => contained
      /\ ~verdict.m => ~overlap /\ ~UnknownSvc(names)
  <2> HIDE DEF overlap, contained
  <2> QED BY DEF Dim
<1> HIDE DEF verdict, overlap, contained
<1> QED BY <1>1, <1>4, <1>5, <1>6

Flows == [part : {"flow"}, rules : PlannedPackages, src : FlowAddrs, dst : FlowAddrs,
          svc : FlowSvcs]
Matches(q) == [i \in DOMAIN q.rules |-> MatchOf(q.rules[i], q)]

(* A verdict and the rule it names, a position, and an alternative: what     *)
(* each says of the matches of the rules.                                    *)
Decided(q, verdict, by) ==
    /\ verdict # "ERROR"
    /\ verdict = "NEW_RULE_NEEDED" =>
          \A i \in DOMAIN q.rules :
             RuleEnabled(q.rules[i]) /\ q.rules[i].action = "accept" => ~Matches(q)[i].matched
    /\ by \subseteq {i \in DOMAIN q.rules : RuleEnabled(q.rules[i]) /\ Matches(q)[i].full}

Placed(q, place) ==
    \A plan \in place : plan = Insertion(q.rules, Matches(q), q, InterfaceOf(First(q.src)),
                                         InterfaceOf(First(q.dst)))

Near(q, found) ==
    found \subseteq {c \in (DOMAIN q.rules) \X {"src", "dst"} :
        NearMiss(q.rules[c[1]], Matches(q)[c[1]], c[2], InterfaceOf(First(q.src)),
                 InterfaceOf(First(q.dst)))}

Fits(q, k, a) ==
    /\ "step" \in DOMAIN k
    /\ k.step \in {"parse", "evaluate", "place", "alternative", "done"}
    /\ k.step \in {"evaluate", "place", "alternative"} => k.match = Matches(q)
    /\ k.step \in {"place", "alternative"} => Decided(q, k.verdict, k.by)
    /\ k.step = "alternative" => Placed(q, k.place)
    /\ k.step = "done" => \/ a.verdict = "ERROR"
                          \/ /\ Decided(q, a.verdict, a.by)
                             /\ Placed(q, a.place)
                             /\ Near(q, a.alternative)

FlowInv == asked \in Flows /\ Fits(asked, known, answer)

LEMMA FlowInit == PlannerInit => FlowInv
<1> SUFFICES ASSUME PlannerInit PROVE FlowInv
  OBVIOUS
<1>1. asked \in Flows /\ known = [step |-> "parse"]
  BY DEF PlannerInit, AskFlow, Flows
<1> QED BY <1>1 DEF FlowInv, Fits

(* The least of a set of positions is one of them.                           *)
LEMMA LeastOf ==
  ASSUME NEW S \in SUBSET Nat, S # {}
  PROVE  Least(S) \in S
BY LeastNatural DEF Least

LEMMA FlowStep == FlowInv /\ [PlannerNext]_questionVars => FlowInv'
<1> SUFFICES ASSUME FlowInv, [PlannerNext]_questionVars PROVE FlowInv'
  OBVIOUS
<1>1. asked \in Flows /\ Fits(asked, known, answer) /\ "step" \in DOMAIN known
  BY DEF FlowInv, Fits
<1>2. \A s : [known EXCEPT !.step = s].step = s /\ DOMAIN [known EXCEPT !.step = s] = DOMAIN known
  BY <1>1
<1>3. CASE UNCHANGED questionVars
  <2>1. asked' = asked /\ known' = known /\ answer' = answer
    BY <1>3 DEF questionVars
  <2> QED BY <1>1, <2>1 DEF FlowInv
<1>4. CASE RejectFlow
  <2>1. asked' = asked /\ known' = [known EXCEPT !.step = "done"] /\ answer' = [verdict |-> "ERROR"]
    BY <1>4 DEF RejectFlow, Answer
  <2>2. "step" \in DOMAIN known' /\ known'.step = "done" /\ answer'.verdict = "ERROR"
    BY <1>1, <1>2, <2>1
  <2>3. Fits(asked, known', answer')
    BY <2>2 DEF Fits
  <2> QED BY <1>1, <2>1, <2>3 DEF FlowInv
<1>5. CASE MatchRules
  <2>1. asked' = asked /\ known' = [step |-> "evaluate", match |-> Matches(asked)]
    BY <1>5 DEF MatchRules, Matches
  <2>2. /\ "step" \in DOMAIN known' /\ known'.step = "evaluate"
        /\ known'.match = Matches(asked)
    BY <2>1
  <2>3. Fits(asked, known', answer')
    BY <2>2 DEF Fits
  <2> QED BY <1>1, <2>1, <2>3 DEF FlowInv
<1>6. CASE EvaluateRules
  <2> DEFINE rules == asked.rules
             match == known.match
             matched == {i \in DOMAIN rules : RuleEnabled(rules[i]) /\ match[i].matched}
             full == {i \in matched : match[i].full}
             matching == {i \in full : ~match[i].broad}
             partial == (full \ matching) \cup
                        {i \in matched \ full : rules[i].action = "accept"}
             permits == {i \in matching : rules[i].action = "accept"}
             denies == {i \in matching : rules[i].action = "deny"}
             by == IF permits # {} THEN {Least(permits)}
                   ELSE IF denies # {} THEN {Least(denies)} ELSE {}
             verdict == CASE permits # {} -> "PERMITTED"
                          [] permits = {} /\ denies # {} -> "EXPLICITLY_DENIED"
                          [] permits \cup denies = {} /\ partial # {} -> "MODIFIABLE"
                          [] OTHER -> "NEW_RULE_NEEDED"
  <2>1. /\ asked' = asked
        /\ known' = [step |-> "place", match |-> match, partial |-> partial,
                     by |-> by, verdict |-> verdict]
        /\ known.step = "evaluate"
    BY <1>6 DEF EvaluateRules, AtStep
  <2>2. match = Matches(asked)
    BY <1>1, <2>1 DEF Fits
  <2>3. matched \in SUBSET Nat
    <3>1. rules \in PlannedPackages
      BY <1>1 DEF Flows
    <3>2. rules \in Seq(Policy)
      BY <3>1, PlannerAssumption
    <3>3. DOMAIN rules \subseteq Nat
      BY <3>2
    <3> QED BY <3>3
  <2>4. permits \in SUBSET Nat /\ denies \in SUBSET Nat
    BY <2>3
  <2>5. permits \subseteq full /\ denies \subseteq full
    OBVIOUS
  <2> HIDE DEF permits, denies
  <2>6. by \subseteq full
    BY <2>4, <2>5, LeastOf
  <2>7. verdict # "ERROR" /\ (verdict = "NEW_RULE_NEEDED" => permits = {} /\ partial = {})
    <3> HIDE DEF partial
    <3>1. CASE permits # {}
      BY <3>1
    <3>2. CASE permits = {} /\ denies # {}
      BY <3>2
    <3>3. CASE permits = {} /\ denies = {} /\ partial # {}
      BY <3>3
    <3>4. CASE permits = {} /\ denies = {} /\ partial = {}
      BY <3>4
    <3> QED BY <3>1, <3>2, <3>3, <3>4
  <2>8. ASSUME permits = {}, partial = {}, NEW i \in DOMAIN rules, RuleEnabled(rules[i]),
               rules[i].action = "accept"
        PROVE  ~match[i].matched
    BY <2>8 DEF permits
  <2>9. full \subseteq {i \in DOMAIN rules : RuleEnabled(rules[i]) /\ match[i].full}
    OBVIOUS
  <2> HIDE DEF full, partial, verdict, by, match
  <2>10. Decided(asked, verdict, by)
    BY <2>2, <2>6, <2>7, <2>8, <2>9 DEF Decided
  <2>11. /\ "step" \in DOMAIN known' /\ known'.step = "place" /\ known'.match = Matches(asked)
         /\ known'.verdict = verdict /\ known'.by = by
    BY <2>1, <2>2
  <2>12. Fits(asked, known', answer')
    BY <2>10, <2>11 DEF Fits
  <2> QED BY <1>1, <2>1, <2>12 DEF FlowInv
<1>7. CASE PlaceRule
  <2> DEFINE place == IF /\ known.verdict \in {"NEW_RULE_NEEDED", "EXPLICITLY_DENIED"}
                         /\ asked.rules # << >>
                      THEN {Insertion(asked.rules, known.match, asked, SrcInterface,
                                      DstInterface)}
                      ELSE {}
  <2>1. /\ asked' = asked /\ known.step = "place"
        /\ known' = [step |-> "alternative", verdict |-> known.verdict, by |-> known.by,
                     partial |-> known.partial, match |-> known.match, place |-> place]
    BY <1>7 DEF PlaceRule, AtStep
  <2>2. known.match = Matches(asked) /\ Decided(asked, known.verdict, known.by)
    BY <1>1, <2>1 DEF Fits
  <2>3. Placed(asked, place)
    BY <2>2 DEF Placed, SrcInterface, DstInterface
  <2> HIDE DEF place
  <2>4. /\ "step" \in DOMAIN known' /\ known'.step = "alternative"
        /\ known'.match = Matches(asked) /\ known'.verdict = known.verdict
        /\ known'.by = known.by /\ known'.place = place
    BY <2>1, <2>2
  <2>5. Fits(asked, known', answer')
    BY <2>2, <2>3, <2>4 DEF Fits
  <2> QED BY <1>1, <2>1, <2>5 DEF FlowInv
<1>8. CASE FinishFlow
  <2>1. /\ asked' = asked /\ known.step = "alternative"
        /\ known' = [known EXCEPT !.step = "done"]
    BY <1>8 DEF FinishFlow, AtStep, Answer
  <2>2. /\ known.match = Matches(asked) /\ Decided(asked, known.verdict, known.by)
        /\ Placed(asked, known.place)
    BY <1>1, <2>1 DEF Fits
  <2> DEFINE found == IF known.verdict \in {"NEW_RULE_NEEDED", "MODIFIABLE"}
                      THEN Alternatives(asked.rules, known.match, SrcInterface, DstInterface)
                      ELSE {}
             sides == {c \in found : c[2] = "dst" \/ <<c[1], "dst">> \notin found}
  <2>3. /\ answer'.verdict = known.verdict /\ answer'.by = known.by
        /\ answer'.place = known.place /\ answer'.alternative = sides
    BY <1>8 DEF FinishFlow, Answer
  <2>4. Near(asked, found)
    BY <2>2 DEF Near, Alternatives, SrcInterface, DstInterface
  <2>5. Near(asked, sides)
    BY <2>4 DEF Near
  <2> HIDE DEF sides
  <2>6. "step" \in DOMAIN known' /\ known'.step = "done"
    BY <1>1, <1>2, <2>1
  <2>7. Fits(asked, known', answer')
    BY <2>2, <2>3, <2>5, <2>6 DEF Fits
  <2> QED BY <1>1, <2>1, <2>7 DEF FlowInv
<1> QED BY <1>3, <1>4, <1>5, <1>6, <1>7, <1>8 DEF PlannerNext

-----------------------------------------------------------------------------
(* What the match of a rule says of a connection of the flow.                *)
LEMMA MatchFacts ==
  ASSUME NEW q \in Flows, NEW i \in DOMAIN q.rules, NEW pol, pol = q.rules[i],
         ~Mixed(AddrRef, AddrLeaves, pol.src \cup pol.dst),
         ~Mixed(SvcRef, SvcLeavesOf, pol.svc),
         NEW src \in q.src, NEW dst \in q.dst, NEW svc \in Traffic(q.svc), NEW e, NEW f
  PROVE  LET m == MatchOf(pol, q)
             takesSrc == (src \in AddrMeaning(pol.src, e)) # pol.srcNegate
             takesDst == (dst \in AddrMeaning(pol.dst, e)) # pol.dstNegate
             takesSvc == svc \in SvcMeaning(pol.svc, f)
         IN  /\ pol \in Policy
             /\ m.full => takesSrc /\ takesDst /\ takesSvc
             /\ ~m.matched => ~(takesSrc /\ takesDst /\ takesSvc)
             /\ m.src => takesSrc
             /\ m.dst => takesDst
             /\ m.svc => takesSvc
<1> DEFINE s == AddrDim(pol.src, pol.srcNegate, q.src)
           d == AddrDim(pol.dst, pol.dstNegate, q.dst)
           v == SvcDim(pol.svc, q.svc)
           m == MatchOf(pol, q)
           takesSrc == (src \in AddrMeaning(pol.src, e)) # pol.srcNegate
           takesDst == (dst \in AddrMeaning(pol.dst, e)) # pol.dstNegate
           takesSvc == svc \in SvcMeaning(pol.svc, f)
<1>1. /\ q.rules \in PlannedPackages /\ q.src \in FlowAddrs /\ q.dst \in FlowAddrs
      /\ q.svc \in FlowSvcs
  BY DEF Flows
<1>2. pol \in Policy
  <2>1. q.rules \in Seq(Policy)
    BY <1>1, PlannerAssumption
  <2> QED BY <2>1
<1>3. /\ pol.src \in SUBSET AddrNames /\ pol.dst \in SUBSET AddrNames
      /\ pol.svc \in SUBSET SvcNames
      /\ pol.srcNegate \in BOOLEAN /\ pol.dstNegate \in BOOLEAN
  BY <1>2 DEF Policy
<1>4. IsFiniteSet(q.src) /\ IsFiniteSet(q.dst) /\ q.svc \in SUBSET PortRange
  BY <1>1, PlannerAssumption
<1>5. ~Mixed(AddrRef, AddrLeaves, pol.src) /\ ~Mixed(AddrRef, AddrLeaves, pol.dst)
  BY DEF Mixed
<1>6. (s.f => takesSrc) /\ (~s.m => ~takesSrc)
  BY <1>3, <1>4, <1>5, AddrDimFacts
<1>7. (d.f => takesDst) /\ (~d.m => ~takesDst)
  BY <1>3, <1>4, <1>5, AddrDimFacts
<1>8. (v.f => takesSvc) /\ (~v.m => ~takesSvc)
  BY <1>3, <1>4, SvcDimFacts
<1>9. /\ m.matched = (s.m /\ d.m /\ v.m)
      /\ m.full = (s.m /\ d.m /\ v.m /\ s.f /\ d.f /\ v.f)
      /\ m.src = s.f /\ m.dst = d.f /\ m.svc = v.f
  BY DEF MatchOf, Joined
<1> HIDE DEF s, d, v, m, takesSrc, takesDst, takesSvc
<1>10. /\ m.full => takesSrc /\ takesDst /\ takesSvc
       /\ ~m.matched => ~(takesSrc /\ takesDst /\ takesSvc)
       /\ m.src => takesSrc
       /\ m.dst => takesDst
       /\ m.svc => takesSvc
  BY <1>6, <1>7, <1>8, <1>9, Zenon
<1> QED BY <1>2, <1>10 DEF m, takesSrc, takesDst, takesSvc

(* What an answer rests on, when it can be relied upon.                      *)
LEMMA PlannedFacts ==
  ASSUME FlowInv, Planned
  PROVE  /\ asked \in Flows
         /\ Decided(asked, answer.verdict, answer.by)
         /\ Placed(asked, answer.place)
         /\ Near(asked, answer.alternative)
         /\ \A i \in DOMAIN asked.rules :
               /\ ~Mixed(AddrRef, AddrLeaves, asked.rules[i].src \cup asked.rules[i].dst)
               /\ ~Mixed(SvcRef, SvcLeavesOf, asked.rules[i].svc)
               /\ Matches(asked)[i] = MatchOf(asked.rules[i], asked)
BY DEF FlowInv, Fits, Planned, Answered, AtStep, Matches

(* Whether a rule takes a connection of the flow, by its match.              *)
LEMMA TakesFacts ==
  ASSUME FlowInv, Planned, NEW i \in DOMAIN asked.rules, NEW c \in Requested, NEW e
  PROVE  LET pol == asked.rules[i]
             m == Matches(asked)[i]
         IN  /\ RuleEnabled(pol) /\ m.full /\ IntfScoped(pol, c.srcintf, c.dstintf) =>
                   Takes(pol, c, e)
             /\ ~m.matched => ~Takes(pol, c, e)
<1> DEFINE pol == asked.rules[i]
           f == IF e = {} THEN {} ELSE Traffic({WildcardRange})
<1>1. c.src \in asked.src /\ c.dst \in asked.dst /\ c.svc \in Traffic(asked.svc)
  BY DEF Requested
<1>2. /\ ~Mixed(AddrRef, AddrLeaves, pol.src \cup pol.dst)
      /\ ~Mixed(SvcRef, SvcLeavesOf, pol.svc)
      /\ Matches(asked)[i] = MatchOf(pol, asked)
      /\ asked \in Flows
  BY PlannedFacts
<1> DEFINE m == MatchOf(pol, asked)
           takesSrc == (c.src \in AddrMeaning(pol.src, e)) # pol.srcNegate
           takesDst == (c.dst \in AddrMeaning(pol.dst, e)) # pol.dstNegate
           takesSvc == c.svc \in SvcMeaning(pol.svc, f)
<1>3. /\ m.full => takesSrc /\ takesDst /\ takesSvc
      /\ ~m.matched => ~(takesSrc /\ takesDst /\ takesSvc)
  <2> HIDE DEF f
  <2> QED BY <1>1, <1>2, MatchFacts
<1>4. Takes(pol, c, e) <=> /\ RuleEnabled(pol) /\ IntfScoped(pol, c.srcintf, c.dstintf)
                           /\ takesSrc /\ takesDst /\ takesSvc
  BY DEF Takes
<1> HIDE DEF m, takesSrc, takesDst, takesSvc
<1>5. /\ RuleEnabled(pol) /\ m.full /\ IntfScoped(pol, c.srcintf, c.dstintf) =>
            Takes(pol, c, e)
      /\ ~m.matched => ~Takes(pol, c, e)
  BY <1>3, <1>4, Zenon
<1> QED BY <1>2, <1>5 DEF m

LEMMA VerdictMeans == FlowInv => VerdictIsTruthful
<1> SUFFICES ASSUME FlowInv, Planned, NEW elsewhere \in Elsewhere, NEW c \in Requested
             PROVE  /\ answer.verdict = "NEW_RULE_NEEDED" =>
                          \A i \in DOMAIN asked.rules :
                             Takes(asked.rules[i], c, elsewhere) =>
                                asked.rules[i].action # "accept"
                    /\ \A i \in answer.by :
                          IntfScoped(asked.rules[i], c.srcintf, c.dstintf) =>
                             Takes(asked.rules[i], c, elsewhere)
  BY DEF VerdictIsTruthful
<1>1. Decided(asked, answer.verdict, answer.by)
  BY PlannedFacts
<1>2. ASSUME answer.verdict = "NEW_RULE_NEEDED", NEW i \in DOMAIN asked.rules,
             Takes(asked.rules[i], c, elsewhere)
      PROVE  asked.rules[i].action # "accept"
  <2>1. RuleEnabled(asked.rules[i])
    BY <1>2 DEF Takes
  <2>2. Matches(asked)[i].matched
    BY <1>2, TakesFacts
  <2> QED BY <1>1, <1>2, <2>1, <2>2 DEF Decided
<1>3. ASSUME NEW i \in answer.by, IntfScoped(asked.rules[i], c.srcintf, c.dstintf)
      PROVE  Takes(asked.rules[i], c, elsewhere)
  <2>1. i \in DOMAIN asked.rules /\ RuleEnabled(asked.rules[i]) /\ Matches(asked)[i].full
    BY <1>1 DEF Decided
  <2> QED BY <1>3, <2>1, TakesFacts
<1> QED BY <1>2, <1>3

(* A rule inside the flow takes nothing outside it.                          *)
LEMMA WithinFacts ==
  ASSUME FlowInv, Planned, NEW i \in DOMAIN asked.rules,
         WithinCandidate(asked.rules[i], asked), NEW c, NEW e,
         Takes(asked.rules[i], c, e)
  PROVE  c.src \in asked.src /\ c.dst \in asked.dst /\ c.svc \in Traffic(asked.svc)
<1> DEFINE pol == asked.rules[i]
           f == IF e = {} THEN {} ELSE Traffic({WildcardRange})
<1>1. /\ ~Mixed(AddrRef, AddrLeaves, pol.src) /\ ~Mixed(AddrRef, AddrLeaves, pol.dst)
      /\ ~Mixed(SvcRef, SvcLeavesOf, pol.svc)
      /\ asked.rules \in PlannedPackages /\ asked.svc \in FlowSvcs
  <2>1. /\ asked \in Flows
        /\ ~Mixed(AddrRef, AddrLeaves, pol.src \cup pol.dst)
        /\ ~Mixed(SvcRef, SvcLeavesOf, pol.svc)
    BY PlannedFacts
  <2> QED BY <2>1 DEF Flows, Mixed
<1>2. pol \in Policy
  <2>1. asked.rules \in Seq(Policy)
    BY <1>1, PlannerAssumption
  <2> QED BY <2>1
<1>3. /\ pol.src \in SUBSET AddrNames /\ pol.dst \in SUBSET AddrNames
      /\ pol.svc \in SUBSET SvcNames
      /\ pol.srcNegate \in BOOLEAN /\ pol.dstNegate \in BOOLEAN
  BY <1>2 DEF Policy
<1>4. /\ ~pol.srcNegate /\ ~pol.dstNegate
      /\ ~UnknownAddr(pol.src \cup pol.dst) /\ ~UnknownSvc(pol.svc)
      /\ \A n \in Nets(pol.src) : n \subseteq asked.src
      /\ \A n \in Nets(pol.dst) : n \subseteq asked.dst
      /\ \A r \in Ranges(pol.svc) : \E q \in asked.svc : RangeContains(q, r)
  BY DEF WithinCandidate
<1>5. ~UnknownAddr(pol.src) /\ ~UnknownAddr(pol.dst)
  BY <1>4 DEF UnknownAddr
<1>6. /\ c.src \in AddrMeaning(pol.src, e) /\ c.dst \in AddrMeaning(pol.dst, e)
      /\ c.svc \in SvcMeaning(pol.svc, f)
  <2>1. pol.srcNegate = FALSE /\ pol.dstNegate = FALSE
    BY <1>3, <1>4
  <2>2. /\ (c.src \in AddrMeaning(pol.src, e)) # pol.srcNegate
        /\ (c.dst \in AddrMeaning(pol.dst, e)) # pol.dstNegate
        /\ c.svc \in SvcMeaning(pol.svc, f)
    BY DEF Takes
  <2> HIDE DEF pol, f
  <2>3. /\ (c.src \in AddrMeaning(pol.src, e)) # FALSE
        /\ (c.dst \in AddrMeaning(pol.dst, e)) # FALSE
    BY <2>1, <2>2, Zenon
  <2>4. \A b \in BOOLEAN : b # FALSE => b
    OBVIOUS
  <2>5. /\ (c.src \in AddrMeaning(pol.src, e)) \in BOOLEAN
        /\ (c.dst \in AddrMeaning(pol.dst, e)) \in BOOLEAN
    OBVIOUS
  <2> QED BY <2>2, <2>3, <2>4, <2>5
<1> HIDE DEF pol, f
<1>7. c.src \in UNION Nets(pol.src) /\ c.dst \in UNION Nets(pol.dst)
  BY <1>1, <1>3, <1>5, <1>6, AddrMeaningFacts DEF Nets
<1>8. PICK r \in Ranges(pol.svc) : c.svc \in Traffic({r})
  BY <1>1, <1>3, <1>4, <1>6, SvcMeaningFacts, TrafficOf
<1>9. PICK q \in asked.svc : RangeContains(q, r)
  BY <1>4
<1>10. r \in PortRange /\ q \in PortRange
  <2>1. r \in PortRange
    BY <1>3, SvcFacts, RangesAreRanges DEF Ranges
  <2>2. q \in PortRange
    BY <1>1, PlannerAssumption
  <2> QED BY <2>1, <2>2
<1>11. c.svc \in Traffic({q})
  BY <1>8, <1>9, <1>10, RangeFacts
<1> QED BY <1>4, <1>7, <1>9, <1>11, TrafficOf

LEMMA PlaceMeans == FlowInv => NewRuleTakesEffect
<1> SUFFICES ASSUME FlowInv, Planned, NEW plan \in answer.place, NEW elsewhere \in Elsewhere
             PROVE  /\ \A i \in DOMAIN asked.rules : \A c \in Requested :
                          (i < plan.before \/ plan.before = 0) =>
                              ~Takes(asked.rules[i], c, elsewhere)
                    /\ \A i \in plan.shadows :
                          \A c \in [src : Addresses, dst : Addresses,
                                    svc : Traffic({WildcardRange}),
                                    srcintf : {SrcInterface}, dstintf : {DstInterface}] :
                             Takes(asked.rules[i], c, elsewhere) => c \in Requested
  BY DEF NewRuleTakesEffect
<1> DEFINE rules == asked.rules
           match == Matches(asked)
           scoped == {i \in DOMAIN rules : IntfScoped(rules[i], SrcInterface, DstInterface)}
           enabled == {i \in scoped : RuleEnabled(rules[i])}
           overlapping == {i \in enabled : match[i].matched}
           catchall == {i \in scoped : CatchallDeny(rules[i])}
<1>1. plan = IF overlapping # {}
             THEN [before |-> Least(overlapping),
                   shadows |-> {i \in enabled : /\ i >= Least(overlapping)
                                                /\ WithinCandidate(rules[i], asked)}]
             ELSE [before |-> IF catchall # {} THEN Greatest(catchall) ELSE 0,
                   shadows |-> {}]
  BY PlannedFacts DEF Placed, Insertion, SrcInterface, DstInterface
<1>2. rules \in Seq(Policy)
  BY PlannedFacts, PlannerAssumption DEF Flows
<1>3. DOMAIN rules \subseteq Nat /\ 0 \notin DOMAIN rules
  BY <1>2
<1>4. ASSUME NEW i \in DOMAIN rules, NEW c \in Requested, Takes(rules[i], c, elsewhere)
      PROVE  i \in overlapping
  <2>1. c.srcintf = SrcInterface /\ c.dstintf = DstInterface
    BY DEF Requested
  <2>2. i \in enabled
    BY <1>4, <2>1 DEF Takes
  <2>3. match[i].matched
    BY <1>4, TakesFacts
  <2> QED BY <2>2, <2>3
<1>5. ASSUME NEW i \in overlapping
      PROVE  ~(i < plan.before) /\ plan.before # 0
  <2>1. overlapping \in SUBSET Nat /\ 0 \notin overlapping /\ overlapping # {}
    BY <1>3, <1>5
  <2>2. PICK n \in overlapping : \A m \in overlapping : n <= m
    BY <2>1, LeastNatural
  <2>3. Least(overlapping) \in overlapping /\ Least(overlapping) <= i
    BY <2>2, <1>5 DEF Least
  <2>4. plan.before = Least(overlapping)
    BY <1>1, <2>1
  <2> HIDE DEF overlapping
  <2>5. i \in Nat /\ Least(overlapping) \in Nat
    BY <1>5, <2>1, <2>3
  <2> QED BY <2>1, <2>3, <2>4, <2>5
<1>6. ASSUME NEW i \in plan.shadows,
             NEW c \in [src : Addresses, dst : Addresses, svc : Traffic({WildcardRange}),
                        srcintf : {SrcInterface}, dstintf : {DstInterface}],
             Takes(rules[i], c, elsewhere)
      PROVE  c \in Requested
  <2>1. i \in DOMAIN rules /\ WithinCandidate(rules[i], asked)
    BY <1>1, <1>6
  <2>2. c.src \in asked.src /\ c.dst \in asked.dst /\ c.svc \in Traffic(asked.svc)
    BY <1>6, <2>1, WithinFacts
  <2> QED BY <2>2 DEF Requested
<1> HIDE DEF overlapping
<1> QED BY <1>4, <1>5, <1>6

(* A wildcard stands for every address.                                      *)
LEMMA AllMeansAll ==
  ASSUME NEW e
  PROVE  AddrMeaning({"all"}, e) = Addresses
<1>1. "all" \in AddrNames /\ IsWildcardName("all")
  BY DEF AddrNames, NamesIn, IsWildcardName
<1>2. "all" \notin DOMAIN AddrGroups
  BY <1>1, CatalogAssumption DEF Table
<1>3. AddrLeaves["all"] = {"all"} /\ AddrRef["all"].known /\ AddrRef["all"].parts = {Addresses}
  BY <1>1, <1>2, AddrFacts
<1> QED BY <1>3 DEF AddrMeaning

LEMMA AlternativeMeans == FlowInv => AlternativeIsEnough
<1> SUFFICES ASSUME FlowInv, Planned, NEW alt \in answer.alternative, NEW c \in Requested
             PROVE  Takes(IF alt[2] = "dst"
                          THEN [asked.rules[alt[1]] EXCEPT !.dst = {"all"}]
                          ELSE [asked.rules[alt[1]] EXCEPT !.src = {"all"}], c, {})
  BY DEF AlternativeIsEnough
<1> DEFINE i == alt[1]
           pol == asked.rules[i]
           m == Matches(asked)[i]
<1>1. /\ i \in DOMAIN asked.rules /\ alt[2] \in {"src", "dst"}
      /\ NearMiss(pol, m, alt[2], SrcInterface, DstInterface)
  BY PlannedFacts DEF Near, SrcInterface, DstInterface
<1>2. /\ c.src \in asked.src /\ c.dst \in asked.dst /\ c.svc \in Traffic(asked.svc)
      /\ c.srcintf = SrcInterface /\ c.dstintf = DstInterface
  BY DEF Requested
<1>3. /\ asked \in Flows /\ m = MatchOf(pol, asked)
      /\ ~Mixed(AddrRef, AddrLeaves, pol.src \cup pol.dst)
      /\ ~Mixed(SvcRef, SvcLeavesOf, pol.svc)
  BY <1>1, PlannedFacts
<1>4. c.src \in Addresses /\ c.dst \in Addresses
  BY <1>2, <1>3, PlannerAssumption DEF Flows
<1> HIDE DEF i, pol
<1>5. /\ pol \in Policy
      /\ m.src => ((c.src \in AddrMeaning(pol.src, {})) # pol.srcNegate)
      /\ m.dst => ((c.dst \in AddrMeaning(pol.dst, {})) # pol.dstNegate)
      /\ m.svc => c.svc \in SvcMeaning(pol.svc, {})
  <2> DEFINE n == MatchOf(pol, asked)
             takesSrc == (c.src \in AddrMeaning(pol.src, {})) # pol.srcNegate
             takesDst == (c.dst \in AddrMeaning(pol.dst, {})) # pol.dstNegate
             takesSvc == c.svc \in SvcMeaning(pol.svc, {})
  <2>1. pol = asked.rules[i] /\ i \in DOMAIN asked.rules
    BY <1>1 DEF pol
  <2>2. /\ pol \in Policy
        /\ n.src => takesSrc
        /\ n.dst => takesDst
        /\ n.svc => takesSvc
    BY <1>2, <1>3, <2>1, MatchFacts
  <2>3. m = n
    BY <1>3
  <2> HIDE DEF n, m
  <2> QED BY <2>2, <2>3
<1> HIDE DEF m
<1>6. /\ RuleEnabled(pol) /\ m.svc /\ IntfScoped(pol, SrcInterface, DstInterface)
      /\ ~NegatesSide(pol, alt[2])
      /\ IF alt[2] = "dst" THEN m.src ELSE m.dst
  BY <1>1 DEF NearMiss
<1>7. CASE alt[2] = "dst"
  <2> DEFINE new == [pol EXCEPT !.dst = {"all"}]
  <2>1. /\ new.src = pol.src /\ new.srcNegate = pol.srcNegate /\ new.dst = {"all"}
        /\ new.dstNegate = pol.dstNegate /\ new.svc = pol.svc /\ new.status = pol.status
        /\ new.srcintf = pol.srcintf /\ new.dstintf = pol.dstintf
    BY <1>5 DEF Policy
  <2>2. RuleEnabled(new) /\ IntfScoped(new, c.srcintf, c.dstintf)
    BY <1>2, <1>6, <2>1 DEF RuleEnabled, IntfScoped
  <2>3. new.dstNegate = FALSE
    BY <1>5, <1>6, <1>7, <2>1 DEF NegatesSide, Policy
  <2>4. c.dst \in AddrMeaning(new.dst, {})
    BY <1>4, <2>1, AllMeansAll
  <2>5. (c.src \in AddrMeaning(new.src, {})) # new.srcNegate
    BY <1>5, <1>6, <1>7, <2>1
  <2>6. c.svc \in SvcMeaning(new.svc, {})
    BY <1>5, <1>6, <2>1
  <2> HIDE DEF new
  <2>7. Takes(new, c, {})
    BY <2>2, <2>3, <2>4, <2>5, <2>6 DEF Takes
  <2> QED BY <1>7, <2>7 DEF new, pol, i
<1>8. CASE alt[2] = "src"
  <2> DEFINE new == [pol EXCEPT !.src = {"all"}]
  <2>1. /\ new.src = {"all"} /\ new.srcNegate = pol.srcNegate /\ new.dst = pol.dst
        /\ new.dstNegate = pol.dstNegate /\ new.svc = pol.svc /\ new.status = pol.status
        /\ new.srcintf = pol.srcintf /\ new.dstintf = pol.dstintf
    BY <1>5 DEF Policy
  <2>2. RuleEnabled(new) /\ IntfScoped(new, c.srcintf, c.dstintf)
    BY <1>2, <1>6, <2>1 DEF RuleEnabled, IntfScoped
  <2>3. new.srcNegate = FALSE
    BY <1>5, <1>6, <1>8, <2>1 DEF NegatesSide, Policy
  <2>4. c.src \in AddrMeaning(new.src, {})
    BY <1>4, <2>1, AllMeansAll
  <2>5. (c.dst \in AddrMeaning(new.dst, {})) # new.dstNegate
    BY <1>5, <1>6, <1>8, <2>1
  <2>6. c.svc \in SvcMeaning(new.svc, {})
    BY <1>5, <1>6, <2>1
  <2> HIDE DEF new
  <2>7. Takes(new, c, {})
    BY <2>2, <2>3, <2>4, <2>5, <2>6 DEF Takes
  <2> QED BY <1>8, <2>7 DEF new, pol, i
<1> QED BY <1>1, <1>7, <1>8

(* A rule that the answer names takes the flow between its interfaces, and   *)
(* when a new one is called for, no enabled rule accepts any of it           *)
(* (plan_flow, PolicyMatcher).                                               *)
THEOREM VerdictCorrect == PlannerSpec => []VerdictIsTruthful
<1>1. PlannerSpec => []FlowInv
  BY FlowInit, FlowStep, PTL DEF PlannerSpec
<1> QED BY <1>1, VerdictMeans, PTL

(* A rule put where the answer says decides the whole flow, and what it is   *)
(* said to shadow takes nothing else (plan_insertion).                       *)
THEOREM PlaceCorrect == PlannerSpec => []NewRuleTakesEffect
<1>1. PlannerSpec => []FlowInv
  BY FlowInit, FlowStep, PTL DEF PlannerSpec
<1> QED BY <1>1, PlaceMeans, PTL

(* The rule that is offered for change needs the missing address and nothing *)
(* else (_find_alternative).                                                 *)
THEOREM AlternativeCorrect == PlannerSpec => []AlternativeIsEnough
<1>1. PlannerSpec => []FlowInv
  BY FlowInit, FlowStep, PTL DEF PlannerSpec
<1> QED BY <1>1, AlternativeMeans, PTL

-----------------------------------------------------------------------------
(* RuleLookup *)

(* Every element of a set has its place in the sorted sequence.              *)
LEMMA SortedHasAll ==
  ASSUME NEW S, IsFiniteSet(S), NEW before,
         \A i \in S : <<i, i>> \notin before,
         \A i, j \in S : i = j \/ <<i, j>> \in before \/ <<j, i>> \in before,
         \A i, j, k \in S : <<i, j>> \in before /\ <<j, k>> \in before => <<i, k>> \in before
  PROVE  /\ S \subseteq ToSet(Sorted(S, before))
         /\ \E V : Sorted(S, before) \in Seq(V)
<1> DEFINE ahead(i) == {j \in S : <<j, i>> \in before}
           N == Cardinality(S)
           s == Sorted(S, before)
<1>1. N \in Nat
  BY FS_CardinalityType
<1>2. /\ DOMAIN s = 1..N
      /\ \A k \in 1..N : s[k] = CHOOSE i \in S : Cardinality(ahead(i)) = k - 1
      /\ s = [k \in 1..N |-> s[k]]
  <2> DEFINE at(k) == CHOOSE i \in S : Cardinality(ahead(i)) = k - 1
  <2>1. s = [k \in 1..N |-> at(k)]
    BY DEF Sorted
  <2> HIDE DEF at, s
  <2>2. /\ DOMAIN s = 1..N /\ s = [k \in 1..N |-> s[k]]
        /\ \A k \in 1..N : s[k] = at(k)
    BY <2>1
  <2> QED BY <2>2 DEF at
<1>3. \A i \in S : /\ IsFiniteSet(ahead(i)) /\ Cardinality(ahead(i)) \in Nat
                   /\ Cardinality(ahead(i)) < N
  <2> TAKE i \in S
  <2>1. ahead(i) \subseteq S /\ ahead(i) # S
    OBVIOUS
  <2> HIDE DEF ahead
  <2>2. IsFiniteSet(ahead(i)) /\ Cardinality(ahead(i)) <= N
        /\ (Cardinality(ahead(i)) = N => ahead(i) = S)
    BY <2>1, FS_Subset
  <2>3. Cardinality(ahead(i)) \in Nat
    BY <2>2, FS_CardinalityType
  <2> QED BY <1>1, <2>1, <2>2, <2>3
<1>4. \A i, j \in S : <<i, j>> \in before => Cardinality(ahead(i)) < Cardinality(ahead(j))
  <2> TAKE i, j \in S
  <2> HAVE <<i, j>> \in before
  <2>1. ahead(i) \subseteq ahead(j) /\ i \in ahead(j) /\ i \notin ahead(i)
    OBVIOUS
  <2>2. /\ IsFiniteSet(ahead(j)) /\ Cardinality(ahead(i)) \in Nat
        /\ Cardinality(ahead(j)) \in Nat
    BY <1>3
  <2> HIDE DEF ahead
  <2>3. /\ Cardinality(ahead(i)) <= Cardinality(ahead(j))
        /\ Cardinality(ahead(i)) = Cardinality(ahead(j)) => ahead(i) = ahead(j)
    BY <2>1, <2>2, FS_Subset
  <2> QED BY <2>1, <2>2, <2>3
<1>5. ASSUME NEW i \in S PROVE i \in ToSet(s)
  <2> DEFINE r == Cardinality(ahead(i))
  <2>1. r \in Nat /\ r < N
    BY <1>3
  <2> DEFINE x == CHOOSE y \in S : Cardinality(ahead(y)) = r
  <2>2. x \in S /\ Cardinality(ahead(x)) = r
    <3> HIDE DEF ahead
    <3> QED OBVIOUS
  <2>3. Cardinality(ahead(x)) = Cardinality(ahead(i))
    BY <2>2
  <2> HIDE DEF ahead
  <2>4. x = i
    <3>1. Cardinality(ahead(x)) \in Nat /\ Cardinality(ahead(i)) \in Nat
      BY <1>3, <2>2
    <3> HIDE DEF x, r
    <3>2. ~(<<x, i>> \in before) /\ ~(<<i, x>> \in before)
      BY <1>4, <2>2, <2>3, <3>1
    <3> QED BY <2>2, <3>2
  <2> HIDE DEF x, r
  <2>5. r + 1 \in 1..N /\ (r + 1) - 1 = r
    BY <1>1, <2>1
  <2>6. s[r + 1] = i
    BY <1>2, <2>4, <2>5 DEF x
  <2> HIDE DEF s
  <2> QED BY <1>2, <2>5, <2>6 DEF ToSet
<1>6. s \in Seq({s[k] : k \in 1..N})
  <2> HIDE DEF s, N
  <2>1. s \in [1..N -> {s[k] : k \in 1..N}]
    BY <1>2
  <2> QED BY <1>1, <2>1
<1> QED BY <1>5, <1>6

LEMMA ConcatHas ==
  ASSUME NEW V, NEW W, NEW s \in Seq(V), NEW t \in Seq(W)
  PROVE  ToSet(s) \subseteq ToSet(s \o t)
<1>1. s \in Seq(V \cup W) /\ t \in Seq(V \cup W)
  OBVIOUS
<1>2. /\ DOMAIN s \subseteq DOMAIN (s \o t)
      /\ \A k \in DOMAIN s : (s \o t)[k] = s[k]
  BY <1>1
<1> QED BY <1>2 DEF ToSet

(* The best label is one of those that were found.                           *)
LEMMA BestFacts ==
  ASSUME NEW labels \in SUBSET ({None} \cup DOMAIN Rank)
  PROVE  /\ Best(labels) \in labels \cup {None}
         /\ labels \ {None} # {} => Best(labels) # None
<1> DEFINE found == labels \ {None}
<1>1. CASE found = {}
  BY <1>1 DEF Best
<1>2. CASE found # {}
  <2>1. \A a \in found : Rank[a] \in Nat
    BY DEF Rank
  <2> DEFINE ranks == {Rank[a] : a \in found}
  <2>2. ranks \in SUBSET Nat /\ ranks # {}
    BY <1>2, <2>1
  <2>3. PICK n \in ranks : \A m \in ranks : n <= m
    <3> HIDE DEF ranks
    <3> QED BY <2>2, LeastNatural
  <2>4. PICK a \in found : \A b \in found : Rank[a] <= Rank[b]
    BY <2>3
  <2>5. Best(labels) = CHOOSE x \in found : \A b \in found : Rank[x] <= Rank[b]
    BY <1>2 DEF Best
  <2>6. Best(labels) \in found
    BY <2>4, <2>5
  <2> QED BY <2>6
<1> QED BY <1>1, <1>2

(* What the label of two sets of addresses says of them.                     *)
LEMMA NetworkLabels ==
  ASSUME NEW search, search # {}, NEW rule
  PROVE  LET label == CompareNetworks(search, rule)
         IN  /\ label \in {None, "exact", "broader", "narrower", "overlap"}
             /\ label \in {"exact", "broader"} => search \subseteq rule
             /\ label # None <=> search \cap rule # {}
<1> DEFINE label == CompareNetworks(search, rule)
<1>1. CASE rule = {}
  <2>1. label = None
    BY <1>1 DEF CompareNetworks
  <2> QED BY <1>1, <2>1 DEF None
<1>2. CASE rule # {} /\ search = rule
  <2>1. label = "exact"
    BY <1>2 DEF CompareNetworks
  <2> QED BY <1>2, <2>1 DEF None
<1>3. CASE rule # {} /\ search # rule /\ search \subseteq rule
  <2>1. label = "broader"
    BY <1>3 DEF CompareNetworks
  <2> QED BY <1>3, <2>1 DEF None
<1>4. CASE rule # {} /\ search # rule /\ ~(search \subseteq rule) /\ rule \subseteq search
  <2>1. label = "narrower"
    BY <1>4 DEF CompareNetworks
  <2> QED BY <1>4, <2>1 DEF None
<1>5. CASE rule # {} /\ search # rule /\ ~(search \subseteq rule) /\ ~(rule \subseteq search)
  <2>1. label = IF search \cap rule # {} THEN "overlap" ELSE None
    BY <1>5 DEF CompareNetworks
  <2> QED BY <1>5, <2>1 DEF None
<1> QED BY <1>1, <1>2, <1>3, <1>4, <1>5

(* Ranges of a port protocol that overlap have a connection in common.       *)
LEMMA RangesMeet ==
  ASSUME NEW r \in PortRanges, r.protocol \notin NonPort,
         NEW q \in PortRanges, q.protocol \notin NonPort, RangesOverlap(q, r)
  PROVE  Traffic({q}) \cap Traffic({r}) # {}
<1>1. /\ r.start \in Ports /\ r.end \in Ports /\ r.start <= r.end
      /\ q.start \in Ports /\ q.end \in Ports /\ q.start <= q.end
  BY DEF PortRanges, PortRange
<1>2. r.start \in Int /\ r.end \in Int /\ q.start \in Int /\ q.end \in Int
  BY <1>1, CatalogAssumption
<1>3. r.protocol # "ip" /\ q.protocol # "ip"
  BY DEF NonPort
<1>4. q.protocol = r.protocol /\ q.start <= r.end /\ r.start <= q.end
  BY <1>3 DEF RangesOverlap, Compatible
<1> DEFINE p == IF r.start <= q.start THEN q.start ELSE r.start
<1>5. p \in Ports /\ r.start <= p /\ p <= r.end /\ q.start <= p /\ p <= q.end
  BY <1>1, <1>2, <1>4
<1> HIDE DEF p
<1>6. <<r.protocol, p>> \in Traffic({q}) /\ <<r.protocol, p>> \in Traffic({r})
  BY <1>3, <1>4, <1>5 DEF Traffic
<1> QED BY <1>6

(* What the label of two sets of ranges says of their connections.           *)
LEMMA RangeLabels ==
  ASSUME NEW search \in SUBSET {r \in PortRanges : r.protocol \notin NonPort}, search # {},
         NEW rule \in SUBSET {r \in PortRanges : r.protocol \notin NonPort}
  PROVE  LET label == CompareRanges(search, rule)
         IN  /\ label \in {None, "exact", "broader", "narrower", "overlap"}
             /\ label \in {"exact", "broader"} => Traffic(search) \subseteq Traffic(rule)
             /\ label # None <=> Traffic(search) \cap Traffic(rule) # {}
<1> DEFINE label == CompareRanges(search, rule)
           broader == \A s \in search : \E r \in rule : RangeContains(r, s)
           narrower == \A r \in rule : \E s \in search : RangeContains(s, r)
           overlap == \E s \in search, r \in rule : RangesOverlap(s, r)
<1>1. search \subseteq PortRange /\ rule \subseteq PortRange
  BY RangesAreRanges
<1>2. \A ranges \in SUBSET PortRanges : ranges # {} => Traffic(ranges) # {}
  <2> TAKE ranges \in SUBSET PortRanges
  <2> HAVE ranges # {}
  <2>1. PICK r \in ranges : TRUE
    OBVIOUS
  <2>2. PICK c : c \in Traffic({r})
    BY <2>1, RangeNotEmpty
  <2> QED BY <2>1, <2>2, TrafficOf
<1>3. \A a, b \in SUBSET PortRange :
         (\A s \in a : \E r \in b : RangeContains(r, s)) => Traffic(a) \subseteq Traffic(b)
  <2> SUFFICES ASSUME NEW a \in SUBSET PortRange, NEW b \in SUBSET PortRange,
                      \A s \in a : \E r \in b : RangeContains(r, s), NEW c \in Traffic(a)
               PROVE  c \in Traffic(b)
    OBVIOUS
  <2>1. PICK s \in a : c \in Traffic({s})
    BY TrafficOf
  <2>2. PICK r \in b : RangeContains(r, s)
    BY <2>1
  <2>3. c \in Traffic({r})
    BY <2>1, <2>2, RangeFacts
  <2> QED BY <2>2, <2>3, TrafficOf
<1>4. /\ broader => Traffic(search) \subseteq Traffic(rule)
      /\ narrower => Traffic(rule) \subseteq Traffic(search)
  BY <1>1, <1>3
<1>5. overlap => Traffic(search) \cap Traffic(rule) # {}
  <2> SUFFICES ASSUME NEW s \in search, NEW r \in rule, RangesOverlap(s, r)
               PROVE  Traffic(search) \cap Traffic(rule) # {}
    OBVIOUS
  <2>1. PICK c : c \in Traffic({s}) /\ c \in Traffic({r})
    BY RangesMeet
  <2> QED BY <2>1, TrafficOf
<1>6. Traffic(search) \cap Traffic(rule) # {} => overlap
  <2> SUFFICES ASSUME NEW c \in Traffic(search) \cap Traffic(rule) PROVE overlap
    OBVIOUS
  <2>1. PICK s \in search, r \in rule : c \in Traffic({s}) /\ c \in Traffic({r})
    BY TrafficOf
  <2> QED BY <1>1, <2>1, RangeFacts
<1>7. Traffic({}) = {}
  BY DEF Traffic
<1>8. label = IF rule = {} THEN None
              ELSE IF search = rule THEN "exact"
              ELSE IF broader THEN "broader"
              ELSE IF narrower THEN "narrower"
              ELSE IF overlap THEN "overlap"
              ELSE None
  <2>1. CASE rule = {}
    BY <2>1 DEF CompareRanges
  <2>2. CASE rule # {} /\ search = rule
    BY <2>2 DEF CompareRanges
  <2>3. CASE rule # {} /\ search # rule
    BY <2>3 DEF CompareRanges
  <2> QED BY <2>1, <2>2, <2>3
<1> HIDE DEF broader, narrower, overlap, label
<1>9. CASE rule = {}
  BY <1>7, <1>8, <1>9 DEF None, label
<1>10. CASE rule # {}
  <2>1. Traffic(search) # {} /\ Traffic(rule) # {}
    BY <1>2, <1>10
  <2> QED BY <2>1, <1>4, <1>5, <1>6, <1>8, <1>10 DEF None, label
<1> QED BY <1>9, <1>10

(* What is under a name is the name or a member of some group.               *)
LEMMA CarriedBy ==
  ASSUME NEW n \in AddrNames, NEW leaf \in AddrLeaves[n]
  PROVE  leaf = n \/ \E g \in DOMAIN AddrGroups : leaf \in ToSet(AddrGroups[g])
<1> DEFINE next == [g \in DOMAIN AddrGroups |-> ToSet(AddrGroups[g])]
           C == {n} \cup UNION {ToSet(AddrGroups[g]) : g \in DOMAIN AddrGroups}
<1>1. IsFiniteSet(DOMAIN next)
  BY CatalogAssumption DEF Table
<1>2. {n} \subseteq C
  OBVIOUS
<1>3. \A x \in C \cap DOMAIN next : next[x] \subseteq C
  OBVIOUS
<1>4. leaf \in Reach({n}, next)
  BY DEF AddrLeaves, Leaves, Under, AddrNames
<1> HIDE DEF next, C
<1>5. Reach({n}, next) \subseteq C
  BY <1>1, <1>2, <1>3, ReachIsLeast
<1> QED BY <1>4, <1>5 DEF C

(* The addresses that the lookup has for a name are those it stands for, but *)
(* for the names it leaves to "skipped".                                     *)
LEMMA LookupAddrFacts ==
  ASSUME NEW names \in SUBSET AddrNames
  PROVE  /\ \A n \in names : LookupAddr(n) \subseteq AddrMeaning(names, {})
         /\ \A a \in AddrMeaning(names, {}) :
               \E n \in names : IsWildcardName(n) \/ a \in LookupAddr(n)
<1> DEFINE Of(n) == IF AddrRef[n].known THEN UNION AddrRef[n].parts ELSE {}
           below == UNION {AddrLeaves[m] : m \in names}
<1>1. AddrMeaning(names, {}) = UNION {Of(n) : n \in below}
  BY DEF AddrMeaning
<1>2. ASSUME NEW n \in names, NEW a \in LookupAddr(n) PROVE a \in AddrMeaning(names, {})
  <2>1. PICK leaf \in AddrLeaves[n] \cap DOMAIN AddrObjects : a \in UNION AddrRef[leaf].parts
    BY DEF LookupAddr
  <2>2. AddrRef[leaf].known
    BY <2>1, AddrFacts
  <2>3. leaf \in below /\ a \in Of(leaf)
    BY <2>1, <2>2
  <2> QED BY <1>1, <2>3
<1>3. ASSUME NEW a \in AddrMeaning(names, {})
      PROVE  \E n \in names : IsWildcardName(n) \/ a \in LookupAddr(n)
  <2>1. PICK leaf \in below : a \in Of(leaf)
    BY <1>1
  <2>2. PICK n \in names : leaf \in AddrLeaves[n]
    BY <2>1
  <2>3. AddrRef[leaf].known /\ a \in UNION AddrRef[leaf].parts
    BY <2>1
  <2>4. IsWildcardName(leaf) \/ leaf \in DOMAIN AddrObjects
    BY <2>2, <2>3, AddrFacts
  <2>5. CASE leaf \in DOMAIN AddrObjects
    BY <2>2, <2>3, <2>5 DEF LookupAddr
  <2>6. CASE IsWildcardName(leaf) /\ leaf \notin DOMAIN AddrObjects
    <3>1. leaf = n \/ \E g \in DOMAIN AddrGroups : leaf \in ToSet(AddrGroups[g])
      BY <2>2, <2>6, CarriedBy
    <3>2. leaf = n
      BY <2>6, <3>1, LookupAssumption
    <3> QED BY <2>6, <3>2
  <2> QED BY <2>4, <2>5, <2>6
<1> QED BY <1>2, <1>3

(* What the verdict on one address field says of the addresses searched.     *)
LEMMA AddrFieldFacts ==
  ASSUME NEW names \in SUBSET AddrNames, NEW negate \in BOOLEAN, NEW q, NEW field \in DOMAIN q,
         q[field].pattern \in BOOLEAN, ~q[field].pattern => q[field].nets # {}
  PROVE  LET m == MatchAddrField(names, negate, q, field)
             takes == AddrMeaning(names, {})
         IN  /\ m.label \in {"exact", "broader"} => q[field].nets \subseteq takes
             /\ m.label \notin {None, "name"} => q[field].nets \cap takes # {}
             /\ negate => m.skipped
             /\ ~q[field].pattern /\ q[field].nets \cap takes # {} =>
                   m.label # None \/ m.skipped
<1> DEFINE m == MatchAddrField(names, negate, q, field)
           searched == {n \in names : ~IsWildcardName(n)}
           Label(n) == IF q[field].pattern
                       THEN IF n \in q[field].names THEN "name" ELSE None
                       ELSE CompareNetworks(q[field].nets, LookupAddr(n))
           labels == {Label(n) : n \in searched}
           takes == AddrMeaning(names, {})
<1>1. /\ m.label = IF negate THEN None ELSE Best(labels)
      /\ m.skipped = (negate \/ \E n \in names : IsWildcardName(n))
  BY DEF MatchAddrField, Match
<1>2. CASE negate
  <2>1. m.label = None /\ m.skipped
    BY <1>1, <1>2
  <2> HIDE DEF m
  <2> QED BY <2>1 DEF None, m
<1>3. CASE ~negate /\ q[field].pattern
  <2>1. labels \subseteq {None, "name"}
    BY <1>3
  <2>2. labels \in SUBSET ({None} \cup DOMAIN Rank)
    BY <2>1 DEF Rank
  <2> HIDE DEF labels
  <2>3. m.label \in {None, "name"}
    BY <1>1, <1>3, <2>1, <2>2, BestFacts
  <2> HIDE DEF m
  <2> QED BY <1>3, <2>3 DEF None, m
<1>4. CASE ~negate /\ ~q[field].pattern
  <2> DEFINE nets == q[field].nets
  <2>1. nets # {}
    BY <1>4
  <2>2. \A n \in searched :
           /\ Label(n) \in {None, "exact", "broader", "narrower", "overlap"}
           /\ Label(n) \in {"exact", "broader"} => nets \subseteq takes
           /\ Label(n) # None => nets \cap takes # {}
           /\ nets \cap LookupAddr(n) # {} => Label(n) # None
    <3> TAKE n \in searched
    <3>1. Label(n) = CompareNetworks(nets, LookupAddr(n))
      BY <1>4
    <3>2. LookupAddr(n) \subseteq takes
      BY LookupAddrFacts
    <3> HIDE DEF Label, nets, takes
    <3> QED BY <2>1, <3>1, <3>2, NetworkLabels
  <2>3. labels \in SUBSET ({None} \cup DOMAIN Rank)
    <3> HIDE DEF Label
    <3> QED BY <2>2 DEF Rank
  <2>4. m.label = Best(labels)
    BY <1>1, <1>4
  <2>5. m.label # None => \E n \in searched : m.label = Label(n)
    <3>1. ASSUME m.label # None PROVE m.label \in labels
      <4> HIDE DEF m, labels
      <4> QED BY <2>3, <2>4, <3>1, BestFacts
    <3> HIDE DEF m, Label
    <3> QED BY <3>1
  <2>6. ASSUME nets \cap takes # {} PROVE m.label # None \/ m.skipped
    <3>1. PICK a \in nets \cap takes : TRUE
      BY <2>6
    <3>2. PICK n \in names : IsWildcardName(n) \/ a \in LookupAddr(n)
      BY <3>1, LookupAddrFacts
    <3>3. CASE IsWildcardName(n)
      BY <1>1, <3>3
    <3>4. CASE ~IsWildcardName(n)
      <4>1. Label(n) \in labels \ {None}
        <5> HIDE DEF Label, takes
        <5> QED BY <2>2, <3>1, <3>2, <3>4
      <4> HIDE DEF m, labels
      <4> QED BY <2>3, <2>4, <4>1, BestFacts
    <3> QED BY <3>3, <3>4
  <2> HIDE DEF m, Label, takes
  <2>7. m.label \in {"exact", "broader"} => nets \subseteq takes
    BY <2>2, <2>5 DEF None
  <2>8. m.label \notin {None, "name"} => nets \cap takes # {}
    BY <2>2, <2>5
  <2> QED BY <1>4, <2>6, <2>7, <2>8 DEF m, takes
<1> QED BY <1>2, <1>3, <1>4

PortAlternatives == (SUBSET {r \in PortRanges : r.protocol \notin NonPort}) \ {{}}

(* What the label of one service name says of the ports searched.            *)
LEMMA ServiceLabels ==
  ASSUME NEW name \in SvcNames, NEW wanted \in SUBSET PortAlternatives
  PROVE  LET m == LabelService(name, wanted)
             takes == Traffic(SvcRef[name].parts)
         IN  /\ m.label \in {None} \cup DOMAIN Rank
             /\ m.label \in {"exact", "broader"} => \E alt \in wanted : Traffic(alt) \subseteq takes
             /\ m.label # None => \E alt \in wanted : Traffic(alt) \cap takes # {}
             /\ SvcRef[name].known /\ (\E alt \in wanted : Traffic(alt) \cap takes # {}) =>
                   m.label # None \/ m.skipped
<1> DEFINE m == LabelService(name, wanted)
           takes == Traffic(SvcRef[name].parts)
           ranges == IF SvcRef[name].known THEN SvcRef[name].parts ELSE {}
           usable == {r \in ranges : r.protocol \notin NonPort}
           Label(alt) == CompareRanges(alt, usable)
           labels == {Label(alt) : alt \in wanted}
<1>1. m.label = Best(labels) /\ m.skipped = (\E r \in ranges : r.protocol = "ip")
  BY DEF LabelService, Match
<1>2. ranges \subseteq SvcRef[name].parts /\ ranges \subseteq PortRanges \cup {WildcardRange}
  BY SvcFacts
<1>3. usable \in SUBSET {r \in PortRanges : r.protocol \notin NonPort}
  <2>1. WildcardRange.protocol \in NonPort
    BY DEF WildcardRange, NonPort
  <2> HIDE DEF ranges
  <2> QED BY <1>2, <2>1
<1>4. Traffic(usable) \subseteq takes
  <2>1. usable \subseteq SvcRef[name].parts
    BY <1>2
  <2> HIDE DEF usable
  <2> QED BY <2>1, TrafficOf
<1>5. \A alt \in wanted :
         /\ Label(alt) \in {None} \cup DOMAIN Rank
         /\ Label(alt) \in {"exact", "broader"} => Traffic(alt) \subseteq takes
         /\ Label(alt) # None => Traffic(alt) \cap takes # {}
         /\ Traffic(alt) \cap Traffic(usable) # {} => Label(alt) # None
  <2> TAKE alt \in wanted
  <2>1. alt \in SUBSET {r \in PortRanges : r.protocol \notin NonPort} /\ alt # {}
    BY DEF PortAlternatives
  <2> HIDE DEF usable, takes
  <2>2. /\ Label(alt) \in {None, "exact", "broader", "narrower", "overlap"}
        /\ Label(alt) \in {"exact", "broader"} => Traffic(alt) \subseteq Traffic(usable)
        /\ Label(alt) # None <=> Traffic(alt) \cap Traffic(usable) # {}
    BY <1>3, <2>1, RangeLabels
  <2> HIDE DEF Label
  <2> QED BY <1>4, <2>2 DEF Rank
<1>6. labels \in SUBSET ({None} \cup DOMAIN Rank)
  <2> HIDE DEF Label
  <2> QED BY <1>5
<1>7. m.label \in labels \cup {None} /\ (labels \ {None} # {} => m.label # None)
  <2> HIDE DEF m, labels
  <2> QED BY <1>1, <1>6, BestFacts
<1>8. ASSUME SvcRef[name].known, NEW alt \in wanted, NEW c \in Traffic(alt) \cap takes
      PROVE  m.label # None \/ m.skipped
  <2>1. PICK s \in alt : c \in Traffic({s})
    BY TrafficOf
  <2>2. PICK r \in SvcRef[name].parts : c \in Traffic({r})
    BY <1>8, TrafficOf
  <2>3. r \in ranges
    BY <1>8, <2>2
  <2>4. CASE r.protocol = "ip"
    BY <1>1, <2>3, <2>4
  <2>5. CASE r.protocol # "ip"
    <3>1. s.protocol \notin NonPort
      BY <2>1 DEF PortAlternatives
    <3>2. c \in {s.protocol} \X Ports /\ c \in {r.protocol} \X Ports
      BY <2>1, <2>2, <2>5, <3>1 DEF Traffic, NonPort
    <3>3. r.protocol = s.protocol
      BY <3>2
    <3>4. r \in usable
      BY <2>3, <3>1, <3>3
    <3>5. c \in Traffic(usable)
      <4> HIDE DEF usable
      <4> QED BY <2>2, <3>4, TrafficOf
    <3>6. Label(alt) # None
      <4> HIDE DEF Label, usable
      <4> QED BY <1>5, <1>8, <3>5
    <3>7. labels \ {None} # {}
      <4> HIDE DEF Label
      <4> QED BY <3>6
    <3> QED BY <1>7, <3>7
  <2> QED BY <2>4, <2>5
<1>9. m.label # None => \E alt \in wanted : m.label = Label(alt)
  <2> HIDE DEF Label, m
  <2> QED BY <1>7
<1> HIDE DEF m, Label, takes
<1>10. /\ m.label \in {None} \cup DOMAIN Rank
       /\ m.label \in {"exact", "broader"} => \E alt \in wanted : Traffic(alt) \subseteq takes
       /\ m.label # None => \E alt \in wanted : Traffic(alt) \cap takes # {}
  BY <1>5, <1>9 DEF None
<1> QED BY <1>8, <1>10 DEF m, takes

(* What the verdict on the services of a rule says of the ports searched.    *)
LEMMA PortFieldFacts ==
  ASSUME NEW names \in SUBSET SvcNames, NEW q, "port" \in DOMAIN q,
         q.port \in SUBSET PortAlternatives
  PROVE  LET m == MatchPortField(names, q)
             takes == SvcMeaning(names, {})
         IN  /\ m.label \in {"exact", "broader"} => \E alt \in q.port : Traffic(alt) \subseteq takes
             /\ m.label # None => (UNION {Traffic(alt) : alt \in q.port}) \cap takes # {}
             /\ (UNION {Traffic(alt) : alt \in q.port}) \cap takes # {} =>
                   m.label # None \/ m.skipped
<1> DEFINE m == MatchPortField(names, q)
           takes == SvcMeaning(names, {})
           searched == {n \in names : ~IsWildcardName(n)}
           Label(n) == LabelService(n, q.port).label
           labels == {Label(n) : n \in searched}
           sought == UNION {Traffic(alt) : alt \in q.port}
<1>1. /\ m.label = Best(labels)
      /\ m.skipped = (\/ \E n \in names : IsWildcardName(n)
                      \/ \E n \in searched : LabelService(n, q.port).skipped)
  BY DEF MatchPortField
<1>2. ASSUME NEW n \in searched
      PROVE  /\ Label(n) \in {None} \cup DOMAIN Rank
             /\ Label(n) \in {"exact", "broader"} =>
                   \E alt \in q.port : Traffic(alt) \subseteq takes
             /\ Label(n) # None => sought \cap takes # {}
  <2>1. Traffic(SvcRef[n].parts) \subseteq takes
    <3>1. SvcRef[n].parts \subseteq Ranges(names)
      BY DEF Ranges
    <3>2. Traffic(SvcRef[n].parts) \subseteq Traffic(Ranges(names))
      BY <3>1, TrafficOf
    <3> QED BY <3>2, SvcMeaningFacts
  <2> DEFINE T == Traffic(SvcRef[n].parts)
  <2>2. n \in SvcNames
    OBVIOUS
  <2>3. /\ Label(n) \in {None} \cup DOMAIN Rank
        /\ Label(n) \in {"exact", "broader"} => \E alt \in q.port : Traffic(alt) \subseteq T
        /\ Label(n) # None => \E alt \in q.port : Traffic(alt) \cap T # {}
    BY <2>2, ServiceLabels
  <2> HIDE DEF T, Label, takes
  <2> QED BY <2>1, <2>3 DEF T
<1>3. labels \in SUBSET ({None} \cup DOMAIN Rank)
  <2> HIDE DEF Label
  <2> QED BY <1>2
<1>4. m.label \in labels \cup {None} /\ (labels \ {None} # {} => m.label # None)
  <2> HIDE DEF m, labels
  <2> QED BY <1>1, <1>3, BestFacts
<1>5. m.label # None => \E n \in searched : m.label = Label(n)
  <2> HIDE DEF m, Label
  <2> QED BY <1>4
<1>6. ASSUME NEW c \in sought \cap takes PROVE m.label # None \/ m.skipped
  <2>1. PICK alt \in q.port : c \in Traffic(alt)
    BY <1>6
  <2>2. PICK n \in names : \E leaf \in SvcLeavesOf[n] :
           SvcRef[leaf].known /\ c \in Traffic(SvcRef[leaf].parts)
    BY <1>6 DEF SvcMeaning
  <2>3. PICK leaf \in SvcLeavesOf[n] :
           SvcRef[leaf].known /\ c \in Traffic(SvcRef[leaf].parts)
    BY <2>2
  <2>4. SvcRef[n].known /\ SvcRef[leaf].parts \subseteq SvcRef[n].parts
    BY <2>2, <2>3, SvcFacts
  <2>5. c \in Traffic(SvcRef[n].parts)
    BY <2>3, <2>4, TrafficOf
  <2>6. CASE IsWildcardName(n)
    BY <1>1, <2>2, <2>6
  <2>7. CASE ~IsWildcardName(n)
    <3>1. Label(n) # None \/ LabelService(n, q.port).skipped
      <4>1. n \in SvcNames /\ Traffic(alt) \cap Traffic(SvcRef[n].parts) # {}
        BY <2>1, <2>2, <2>5
      <4> QED BY <2>1, <2>4, <4>1, ServiceLabels
    <3>2. n \in searched
      BY <2>2, <2>7
    <3>3. CASE Label(n) # None
      <4>1. labels \ {None} # {}
        <5> HIDE DEF Label
        <5> QED BY <3>2, <3>3
      <4> QED BY <1>4, <4>1
    <3>4. CASE LabelService(n, q.port).skipped
      BY <1>1, <3>2, <3>4
    <3> QED BY <3>1, <3>3, <3>4
  <2> QED BY <2>6, <2>7
<1> HIDE DEF m, Label, takes, sought
<1>7. /\ m.label \in {"exact", "broader"} => \E alt \in q.port : Traffic(alt) \subseteq takes
      /\ m.label # None => sought \cap takes # {}
  BY <1>2, <1>5 DEF None
<1> QED BY <1>6, <1>7 DEF m, takes, sought

(* The rules that match on a searched address, or on the port when only a    *)
(* port is searched, are among the rows.                                     *)
LEMMA RowsHaveAll ==
  ASSUME NEW R, NEW rules \in Seq(R), NEW m, NEW addressed \in BOOLEAN,
         NEW withPortOnly \in BOOLEAN, NEW i \in DOMAIN rules,
         addressed => m[i].src.label # None \/ m[i].dst.label # None,
         ~addressed => m[i].port.label # None
  PROVE  i \in ToSet(RowsOf(rules, m, addressed, withPortOnly).rows)
<1> DEFINE D == DOMAIN rules
           onAddr == {k \in D : m[k].src.label # None \/ m[k].dst.label # None}
           onPort == {k \in D : m[k].port.label # None}
           main == IF addressed THEN onAddr ELSE onPort
           portOnly == IF addressed THEN onPort \ onAddr ELSE {}
           score == [k \in D |->
                       Cardinality({f \in {"src", "dst", "port"} : m[k][f].label # None})]
           earlier == {p \in D \X D : p[1] < p[2]}
           better == {p \in D \X D : \/ score[p[1]] > score[p[2]]
                                     \/ score[p[1]] = score[p[2]] /\ p \in earlier}
           last == IF withPortOnly THEN Sorted(portOnly, earlier) ELSE << >>
<1>1. RowsOf(rules, m, addressed, withPortOnly).rows = Sorted(main, better) \o last
  BY DEF RowsOf
<1>2. i \in main /\ main \subseteq D /\ portOnly \subseteq D
  OBVIOUS
<1>3. IsFiniteSet(D) /\ D \subseteq Nat
  <2>1. D = 1..Len(rules) /\ Len(rules) \in Nat
    OBVIOUS
  <2> HIDE DEF D
  <2>2. IsFiniteSet(1..Len(rules))
    BY ONLY <2>1, FS_Interval
  <2> QED BY <2>1, <2>2
<1>4. \A k \in D : score[k] \in Nat
  <2> TAKE k \in D
  <2> DEFINE fields == {f \in {"src", "dst", "port"} : m[k][f].label # None}
  <2>1. IsFiniteSet({"src"})
    BY FS_Singleton
  <2>2. IsFiniteSet({"src"} \cup {"dst"})
    BY <2>1, FS_AddElement
  <2>3. IsFiniteSet(({"src"} \cup {"dst"}) \cup {"port"})
    BY <2>2, FS_AddElement
  <2>4. fields \subseteq ({"src"} \cup {"dst"}) \cup {"port"}
    OBVIOUS
  <2>5. IsFiniteSet(fields)
    BY <2>3, <2>4, FS_Subset
  <2>6. Cardinality(fields) \in Nat
    BY <2>5, FS_CardinalityType
  <2> QED BY <2>6
<1>5. \A k, l \in D : /\ <<k, l>> \in earlier <=> k < l
                      /\ <<k, l>> \in better <=> \/ score[k] > score[l]
                                                 \/ score[k] = score[l] /\ k < l
  OBVIOUS
<1> HIDE DEF D, main, portOnly, score, better, earlier
<1>6. \A S \in SUBSET D : IsFiniteSet(S)
  BY <1>3, FS_Subset
<1>7. /\ main \subseteq ToSet(Sorted(main, better))
      /\ \E V : Sorted(main, better) \in Seq(V)
  <2>1. IsFiniteSet(main)
    BY <1>2, <1>6
  <2>2. \A k \in main : k \in Nat /\ k \in D /\ score[k] \in Nat
    BY <1>2, <1>3, <1>4
  <2>3. \A k \in main : <<k, k>> \notin better
    BY <1>5, <2>2
  <2>4. \A k, l \in main : k = l \/ <<k, l>> \in better \/ <<l, k>> \in better
    <3> TAKE k, l \in main
    <3>1. /\ k \in Nat /\ l \in Nat /\ k \in D /\ l \in D
          /\ score[k] \in Nat /\ score[l] \in Nat
      BY <2>2
    <3>2. \/ k = l
          \/ score[k] > score[l]
          \/ score[l] > score[k]
          \/ score[k] = score[l] /\ k < l
          \/ score[l] = score[k] /\ l < k
      BY <3>1
    <3> QED BY <1>5, <3>1, <3>2
  <2>5. \A k, l, n \in main : <<k, l>> \in better /\ <<l, n>> \in better => <<k, n>> \in better
    BY <1>5, <2>2
  <2> QED BY <2>1, <2>3, <2>4, <2>5, SortedHasAll
<1>8. \E W : last \in Seq(W)
  <2>1. \E W : Sorted(portOnly, earlier) \in Seq(W)
    <3>1. IsFiniteSet(portOnly)
      BY <1>2, <1>6
    <3>2. \A k \in portOnly : k \in Nat /\ k \in D
      BY <1>2, <1>3
    <3>3. \A k \in portOnly : <<k, k>> \notin earlier
      BY <1>5, <3>2
    <3>4. \A k, l \in portOnly : k = l \/ <<k, l>> \in earlier \/ <<l, k>> \in earlier
      <4> TAKE k, l \in portOnly
      <4>1. k \in Nat /\ l \in Nat /\ k \in D /\ l \in D
        BY <3>2
      <4>2. k = l \/ k < l \/ l < k
        BY <4>1
      <4> QED BY <1>5, <4>1, <4>2
    <3>5. \A k, l, n \in portOnly :
             <<k, l>> \in earlier /\ <<l, n>> \in earlier => <<k, n>> \in earlier
      BY <1>5, <3>2
    <3> QED BY <3>1, <3>3, <3>4, <3>5, SortedHasAll
  <2>2. << >> \in Seq({})
    OBVIOUS
  <2> QED BY <2>1, <2>2
<1> HIDE DEF last
<1>9. ToSet(Sorted(main, better)) \subseteq ToSet(Sorted(main, better) \o last)
  BY <1>7, <1>8, ConcatHas
<1> QED BY <1>1, <1>2, <1>7, <1>9

Lookups == [part : {"lookup"}, rules : LookupRules, q : LookupQueries, cached : BOOLEAN,
            portOnly : BOOLEAN]

(* An answer is that of search to a query that was let through.              *)
LookupInv ==
    /\ asked \in Lookups
    /\ "step" \in DOMAIN known /\ known.step \in {"lookup", "done"}
    /\ known.step = "done" =>
          \/ answer.status # "200"
          \/ /\ DOMAIN asked.q # {} /\ "invalid" \notin DOMAIN asked.q
             /\ answer = Search(asked.rules, asked.q, asked.portOnly)

LEMMA LookupStart == LookupInit => LookupInv
<1> SUFFICES ASSUME LookupInit PROVE LookupInv
  OBVIOUS
<1>1. asked \in Lookups /\ known = [step |-> "lookup"]
  BY DEF LookupInit, AskLookup, Lookups
<1> QED BY <1>1 DEF LookupInv

LEMMA LookupStep == LookupInv /\ [LookupNext]_questionVars => LookupInv'
<1> SUFFICES ASSUME LookupInv, [LookupNext]_questionVars PROVE LookupInv'
  OBVIOUS
<1>1. "step" \in DOMAIN known /\ asked \in Lookups
  BY DEF LookupInv
<1>2. CASE UNCHANGED questionVars
  BY <1>2 DEF LookupInv, questionVars
<1>3. ASSUME NEW a, Answer(a),
             \/ a.status # "200"
             \/ /\ DOMAIN asked.q # {} /\ "invalid" \notin DOMAIN asked.q
                /\ a = Search(asked.rules, asked.q, asked.portOnly)
      PROVE  LookupInv'
  <2>1. /\ asked' = asked /\ answer' = a
        /\ known' = [known EXCEPT !.step = "done"]
    BY <1>3 DEF Answer
  <2>2. "step" \in DOMAIN known' /\ known'.step = "done"
    BY <1>1, <2>1
  <2> QED BY <1>1, <1>3, <2>1, <2>2 DEF LookupInv
<1>4. CASE DeferLookup
  <2> DEFINE a == [status |-> IF DOMAIN asked.q = {} THEN "400" ELSE "202 warming"]
  <2>1. Answer(a) /\ a.status # "200"
    BY <1>4 DEF DeferLookup
  <2> HIDE DEF a
  <2> QED BY <1>3, <2>1
<1>5. CASE RefuseLookup
  <2> DEFINE a == [status |-> "400"]
  <2>1. Answer(a) /\ a.status # "200"
    BY <1>5 DEF RefuseLookup
  <2> HIDE DEF a
  <2> QED BY <1>3, <2>1
<1>6. CASE AnswerLookup
  <2>1. /\ Answer(Search(asked.rules, asked.q, asked.portOnly))
        /\ DOMAIN asked.q # {} /\ "invalid" \notin DOMAIN asked.q
    BY <1>6 DEF AnswerLookup
  <2> QED BY <1>3, <2>1
<1> QED BY <1>2, <1>4, <1>5, <1>6 DEF LookupNext

(* What is known of an answer, its query and each of its rules.              *)
LEMMA FoundFacts ==
  ASSUME LookupInv, Answered("lookup"), answer.status = "200"
  PROVE  LET q == asked.q
             m == [i \in DOMAIN asked.rules |-> MatchRule(asked.rules[i], q)]
             addressed == {"src", "dst"} \cap DOMAIN q # {}
         IN  /\ DOMAIN q \subseteq {"src", "dst", "port"} /\ DOMAIN q # {}
             /\ \A f \in {"src", "dst"} \cap DOMAIN q :
                   q[f].pattern \in BOOLEAN /\ (~q[f].pattern => q[f].nets # {})
             /\ "port" \in DOMAIN q => q.port \in SUBSET PortAlternatives
             /\ asked.rules \in Seq(LookupRule)
             /\ asked.portOnly \in BOOLEAN
             /\ answer = RowsOf(asked.rules, m, addressed, asked.portOnly)
<1> DEFINE q == asked.q
<1>1. /\ "invalid" \notin DOMAIN q /\ DOMAIN q # {}
      /\ answer = Search(asked.rules, q, asked.portOnly)
      /\ asked \in Lookups
  BY DEF LookupInv, Answered, AtStep
<1>2. q \in LookupQueries /\ asked.rules \in LookupRules /\ asked.portOnly \in BOOLEAN
  BY <1>1 DEF Lookups
<1>3. asked.rules \in Seq(LookupRule)
  BY <1>2, LookupAssumption
<1> HIDE DEF q
<1>4. /\ DOMAIN q \subseteq {"src", "dst", "port", "invalid"}
      /\ \A f \in {"src", "dst"} \cap DOMAIN q :
            q[f].pattern \in BOOLEAN /\ (~q[f].pattern => q[f].nets # {})
      /\ "port" \in DOMAIN q =>
            \A alt \in q.port :
               alt # {} /\ \A r \in alt : r \in PortRanges /\ r.protocol \notin NonPort
  BY <1>2, LookupAssumption
<1>5. "port" \in DOMAIN q => q.port \in SUBSET PortAlternatives
  BY <1>4 DEF PortAlternatives
<1>6. DOMAIN q \subseteq {"src", "dst", "port"}
  BY <1>1, <1>4
<1> QED BY <1>1, <1>2, <1>3, <1>4, <1>5, <1>6 DEF Search, q

LEMMA FoundMeansTrue == LookupInv => LabelsAreTrue
<1> SUFFICES ASSUME LookupInv, Answered("lookup"), answer.status = "200",
                    NEW i \in DOMAIN asked.rules
             PROVE  LET m == answer.match[i]
                        rule == asked.rules[i]
                        ports == SvcMeaning(rule.svc, {})
                    IN  /\ \A f \in {"src", "dst"} \cap DOMAIN asked.q :
                              LET takes == AddrMeaning(rule[f], {})
                              IN  /\ m[f].label \in {"exact", "broader"} =>
                                        Wanted(f) \subseteq takes
                                  /\ m[f].label \notin {None, "name"} => Wanted(f) \cap takes # {}
                        /\ m.port.label \in {"exact", "broader"} =>
                              \E alt \in asked.q.port : Traffic(alt) \subseteq ports
                        /\ m.port.label # None => WantedPorts \cap ports # {}
  BY DEF LabelsAreTrue
<1> DEFINE q == asked.q
           rule == asked.rules[i]
           m == answer.match[i]
           ports == SvcMeaning(rule.svc, {})
<1>1. m = MatchRule(rule, q)
  <2> DEFINE all == [k \in DOMAIN asked.rules |-> MatchRule(asked.rules[k], asked.q)]
             addressed == {"src", "dst"} \cap DOMAIN asked.q # {}
  <2>1. answer = RowsOf(asked.rules, all, addressed, asked.portOnly)
    BY FoundFacts
  <2>2. all[i] = MatchRule(rule, q)
    OBVIOUS
  <2> HIDE DEF all, addressed
  <2>3. answer.match = all
    BY <2>1 DEF RowsOf
  <2> QED BY <2>2, <2>3
<1>2. /\ m["src"] = MatchAddrField(rule.src, rule.srcNegate, q, "src")
      /\ m["dst"] = MatchAddrField(rule.dst, rule.dstNegate, q, "dst")
      /\ m.port = MatchPortField(rule.svc, q)
  BY <1>1 DEF MatchRule, MatchedBy
<1>3. /\ rule["src"] \in SUBSET AddrNames /\ rule.srcNegate \in BOOLEAN
      /\ rule["dst"] \in SUBSET AddrNames /\ rule.dstNegate \in BOOLEAN
      /\ rule.svc \in SUBSET SvcNames
  <2>1. asked.rules \in Seq(LookupRule)
    BY FoundFacts
  <2>2. rule \in LookupRule
    BY <2>1
  <2> QED BY <2>2 DEF LookupRule
<1>4. ASSUME NEW f \in {"src", "dst"} \cap DOMAIN q
      PROVE  LET takes == AddrMeaning(rule[f], {})
             IN  /\ m[f].label \in {"exact", "broader"} => Wanted(f) \subseteq takes
                 /\ m[f].label \notin {None, "name"} => Wanted(f) \cap takes # {}
  <2>1. q[f].pattern \in BOOLEAN /\ (~q[f].pattern => q[f].nets # {})
    BY FoundFacts
  <2>2. Wanted(f) = q[f].nets
    BY DEF Wanted
  <2> HIDE DEF rule, m, q
  <2>3. CASE f = "src"
    BY <1>2, <1>3, <1>4, <2>1, <2>2, <2>3, AddrFieldFacts
  <2>4. CASE f = "dst"
    BY <1>2, <1>3, <1>4, <2>1, <2>2, <2>4, AddrFieldFacts
  <2> QED BY <1>4, <2>3, <2>4
<1>5. /\ m.port.label \in {"exact", "broader"} => \E alt \in q.port : Traffic(alt) \subseteq ports
      /\ m.port.label # None => WantedPorts \cap ports # {}
  <2>1. CASE "port" \in DOMAIN q
    <3>1. q.port \in SUBSET PortAlternatives
      BY <2>1, FoundFacts
    <3>2. WantedPorts = UNION {Traffic(alt) : alt \in q.port}
      BY <2>1 DEF WantedPorts
    <3> HIDE DEF rule, m, q
    <3> QED BY <1>2, <1>3, <2>1, <3>1, <3>2, PortFieldFacts DEF ports
  <2>2. CASE "port" \notin DOMAIN q
    <3>1. m.port.label = None
      BY <1>2, <2>2 DEF MatchPortField
    <3> HIDE DEF m
    <3> QED BY <3>1 DEF None
  <2> QED BY <2>1, <2>2
<1> HIDE DEF m, rule, q, ports
<1> QED BY <1>4, <1>5 DEF m, rule, q, ports

LEMMA FoundOrSkipped == LookupInv => NothingHidden
<1> SUFFICES ASSUME LookupInv, Answered("lookup"), answer.status = "200",
                    ByAddress("src"), ByAddress("dst"), NEW i \in DOMAIN asked.rules,
                    ~asked.rules[i].srcNegate =>
                       Wanted("src") \cap AddrMeaning(asked.rules[i].src, {}) # {},
                    ~asked.rules[i].dstNegate =>
                       Wanted("dst") \cap AddrMeaning(asked.rules[i].dst, {}) # {},
                    WantedPorts \cap SvcMeaning(asked.rules[i].svc, {}) # {}
             PROVE  i \in ToSet(answer.rows) \cup answer.skipped
  BY DEF NothingHidden
<1> DEFINE q == asked.q
           rules == asked.rules
           rule == rules[i]
           src == MatchAddrField(rule.src, rule.srcNegate, q, "src")
           dst == MatchAddrField(rule.dst, rule.dstNegate, q, "dst")
           port == MatchPortField(rule.svc, q)
           m == [k \in DOMAIN rules |-> MatchRule(rules[k], q)]
           addressed == {"src", "dst"} \cap DOMAIN q # {}
<1>1. /\ DOMAIN q \subseteq {"src", "dst", "port"} /\ DOMAIN q # {}
      /\ answer = RowsOf(rules, m, addressed, asked.portOnly)
      /\ rules \in Seq(LookupRule) /\ asked.portOnly \in BOOLEAN
  BY FoundFacts
<1>2. /\ m[i].src = src /\ m[i].dst = dst /\ m[i].port = port
      /\ m[i].skipped = (src.skipped \/ dst.skipped \/ port.skipped)
  BY DEF MatchRule, MatchedBy
<1>3. /\ rule.src \in SUBSET AddrNames /\ rule.srcNegate \in BOOLEAN
      /\ rule.dst \in SUBSET AddrNames /\ rule.dstNegate \in BOOLEAN
      /\ rule.svc \in SUBSET SvcNames
  <2>1. rule \in LookupRule
    BY <1>1
  <2> QED BY <2>1 DEF LookupRule
<1>4. ASSUME "src" \in DOMAIN q PROVE src.label # None \/ src.skipped
  <2>1. /\ q["src"].pattern \in BOOLEAN /\ ~q["src"].pattern /\ q["src"].nets # {}
    BY <1>4, FoundFacts DEF ByAddress
  <2>2. Wanted("src") = q["src"].nets
    BY <1>4 DEF Wanted
  <2>3. rule.srcNegate => src.skipped
    BY <1>3, <1>4, <2>1, AddrFieldFacts
  <2>4. q["src"].nets \cap AddrMeaning(rule.src, {}) # {} => src.label # None \/ src.skipped
    BY <1>3, <1>4, <2>1, AddrFieldFacts
  <2> HIDE DEF src
  <2> QED BY <2>2, <2>3, <2>4
<1>5. ASSUME "dst" \in DOMAIN q PROVE dst.label # None \/ dst.skipped
  <2>1. /\ q["dst"].pattern \in BOOLEAN /\ ~q["dst"].pattern /\ q["dst"].nets # {}
    BY <1>5, FoundFacts DEF ByAddress
  <2>2. Wanted("dst") = q["dst"].nets
    BY <1>5 DEF Wanted
  <2>3. rule.dstNegate => dst.skipped
    BY <1>3, <1>5, <2>1, AddrFieldFacts
  <2>4. q["dst"].nets \cap AddrMeaning(rule.dst, {}) # {} => dst.label # None \/ dst.skipped
    BY <1>3, <1>5, <2>1, AddrFieldFacts
  <2> HIDE DEF dst
  <2> QED BY <2>2, <2>3, <2>4
<1>6. ASSUME "port" \in DOMAIN q PROVE port.label # None \/ port.skipped
  <2>1. q.port \in SUBSET PortAlternatives
    BY <1>6, FoundFacts
  <2>2. WantedPorts = UNION {Traffic(alt) : alt \in q.port}
    BY <1>6 DEF WantedPorts
  <2>3. (UNION {Traffic(alt) : alt \in q.port}) \cap SvcMeaning(rule.svc, {}) # {} =>
           port.label # None \/ port.skipped
    BY <1>3, <1>6, <2>1, PortFieldFacts
  <2> HIDE DEF port
  <2> QED BY <2>2, <2>3
<1>7. answer.skipped = {k \in DOMAIN rules : m[k].skipped}
  BY <1>1 DEF RowsOf
<1>8. addressed \in BOOLEAN
  OBVIOUS
<1>9. \/ addressed /\ (m[i].src.label # None \/ m[i].dst.label # None)
      \/ ~addressed /\ m[i].port.label # None
      \/ m[i].skipped
  <2>1. "src" \in DOMAIN q \/ "dst" \in DOMAIN q \/ (~addressed /\ "port" \in DOMAIN q)
    BY <1>1
  <2> HIDE DEF m, src, dst, port
  <2> QED BY <1>2, <1>4, <1>5, <1>6, <2>1
<1>10. CASE m[i].skipped
  BY <1>7, <1>10
<1>11. CASE ~m[i].skipped
  <2> HIDE DEF m, addressed, rules
  <2>1. i \in ToSet(RowsOf(rules, m, addressed, asked.portOnly).rows)
    BY <1>1, <1>8, <1>9, <1>11, RowsHaveAll DEF rules
  <2> QED BY <1>1, <2>1
<1> QED BY <1>10, <1>11

(* Of what a lookup describes, no rule that takes part is neither shown nor  *)
(* counted as skipped (match_rule, search).                                  *)
THEOREM HiddenCorrect == LookupSpec => []NothingHidden
<1>1. LookupSpec => []LookupInv
  BY LookupStart, LookupStep, PTL DEF LookupSpec
<1> QED BY <1>1, FoundOrSkipped, PTL

(* A label says the truth of the rule (compare_networks, compare_ranges).    *)
THEOREM LabelsCorrect == LookupSpec => []LabelsAreTrue
<1>1. LookupSpec => []LookupInv
  BY LookupStart, LookupStep, PTL DEF LookupSpec
<1> QED BY <1>1, FoundMeansTrue, PTL
=============================================================================
