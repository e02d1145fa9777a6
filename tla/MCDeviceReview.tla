--------------------------- MODULE MCDeviceReview ---------------------------
(* The devices and the demands that DeviceReview is checked on: for every   *)
(* check, sections with each of the fields it reads absent, right and       *)
(* wrong, and lists of up to two entries.                                   *)
EXTENDS DeviceReview, TLC

Hosts == {"h1", "h2", "fqdn"}
HostSets == {{}, {"h1"}, {"fqdn"}, {"h1", "h2"}}

(* fqdn resolves to the address that h1 is the name of. *)
MCDnsOf == "h1" :> {1} @@ "h2" :> {2} @@ "fqdn" :> {1, 3}

MCReviewParams(check) ==
    CASE check \in {"ntp_config", "syslog_config", "log_faz", "dns_servers"} -> HostSets
      [] check \in {"idle_timeout", "lockout_threshold", "password_length"} ->
            {{}, {0}, {5}}
      [] check = "log_severity" -> {{}, {5}, {8}}
      [] check = "tls_version" -> {{}, {3}}
      [] check = "firmware_version" ->
            {{}, {<<7, 2>>}, {<<7, 2, 5>>}, {<<7, NotANumber>>}, {<<NotANumber>>}}
      [] OTHER -> {{}}

(* A section that lacks field f, or has it with one of the values V.         *)
With(f, V) == {Nothing, [unrelated |-> 1]} \cup {f :> v : v \in V}
Numbers == {0, 4, 5, 6}

(* Spelled one way, the other or both.                                       *)
Spelled(f, g, V) == With(f, V) \cup With(g, V) \cup {f :> v @@ g :> v : v \in V}
Accounts == [name : {"admin", "Admin", "ann"}, status : {"enable", "disable"}]
Trusthosts == {{}, {"0.0.0.0/0"}, {"h1"}, {"h1", "0.0.0.0/0"}}
Profiles == [status : {"enable", "disable"}, server : Hosts \cup {""}]
UpTo2(S) == {{}} \cup {{x, y} : x, y \in S}
ListsUpTo2(S) == {<< >>} \cup {<<x>> : x \in S} \cup {<<x, y>> : x, y \in S}
Only(k, sections) == {k :> s : s \in sections}

(* What the sections that a check reads can be on a device.                  *)
MCReviewAnswers(check) ==
    CASE check = "interface_protocols" ->
            Only("interfaces", UpTo2([ip : {"0.0.0.0", "h1"},
                                      allowaccess : {{}, {"ping"}, {"ssh", "telnet"}}]))
      [] check = "ntp_config" ->
            Only("ntp", {Nothing} \cup [ntpsync : {"enable", "disable"},
                                         ntpserver : HostSets])
      [] check = "syslog_config" -> Only("syslog", UpTo2(Profiles))
      [] check = "trusted_hosts" ->
            Only("admins", ListsUpTo2([name : {"admin", "ann"}, trusthosts : Trusthosts]))
      [] check = "default_admin" -> Only("admins", ListsUpTo2(Accounts))
      [] check = "admin_mfa" ->
            Only("admins", ListsUpTo2({[name |-> "ann"]} \cup
                [name : {"ann", "bob"}, two_factor : {"disable", "fortitoken"}]))
      [] check = "idle_timeout" -> Only("system_global", With("admintimeout", Numbers))
      [] check = "lockout_threshold" ->
            Only("system_global", Spelled("admin-lockout-threshold",
                                          "admin_lockout_threshold", Numbers))
      [] check = "password_length" ->
            Only("password_policy", Spelled("minimum-length", "minimum_length", Numbers))
      [] check = "log_disk" -> Only("log_disk", With("status", {"enable", "disable"}))
      [] check = "log_severity" -> Only("log_disk", With("severity", {0, 4, 5, 6, 8}))
      [] check = "log_faz" -> Only("log_faz", UpTo2(Profiles))
      [] check = "dns_servers" ->
            Only("dns", {Nothing} \cup [primary : Hosts \cup {"0.0.0.0"},
                                         secondary : Hosts \cup {"0.0.0.0"}])
      [] check = "snmp_version" ->
            {"snmp_sysinfo" :> i @@ "snmp_community" :> c :
                i \in With("status", {"enable", "disable"}),
                c \in UpTo2({[unrelated |-> 1]} \cup [status : {"enable", "disable"}])}
      [] check = "snmp_readonly" ->
            Only("snmp_users", UpTo2(With("write_access", {"enable", "disable"})
                                        \ {Nothing}))
      [] check = "tls_version" ->
            Only("system_global", With("admin_https_ssl_versions", {{2}, {1, 3}, {3}})
                 \cup With("ssl_min_proto_version", {0, 2, 3}))
      [] check = "ssh_ciphers" ->
            Only("system_global", With("ssh_enc_algo", {{"aes256-ctr"}}) \cup
                 [ssh_enc_algo : {{"aes256-ctr"}, {"aes256-ctr", "aes128-cbc"},
                                  {"blowfish-cbc"}, {"arcfour"}},
                  ssh_mac_algo : {{"hmac-sha2"}, {"hmac-md5"}, {"hmac-md5-etm"}}])
      [] check = "firmware_version" ->
            Only("device_meta", {Nothing} \cup
                [version : {<<0>>, <<7>>, <<7, 0, 9>>, <<7, 2>>, <<7, 2, 5>>, <<7, 4, 0>>,
                            <<7, 2, NotANumber>>, <<NotANumber>>}])
      [] check = "ha_sync" ->
            Only("ha_status", With("mode", {"standalone"}) \cup
                [mode : {"a-p"}, members : {{}, {"synchronized"},
                                            {"synchronized", "out_of_sync"}}])
      [] check = "hostname_changed" ->
            Only("system_global", With("hostname", {"", "fortigate", "fgt123", "fgt60e4q", "edge"}))
      [] check = "admin_port_nondefault" ->
            Only("system_global", With("admin-sport", {443, 8443}) \cup With("adminport", {0}) \cup
                 {f :> 8443 @@ g :> n : f \in {"admin-sport", "adminsport"},
                                        g \in {"admin-port", "adminport"}, n \in {0, 80, 8080}})
      [] check = "prelogin_banner" ->
            Only("system_global", With("pre_login_banner", {"enable", "disable"}))
      [] check = "timezone_set" -> Only("system_global", With("timezone", {"", "UTC"}))
      [] check = "vpn_weak_crypto" ->
            {"ipsec_phase1" :> a @@ "ipsec_phase2" :> b :
                a \in UpTo2([proposal : {{"aes256"}, {"aes256", "md5"}},
                             dhgrp : {{14}, {2, 14}}]),
                b \in UpTo2([proposal : {{"aes256"}, {"3des"}}, dhgrp : {{5}, {14}}])}
      [] check = "vpn_pfs" ->
            Only("ipsec_phase2", UpTo2(With("pfs", {"enable", "disable"}) \ {Nothing}))
      [] check = "vpn_ike_version" ->
            Only("ipsec_phase1", UpTo2({[unrelated |-> 1]} \cup
                [ike_version : {1, 2}, mode : {"main", "aggressive"}]))
=============================================================================
