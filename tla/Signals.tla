------------------------------ MODULE Signals ------------------------------
(***************************************************************************)
(* The generic risk signals of a parsed command                            *)
(* (vetter-core/src/signals/mod.rs), the question whether a host is known  *)
(* (known_hosts.rs, vetterd/src/policy.rs), and the host patterns a card   *)
(* offers to trust (suggest/mod.rs).  Three places decide what a loopback  *)
(* host is, each its own way.                                              *)
(*                                                                         *)
(* A host is its labels; an IP address is written as Url keeps it.         *)
(***************************************************************************)
EXTENDS Patterns

CONSTANTS
  IpHosts,       \* hosts that are IP addresses
  LoopbackIps,   \* those in 127.0.0.0/8, and ::1
  IdnHosts,      \* hosts with a punycode label
  OddHosts       \* hosts with other characters than letters, digits, "-" and "."

ASSUME SignalsAssumption == LoopbackIps \subseteq IpHosts

Localhost == <<"localhost">>

(* is_loopback_host of the analyzer, by what the host parses as. *)
IsLoopback(host) == host = Localhost \/ host \in LoopbackIps

IsWrite(method) == method \in {"POST", "PUT", "PATCH", "DELETE"}

StandardPorts == {80, 443, 8080, 8443}

AuthHeaders == {"authorization", "cookie", "x-api-key", "proxy-authorization", "x-some-token"}

AnalyzeHttp(req) ==
  LET host == req.url.host IN
  {kind \in {"WriteMethod", "AuthHeader", "InsecureTls", "NonStandardPort", "IdnHost", "RawIpLiteral"} :
     CASE kind = "WriteMethod"     -> IsWrite(req.method)
       [] kind = "AuthHeader"      -> req.headers \cap AuthHeaders # {}
       [] kind = "InsecureTls"     -> \/ req.tls = "insecure"
                                      \/ req.tls = "plaintext" /\ ~IsLoopback(host)
       [] kind = "NonStandardPort" -> ~(req.url.port \subseteq StandardPorts) /\ ~IsLoopback(host)
       [] kind = "IdnHost"         -> host \in IdnHosts
       [] kind = "RawIpLiteral"    -> host \in IpHosts \ LoopbackIps}

(* path_is_inside: by name, after "." and ".." are worked out. *)
IsInside(file, cwd) ==
  LET inner == Collapse(file.path)  outer == Collapse(cwd) IN
  file.absolute /\ Len(outer) <= Len(inner) /\ SubSeq(inner, 1, Len(outer)) = outer

(* analyze: nothing is said of files when the working directory is not known. *)
Analyze(parsed) ==
  AnalyzeHttp(parsed.http)
  \cup UNION {{IF parsed.files[i].kind = "write" THEN "FileOutsideCwd" ELSE "FileReadOutsideCwd"} :
                i \in {j \in DOMAIN parsed.files :
                         \E cwd \in parsed.cwd : ~IsInside(parsed.files[j], cwd)}}

-----------------------------------------------------------------------------
(* KnownHostsStore::contains *)
Contains(store, host) == \E pattern \in store : MatchesHost(pattern, host)

(* check_known_hosts *)
CheckKnownHosts(url, store) ==
  IF IsLoopback(url.host) \/ Contains(store, url.host) THEN {} ELSE {"UnknownHost"}

(* is_known_host, the colour of the pill: the name, then the address. *)
IsKnownHost(url, store) ==
  \/ url.host = Localhost
  \/ url.host \in LoopbackIps
  \/ Contains(store, url.host)

(* is_loopback_host of the suggestions, by how the host is written. *)
LooksLoopback(host) ==
  \/ host \in {Localhost, <<"::1">>, <<"[::1]">>}
  \/ Len(host) > 1 /\ host[1] = "127"

(* host_suggestions: the host, as text, and what its parent's other hosts  *)
(* share.                                                                  *)
HostSuggestions(url, store) ==
  LET host == url.host
      parent == IF Len(host) > 1 THEN Tail(host) ELSE host
  IN  IF LooksLoopback(host) \/ Contains(store, host) THEN {}
      ELSE {HostPattern(host)} \cup
           IF /\ host \notin IpHosts \cup OddHosts
              /\ Len(host) >= 3
              /\ host[1] # "www"
              /\ ~Contains(store, parent)
           THEN {[wild |-> TRUE, labels |-> parent]} ELSE {}
=============================================================================
