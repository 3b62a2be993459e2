------------------------------ MODULE Matcher ------------------------------
(***************************************************************************)
(* When a rule fires for a parsed command                                  *)
(* (vetter-core/src/matcher/{rule,decide,loader}.rs).                      *)
(*                                                                         *)
(* An optional field is a set of at most one value, so "if it is set, ..." *)
(* is a quantifier.  A parsed command has one HTTP effect, the first, and  *)
(* the files it reads and writes; header names are lower case.             *)
(***************************************************************************)
EXTENDS Patterns

(* Default-deny: the names a rule does not list are refused, and no list   *)
(* lists nothing; "*" lists every name.                                    *)
MatchesHeaders(names, allow) ==
  IF allow = {} THEN names = {}
  ELSE \A listed \in allow : "*" \in listed \/ names \subseteq listed

KnownDefault(scheme) == IF scheme = "https" THEN 443 ELSE 80

MatchesUrl(url, clause) ==
  /\ \A scheme \in clause.scheme : scheme = url.scheme
  /\ \A hosts \in clause.host : \E h \in hosts : MatchesHost(h, url.host)
  /\ \A ports \in clause.port :
       \E port \in IF url.port = {} THEN {KnownDefault(url.scheme)} ELSE url.port : port \in ports
  /\ \A glob \in clause.path : MatchesPath(glob, NormalisePath(url.path))

(* Fault: a rule that says nothing of redirects lets them through. *)
MatchesHttpAnyRedirect(req, clause) ==
  /\ \A methods \in clause.method : req.method \in methods
  /\ \A url \in clause.url : MatchesUrl(req.url, url)
  /\ MatchesHeaders(req.headers, clause.headers_allow)
  /\ TRUE \in clause.no_body => req.body = "none"
  /\ TRUE \in clause.query => req.url.query
  /\ TRUE \in clause.no_redirects => ~req.follow_redirects

(* A clause that says nothing of redirects refuses them. *)
MatchesHttp(req, clause) ==
  /\ \A methods \in clause.method : req.method \in methods
  /\ \A url \in clause.url : MatchesUrl(req.url, url)
  /\ MatchesHeaders(req.headers, clause.headers_allow)
  /\ TRUE \in clause.no_body => req.body = "none"
  /\ TRUE \in clause.query => req.url.query
  /\ FALSE \in clause.no_redirects \/ ~req.follow_redirects

MatchesFile(file, clause) ==
  \A glob \in clause.path : MatchesPath(glob, NormalisePath(file.path))

(* One file of the command, of the clause's kind, is enough. *)
MatchesFiles(files, kind, clause) ==
  \E i \in DOMAIN files : files[i].kind = kind /\ MatchesFile(files[i], clause)

NoClause(when) == when.http = {} /\ when.file_write = {} /\ when.file_read = {}

(* matches_rule, but for expires_at, which is the store's: every clause    *)
(* that is set finds an effect, and a rule without clauses never fires.    *)
Fires(parsed, rule, sid) ==
  /\ rule.sid # {} => sid = rule.sid
  /\ \A command \in rule.command : command = parsed.command
  /\ ~NoClause(rule.when)
  /\ \A clause \in rule.when.http : MatchesHttp(parsed.http, clause)
  /\ \A clause \in rule.when.file_write : MatchesFiles(parsed.files, "write", clause)
  /\ \A clause \in rule.when.file_read : MatchesFiles(parsed.files, "read", clause)
=============================================================================
