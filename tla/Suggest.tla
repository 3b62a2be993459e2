------------------------------ MODULE Suggest ------------------------------
(***************************************************************************)
(* The rules a card offers, and for how long                               *)
(* (vetter-core/src/suggest/mod.rs, vetterd/src/cards/{picker,rules}.rs),  *)
(* and what `vet --explain` says of a file (vet/src/explain.rs).           *)
(*                                                                         *)
(* An id derived from a rule's content is that content; hash collisions    *)
(* are left out.                                                           *)
(***************************************************************************)
EXTENDS Matcher, Lists, FiniteSets

(* Fault: the rule does not list the headers it was picked on. *)
ObservedHeaderNamesNone(names) == {}

(* The header names of the request, or no list when it has none. *)
ObservedHeaderNames(names) == IF names = {} THEN {} ELSE {names}

(* make_rule_suggestion: a rule on the method, scheme and host of the      *)
(* request, for one path pattern, with neither an end nor a session yet.   *)
(* The host is copied as text, so the matcher reads one that begins with   *)
(* "*." as a wildcard.                                                     *)
RuleFor(req, glob) ==
  [command |-> {}, sid |-> {}, expires_at |-> {},
   when |->
     [http |-> {[method |-> {{req.method}},
                 url |-> {[scheme |-> {req.url.scheme},
                           host |-> {{HostPattern(req.url.host)}},
                           port |-> {},
                           path |-> {glob}]},
                 headers_allow |-> ObservedHeaderNames(req.headers),
                 no_body |-> {}, query |-> {},
                 no_redirects |-> IF req.follow_redirects THEN {FALSE} ELSE {}]},
      file_write |-> {}, file_read |-> {}]]

(* The second tier: the last of two or more segments becomes "*"; a        *)
(* trailing slash is dropped.                                              *)
PathGlobs(segments) ==
  LET full == Kept(segments, {segments[i] : i \in DOMAIN segments} \ {""})
      glob == [full EXCEPT ![Len(full)] = "*"]
  IN  IF Len(full) >= 2 /\ glob # segments THEN {glob} ELSE {}

(* allowlist_suggestions, on the first HTTP effect. *)
AllowlistSuggestions(parsed) ==
  LET req == parsed.http
      segments == NormalisePath(req.url.path)
  IN  {[tier |-> "exact", rule |-> RuleFor(req, segments)],
       [tier |-> "method+host", rule |-> RuleFor(req, <<"**">>)]}
      \cup {[tier |-> "path-glob", rule |-> RuleFor(req, glob)] : glob \in PathGlobs(segments)}

(* derive_auto_id: taken before a duration is chosen. *)
DerivedId(rule) == [rule EXCEPT !.expires_at = {}, !.sid = {}]

(* DurationChoice::apply and rule_with_duration: even a rule for one       *)
(* session has an end.  When that is, the store's clock says.              *)
WithDuration(rule, choice, sid) ==
  CASE choice = "forever"      -> rule
    [] choice = "minutes"      -> [rule EXCEPT !.expires_at = {"in minutes"}]
    [] choice = "this session" -> [rule EXCEPT !.expires_at = {"in a week"}, !.sid = sid]

(* `vet --explain`: some rule of the file fires, for nobody's session. *)
ExplainAllows(rules, parsed) ==
  \E i \in DOMAIN rules : Fires(parsed, rules[i], {})
=============================================================================
