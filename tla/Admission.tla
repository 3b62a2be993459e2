------------------------------ MODULE Admission ------------------------------
(***************************************************************************)
(* One wrapped curl command, from its words to its card                    *)
(* (vet/src/wrap.rs; vetterd/src/lib.rs, handle_connection and             *)
(* parse_request; policy.rs; pending.rs, refresh_with): argv[0] is looked  *)
(* up, the words are parsed, a worker holds the read locks while it        *)
(* matches the rule and fills in the host's colour, lets go of them, and   *)
(* only then submits the card.  Meanwhile other threads add known hosts    *)
(* and repaint the cards that are in the queue.                            *)
(*                                                                         *)
(* `setup` is what a behaviour is about: [world, argv, meant, rules,       *)
(* patterns], where meant is what the command says word by word, rules     *)
(* has at most one [rule, glob], a rule with its path pattern apart, and   *)
(* patterns are the hosts that get added.  `raced` is history: an add went *)
(* over the cards while this one was on its way to the queue, or replaced  *)
(* the store while another add was going over the cards with its copy.     *)
(***************************************************************************)
EXTENDS CurlCommand, Glob, Matcher, Dispatch, KnownHosts

CONSTANT Setups

ASSUME AdmissionAssumption ==
  /\ \A text \in DOMAIN UrlOf : UrlOf[text] \in Urls
  /\ \A x \in Setups : x.argv \in Seq(Words) /\ \A r \in x.rules : r.glob \in Seq(STRING)

VARIABLES
  setup,
  pc,       \* what happens to the request next
  verdict,  \* "none", "allow" or "deny": the rule's, then the user's
  card,     \* [known, signals] of PromptSummary, once there is one
  raced

workerVars == <<pc, verdict, card>>
vars == <<setup, parserVars, globVars, khVars, workerVars, raced>>

Unparsed  == UNCHANGED parserVars
Unmatched == UNCHANGED globVars

AdmissionInit ==
  /\ setup \in Setups
  /\ ParserInit
  /\ GlobInit
  /\ KnownHostsInit
  /\ pc = "resolve" /\ verdict = "none" /\ card = {} /\ raced = FALSE

(* vet, before anything else: a program it cannot place is not vetted. *)
ResolveArgv0 ==
  /\ pc = "resolve"
  /\ pc' = IF ResolveError(setup.world) = "" THEN "parse" ELSE "refused"
  /\ UNCHANGED <<setup, verdict, card, raced, khVars>> /\ Unparsed /\ Unmatched

(* parse_request: by name; then the parser, which vet ran as well. *)
ParseRequest ==
  /\ pc = "parse" /\ stage = "idle"
  /\ IF DispatchName(setup.world.argv0) = {}
     THEN pc' = "refused" /\ Unparsed
     ELSE StartParse(setup.argv) /\ pc' = pc
  /\ UNCHANGED <<setup, verdict, card, raced, khVars>> /\ Unmatched

Parse ==
  /\ pc = "parse" /\ ParserStep
  /\ UNCHANGED <<setup, workerVars, raced, khVars>> /\ Unmatched

Request == (CHOOSE parsed \in outcome.parsed : TRUE).http

(* A command that cannot be read is denied; else the read locks are taken  *)
(* and the signal of the host is the first thing read under them.          *)
LockStores ==
  /\ pc = "parse" /\ stage = "done"
  /\ \/ /\ outcome.parsed = {}
        /\ pc' = "refused"
        /\ UNCHANGED <<card, khVars>>
     \/ \E parsed \in outcome.parsed :
          /\ LockHosts(TRUE)
          /\ card' = {[known |-> FALSE, signals |-> parsed.signals \cup CheckKnownHosts(parsed.http.url, Store)]}
          /\ pc' = "evaluate"
  /\ UNCHANGED <<setup, verdict, raced>> /\ Unparsed /\ Unmatched

(* evaluate: all but the path of the rule, then the path. *)
Evaluate ==
  /\ pc = "evaluate"
  /\ \/ \E r \in setup.rules, parsed \in outcome.parsed :
          /\ Fires(parsed, r.rule, {})
          /\ StartGlob(r.glob, NormalisePath(parsed.http.url.path))
          /\ pc' = "match"
     \/ /\ \A r \in setup.rules, parsed \in outcome.parsed : ~Fires(parsed, r.rule, {})
        /\ pc' = "summary"
        /\ Unmatched
  /\ UNCHANGED <<setup, verdict, card, raced, khVars>> /\ Unparsed

Match ==
  /\ pc = "match"
  /\ \/ GlobStep /\ UNCHANGED workerVars
     \/ /\ fits \in {"yes", "no"}
        /\ verdict' = IF fits = "yes" THEN "allow" ELSE "none"
        /\ pc' = "summary"
        /\ Unmatched /\ UNCHANGED card
  /\ UNCHANGED <<setup, raced, khVars>> /\ Unparsed

(* build_summary under the locks, which are then dropped. *)
BuildSummary ==
  /\ pc = "summary"
  /\ card' = {[c EXCEPT !.known = IsKnownHost(Request.url, Store)] : c \in card}
  /\ LockHosts(FALSE)
  /\ pc' = "submit"
  /\ UNCHANGED <<setup, verdict, raced>> /\ Unparsed /\ Unmatched

(* submit_with_render, or record_auto when the rule has decided. *)
Submit ==
  /\ pc = "submit"
  /\ pc' = IF verdict = "none" THEN "pending" ELSE "resolved"
  /\ UNCHANGED <<setup, verdict, card, raced, khVars>> /\ Unparsed /\ Unmatched

UserDecides ==
  /\ pc = "pending"
  /\ verdict' \in {"allow", "deny"}
  /\ pc' = "resolved"
  /\ UNCHANGED <<setup, card, raced, khVars>> /\ Unparsed /\ Unmatched

-----------------------------------------------------------------------------
(* The adds *)

(* suggestions_for: a refused command offers nothing to trust. *)
SuggestedHosts ==
  IF pc = "pending" \/ (pc = "resolved" /\ verdict = "allow")
  THEN HostSuggestions(Request.url, Store) ELSE {}

(* From the card's menu, or typed in by the user. *)
AddKnownHost(t) ==
  /\ \E pattern \in setup.patterns \cup (IF setup.patterns = {} THEN {} ELSE SuggestedHosts) :
       ReadHosts(t, pattern)
  /\ UNCHANGED <<setup, workerVars, raced>> /\ Unparsed /\ Unmatched

(* Somebody else is between copying the store and repainting the cards. *)
Repainting(t) == \E other \in Adders \ {t} : kpc[other] = "refresh"

AddGoesOn(t) ==
  /\ AdderStep(t)
  /\ raced' = (raced \/ (kpc[t] = "install" /\ Repainting(t)))
  /\ UNCHANGED <<setup, workerVars>> /\ Unparsed /\ Unmatched

(* Fault: only cards that still wait are repainted. *)
RefreshSummaryPending(c, patterns) ==
  IF pc = "pending"
  THEN [c EXCEPT !.known = IsKnownHost(Request.url, patterns),
                 !.signals = (@ \ {"UnknownHost"}) \cup CheckKnownHosts(Request.url, patterns)]
  ELSE c

(* Fault: the host's colour is repainted, the signals are left. *)
RefreshSummaryPill(c, patterns) == [c EXCEPT !.known = IsKnownHost(Request.url, patterns)]

(* refresh_summary: both fields, from the same copy. *)
RefreshSummary(c, patterns) ==
  [c EXCEPT !.known = IsKnownHost(Request.url, patterns),
            !.signals = (@ \ {"UnknownHost"}) \cup CheckKnownHosts(Request.url, patterns)]

(* refresh_with: the cards that wait and the recent ones, all at once. *)
RefreshCards(t) ==
  /\ FinishHosts(t)
  /\ card' = IF pc \in {"pending", "resolved"}
             THEN {RefreshSummary(c, khHeld[t] \cup Builtin) : c \in card} ELSE card
  /\ raced' = (raced \/ pc = "submit")
  /\ UNCHANGED <<setup, pc, verdict>> /\ Unparsed /\ Unmatched

AdmissionNext ==
  \/ ResolveArgv0 \/ ParseRequest \/ Parse \/ LockStores \/ Evaluate \/ Match
  \/ BuildSummary \/ Submit \/ UserDecides
  \/ \E t \in Adders : AddKnownHost(t) \/ AddGoesOn(t) \/ RefreshCards(t)

AdmissionSpec == AdmissionInit /\ [][AdmissionNext]_vars

-----------------------------------------------------------------------------
(* What a list of flags and positionals says: no order of reading, no      *)
(* state.                                                                  *)
Positions(items, ids) == {i \in DOMAIN items : items[i].id \in ids}
Has(items, id) == \E i \in DOMAIN items : items[i].id = id
Values(items, id) == UNION {items[i].value : i \in Positions(items, {id})}
LastOf(items, id) ==
  UNION {items[i].value : i \in {j \in DOMAIN items :
           /\ items[j].id = id
           /\ \A k \in DOMAIN items : k > j => items[k].id # id}}

MeantAt(items, ids) == {v \in UNION {Values(items, id) : id \in ids} : v.at}

FromFile == DataIds \ {"DataRaw"}

(* The commands that have no faithful picture. *)
CannotBeShown(items) ==
  \/ \E id \in {"nonsense", "Config", "Next", "Form", "FormString"} : Has(items, id)
  \/ ~(Has(items, "positional") /\ AtMostOne(Positions(items, {"positional"})))
  \/ ~(Values(items, "positional") \cup Values(items, "Proxy") \subseteq DOMAIN UrlOf)
  \/ ~(Values(items, "Header") \subseteq DOMAIN HeaderOf)
  \/ \E v \in Values(items, "Header") : HeaderOf[v].name = "transfer-encoding" /\ HeaderOf[v].chunked
  \/ ~AtMostOne({MethodOf[v] : v \in Values(items, "Request")})
  \/ Dash \in Values(items, "UploadFile")
  \/ AtDash \in MeantAt(items, FromFile \cup {"Cookie", "WriteOut"})
  \/ MeantAt(items, FromFile) # {} /\ ~AtMostOne(Positions(items, DataIds))

MeantMethod(items) ==
  IF Has(items, "Request") THEN {MethodOf[v] : v \in Values(items, "Request")}
  ELSE IF Has(items, "Head") THEN {"HEAD"}
  ELSE IF Has(items, "Get") THEN {"GET"}
  ELSE IF Positions(items, DataIds) # {} THEN {"POST"}
  ELSE IF Has(items, "UploadFile") THEN {"PUT"} ELSE {"GET"}

MeantReads(items) ==
  {Rest(v) : v \in MeantAt(items, FromFile \cup {"Cookie"})}
  \cup {Rest(v) : v \in {w \in LastOf(items, "WriteOut") : w.at}}
  \cup {CertOf[v].file : v \in LastOf(items, "Cert")}
  \cup UNION {LastOf(items, id) : id \in {"UploadFile", "Key", "Pubkey", "EtagCompare"}}

MeantSideWrites(items) ==
  (UNION {LastOf(items, id) : id \in {"CookieJar", "EtagSave"}})
  \cup (LastOf(items, "DumpHeader") \ {Dash})
  \cup UNION {LastOf(items, id) \ {Dash, [Dash EXCEPT !.text = <<"%">>]} : id \in {"Trace", "TraceAscii"}}

SavedAs(segments) ==
  IF segments = <<>> \/ segments[Len(segments)] = "" THEN "download" ELSE segments[Len(segments)]

(* Where the response goes: below --output-dir unless -o is absolute. *)
MeantOutput(items) ==
  LET names == {SavedAs(UrlOf[v].path) : v \in Values(items, "positional")}
      targets == IF Has(items, "Output") THEN {PathOf[v] : v \in LastOf(items, "Output")}
                 ELSE IF Has(items, "RemoteName") \/ Has(items, "RemoteHeaderName")
                 THEN {[absolute |-> FALSE, parts |-> <<name>>] : name \in names} ELSE {}
      Placed(t) == IF t.absolute \/ ~Has(items, "OutputDir") THEN {t}
                   ELSE {[absolute |-> d.absolute, parts |-> d.parts \o t.parts] :
                           d \in {PathOf[v] : v \in LastOf(items, "OutputDir")}}
  IN  UNION {Placed(t) : t \in targets}

(* Every file it touches and no other; only -o heeds --no-clobber. *)
FilesTrue(items, parsed) ==
  {parsed.files[i] : i \in DOMAIN parsed.files} =
    {File("read", PathOf[v], FALSE) : v \in MeantReads(items)}
    \cup {File("write", PathOf[v], TRUE) : v \in MeantSideWrites(items)}
    \cup {File("write", target, ~Has(items, "NoClobber")) : target \in MeantOutput(items)}

RequestTrue(items, req) ==
  /\ {req.method} = MeantMethod(items)
  /\ {req.url} = {[UrlOf[v] EXCEPT !.fragment = FALSE] : v \in Values(items, "positional")}
  /\ req.headers = {HeaderOf[v].name : v \in Values(items, "Header")}
  /\ (req.body = "none") = (Positions(items, DataIds) = {})
  /\ (req.body = "file") = (MeantAt(items, FromFile) # {})
  /\ (req.tls = "insecure") = Has(items, "Insecure")
  /\ req.follow_redirects = Has(items, "Location")
  /\ req.proxy = {UrlOf[v] : v \in LastOf(items, "Proxy")}

NothingHidden(items, parsed) ==
  /\ ("unknown_flags" \in parsed.extras) = Has(items, "unknown")
  /\ ("ClientCertificate" \in parsed.signals) = (Has(items, "Cert") \/ Has(items, "Key"))
  /\ ("ResolveOverride" \in parsed.signals) = Has(items, "Resolve")
  /\ Has(items, "User") => parsed.http.auth = "basic"

-----------------------------------------------------------------------------
(* A list of items and what became of it agree: no card if and only if it  *)
(* has no faithful picture, or else a card that says what it says.         *)
ShownFor(items, result) ==
  /\ result.parsed = {} <=> CannotBeShown(items)
  /\ \A parsed \in result.parsed :
       /\ RequestTrue(items, parsed.http) /\ FilesTrue(items, parsed)
       /\ NothingHidden(items, parsed)

(* The card is the command: however its flags are spelled, clustered and   *)
(* ordered, a curl command is refused exactly when it has no faithful      *)
(* picture, and otherwise its method, URL, headers, body, TLS, redirects   *)
(* and every file it reads or writes are those the words say.  It gets a   *)
(* card only when the program itself could be placed.                      *)
ShownIsWritten ==
  /\ stage = "done" => ShownFor(setup.meant, outcome)
  /\ card # {} => ResolveError(setup.world) = ""

(* Nothing is lost or made up between the tokens and the card: whatever    *)
(* the tokens, their order and number, and although absorb keeps only what *)
(* the last of some flags said and stops at the first thing it refuses, it *)
(* refuses only tokens that have no faithful picture, lets none of those   *)
(* through, and shows the request and the files the tokens say.            *)
ShownIsRead ==
  [][stage = "absorb" /\ stage' = "done" => ShownFor(tokens, outcome')]_vars

(* The colour of the host and the signal about it never disagree, on a     *)
(* card being made, in the queue or in the history: both are computed from *)
(* one state of the store, although in different steps and different ways. *)
PillMatchesSignal ==
  pc \in {"submit", "pending", "resolved"} =>
    \A c \in card : c.known = ("UnknownHost" \notin c.signals)

(* Once an add has finished, the card of a request says of its host what   *)
(* the store says, before and after it is decided.  Two races break this   *)
(* and no other: an add that goes over the cards between the worker's      *)
(* dropping the locks and its submit, and an add that replaces the store   *)
(* while another repaints from its older copy.                             *)
HintsFresh ==
  /\ pc \in {"pending", "resolved"}
  /\ ~raced
  /\ \A t \in Adders : kpc[t] \notin {"snapshot", "refresh"}
  => \A c \in card : c.known = IsKnownHost(Request.url, Store)
=============================================================================
