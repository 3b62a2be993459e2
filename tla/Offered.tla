------------------------------ MODULE Offered -------------------------------
(***************************************************************************)
(* AllowlistStore with rules that are what a card offers: Suggest makes    *)
(* the rules of a request, for each duration, and Matcher says which       *)
(* requests they match.  The store deals in numbers, or names, of rules;   *)
(* Book says what each of them is.                                         *)
(***************************************************************************)
EXTENDS AllowlistStore, Suggest

CONSTANT Book   \* rule -> its content

Durations == {"forever", "minutes", "this session"}

(* The rules a user can pick on the card of a request, "this session"      *)
(* being greyed out on one without a session.                              *)
Offers(r) ==
  {WithDuration(o.rule, choice, r.sid) :
     o \in AllowlistSuggestions(r.parsed),
     choice \in IF r.sid = {} THEN Durations \ {"this session"} ELSE Durations}

OfferedOn == [r \in Requests |-> {k \in Rules : Book[k] \in Offers(r)}]

(* A request is [parsed, sid]; every rule comes from the card of one, and  *)
(* what it covers is what the matcher says.                                *)
ASSUME OfferedAssumption ==
  /\ \A r \in Requests : {r.parsed.http.url.path, r.parsed.http.url.host} \subseteq Seq(STRING)
  /\ \A k \in Rules : \E r \in Requests : k \in OfferedOn[r]
  /\ Covers = [k \in Rules |-> {r \in Requests : Fires(r.parsed, Book[k], r.sid)}]

-----------------------------------------------------------------------------
(* Whether the path pattern picked is the one for a path that ends in "/", *)
(* which drops the slash and then does not fit the path.                   *)
LosesSlash(k, r) ==
  LET segments == NormalisePath(r.parsed.http.url.path)
  IN  /\ segments # <<>> /\ segments[Len(segments)] = ""
      /\ \E glob \in PathGlobs(segments) : Book[k].when = RuleFor(r.parsed.http, glob).when

(* The host "*.": as a pattern it fits no host, itself included. *)
BareStar == <<"*", NoLabel>>

(* The rules of a card that have to cover its request, those of them that  *)
(* are for every session, and all the rules that cover it whoever asks.    *)
MustFire ==
  [r \in Requests |->
     {k \in OfferedOn[r] : ~LosesSlash(k, r) /\ r.parsed.http.url.host # BareStar}]

MustFireForAll == [r \in Requests |-> {k \in MustFire[r] : Book[k].sid = {}}]

ForNobody == [r \in Requests |-> {k \in Rules : ExplainAllows(<<Book[k]>>, r.parsed)}]

(* A rule picked on a card covers the request of that card: while the rule *)
(* is in the store and has not ended, the same command is allowed without  *)
(* asking (unless the denylist names it), and `vet --explain` says so too  *)
(* unless the rule is for one session (suggest/mod.rs, "so the emitted     *)
(* rule actually matches it").  Left out are the path rule of a path that  *)
(* ends in "/" and the host "*.", which their own rules do not fit.        *)
PickedRuleFires ==
  \A r \in Requests \ Denied :
    /\ Elems(Pruned(live)) \cap MustFire[r] # {} => Decide(live, r) = "allow"
    /\ Elems(Pruned(disk)) \cap MustFireForAll[r] # {} =>
         Elems(Pruned(disk)) \cap ForNobody[r] # {}

(* The host a card showed; or, when that is itself written "*.h.io", any   *)
(* host below h.io, which the rule then covers as a wildcard would.        *)
HostLike(host, shown) ==
  \/ host = shown
  \/ \E i \in 2 .. Len(host) : <<"*">> \o SubSeq(host, i, Len(host)) = shown

(* What a picked rule may ever do for another request: same method and     *)
(* scheme, a host like the one shown, no header the card did not show (one *)
(* named "*" shows all), redirects only if it showed them, and only the    *)
(* session it was picked for.                                              *)
Like(r, picked, k) ==
  LET a == r.parsed.http  b == picked.parsed.http
  IN  /\ a.method = b.method /\ a.url.scheme = b.url.scheme
      /\ HostLike(a.url.host, b.url.host)
      /\ "*" \in b.headers \/ a.headers \subseteq b.headers
      /\ a.follow_redirects => b.follow_redirects
      /\ Book[k].sid # {} => r.sid = picked.sid

Alike ==
  [k \in Rules |->
     {r \in Requests : \E picked \in Requests : k \in OfferedOn[picked] /\ Like(r, picked, k)}]

(* A request is allowed without asking only by a rule somebody picked on   *)
(* the card of a request like it, whatever rules are there together.       *)
AllowsOnlyAlike ==
  \A r \in Requests :
    Decide(live, r) = "allow" => \E k \in Elems(Pruned(live)) : r \in Alike[k]
=============================================================================
