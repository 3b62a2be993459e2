-------------------------- MODULE MCAllowlistStore --------------------------
(***************************************************************************)
(* The allowlist with the rules the cards of a few requests offer.  A      *)
(* behaviour has two of the rules, picked by the users of the three kinds  *)
(* of writer a desktop daemon has: the admin thread, a window thread and a *)
(* `vet allow` process.                                                    *)
(***************************************************************************)
EXTENDS SerialStore, Offered, TLC, FiniteSetsExt

CONSTANTS
  s1, s2,   \* the terminal sessions of two agents
  Wide      \* whether every pair of rules is tried, or one pair only

(* GET https://api.h.io/a/b, from the first session. *)
Get ==
  [sid |-> {s1},
   parsed |->
     [command |-> "curl", files |-> <<>>,
      http |-> [method |-> "GET", headers |-> {}, body |-> "none", follow_redirects |-> FALSE,
                url |-> [scheme |-> "https", host |-> <<"api", "h", "io">>, port |-> {},
                         path |-> <<"a", "b">>, query |-> FALSE]]]]

GetWithToken == [Get EXCEPT !.parsed.http.headers = {"authorization"}]
GetElsewhere == [Get EXCEPT !.parsed.http.url.host = <<"h", "io">>]
GetStarred == [Get EXCEPT !.parsed.http.url.host = <<"*", "h", "io">>]
GetBareStar == [Get EXCEPT !.parsed.http.url.host = BareStar, !.sid = {}]
GetRedirected == [Get EXCEPT !.parsed.http.follow_redirects = TRUE]
GetSibling == [Get EXCEPT !.parsed.http.url.path = <<"a", "..", "a", "c">>, !.sid = {s2}]
GetDirectory == [Get EXCEPT !.parsed.http.url.path = <<"a", "b", "">>]
GetTop == [Get EXCEPT !.parsed.http.url.path = <<"a">>, !.parsed.http.url.query = TRUE]
GetRoot == [Get EXCEPT !.parsed.http.url.path = <<>>, !.sid = {}]
Post == [Get EXCEPT !.parsed.http.method = "POST", !.parsed.http.body = "inline"]

MCRequests ==
  {Get, GetWithToken, GetElsewhere, GetStarred, GetBareStar, GetRedirected, GetSibling,
   GetDirectory, GetTop, GetRoot, Post}

(* The rules, by number. *)
MCBook == FoldSet(LAMBDA k, book : Append(book, k), <<>>, UNION {Offers(r) : r \in MCRequests})
MCRules == DOMAIN MCBook
Numbers(rules) == {k \in MCRules : MCBook[k] \in rules}

MCSession == {k \in MCRules : MCBook[k].expires_at # {}}
MCIdOf == [k \in MCRules |-> DerivedId(MCBook[k])]
MCCovers == [k \in MCRules |-> {r \in MCRequests : Fires(r.parsed, MCBook[k], r.sid)}]

(* A rule for ever on one request. *)
Base == RuleFor(Get.parsed.http, <<"a", "b">>)

(* Two rules and the writers that are asked for them: one pair for each    *)
(* two kinds of writer, and for one thread that rule beside any other,     *)
(* from any card, of any tier and duration, the same rule with another     *)
(* duration included.                                                      *)
Menus ==
  {[rules |-> Numbers({Base, WithDuration(RuleFor(Post.parsed.http, <<"**">>), "minutes", {})}),
    writers |-> pair] : pair \in {AllWriters \ {w} : w \in Writers}  \cup {Writers}}
  \cup IF Wide THEN {[rules |-> Numbers({Base}) \cup {k}, writers |-> {"window"}] : k \in MCRules}
       ELSE {}

VARIABLE menu   \* the rules the users of this behaviour pick, and where

MCVars == <<serialVars, menu>>

MCInit == SerialInit /\ menu \in Menus

MCNext ==
  /\ StoreStep([kind : {"add", "remove"}, rule : menu.rules])
  /\ \A w \in AllWriters \ menu.writers : wpc'[w] = "idle"
  /\ Watch
  /\ UNCHANGED menu

MCSpec == MCInit /\ [][MCNext]_MCVars
=============================================================================
