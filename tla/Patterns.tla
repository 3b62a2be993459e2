------------------------------ MODULE Patterns ------------------------------
(***************************************************************************)
(* The patterns of rules and known hosts, and what each of them means      *)
(* (vetter-core/src/matcher/{glob,url}.rs).                                *)
(*                                                                         *)
(* A path is the sequence of its segments; one that ends in "/" has "" as  *)
(* its last segment, and "/" is the empty sequence.  A host is the         *)
(* sequence of its labels, lower case as Url keeps it; "h.io." ends in the *)
(* label "".                                                               *)
(***************************************************************************)
EXTENDS Naturals, Sequences

(* matches_one: "*" is any one segment. *)
MatchesOne(pattern, segment) == pattern = "*" \/ pattern = segment

(* matches_path, by its meaning: "*" stands for one segment, "**" for any  *)
(* number of them, zero included, anything else for itself.  The rest of   *)
(* the pattern from place i on fits the segments from each place in        *)
(* from[i] on.                                                             *)
MatchesPath(pattern, segments) ==
  LET End == Len(segments) + 1
      from[i \in 1 .. Len(pattern) + 1] ==
        IF i > Len(pattern) THEN {End}
        ELSE IF pattern[i] = "**" THEN {j \in 1 .. End : \E k \in from[i + 1] : j <= k}
        ELSE {j \in 1 .. Len(segments) :
                MatchesOne(pattern[i], segments[j]) /\ j + 1 \in from[i + 1]}
  IN  1 \in from[1]

(* A path without "", "." and ".."; ".." at the root stays at the root. *)
Collapse(segments) ==
  LET kept[i \in 0 .. Len(segments)] ==
        IF i = 0 THEN <<>>
        ELSE LET before == kept[i - 1] IN
             CASE segments[i] \in {"", "."} -> before
               [] segments[i] = ".." -> SubSeq(before, 1, IF before = <<>> THEN 0 ELSE Len(before) - 1)
               [] OTHER -> Append(before, segments[i])
  IN  kept[Len(segments)]

(* normalise_path: a trailing slash is kept unless nothing else is left. *)
NormalisePath(segments) ==
  IF Collapse(segments) # <<>> /\ segments[Len(segments)] = ""
  THEN Append(Collapse(segments), "")
  ELSE Collapse(segments)

(* What matches_host reads a text as: "*." in front is a wildcard, whoever *)
(* wrote it, and any other "*" is a letter.  A URL may have such a host.   *)
HostPattern(text) ==
  IF Len(text) > 1 /\ text[1] = "*" THEN [wild |-> TRUE, labels |-> Tail(text)]
  ELSE [wild |-> FALSE, labels |-> text]

(* What stands before a leading dot or after a last one. *)
NoLabel == ""

(* matches_host: "*." takes one label or more before the rest, never none  *)
(* and never the empty one; nothing is below "*." alone.                   *)
MatchesHost(pattern, host) ==
  IF pattern.wild
  THEN LET below == Len(host) - Len(pattern.labels) IN
       /\ pattern.labels # <<NoLabel>>
       /\ below > 0
       /\ SubSeq(host, 1, below) # <<NoLabel>>
       /\ SubSeq(host, below + 1, Len(host)) = pattern.labels
  ELSE host = pattern.labels
=============================================================================
