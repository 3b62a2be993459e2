------------------------------- MODULE Glob -------------------------------
(***************************************************************************)
(* Path globs (vetter-core/src/matcher/glob.rs, matches_segments): the     *)
(* loop that decides whether the segments of a path fit the segments of a  *)
(* pattern, remembering only the last "**" it passed.                      *)
(*                                                                         *)
(* One step is one iteration.  Positions count from 1 here, so a position  *)
(* one past the end is Len + 1 and "no star yet" is 0.                     *)
(***************************************************************************)
EXTENDS Patterns

VARIABLES
  pat,     \* the segments of the pattern
  path,    \* the segments of the path
  p,       \* the next segment of the pattern
  s,       \* the next segment of the path
  starP,   \* where the last "**" is, 0 before there is one
  starS,   \* the first path segment after what that "**" has taken
  fits     \* "unasked", "looping", or the answer: "yes" or "no"

globVars == <<pat, path, p, s, starP, starS, fits>>

PatEnd  == p > Len(pat)
PathEnd == s > Len(path)

-----------------------------------------------------------------------------
GlobInit ==
  /\ pat = <<>> /\ path = <<>>
  /\ p = 1 /\ s = 1
  /\ starP = 0 /\ starS = 1
  /\ fits = "unasked"

StartGlob(pattern, segments) ==
  /\ pat' = pattern /\ path' = segments
  /\ p' = 1 /\ s' = 1
  /\ starP' = 0 /\ starS' = 1
  /\ fits' = "looping"

(* The test at the end of an iteration, on the positions it leaves. *)
LoopOrReturn ==
  fits' = IF p' > Len(pat) /\ s' > Len(path) THEN "yes" ELSE "looping"

AtStar == ~PatEnd /\ pat[p] = "**"

AtMatch == ~PatEnd /\ pat[p] # "**" /\ ~PathEnd /\ MatchesOne(pat[p], path[s])

(* A "**": remember it, and let it take nothing yet. *)
PassStar ==
  /\ fits = "looping" /\ AtStar
  /\ starP' = p /\ starS' = s
  /\ p' = p + 1
  /\ UNCHANGED <<pat, path, s>>
  /\ LoopOrReturn

TakeSegment ==
  /\ fits = "looping" /\ AtMatch
  /\ p' = p + 1 /\ s' = s + 1
  /\ LoopOrReturn
  /\ UNCHANGED <<pat, path, starP, starS>>

(* Fault: the pattern is resumed after the mismatch, not after the star. *)
RetryFromHere ==
  /\ fits = "looping" /\ ~AtStar /\ ~AtMatch
  /\ starP # 0 /\ starS <= Len(path)
  /\ starS' = starS + 1
  /\ s' = starS + 1
  /\ UNCHANGED <<pat, path, p, starP>>
  /\ LoopOrReturn

(* A mismatch after a "**": it takes one segment more, and the rest of the *)
(* pattern starts over behind that.                                        *)
RetryFromStar ==
  /\ fits = "looping" /\ ~AtStar /\ ~AtMatch
  /\ starP # 0 /\ starS <= Len(path)
  /\ starS' = starS + 1
  /\ s' = starS + 1
  /\ p' = starP + 1
  /\ UNCHANGED <<pat, path, starP>>
  /\ LoopOrReturn

(* A mismatch and no "**", or one that has taken everything. *)
GiveUp ==
  /\ fits = "looping" /\ ~AtStar /\ ~AtMatch
  /\ \/ starP = 0
     \/ starS > Len(path)
  /\ fits' = IF PatEnd /\ PathEnd THEN "yes" ELSE "no"
  /\ UNCHANGED <<pat, path, p, s, starP, starS>>

GlobStep == PassStar \/ TakeSegment \/ RetryFromStar \/ GiveUp

GlobNext ==
  \/ GlobStep
  \/ /\ fits # "looping"
     /\ \E pattern, segments \in Seq(STRING) : StartGlob(pattern, segments)

GlobSpec == GlobInit /\ [][GlobNext]_globVars

-----------------------------------------------------------------------------
GlobTypeOK ==
  /\ pat  \in Seq(STRING)
  /\ path \in Seq(STRING)
  /\ p \in 1 .. Len(pat) + 1
  /\ s \in 1 .. Len(path) + 1
  /\ starP \in 0 .. Len(pat)
  /\ starS \in 1 .. Len(path) + 1
  /\ fits \in {"unasked", "looping", "yes", "no"}

(* Remembering one star is enough: the loop that only ever goes back to    *)
(* the last "**" answers what the glob means, although there may be        *)
(* several.                                                                *)
GlobAgrees == fits \in {"yes", "no"} => (fits = "yes") = MatchesPath(pat, path)

(* Going back makes progress: an iteration that does not answer moves the  *)
(* star on, or lets the same star take more, or moves on in the pattern    *)
(* with both as they were.  So the loop ends on every path.                *)
GlobProgress ==
  [][fits = "looping" /\ fits' = "looping" =>
       \/ starP' > starP
       \/ starP' = starP /\ starS' > starS
       \/ starP' = starP /\ starS' = starS /\ p' > p]_globVars
=============================================================================
