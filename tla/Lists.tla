------------------------------- MODULE Lists --------------------------------
(***************************************************************************)
(* Filtering a sequence: Rust's `retain` and `filter`, on which the        *)
(* allowlist (expired rules, a removed id, the tiers of `decide`) and the  *)
(* tail of the audit log (rows that parse and have a card) are built.      *)
(*                                                                         *)
(* SelectSeq of the standard module would do for checking; here the        *)
(* recursion is spelled out, so that it can be reasoned about as well.     *)
(***************************************************************************)
EXTENDS Naturals, Sequences

(* The elements of s that are in K, in the order of s. *)
Kept(s, K) ==
  LET upTo[i \in 0 .. Len(s)] ==
        IF i = 0 THEN <<>>
        ELSE IF s[i] \in K THEN Append(upTo[i - 1], s[i]) ELSE upTo[i - 1]
  IN  upTo[Len(s)]
=============================================================================
