----------------------------- MODULE Selections -----------------------------
(***************************************************************************)
(* Array.prototype.filter as the server uses it.                           *)
(***************************************************************************)
EXTENDS Integers, Sequences

(***************************************************************************)
(* The elements of s that are in the set good, in their order.             *)
(***************************************************************************)
Selected(s, good) ==
  LET upTo[i \in 0 .. Len(s)] ==
        IF i = 0 THEN << >>
        ELSE IF s[i] \in good THEN Append(upTo[i - 1], s[i]) ELSE upTo[i - 1]
  IN  upTo[Len(s)]
=============================================================================
