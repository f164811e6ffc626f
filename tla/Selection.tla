----------------------------- MODULE Selection ------------------------------
(***************************************************************************)
(* The comprehension [x for x in seq if ...] of the Python code, with the  *)
(* condition given as the set of the values that meet it.  It is what      *)
(* SelectSeq of the module Sequences does; that one takes its condition as *)
(* an operator and has no definition the proof system could use.           *)
(***************************************************************************)
EXTENDS Naturals, Sequences

Select(seq, S) ==
  LET upTo[n \in 0 .. Len(seq)] ==
        IF n = 0 THEN <<>>
        ELSE IF seq[n] \in S THEN Append(upTo[n - 1], seq[n]) ELSE upTo[n - 1]
  IN  upTo[Len(seq)]
=============================================================================
