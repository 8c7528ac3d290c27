------------------------------ MODULE Selection ------------------------------
(***************************************************************************)
(* The elements of a sequence that are in a set, in their order: what      *)
(* SelectSeq gives, which the provers know nothing about.                  *)
(***************************************************************************)
EXTENDS Naturals, Sequences

Selected(s, S) ==
  LET taken[n \in 0..Len(s)] ==
        IF n = 0 THEN << >>
        ELSE IF s[n] \in S THEN Append(taken[n - 1], s[n]) ELSE taken[n - 1]
  IN  taken[Len(s)]
=============================================================================
