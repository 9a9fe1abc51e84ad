------------------------------- MODULE Filter -------------------------------
(* The elements of a sequence that a condition keeps, in their order.      *)
EXTENDS Naturals, Sequences

\* [x for x in s if x in kept].
Keep(s, kept) ==
  LET f[n \in 0..Len(s)] ==
        IF n = 0 THEN <<>>
        ELSE IF s[n] \in kept THEN Append(f[n - 1], s[n]) ELSE f[n - 1]
  IN  f[Len(s)]
=============================================================================
