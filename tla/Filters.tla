------------------------------- MODULE Filters -------------------------------
(* Array.filter, over the positions of the members that are kept.          *)
EXTENDS Naturals, Sequences

Filtered(s, kept) ==
    LET upTo[n \in 0 .. Len(s)] ==
          IF n = 0 THEN <<>>
          ELSE IF n \in kept THEN Append(upTo[n - 1], s[n]) ELSE upTo[n - 1]
    IN upTo[Len(s)]
=============================================================================
