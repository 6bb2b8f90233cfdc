------------------------------- MODULE Lists -------------------------------
(* What the home page and the caption page do to their lists in common.      *)
EXTENDS Integers, Sequences

(* The sequence s without the members of X (Array.filter).                   *)
Without(s, X) ==
    LET kept[n \in 0 .. Len(s)] ==
            IF n = 0 THEN <<>>
            ELSE IF s[n] \in X THEN kept[n - 1] ELSE Append(kept[n - 1], s[n])
    IN kept[Len(s)]
=============================================================================
