-------------------------------- MODULE Lists ---------------------------------
(***************************************************************************)
(* String slices of the engine (assignees, active elements) as sequences.  *)
(***************************************************************************)
EXTENDS Integers, Sequences

Members(s) == {s[k] : k \in DOMAIN s}

\* removeString for each string of S: the entries that are not in S, in their
\* order; kept[k] are those of the first k.
Outside(s, S) ==
    LET kept[k \in 0..Len(s)] ==
            IF k = 0 THEN <<>>
            ELSE IF s[k] \in S THEN kept[k-1] ELSE Append(kept[k-1], s[k])
    IN  kept[Len(s)]
=============================================================================
