----------------------------- MODULE MCApproval ------------------------------
(* Small instances of Approval for TLC. *)
EXTENDS Approval

Task(mode, assignees, required) ==
    [mode |-> mode, assignees |-> assignees, required |-> required]

ABC == <<"a", "b", "c">>

\* Every mode with a list in the definition.
AllModes == {Task("any", ABC, 0), Task("any", ABC, 2), Task("all", ABC, 0),
             Task("sequential", ABC, 0), Task("all", <<"a">>, 0), Task("any", <<"a">>, 0),
             Task("sequential", <<"b">>, 0), Task("any", <<>>, 0), Task("all", <<>>, 0)}
Pools == {Task("any", ABC, 2), Task("any", <<"a", "b">>, 0), Task("all", ABC, 0),
          Task("all", <<"b", "a">>, 0)}
OnlyAll == {Task("all", ABC, 0)}
OnlySequential == {Task("sequential", ABC, 0)}
NoList == {Task("sequential", <<>>, 0)}

Static == {<<>>}
FromVariable == {<<"b", "c">>}

NoLists == {}
Lists == {<<"a", "b", "c", "d">>, <<"b", "c">>, <<"d", "b", "a">>}
\* Nobody; some of the assignees, or somebody who is none.
Chosen == {<<>>, <<"d", "a">>}
=============================================================================
