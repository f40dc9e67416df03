----------------------------- MODULE MCFileStore ------------------------------
(***************************************************************************)
(* One process key and one instance with two tasks.  Definition files go   *)
(* through the codec: its definitions are one it keeps, one it maps to     *)
(* that one, and one it cannot read back.                                  *)
(***************************************************************************)
EXTENDS FileStore, TLC

CONSTANTS NoEvent, NoExtension, NoCollaboration

Codec == INSTANCE XmlCodec

Task(kind, fields) == [id |-> kind, kind |-> kind, fields |-> fields, lang |-> "", auto |-> FALSE,
                       script |-> FALSE, props |-> {}, event |-> NoEvent]
Start == [Task("startEvent", {}) EXCEPT
            !.event = [type |-> "none", ref |-> FALSE, condition |-> "", correlation |-> FALSE]]

Plain == [id |-> "k", lanes |-> {}, data |-> FALSE, collaboration |-> NoCollaboration,
          flow |-> [condition |-> "", default |-> FALSE, ends |-> {"startEvent", "userTask"}],
          elements |-> <<Start, Task("userTask", {"formKey"})>>]
\* assignees are lost
Lossy == [Plain EXCEPT !.elements[2].fields = {"formKey", "assignees"}]
\* a condition with "<"
Raw == [Plain EXCEPT !.flow.condition = "less"]

MCDefinitions == {Plain, Lossy, Raw}
MCRoundTrip(d) == Codec!Parse(Codec!Marshal(d))

\* Long histories of deployments, and the life of one instance.
MCBudgets == {[crashes |-> 2, faults |-> 2, deploys |-> 3, starts |-> 0],
              [crashes |-> 1, faults |-> 1, deploys |-> 1, starts |-> 1]}
Symmetry == Permutations(Clients)
=============================================================================
