--------------------------- MODULE AtLeastOnceQueue ---------------------------
(***************************************************************************)
(* What a consumer of a stream is promised: an event that has been         *)
(* accepted waits until it has been processed, perhaps several times.  A   *)
(* queue that is not lossless may drop events at any time.                 *)
(***************************************************************************)
CONSTANT Events

VARIABLES lossless, waiting, done

Init == lossless \in BOOLEAN /\ waiting = {} /\ done = {}

Accept(e) == waiting' = waiting \cup {e} /\ UNCHANGED <<lossless, done>>

\* Some of the waiting events are processed and some are forgotten; a lossless
\* queue forgets only what has been processed.
Process(P, F) ==
    /\ done' = done \cup P
    /\ waiting' = waiting \ F
    /\ lossless => F \subseteq done \cup P
    /\ UNCHANGED lossless

Next ==
    \/ \E e \in Events : Accept(e)
    \/ \E P, F \in SUBSET waiting : Process(P, F)

Spec == Init /\ [][Next]_<<lossless, waiting, done>>
=============================================================================
