------------------------ MODULE InstanceLockingProofs ------------------------
(***************************************************************************)
(* Proofs about InstanceLocking: whatever the number of concurrent         *)
(* requests, the flows out of a userTask are followed at most once.        *)
(***************************************************************************)
EXTENDS InstanceLocking, TLAPS

Optimistic == {"complete", "assign"}

\* The steps in which a client holds the instance row.
Holding == {"checkHost", "lockHost", "commit"}

\* An activity whose flows have been followed is closed.
ExitMeansClosed ==
    \A a \in UserTasks :
        \/ exits[a] = 0
        \/ exits[a] = 1 /\ act[a] \in {"completed", "cancelled"}

\* What a request may ask for, and which steps it takes.
RequestsWellFormed ==
    \A c \in Clients :
        /\ req[c].op \in TaskOps => req[c].on \in UserTasks
        /\ req[c].op = "extend"  => req[c].on \in Externals
        /\ pc[c] \in {"writeAct", "updateInst"} => req[c].op \in Optimistic
        /\ pc[c] \in {"forUpdate", "checkHost", "lockHost"}
             => req[c].op \in {"boundary", "extend"}
        /\ pc[c] = "checkHost" => req[c].op = "boundary"
        /\ pc[c] = "readAct" => req[c].op # "terminate"
        /\ pc[c] = "commit" => req[c].op # "terminate"

\* The instance row is locked by the client that is past its write.
HoldersLock == \A c \in Clients : pc[c] \in Holding => instLock = c

\* A request that decided on a lock_version which is still current decided on
\* an activity nobody has left since.
FreshMeansOpen ==
    \A c \in Clients :
        /\ ver[c] <= row.version
        /\ pc[c] \in {"writeAct", "updateInst", "commit"} /\ req[c].op \in Optimistic
             /\ ver[c] = row.version => exits[On(c)] = 0
        /\ pc[c] = "commit" /\ req[c].op \in Optimistic => ver[c] = row.version

\* Under the lock of the instance row the host that was found open stays so.
HostStillOpen ==
    \A c \in Clients :
        pc[c] \in {"lockHost", "commit"} /\ req[c].op = "boundary" => exits[On(c)] = 0

IInv ==
    /\ TypeOK
    /\ ExitMeansClosed
    /\ RequestsWellFormed
    /\ HoldersLock
    /\ FreshMeansOpen
    /\ HostStillOpen

\* A request whose lock_version is still current decided on a running instance;
\* a boundary event found its host open, and the instance row has been locked since.
DecidedOnRunning ==
    \A c \in Clients :
        /\ pc[c] \in {"readAct", "writeAct", "updateInst", "commit"}
             /\ req[c].op \in Optimistic /\ ver[c] = row.version => row.status = "running"
        /\ pc[c] \in {"list", "cancel", "updateRow"} /\ ver[c] = row.version
             => row.status = "running"
        /\ pc[c] \in {"lockHost", "commit"} /\ req[c].op = "boundary"
             => row.status = "running"

\* While nobody has committed since a Terminate read the instance, what is
\* still open is what it still has to cancel.
ListCovers ==
    \A c \in Clients :
        /\ pc[c] \in {"cancel", "updateRow"} /\ ver[c] = row.version
             => \A a \in Acts : act[a] = "active" => a \in todo[c]
        /\ pc[c] = "updateRow" => todo[c] = {}

QuietInv == IInv /\ TerminalMeansQuiet /\ DecidedOnRunning /\ ListCovers

-----------------------------------------------------------------------------
\* The state in which the requests arrive satisfies the invariant.
LEMMA InitInv == Init => IInv
BY LockingAssumption DEF Init, IInv, TypeOK, Steps, Acts, TaskOps, AllOps, ExitMeansClosed,
   RequestsWellFormed, HoldersLock, Holding, FreshMeansOpen, HostStillOpen, Optimistic

\* A commit is the only step that follows flows: it holds the instance row, so
\* nobody else is past its own write, and it makes every version read before
\* it out of date.
LEMMA CommitInv == ASSUME IInv, NEW c \in Clients, Commit(c) PROVE IInv'
<1> USE LockingAssumption DEF IInv
<1>1. PICK new \in SUBSET {a \in Acts : act[a] = "absent"}, ended \in BOOLEAN :
        /\ req[c].op = "assign" => new = {} /\ ~ended
        /\ act' = [a \in Acts |-> IF a = On(c) THEN WrittenStatus(req[c].op)
                                  ELSE IF a \in new THEN "active" ELSE act[a]]
        /\ row' = [status  |-> StatusAfter(row.status, act', ended),
                   version |-> row.version + 1]
        /\ exits' = IF req[c].op # "assign" THEN [exits EXCEPT ![On(c)] = @ + 1] ELSE exits
  BY DEF Commit
<1>2. /\ pc[c] = "commit" /\ instLock = c /\ On(c) \in Acts
      /\ pc' = [pc EXCEPT ![c] = "done"]
      /\ instLock' = NoClient
      /\ actLock' = [a \in Acts |-> IF actLock[a] = c THEN NoClient ELSE actLock[a]]
      /\ UNCHANGED <<req, ver, todo>>
  BY DEF Commit, Abort, Goto, Release, HoldersLock, Holding, TypeOK, On
<1>3. \A d \in Clients : d # c => pc[d] \notin Holding
  BY <1>2 DEF HoldersLock
<1>4. On(c) \in UserTasks => req[c].op \in TaskOps
  BY <1>2 DEF RequestsWellFormed, TypeOK, On, TaskOps, AllOps
<1>5. On(c) \in UserTasks => exits[On(c)] = 0
  BY <1>2, <1>4 DEF FreshMeansOpen, HostStillOpen, Optimistic, TaskOps
<1>6. WrittenStatus(req[c].op) \in {"active", "completed", "cancelled"}
      /\ (req[c].op # "assign" => WrittenStatus(req[c].op) \in {"completed", "cancelled"})
  BY DEF WrittenStatus
<1>7. row' \in [status : {"running", "completed", "cancelled"}, version : Nat]
      /\ row'.version = row.version + 1 /\ row.version \in Nat
  BY <1>1 DEF TypeOK, StatusAfter
<1>8. TypeOK'
  BY <1>1, <1>2, <1>6, <1>7 DEF TypeOK, Steps
<1>9. ExitMeansClosed'
  <2> SUFFICES ASSUME NEW a \in UserTasks
               PROVE  \/ exits'[a] = 0
                      \/ exits'[a] = 1 /\ act'[a] \in {"completed", "cancelled"}
    BY DEF ExitMeansClosed
  <2>1. a \in Acts /\ exits[a] \in Nat
    BY DEF Acts, TypeOK
  <2>2. CASE a = On(c)
    BY <1>1, <1>5, <1>6, <2>1, <2>2 DEF TypeOK
  <2>3. CASE a # On(c)
    <3>1. exits'[a] = exits[a]
      BY <1>1, <2>1, <2>3 DEF TypeOK
    <3>2. a \in new => exits[a] = 0
      BY <2>1 DEF ExitMeansClosed
    <3>3. a \notin new => act'[a] = act[a]
      BY <1>1, <2>1, <2>3
    <3> QED
      BY <3>1, <3>2, <3>3 DEF ExitMeansClosed
  <2> QED
    BY <2>2, <2>3
<1>10. RequestsWellFormed'
  BY <1>2 DEF RequestsWellFormed, TypeOK
<1>11. HoldersLock'
  BY <1>2, <1>3 DEF HoldersLock, Holding, TypeOK
<1>12. FreshMeansOpen'
  BY <1>2, <1>3, <1>7 DEF FreshMeansOpen, TypeOK, On, Holding
<1>13. HostStillOpen'
  BY <1>2, <1>3 DEF HostStillOpen, TypeOK, On, Holding
<1> QED
  BY <1>8, <1>9, <1>10, <1>11, <1>12, <1>13

\* Every step of every request preserves the invariant.
LEMMA NextInv == IInv /\ [Next]_vars => IInv'
<1> SUFFICES ASSUME IInv, [Next]_vars PROVE IInv'
  OBVIOUS
<1> USE LockingAssumption DEF IInv
<1>1. ASSUME NEW c \in Clients, Arrive(c) PROVE IInv'
  <2>1. TypeOK'
    BY <1>1 DEF TypeOK, Steps, Acts, Arrive, Goto
  <2>2. ExitMeansClosed'
    BY <1>1 DEF ExitMeansClosed, Acts, TypeOK, Arrive, Goto
  <2>3. RequestsWellFormed'
    BY <1>1 DEF RequestsWellFormed, Optimistic, TaskOps, TypeOK, Arrive, Goto
  <2>4. HoldersLock'
    BY <1>1 DEF HoldersLock, Holding, TypeOK, Arrive, Goto
  <2>5. FreshMeansOpen'
    BY <1>1 DEF FreshMeansOpen, On, Optimistic, TypeOK, Arrive, Goto
  <2>6. HostStillOpen'
    BY <1>1 DEF HostStillOpen, On, Holding, HoldersLock, TypeOK, Arrive, Goto
  <2> QED
    BY <2>1, <2>2, <2>3, <2>4, <2>5, <2>6
<1>2. ASSUME NEW c \in Clients, ReadInstance(c) PROVE IInv'
  <2>1. TypeOK'
    BY <1>2 DEF TypeOK, Steps, Acts, ReadInstance, Goto
  <2>2. ExitMeansClosed'
    BY <1>2 DEF ExitMeansClosed, Acts, TypeOK, ReadInstance, Goto
  <2>3. RequestsWellFormed'
    BY <1>2 DEF RequestsWellFormed, Optimistic, TaskOps, TypeOK, ReadInstance, Goto
  <2>4. HoldersLock'
    BY <1>2 DEF HoldersLock, Holding, TypeOK, ReadInstance, Goto
  <2>5. FreshMeansOpen'
    BY <1>2 DEF FreshMeansOpen, On, Optimistic, TypeOK, ReadInstance, Goto
  <2>6. HostStillOpen'
    BY <1>2 DEF HostStillOpen, On, Holding, HoldersLock, TypeOK, ReadInstance, Goto
  <2> QED
    BY <2>1, <2>2, <2>3, <2>4, <2>5, <2>6
<1>3. ASSUME NEW c \in Clients, ReadActivity(c) PROVE IInv'
  <2>1. TypeOK'
    BY <1>3 DEF TypeOK, Steps, Acts, ReadActivity, Goto
  <2>2. ExitMeansClosed'
    BY <1>3 DEF ExitMeansClosed, Acts, TypeOK, ReadActivity, Goto
  <2>3. RequestsWellFormed'
    BY <1>3 DEF RequestsWellFormed, Optimistic, TaskOps, TypeOK, AllOps, ReadActivity, Goto
  <2>4. HoldersLock'
    BY <1>3 DEF HoldersLock, Holding, TypeOK, ReadActivity, Goto
  <2>5. FreshMeansOpen'
    BY <1>3 DEF FreshMeansOpen, On, Optimistic, TypeOK, ExitMeansClosed, RequestsWellFormed, TaskOps, ReadActivity, Goto
  <2>6. HostStillOpen'
    BY <1>3 DEF HostStillOpen, On, Holding, HoldersLock, TypeOK, ReadActivity, Goto
  <2> QED
    BY <2>1, <2>2, <2>3, <2>4, <2>5, <2>6
<1>4. ASSUME NEW c \in Clients, WriteActivity(c) PROVE IInv'
  <2>1. TypeOK'
    BY <1>4 DEF TypeOK, Steps, Acts, WriteActivity, Goto
  <2>2. ExitMeansClosed'
    BY <1>4 DEF ExitMeansClosed, Acts, TypeOK, WriteActivity, Goto
  <2>3. RequestsWellFormed'
    BY <1>4 DEF RequestsWellFormed, Optimistic, TaskOps, TypeOK, WriteActivity, Goto
  <2>4. HoldersLock'
    BY <1>4 DEF HoldersLock, Holding, TypeOK, WriteActivity, Goto
  <2>5. FreshMeansOpen'
    BY <1>4 DEF FreshMeansOpen, On, Optimistic, TypeOK, WriteActivity, Goto
  <2>6. HostStillOpen'
    BY <1>4 DEF HostStillOpen, On, Holding, HoldersLock, TypeOK, WriteActivity, Goto
  <2> QED
    BY <2>1, <2>2, <2>3, <2>4, <2>5, <2>6
<1>5. ASSUME NEW c \in Clients, UpdateInstance(c) PROVE IInv'
  <2>1. TypeOK'
    BY <1>5 DEF TypeOK, Steps, Acts, UpdateInstance, Goto, Abort, Release
  <2>2. ExitMeansClosed'
    BY <1>5 DEF ExitMeansClosed, Acts, TypeOK, UpdateInstance, Goto, Abort, Release
  <2>3. RequestsWellFormed'
    BY <1>5 DEF RequestsWellFormed, Optimistic, TaskOps, TypeOK, UpdateInstance, Goto, Abort, Release
  <2>4. HoldersLock'
    BY <1>5 DEF HoldersLock, Holding, TypeOK, UpdateInstance, Goto, Abort, Release
  <2>5. FreshMeansOpen'
    BY <1>5 DEF FreshMeansOpen, On, Optimistic, TypeOK, UpdateInstance, Goto, Abort, Release
  <2>6. HostStillOpen'
    BY <1>5 DEF HostStillOpen, RequestsWellFormed, Optimistic, On, Holding, HoldersLock, TypeOK, UpdateInstance, Goto, Abort, Release
  <2> QED
    BY <2>1, <2>2, <2>3, <2>4, <2>5, <2>6
<1>6. ASSUME NEW c \in Clients, ReadForUpdate(c) PROVE IInv'
  <2>1. TypeOK'
    BY <1>6 DEF TypeOK, Steps, Acts, ReadForUpdate, Goto
  <2>2. ExitMeansClosed'
    BY <1>6 DEF ExitMeansClosed, Acts, TypeOK, ReadForUpdate, Goto
  <2>3. RequestsWellFormed'
    BY <1>6 DEF RequestsWellFormed, Optimistic, TaskOps, TypeOK, ReadForUpdate, Goto
  <2>4. HoldersLock'
    BY <1>6 DEF HoldersLock, Holding, TypeOK, ReadForUpdate, Goto
  <2>5. FreshMeansOpen'
    BY <1>6 DEF FreshMeansOpen, On, Optimistic, TypeOK, ReadForUpdate, Goto
  <2>6. HostStillOpen'
    BY <1>6 DEF HostStillOpen, On, Holding, HoldersLock, TypeOK, ReadForUpdate, Goto
  <2> QED
    BY <2>1, <2>2, <2>3, <2>4, <2>5, <2>6
<1>7. ASSUME NEW c \in Clients, CheckHost(c) PROVE IInv'
  <2>1. TypeOK'
    BY <1>7 DEF TypeOK, Steps, Acts, CheckHost, Goto, Abort, Release
  <2>2. ExitMeansClosed'
    BY <1>7 DEF ExitMeansClosed, Acts, TypeOK, CheckHost, Goto, Abort, Release
  <2>3. RequestsWellFormed'
    BY <1>7 DEF RequestsWellFormed, Optimistic, TaskOps, TypeOK, CheckHost, Goto, Abort, Release
  <2>4. HoldersLock'
    BY <1>7 DEF HoldersLock, Holding, TypeOK, CheckHost, Goto, Abort, Release
  <2>5. FreshMeansOpen'
    BY <1>7 DEF FreshMeansOpen, On, Optimistic, TypeOK, CheckHost, Goto, Abort, Release
  <2>6. HostStillOpen'
    BY <1>7 DEF HostStillOpen, On, Holding, HoldersLock, TypeOK, ExitMeansClosed, RequestsWellFormed, TaskOps, CheckHost, Goto, Abort, Release
  <2> QED
    BY <2>1, <2>2, <2>3, <2>4, <2>5, <2>6
<1>8. ASSUME NEW c \in Clients, LockHost(c) PROVE IInv'
  <2>1. TypeOK'
    BY <1>8 DEF TypeOK, Steps, Acts, LockHost, Goto
  <2>2. ExitMeansClosed'
    BY <1>8 DEF ExitMeansClosed, Acts, TypeOK, LockHost, Goto
  <2>3. RequestsWellFormed'
    BY <1>8 DEF RequestsWellFormed, Optimistic, TaskOps, TypeOK, LockHost, Goto
  <2>4. HoldersLock'
    BY <1>8 DEF HoldersLock, Holding, TypeOK, LockHost, Goto
  <2>5. FreshMeansOpen'
    BY <1>8 DEF FreshMeansOpen, RequestsWellFormed, On, Optimistic, TypeOK, LockHost, Goto
  <2>6. HostStillOpen'
    BY <1>8 DEF HostStillOpen, On, Holding, HoldersLock, TypeOK, LockHost, Goto
  <2> QED
    BY <2>1, <2>2, <2>3, <2>4, <2>5, <2>6
<1>9. ASSUME NEW c \in Clients, ListActive(c) PROVE IInv'
  <2>1. TypeOK'
    BY <1>9 DEF TypeOK, Steps, Acts, ListActive, Goto
  <2>2. ExitMeansClosed'
    BY <1>9 DEF ExitMeansClosed, Acts, TypeOK, ListActive, Goto
  <2>3. RequestsWellFormed'
    BY <1>9 DEF RequestsWellFormed, Optimistic, TaskOps, TypeOK, ListActive, Goto
  <2>4. HoldersLock'
    BY <1>9 DEF HoldersLock, Holding, TypeOK, ListActive, Goto
  <2>5. FreshMeansOpen'
    BY <1>9 DEF FreshMeansOpen, On, Optimistic, TypeOK, ListActive, Goto
  <2>6. HostStillOpen'
    BY <1>9 DEF HostStillOpen, On, Holding, HoldersLock, TypeOK, ListActive, Goto
  <2> QED
    BY <2>1, <2>2, <2>3, <2>4, <2>5, <2>6
<1>10. ASSUME NEW c \in Clients, CancelNext(c) PROVE IInv'
  <2>1. TypeOK'
    <3>1. CASE todo[c] = {} /\ Goto(c, "updateRow") /\ UNCHANGED <<act, todo>>
      BY <1>10, <3>1 DEF TypeOK, Steps, CancelNext, Goto
    <3>2. ASSUME NEW a \in todo[c], act' = [act EXCEPT ![a] = "cancelled"],
                 todo' = [todo EXCEPT ![c] = @ \ {a}], UNCHANGED pc
          PROVE  TypeOK'
      <4>1. todo[c] \ {a} \in SUBSET Acts /\ a \in Acts
        BY DEF TypeOK
      <4> QED
        BY <1>10, <3>2, <4>1 DEF TypeOK, CancelNext
    <3> QED
      BY <1>10, <3>1, <3>2 DEF CancelNext
  <2>2. ExitMeansClosed'
    BY <1>10 DEF ExitMeansClosed, Acts, TypeOK, CancelNext, Goto
  <2>3. RequestsWellFormed'
    BY <1>10 DEF RequestsWellFormed, Optimistic, TaskOps, TypeOK, CancelNext, Goto
  <2>4. HoldersLock'
    BY <1>10 DEF HoldersLock, Holding, TypeOK, CancelNext, Goto
  <2>5. FreshMeansOpen'
    BY <1>10 DEF FreshMeansOpen, On, Optimistic, TypeOK, CancelNext, Goto
  <2>6. HostStillOpen'
    BY <1>10 DEF HostStillOpen, On, Holding, HoldersLock, TypeOK, CancelNext, Goto
  <2> QED
    BY <2>1, <2>2, <2>3, <2>4, <2>5, <2>6
<1>11. ASSUME NEW c \in Clients, UpdateTerminated(c) PROVE IInv'
  <2>1. TypeOK'
    BY <1>11 DEF TypeOK, Steps, Acts, UpdateTerminated, Goto
  <2>2. ExitMeansClosed'
    BY <1>11 DEF ExitMeansClosed, Acts, TypeOK, UpdateTerminated, Goto
  <2>3. RequestsWellFormed'
    BY <1>11 DEF RequestsWellFormed, Optimistic, TaskOps, TypeOK, UpdateTerminated, Goto
  <2>4. HoldersLock'
    BY <1>11 DEF HoldersLock, Holding, TypeOK, UpdateTerminated, Goto
  <2>5. FreshMeansOpen'
    BY <1>11 DEF FreshMeansOpen, On, Optimistic, HoldersLock, Holding, TypeOK, UpdateTerminated, Goto
  <2>6. HostStillOpen'
    BY <1>11 DEF HostStillOpen, On, Holding, HoldersLock, TypeOK, UpdateTerminated, Goto
  <2> QED
    BY <2>1, <2>2, <2>3, <2>4, <2>5, <2>6
<1>12. ASSUME NEW c \in Clients, BreakDeadlock(c) PROVE IInv'
  <2>1. TypeOK'
    BY <1>12 DEF TypeOK, Steps, Acts, BreakDeadlock, Goto, Abort, Release
  <2>2. ExitMeansClosed'
    BY <1>12 DEF ExitMeansClosed, Acts, TypeOK, BreakDeadlock, Goto, Abort, Release
  <2>3. RequestsWellFormed'
    BY <1>12 DEF RequestsWellFormed, Optimistic, TaskOps, TypeOK, BreakDeadlock, Goto, Abort, Release
  <2>4. HoldersLock'
    BY <1>12 DEF HoldersLock, Holding, TypeOK, BreakDeadlock, Goto, Abort, Release
  <2>5. FreshMeansOpen'
    BY <1>12 DEF FreshMeansOpen, On, Optimistic, TypeOK, BreakDeadlock, Goto, Abort, Release
  <2>6. HostStillOpen'
    BY <1>12 DEF HostStillOpen, On, Holding, HoldersLock, TypeOK, BreakDeadlock, Goto, Abort, Release
  <2> QED
    BY <2>1, <2>2, <2>3, <2>4, <2>5, <2>6
<1>13. ASSUME NEW c \in Clients, Crash(c) PROVE IInv'
  <2>1. TypeOK'
    BY <1>13 DEF TypeOK, Steps, Acts, Crash, Goto, Abort, Release
  <2>2. ExitMeansClosed'
    BY <1>13 DEF ExitMeansClosed, Acts, TypeOK, Crash, Goto, Abort, Release
  <2>3. RequestsWellFormed'
    BY <1>13 DEF RequestsWellFormed, Optimistic, TaskOps, TypeOK, Crash, Goto, Abort, Release
  <2>4. HoldersLock'
    BY <1>13 DEF HoldersLock, Holding, TypeOK, Crash, Goto, Abort, Release
  <2>5. FreshMeansOpen'
    BY <1>13 DEF FreshMeansOpen, On, Optimistic, TypeOK, Crash, Goto, Abort, Release
  <2>6. HostStillOpen'
    BY <1>13 DEF HostStillOpen, On, Holding, HoldersLock, TypeOK, Crash, Goto, Abort, Release
  <2> QED
    BY <2>1, <2>2, <2>3, <2>4, <2>5, <2>6
<1>14. ASSUME NEW c \in Clients, Commit(c) PROVE IInv'
  BY <1>14, CommitInv
<1>15. CASE UNCHANGED vars
  BY <1>15 DEF vars, TypeOK, ExitMeansClosed, RequestsWellFormed, HoldersLock,
     FreshMeansOpen, HostStillOpen, On
<1> QED
  BY <1>1, <1>2, <1>3, <1>4, <1>5, <1>6, <1>7, <1>8, <1>9, <1>10, <1>11, <1>12, <1>13, <1>14, <1>15 DEF Next, Step

\* The type invariant, for any number of requests and activities.
THEOREM TypeCorrect == Spec => []TypeOK
<1>1. IInv => TypeOK
  BY DEF IInv
<1> QED
  BY <1>1, InitInv, NextInv, PTL DEF Spec

\* The flows out of a userTask are followed at most once, for any number of
\* racing approvals, reassignments, boundary events and terminations
\* (gormstore UpdateProcessInstance and GetProcessInstanceForUpdate).
THEOREM UserTaskLeftOnce == Spec => []SingleExit
<1>1. IInv => SingleExit
  BY DEF IInv, ExitMeansClosed, SingleExit
<1> QED
  BY <1>1, InitInv, NextInv, PTL DEF Spec
-----------------------------------------------------------------------------
\* The state in which the requests arrive is running, and nothing is listed.
LEMMA InitQuiet == Init => QuietInv
BY InitInv DEF Init, QuietInv, TerminalMeansQuiet, DecidedOnRunning, ListCovers

\* Only a running instance is committed: an approval or a reassignment because
\* its version is current, a boundary event because its host was open.
LEMMA CommitsRunning ==
    ASSUME "extend" \notin Ops, QuietInv, NEW c \in Clients, pc[c] = "commit"
    PROVE  row.status = "running" /\ instLock = c
<1>0. req[c].op \in Ops /\ req[c].op # "terminate"
  BY DEF QuietInv, IInv, TypeOK, RequestsWellFormed
<1>1. req[c].op \in TaskOps
  BY <1>0, LockingAssumption DEF AllOps
<1>2. req[c].op \in Optimistic => ver[c] = row.version
  BY DEF QuietInv, IInv, FreshMeansOpen
<1>3. instLock = c
  BY DEF QuietInv, IInv, HoldersLock, Holding
<1> QED
  BY <1>1, <1>2, <1>3 DEF QuietInv, DecidedOnRunning, TaskOps, Optimistic

\* A commit leaves a running instance or one without open activities, and
\* makes every version read before it out of date.
LEMMA CommitQuiet ==
    ASSUME "extend" \notin Ops, QuietInv, NEW c \in Clients, Commit(c) PROVE QuietInv'
<1> USE LockingAssumption
<1>1. PICK new \in SUBSET {a \in Acts : act[a] = "absent"}, ended \in BOOLEAN :
        row' = [status  |-> StatusAfter(row.status, act', ended),
                version |-> row.version + 1]
  BY DEF Commit
<1>2. /\ pc[c] = "commit" /\ row.status = "running" /\ instLock = c
      /\ pc' = [pc EXCEPT ![c] = "done"]
      /\ UNCHANGED <<req, ver, todo>>
  BY CommitsRunning DEF Commit, Abort, Goto
<1>3. \A d \in Clients : d # c => pc[d] \notin Holding
  BY <1>2 DEF QuietInv, IInv, HoldersLock
<1>4. IInv'
  BY CommitInv DEF QuietInv
<1>5. TerminalMeansQuiet'
  BY <1>1, <1>2 DEF TerminalMeansQuiet, StatusAfter
<1>6. \A d \in Clients : ver'[d] # row'.version
  BY <1>1, <1>2 DEF QuietInv, IInv, FreshMeansOpen, TypeOK
<1>7. \A d \in Clients : pc'[d] \notin Holding
  BY <1>2, <1>3 DEF QuietInv, IInv, TypeOK, Holding
<1>8. DecidedOnRunning'
  BY <1>6, <1>7 DEF DecidedOnRunning, Holding
<1>9. ListCovers'
  BY <1>2, <1>6 DEF ListCovers, QuietInv, IInv, TypeOK
<1> QED
  BY <1>4, <1>5, <1>8, <1>9 DEF QuietInv

\* Every step preserves it as long as no extension element is completed: that
\* request locks the instance row without looking at its status.
LEMMA NextQuiet ==
    ASSUME "extend" \notin Ops, QuietInv, [Next]_vars PROVE QuietInv'
<1> USE LockingAssumption DEF QuietInv
<1>0. IInv'
  BY NextInv
<1> USE <1>0
<1>t. \A c \in Clients : req[c].op # "extend"
  BY DEF IInv, TypeOK
<1>1. ASSUME NEW c \in Clients, Arrive(c) PROVE QuietInv'
  <2>1. TerminalMeansQuiet'
    BY <1>1 DEF IInv, TypeOK, TerminalMeansQuiet, ListCovers, Arrive, Goto
  <2>2. DecidedOnRunning'
    BY <1>1, <1>t DEF IInv, TypeOK, TerminalMeansQuiet, DecidedOnRunning, RequestsWellFormed, HoldersLock, Holding, Optimistic, On, Arrive, Goto
  <2>3. ListCovers'
    BY <1>1 DEF IInv, TypeOK, FreshMeansOpen, ListCovers, Arrive, Goto
  <2> QED
    BY <2>1, <2>2, <2>3
<1>2. ASSUME NEW c \in Clients, ReadInstance(c) PROVE QuietInv'
  <2>1. TerminalMeansQuiet'
    BY <1>2 DEF IInv, TypeOK, TerminalMeansQuiet, ListCovers, ReadInstance, Goto
  <2>2. DecidedOnRunning'
    BY <1>2, <1>t DEF IInv, TypeOK, TerminalMeansQuiet, DecidedOnRunning, RequestsWellFormed, HoldersLock, Holding, Optimistic, On, ReadInstance, Goto
  <2>3. ListCovers'
    BY <1>2 DEF IInv, TypeOK, FreshMeansOpen, ListCovers, ReadInstance, Goto
  <2> QED
    BY <2>1, <2>2, <2>3
<1>3. ASSUME NEW c \in Clients, ReadActivity(c) PROVE QuietInv'
  <2>1. TerminalMeansQuiet'
    BY <1>3 DEF IInv, TypeOK, TerminalMeansQuiet, ListCovers, ReadActivity, Goto
  <2>2. DecidedOnRunning'
    BY <1>3, <1>t DEF IInv, TypeOK, TerminalMeansQuiet, DecidedOnRunning, RequestsWellFormed, HoldersLock, Holding, Optimistic, On, ReadActivity, Goto
  <2>3. ListCovers'
    BY <1>3 DEF IInv, TypeOK, FreshMeansOpen, ListCovers, ReadActivity, Goto
  <2> QED
    BY <2>1, <2>2, <2>3
<1>4. ASSUME NEW c \in Clients, WriteActivity(c) PROVE QuietInv'
  <2>1. TerminalMeansQuiet'
    BY <1>4 DEF IInv, TypeOK, TerminalMeansQuiet, ListCovers, WriteActivity, Goto
  <2>2. DecidedOnRunning'
    BY <1>4, <1>t DEF IInv, TypeOK, TerminalMeansQuiet, DecidedOnRunning, RequestsWellFormed, HoldersLock, Holding, Optimistic, On, WriteActivity, Goto
  <2>3. ListCovers'
    BY <1>4 DEF IInv, TypeOK, FreshMeansOpen, ListCovers, WriteActivity, Goto
  <2> QED
    BY <2>1, <2>2, <2>3
<1>5. ASSUME NEW c \in Clients, UpdateInstance(c) PROVE QuietInv'
  <2>1. TerminalMeansQuiet'
    BY <1>5 DEF IInv, TypeOK, TerminalMeansQuiet, ListCovers, UpdateInstance, Goto, Abort, Release
  <2>2. DecidedOnRunning'
    BY <1>5, <1>t DEF IInv, TypeOK, TerminalMeansQuiet, DecidedOnRunning, RequestsWellFormed, HoldersLock, Holding, Optimistic, On, UpdateInstance, Goto, Abort, Release
  <2>3. ListCovers'
    BY <1>5 DEF IInv, TypeOK, FreshMeansOpen, ListCovers, UpdateInstance, Goto, Abort, Release
  <2> QED
    BY <2>1, <2>2, <2>3
<1>6. ASSUME NEW c \in Clients, ReadForUpdate(c) PROVE QuietInv'
  <2>1. TerminalMeansQuiet'
    BY <1>6 DEF IInv, TypeOK, TerminalMeansQuiet, ListCovers, ReadForUpdate, Goto
  <2>2. DecidedOnRunning'
    BY <1>6, <1>t DEF IInv, TypeOK, TerminalMeansQuiet, DecidedOnRunning, RequestsWellFormed, HoldersLock, Holding, Optimistic, On, ReadForUpdate, Goto
  <2>3. ListCovers'
    BY <1>6 DEF IInv, TypeOK, FreshMeansOpen, ListCovers, ReadForUpdate, Goto
  <2> QED
    BY <2>1, <2>2, <2>3
<1>7. ASSUME NEW c \in Clients, CheckHost(c) PROVE QuietInv'
  <2>1. TerminalMeansQuiet'
    BY <1>7 DEF IInv, TypeOK, TerminalMeansQuiet, ListCovers, CheckHost, Goto, Abort, Release
  <2>2. DecidedOnRunning'
    BY <1>7, <1>t DEF IInv, TypeOK, TerminalMeansQuiet, DecidedOnRunning, RequestsWellFormed, HoldersLock, Holding, Optimistic, On, CheckHost, Goto, Abort, Release
  <2>3. ListCovers'
    BY <1>7 DEF IInv, TypeOK, FreshMeansOpen, ListCovers, CheckHost, Goto, Abort, Release
  <2> QED
    BY <2>1, <2>2, <2>3
<1>8. ASSUME NEW c \in Clients, LockHost(c) PROVE QuietInv'
  <2>1. TerminalMeansQuiet'
    BY <1>8 DEF IInv, TypeOK, TerminalMeansQuiet, ListCovers, LockHost, Goto
  <2>2. DecidedOnRunning'
    BY <1>8, <1>t DEF IInv, TypeOK, TerminalMeansQuiet, DecidedOnRunning, RequestsWellFormed, HoldersLock, Holding, Optimistic, On, LockHost, Goto
  <2>3. ListCovers'
    BY <1>8 DEF IInv, TypeOK, FreshMeansOpen, ListCovers, LockHost, Goto
  <2> QED
    BY <2>1, <2>2, <2>3
<1>9. ASSUME NEW c \in Clients, ListActive(c) PROVE QuietInv'
  <2>1. TerminalMeansQuiet'
    BY <1>9 DEF IInv, TypeOK, TerminalMeansQuiet, ListCovers, ListActive, Goto
  <2>2. DecidedOnRunning'
    BY <1>9, <1>t DEF IInv, TypeOK, TerminalMeansQuiet, DecidedOnRunning, RequestsWellFormed, HoldersLock, Holding, Optimistic, On, ListActive, Goto
  <2>3. ListCovers'
    BY <1>9 DEF IInv, TypeOK, FreshMeansOpen, ListCovers, ListActive, Goto
  <2> QED
    BY <2>1, <2>2, <2>3
<1>10. ASSUME NEW c \in Clients, CancelNext(c) PROVE QuietInv'
  <2>1. TerminalMeansQuiet'
    BY <1>10 DEF IInv, TypeOK, TerminalMeansQuiet, ListCovers, CancelNext, Goto
  <2>2. DecidedOnRunning'
    BY <1>10, <1>t DEF IInv, TypeOK, TerminalMeansQuiet, DecidedOnRunning, RequestsWellFormed, HoldersLock, Holding, Optimistic, On, CancelNext, Goto
  <2>3. ListCovers'
    BY <1>10 DEF IInv, TypeOK, FreshMeansOpen, ListCovers, CancelNext, Goto
  <2> QED
    BY <2>1, <2>2, <2>3
<1>11. ASSUME NEW c \in Clients, UpdateTerminated(c) PROVE QuietInv'
  <2>1. TerminalMeansQuiet'
    BY <1>11 DEF IInv, TypeOK, TerminalMeansQuiet, ListCovers, UpdateTerminated, Goto
  <2>2. DecidedOnRunning'
    BY <1>11, <1>t DEF IInv, TypeOK, DecidedOnRunning, FreshMeansOpen, HoldersLock, Holding, UpdateTerminated, Goto
  <2>3. ListCovers'
    BY <1>11 DEF IInv, TypeOK, FreshMeansOpen, ListCovers, UpdateTerminated, Goto
  <2> QED
    BY <2>1, <2>2, <2>3
<1>12. ASSUME NEW c \in Clients, BreakDeadlock(c) PROVE QuietInv'
  <2>1. TerminalMeansQuiet'
    BY <1>12 DEF IInv, TypeOK, TerminalMeansQuiet, ListCovers, BreakDeadlock, Goto, Abort, Release
  <2>2. DecidedOnRunning'
    BY <1>12, <1>t DEF IInv, TypeOK, TerminalMeansQuiet, DecidedOnRunning, RequestsWellFormed, HoldersLock, Holding, Optimistic, On, BreakDeadlock, Goto, Abort, Release
  <2>3. ListCovers'
    BY <1>12 DEF IInv, TypeOK, FreshMeansOpen, ListCovers, BreakDeadlock, Goto, Abort, Release
  <2> QED
    BY <2>1, <2>2, <2>3
<1>13. ASSUME NEW c \in Clients, Crash(c) PROVE QuietInv'
  <2>1. TerminalMeansQuiet'
    BY <1>13 DEF IInv, TypeOK, TerminalMeansQuiet, ListCovers, Crash, Goto, Abort, Release
  <2>2. DecidedOnRunning'
    BY <1>13, <1>t DEF IInv, TypeOK, TerminalMeansQuiet, DecidedOnRunning, RequestsWellFormed, HoldersLock, Holding, Optimistic, On, Crash, Goto, Abort, Release
  <2>3. ListCovers'
    BY <1>13 DEF IInv, TypeOK, FreshMeansOpen, ListCovers, Crash, Goto, Abort, Release
  <2> QED
    BY <2>1, <2>2, <2>3
<1>14. ASSUME NEW c \in Clients, Commit(c) PROVE QuietInv'
  BY <1>14, CommitQuiet
<1>15. CASE UNCHANGED vars
  BY <1>15 DEF vars, TerminalMeansQuiet, DecidedOnRunning, ListCovers
<1> QED
  BY <1>1, <1>2, <1>3, <1>4, <1>5, <1>6, <1>7, <1>8, <1>9, <1>10, <1>11, <1>12, <1>13, <1>14, <1>15 DEF Next, Step

\* A cancelled or completed instance has no open activity, for any number of
\* racing approvals, reassignments, boundary events and terminations: none of
\* them opens an activity in an instance that another has closed.
THEOREM ClosedMeansQuiet ==
    ASSUME "extend" \notin Ops PROVE Spec => []TerminalMeansQuiet
<1>1. QuietInv /\ [Next]_vars => QuietInv'
  BY NextQuiet
<1>2. QuietInv => TerminalMeansQuiet
  BY DEF QuietInv
<1> QED
  BY <1>1, <1>2, InitQuiet, PTL DEF Spec

\* A final status is final: no request in flight when it was written reopens
\* or overwrites it.
THEOREM ClosedIsFinal ==
    ASSUME "extend" \notin Ops PROVE Spec => TerminalIsFinal
<1>1. QuietInv /\ [Next]_vars => QuietInv'
  BY NextQuiet
<1>2. ASSUME QuietInv, [Next]_vars
      PROVE  [row.status # "running" => row'.status = row.status]_vars
  <2> SUFFICES ASSUME row.status # "running", row' # row PROVE FALSE
    BY DEF QuietInv, vars
  <2>1. ASSUME NEW c \in Clients, Commit(c) PROVE FALSE
    BY <1>2, <2>1, CommitsRunning DEF Commit
  <2>2. ASSUME NEW c \in Clients, UpdateTerminated(c) PROVE FALSE
    BY <1>2, <2>2 DEF UpdateTerminated, QuietInv, DecidedOnRunning
  <2> QED
    BY <1>2, <2>1, <2>2 DEF Next, Step, vars, Arrive, ReadInstance, ReadActivity, WriteActivity,
       UpdateInstance, ReadForUpdate, CheckHost, LockHost, ListActive, CancelNext,
       BreakDeadlock, Crash
<1> QED
  BY <1>1, <1>2, InitQuiet, PTL DEF Spec, TerminalIsFinal
=============================================================================
