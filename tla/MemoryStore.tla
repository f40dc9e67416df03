----------------------------- MODULE MemoryStore ------------------------------
(***************************************************************************)
(* The tables of internal/store/memory/store.go as one record and its      *)
(* methods as functions on that record; s.mu makes each method one step.   *)
(* Rows of one tenant; an activity is named by its instance and userTask,  *)
(* a job by its place in the order of creation.                            *)
(*                                                                         *)
(* Rows are copied shallowly (copy := *inst): a slice in a row handed out  *)
(* is the slice of the stored row.                                         *)
(***************************************************************************)
EXTENDS Lists, FiniteSets

CONSTANTS
    Keys,        \* process keys
    MaxVersion,  \* bound on the versions of one key
    Definitions, \* process definitions that are deployed
    Instances,   \* instance ids
    Tasks,       \* the userTasks every instance opens
    NoDef, NoRow \* what a lookup that finds nothing gives

Versions == 1..MaxVersion

InstanceRow == [status : {"pending", "running", "completed", "failed"},
                active : Seq(Tasks), lock : Nat, def : Definitions]
JobRow == [inst : Instances, task : Tasks \cup {"start"},
           status : {"pending", "running", "done", "failed"}]
Tables == [procs : [Keys \X Versions -> Definitions \cup {NoDef}],
           insts : [Instances -> InstanceRow \cup {NoRow}],
           acts  : [Instances -> [Tasks -> {"none", "active", "completed"}]],
           jobs  : Seq(JobRow)]

\* A lookup that finds nothing is told from every row; the start job of an
\* instance from the jobs that continue its tasks.
ASSUME MemoryStoreAssumption ==
    /\ MaxVersion \in Nat \ {0}
    /\ NoDef \notin Definitions
    /\ Tasks # {} /\ IsFiniteSet(Tasks) /\ "start" \notin Tasks
    /\ NoRow \notin InstanceRow \cup Tables

NewStore == [procs |-> [p \in Keys \X Versions |-> NoDef],
             insts |-> [i \in Instances |-> NoRow],
             acts  |-> [i \in Instances |-> [t \in Tasks |-> "none"]],
             jobs  |-> <<>>]

-----------------------------------------------------------------------------
(* Processes *)

VersionsOf(m, k) == {v \in Versions : m.procs[<<k, v>>] # NoDef}

latestVersionLocked(m, k) ==
    CHOOSE v \in {0} \cup VersionsOf(m, k) : \A w \in VersionsOf(m, k) : w <= v

InsertProcessVersion(m, k, v, d) == [m EXCEPT !.procs[<<k, v>>] = d]

DeleteProcess(m, k) ==
    [m EXCEPT !.procs = [p \in DOMAIN @ |-> IF p[1] = k THEN NoDef ELSE @[p]]]

GetProcess(m, k) ==
    IF VersionsOf(m, k) = {} THEN NoDef ELSE m.procs[<<k, latestVersionLocked(m, k)>>]

-----------------------------------------------------------------------------
(* Instances and activities *)

CreateProcessInstance(m, i, row) == [m EXCEPT !.insts[i] = row]

\* Mutant: the optimistic lock is not looked at.
AnyLockVersion(m, i, row) == m.insts[i] # NoRow

\* UpdateProcessInstance writes a row only over the version it was read from;
\* otherwise it returns ErrVersionConflict.
LockVersionMatches(m, i, row) == m.insts[i] # NoRow /\ m.insts[i].lock = row.lock

Bumped(row) == [row EXCEPT !.lock = @ + 1]
UpdateProcessInstance(m, i, row) == [m EXCEPT !.insts[i] = Bumped(row)]

CreateActivityInstance(m, i, t) == [m EXCEPT !.acts[i][t] = "active"]
UpdateActivityInstance(m, i, t, s) == [m EXCEPT !.acts[i][t] = s]
ListActiveActivities(m, i) == {t \in Tasks : m.acts[i][t] = "active"}

\* removeString(list, t) compacts in place: what it returns, and what a row that
\* shares the list then shows.
Removed(s, t) == Outside(s, {t})
Compacted(s, t) == Removed(s, t) \o SubSeq(s, Len(Removed(s, t)) + 1, Len(s))
ShowCompacted(m, i, t) == [m EXCEPT !.insts[i].active = Compacted(@, t)]

-----------------------------------------------------------------------------
(* Jobs *)

EnqueueJob(m, i, t) ==
    [m EXCEPT !.jobs = Append(@, [inst |-> i, task |-> t, status |-> "pending"])]

PendingJobs(m) == {n \in DOMAIN m.jobs : m.jobs[n].status = "pending"}

\* ClaimNextJob takes the pending job that was created first.
NextJob(m) == CHOOSE n \in PendingJobs(m) : \A o \in PendingJobs(m) : n <= o

SetJob(m, n, s) == [m EXCEPT !.jobs[n].status = s]
ClaimNextJob(m) == SetJob(m, NextJob(m), "running")
CompleteJob(m, n) == SetJob(m, n, "done")
FailJob(m, n) == SetJob(m, n, "failed")
=============================================================================
