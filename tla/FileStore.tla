------------------------------ MODULE FileStore -------------------------------
(***************************************************************************)
(* The file store (internal/store/filestore) over the memory store, the    *)
(* memory store alone, and the deployments of the database store, under    *)
(* the requests of an asynchronous engine.                                 *)
(*                                                                         *)
(* Every write of the file store holds s.mu, changes the memory tables row *)
(* by row, writes or removes definition files, and replaces state.yaml.    *)
(* Any file operation may fail and the server may stop between two steps.  *)
(* WithTx of the memory store takes no lock.  Neither undoes anything.     *)
(***************************************************************************)
EXTENDS MemoryStore

CONSTANTS
    Clients,        \* HTTP requests
    Worker,         \* the job worker
    RoundTrip(_),   \* bpmnxml.Parse of bpmnxml.Marshal
    Unreadable,     \* what Parse gives when it fails
    Budgets         \* bounds on stops, failures, deployments with deletions, and starts

ASSUME FileStoreAssumption ==
    /\ Worker \notin Clients
    /\ Unreadable \notin Definitions \cup {NoDef}
    /\ \A d \in Definitions : RoundTrip(d) \in Definitions \cup {Unreadable}
    /\ Budgets \subseteq [crashes : Nat, faults : Nat, deploys : Nat, starts : Nat]

VARIABLES
    store,   \* STORE_BACKEND: "file", "memory", or "database" (deployments only)
    mem,     \* the tables in memory
    yaml,    \* state.yaml: the tables last written, or NoRow if there is no file
    xml,     \* the definition files under processes/
    server,  \* "up", "down", or "broken" when Open fails
    op,      \* what each client, and the worker, is doing
    log,     \* history: what callers were told and what went wrong
    left     \* what is left of the budget

vars == <<store, mem, yaml, xml, server, op, log, left>>

-----------------------------------------------------------------------------
(* State *)

Actors == Clients \cup {Worker}
JobNames == Instances \X (Tasks \cup {"start"})

Idle == [kind |-> "idle", at |-> "idle"]

Log == [acked : SUBSET (Keys \X Versions \X Definitions), \* deployments acknowledged
        deleted  : SUBSET Keys,                 \* deletions acknowledged
        approved : SUBSET (Instances \X Tasks), \* approvals acknowledged
        torn : SUBSET Instances,                \* their transaction has failed half way
        used : SUBSET Instances,                \* ids handed out by uuid.New
        runs : [JobNames -> Nat]]               \* how often a job was executed

Init ==
    /\ store \in {"file", "memory", "database"}
    /\ mem = NewStore
    /\ yaml = NoRow
    /\ xml = NewStore.procs
    /\ server = "up"
    /\ op = [c \in Actors |-> Idle]
    /\ log = [acked |-> {}, deleted |-> {}, approved |-> {}, torn |-> {}, used |-> {},
              runs |-> [j \in JobNames |-> 0]]
    /\ left \in Budgets

IsIdle(c) == server = "up" /\ op[c].kind = "idle"
At(c, kind, step) == server = "up" /\ op[c].kind = kind /\ op[c].at = step

\* s.mu of the file store; the memory store's WithTx is fn(s).
MayEnter(c) ==
    store = "file" => \A d \in Actors : d # c => op[d].at \in {"idle", "enter"}

Goto(c, step) == op' = [op EXCEPT ![c].at = step]
Begin(c, o) == op' = [op EXCEPT ![c] = o]
Return(c) == op' = [op EXCEPT ![c] = Idle]

UNCHANGED_Disk == UNCHANGED <<store, yaml, xml, server, left>>

-----------------------------------------------------------------------------
(* Deployment *)

\* The memory store returns here; the file store goes on with its files.
StoreVersion(c, k, v, d) ==
    /\ v \in Versions
    /\ mem' = InsertProcessVersion(mem, k, v, d)
    /\ left' = [left EXCEPT !.deploys = @ - 1]
    /\ IF store = "memory"
       THEN /\ log' = [log EXCEPT !.deleted = @ \ {k}, !.acked = @ \cup {<<k, v, d>>}]
            /\ UNCHANGED op
       ELSE /\ log' = [log EXCEPT !.deleted = @ \ {k}]
            /\ Begin(c, [kind |-> "deploy", at |-> "xml", key |-> k, ver |-> v, def |-> d])
    /\ UNCHANGED <<store, yaml, xml, server>>

\* Mutant: the version is the largest one, not the one after it.
DeployTaken(c, k, d) ==
    /\ IsIdle(c) /\ MayEnter(c) /\ left.deploys > 0 /\ store # "database"
    /\ StoreVersion(c, k, IF VersionsOf(mem, k) = {} THEN 1 ELSE latestVersionLocked(mem, k), d)

Deploy(c, k, d) ==
    /\ IsIdle(c) /\ MayEnter(c) /\ left.deploys > 0 /\ store # "database"
    /\ StoreVersion(c, k, latestVersionLocked(mem, k) + 1, d)

\* The database store reads the largest version in one statement ...
ReadVersion(c, k, d) ==
    /\ IsIdle(c) /\ left.deploys > 0 /\ store = "database"
    /\ latestVersionLocked(mem, k) < MaxVersion
    /\ Begin(c, [kind |-> "deploy", at |-> "insert", key |-> k, def |-> d,
                 ver |-> latestVersionLocked(mem, k) + 1])
    /\ left' = [left EXCEPT !.deploys = @ - 1]
    /\ UNCHANGED <<store, mem, yaml, xml, server, log>>

\* ... and inserts in another, which the primary key refuses if the version is taken.
InsertVersion(c) ==
    /\ At(c, "deploy", "insert")
    /\ LET k == op[c].key  v == op[c].ver  d == op[c].def IN
       IF mem.procs[<<k, v>>] = NoDef
       THEN /\ mem' = InsertProcessVersion(mem, k, v, d)
            /\ log' = [log EXCEPT !.deleted = @ \ {k}, !.acked = @ \cup {<<k, v, d>>}]
       ELSE UNCHANGED <<mem, log>>
    /\ Return(c)
    /\ UNCHANGED_Disk

\* A temporary file and a rename: all or nothing.
writeProcessXML(c) ==
    /\ At(c, "deploy", "xml")
    /\ xml' = [xml EXCEPT ![<<op[c].key, op[c].ver>>] = op[c].def]
    /\ Goto(c, "persist")
    /\ UNCHANGED <<store, mem, yaml, server, log, left>>

Delete(c, k) ==
    /\ IsIdle(c) /\ MayEnter(c) /\ left.deploys > 0
    /\ mem' = DeleteProcess(mem, k)
    /\ left' = [left EXCEPT !.deploys = @ - 1]
    /\ LET kept == {a \in log.acked : a[1] # k} IN
       IF store # "file"
       THEN /\ log' = [log EXCEPT !.acked = kept, !.deleted = @ \cup {k}]
            /\ UNCHANGED op
       ELSE /\ log' = [log EXCEPT !.acked = kept]
            /\ Begin(c, [kind |-> "delete", at |-> "xml", key |-> k])
    /\ UNCHANGED <<store, yaml, xml, server>>

\* Mutant: the definition files stay.
keepProcessXML(c) ==
    /\ At(c, "delete", "xml")
    /\ Goto(c, "persist")
    /\ UNCHANGED <<store, mem, yaml, xml, server, log, left>>

deleteProcessXML(c) ==
    /\ At(c, "delete", "xml")
    /\ xml' = [p \in DOMAIN xml |-> IF p[1] = op[c].key THEN NoDef ELSE xml[p]]
    /\ Goto(c, "persist")
    /\ UNCHANGED <<store, mem, yaml, server, log, left>>

\* The definition file cannot be written, or RemoveAll stops half way: the
\* caller gets the error, the tables keep the change.
XMLFails(c) ==
    /\ server = "up" /\ op[c].at = "xml" /\ left.faults > 0
    /\ \/ op[c].kind = "deploy" /\ UNCHANGED xml
       \/ /\ op[c].kind = "delete"
          /\ \E V \in SUBSET Versions :
               xml' = [p \in DOMAIN xml |->
                         IF p[1] = op[c].key /\ p[2] \in V THEN NoDef ELSE xml[p]]
    /\ Return(c)
    /\ left' = [left EXCEPT !.faults = @ - 1]
    /\ UNCHANGED <<store, mem, yaml, server, log>>

-----------------------------------------------------------------------------
(* Asynchronous start and approval *)

\* StartProcess reads the latest definition before its transaction.
BeginStart(c, i, k) ==
    /\ IsIdle(c) /\ i \notin log.used /\ left.starts > 0 /\ store # "database"
    /\ GetProcess(mem, k) # NoDef
    /\ Begin(c, [kind |-> "start", at |-> "enter", inst |-> i,
                 row |-> [status |-> "pending", active |-> <<>>, lock |-> 0,
                          def |-> GetProcess(mem, k)]])
    /\ log' = [log EXCEPT !.used = @ \cup {i}]
    /\ left' = [left EXCEPT !.starts = @ - 1]
    /\ UNCHANGED <<store, mem, yaml, xml, server>>

CreateInstance(c) ==
    /\ At(c, "start", "enter") /\ MayEnter(c)
    /\ mem' = CreateProcessInstance(mem, op[c].inst, op[c].row)
    /\ Goto(c, "enqueue")
    /\ UNCHANGED_Disk /\ UNCHANGED log

\* CompleteTask reads instance and activity before its transaction.
BeginComplete(c, i, t) ==
    /\ IsIdle(c)
    /\ mem.insts[i] # NoRow /\ mem.insts[i].status = "running"
    /\ mem.acts[i][t] = "active"
    /\ Begin(c, [kind |-> "complete", at |-> "enter", inst |-> i, task |-> t,
                 row |-> mem.insts[i]])
    /\ UNCHANGED <<store, mem, yaml, xml, server, log, left>>

\* UpdateActivityInstance, and removeString on the list the rows share.
CloseTask(c) ==
    /\ At(c, "complete", "enter") /\ MayEnter(c)
    /\ LET i == op[c].inst  t == op[c].task IN
       /\ mem' = ShowCompacted(UpdateActivityInstance(mem, i, t, "completed"), i, t)
       /\ op' = [op EXCEPT ![c].at = "route", ![c].row.active = Removed(@, t)]
    /\ UNCHANGED_Disk /\ UNCHANGED log

WriteInstance(c) ==
    /\ At(c, "complete", "route")
    /\ LockVersionMatches(mem, op[c].inst, op[c].row)
    /\ mem' = UpdateProcessInstance(mem, op[c].inst, op[c].row)
    /\ Goto(c, "enqueue")
    /\ UNCHANGED_Disk /\ UNCHANGED log

\* Both transactions end with EnqueueJob.
Enqueue(c) ==
    /\ server = "up" /\ op[c].at = "enqueue"
    /\ mem' = EnqueueJob(mem, op[c].inst,
                         IF op[c].kind = "start" THEN "start" ELSE op[c].task)
    /\ Goto(c, IF store = "file" THEN "persist" ELSE "reply")
    /\ UNCHANGED_Disk /\ UNCHANGED log

-----------------------------------------------------------------------------
(* ProcessNextJob *)

\* Mutant: the claim is not written to the file.
ClaimUnsaved ==
    /\ IsIdle(Worker) /\ MayEnter(Worker)
    /\ PendingJobs(mem) # {}
    /\ mem' = ClaimNextJob(mem)
    /\ Begin(Worker, [kind |-> "claim", at |-> "reply", job |-> NextJob(mem)])
    /\ UNCHANGED_Disk /\ UNCHANGED log

Claim ==
    /\ IsIdle(Worker) /\ MayEnter(Worker)
    /\ PendingJobs(mem) # {}
    /\ mem' = ClaimNextJob(mem)
    /\ Begin(Worker, [kind |-> "claim", at |-> IF store = "file" THEN "persist" ELSE "reply",
                      job |-> NextJob(mem)])
    /\ UNCHANGED_Disk /\ UNCHANGED log

JobOf(c) == mem.jobs[op[c].job]

Ran(c) == [log EXCEPT !.runs[<<JobOf(c).inst, JobOf(c).task>>] = @ + 1]

\* runStartJob: the instance is read inside the transaction, runs, and opens
\* one activity for each task.
RunStartJob(c) ==
    /\ At(c, "job", "enter") /\ MayEnter(c) /\ JobOf(c).task = "start"
    /\ LET i == JobOf(c).inst
           row == [mem.insts[i] EXCEPT !.status = "running"]
       IN  /\ mem' = UpdateProcessInstance(mem, i, row)
           /\ op' = [op EXCEPT ![c] = [kind |-> "job", at |-> "open", job |-> op[c].job,
                                       inst |-> i, row |-> Bumped(row)]]
    /\ log' = Ran(c)
    /\ UNCHANGED_Disk

Unopened(c) == {t \in Tasks : mem.acts[op[c].inst][t] = "none"}

OpenTask(c, t) ==
    /\ At(c, "job", "open") /\ t \in Unopened(c)
    /\ LET i == op[c].inst
           row == [op[c].row EXCEPT !.active = Append(@, t)]
       IN  /\ mem' = CreateActivityInstance(mem, i, t)
           /\ op' = [op EXCEPT ![c].at = "save", ![c].row = row]
    /\ UNCHANGED_Disk /\ UNCHANGED log

SaveInstance(c) ==
    /\ At(c, "job", "save")
    /\ LockVersionMatches(mem, op[c].inst, op[c].row)
    /\ mem' = UpdateProcessInstance(mem, op[c].inst, op[c].row)
    /\ op' = [op EXCEPT ![c].at = "open", ![c].row = Bumped(@)]
    /\ UNCHANGED_Disk /\ UNCHANGED log

\* runContinueJob reads the instance ...
RunContinueJob(c) ==
    /\ At(c, "job", "enter") /\ MayEnter(c) /\ JobOf(c).task # "start"
    /\ LET i == JobOf(c).inst
           row == mem.insts[i]
       IN  /\ row.status = "running"
           /\ op' = [op EXCEPT ![c] = [kind |-> "job", at |-> "read", job |-> op[c].job,
                                       inst |-> i, row |-> row]]
    /\ log' = Ran(c)
    /\ UNCHANGED_Disk /\ UNCHANGED mem

\* ... and completeElement writes it and follows the flow to the end event.
completeElement(c) ==
    /\ At(c, "job", "read")
    /\ LockVersionMatches(mem, op[c].inst, op[c].row)
    /\ mem' = UpdateProcessInstance(mem, op[c].inst, op[c].row)
    /\ op' = [op EXCEPT ![c].at = "end", ![c].row = Bumped(@)]
    /\ UNCHANGED_Disk /\ UNCHANGED log

\* "process not running": nothing is written.
NotRunning(c) ==
    /\ At(c, "job", "enter") /\ MayEnter(c) /\ JobOf(c).task # "start"
    /\ mem.insts[JobOf(c).inst].status # "running"
    /\ Begin(c, [kind |-> "finish", at |-> "enter", job |-> op[c].job, ok |-> FALSE])
    /\ log' = Ran(c)
    /\ UNCHANGED_Disk /\ UNCHANGED mem

Committed(c) == Goto(c, IF store = "file" THEN "persist" ELSE "reply")

Finishes(c) == ListActiveActivities(mem, op[c].inst) = {} /\ op[c].row.active = <<>>

tryCompleteProcess(c) ==
    /\ At(c, "job", "end")
    /\ LET i == op[c].inst
           row == [op[c].row EXCEPT !.status = "completed"]
       IN  IF Finishes(c)
           THEN /\ LockVersionMatches(mem, i, row)
                /\ mem' = UpdateProcessInstance(mem, i, row)
           ELSE UNCHANGED mem
    /\ Committed(c)
    /\ UNCHANGED_Disk /\ UNCHANGED log

AllOpened(c) ==
    /\ At(c, "job", "open") /\ Unopened(c) = {}
    /\ Committed(c)
    /\ UNCHANGED_Disk /\ UNCHANGED <<mem, log>>

\* CompleteJob or FailJob.
FinishJob(c) ==
    /\ At(c, "finish", "enter") /\ MayEnter(c)
    /\ mem' = IF op[c].ok THEN CompleteJob(mem, op[c].job) ELSE FailJob(mem, op[c].job)
    /\ Committed(c)
    /\ UNCHANGED_Disk /\ UNCHANGED log

-----------------------------------------------------------------------------
(* Failing transactions: what they have written stays. *)

AfterError(c) ==
    op' = [op EXCEPT ![c] = IF op[c].kind = "job"
                            THEN [kind |-> "finish", at |-> "enter", job |-> op[c].job, ok |-> FALSE]
                            ELSE Idle]

\* ErrVersionConflict out of UpdateProcessInstance.
Conflict(c) ==
    /\ server = "up"
    /\ \/ op[c].kind = "complete" /\ op[c].at = "route"
       \/ op[c].kind = "job" /\ op[c].at \in {"read", "save"}
       \/ op[c].kind = "job" /\ op[c].at = "end" /\ Finishes(c)
    /\ ~LockVersionMatches(mem, op[c].inst, op[c].row)
    /\ AfterError(c)
    /\ log' = [log EXCEPT !.torn = @ \cup {op[c].inst}]
    /\ UNCHANGED_Disk /\ UNCHANGED mem

\* A script or a routing error of the job: failInstance.
JobErrs(c) ==
    /\ server = "up" /\ op[c].kind = "job" /\ op[c].at \in {"open", "end"}
    /\ left.faults > 0
    /\ left' = [left EXCEPT !.faults = @ - 1]
    /\ mem' = IF LockVersionMatches(mem, op[c].inst, op[c].row)
              THEN UpdateProcessInstance(mem, op[c].inst, [op[c].row EXCEPT !.status = "failed"])
              ELSE mem
    /\ AfterError(c)
    /\ log' = [log EXCEPT !.torn = @ \cup {op[c].inst}]
    /\ UNCHANGED <<store, yaml, xml, server>>

-----------------------------------------------------------------------------
(* The end of an operation *)

\* What the caller learns when the operation returns without an error.
Replied(c) ==
    CASE op[c].kind = "deploy"   -> [log EXCEPT !.acked = @ \cup {<<op[c].key, op[c].ver, op[c].def>>}]
      [] op[c].kind = "delete"   -> [log EXCEPT !.deleted = @ \cup {op[c].key}]
      [] op[c].kind = "complete" -> [log EXCEPT !.approved = @ \cup {<<op[c].inst, op[c].task>>}]
      [] OTHER                   -> log

\* ProcessNextJob goes on with the job it claimed, and from the job to its row.
AfterReply(c) ==
    op' = [op EXCEPT ![c] =
             CASE op[c].kind = "claim" -> [kind |-> "job", at |-> "enter", job |-> op[c].job]
               [] op[c].kind = "job"   -> [kind |-> "finish", at |-> "enter", job |-> op[c].job, ok |-> TRUE]
               [] OTHER                -> Idle]

\* persistLocked: the snapshot goes to a temporary file that is renamed.
persistLocked(c) ==
    /\ server = "up" /\ op[c].at = "persist"
    /\ yaml' = mem
    /\ AfterReply(c)
    /\ log' = Replied(c)
    /\ UNCHANGED <<store, mem, xml, server, left>>

\* The file cannot be written: the caller gets the error.
PersistFails(c) ==
    /\ server = "up" /\ op[c].at = "persist" /\ left.faults > 0
    /\ left' = [left EXCEPT !.faults = @ - 1]
    /\ AfterError(c)
    /\ UNCHANGED <<store, mem, yaml, xml, server, log>>

\* The memory store has nothing to write.
Reply(c) ==
    /\ server = "up" /\ op[c].at = "reply"
    /\ AfterReply(c)
    /\ log' = Replied(c)
    /\ UNCHANGED <<store, mem, yaml, xml, server, left>>

-----------------------------------------------------------------------------
(* Stop and Open *)

Crash ==
    /\ server = "up" /\ store = "file" /\ left.crashes > 0
    /\ server' = "down"
    /\ mem' = NewStore
    /\ op' = [c \in Actors |-> Idle]
    /\ left' = [left EXCEPT !.crashes = @ - 1]
    /\ UNCHANGED <<store, yaml, xml, log>>

\* load: without state.yaml nothing is read; with it, each definition file
\* replaces the definition of its version.
Loaded ==
    IF yaml = NoRow THEN NewStore
    ELSE [yaml EXCEPT !.procs = [p \in DOMAIN @ |->
                                   IF xml[p] # NoDef THEN RoundTrip(xml[p]) ELSE @[p]]]

ParseFails == yaml # NoRow /\ \E p \in DOMAIN xml : xml[p] # NoDef /\ RoundTrip(xml[p]) = Unreadable

\* Mutant: a definition file that cannot be parsed is taken as it is.
OpenAnyway ==
    /\ server = "down"
    /\ server' = "up" /\ mem' = Loaded
    /\ UNCHANGED <<store, yaml, xml, op, log, left>>

Open ==
    /\ server = "down"
    /\ IF ParseFails THEN server' = "broken" /\ UNCHANGED mem
       ELSE server' = "up" /\ mem' = Loaded
    /\ UNCHANGED <<store, yaml, xml, op, log, left>>

-----------------------------------------------------------------------------
Deployment(c) ==
    \/ \E k \in Keys : (\E d \in Definitions : Deploy(c, k, d) \/ ReadVersion(c, k, d))
                       \/ Delete(c, k)
    \/ InsertVersion(c) \/ writeProcessXML(c) \/ deleteProcessXML(c) \/ XMLFails(c)

Request(c) ==
    \/ \E i \in Instances : (\E k \in Keys : BeginStart(c, i, k))
                            \/ (\E t \in Tasks : BeginComplete(c, i, t))
    \/ CreateInstance(c) \/ CloseTask(c) \/ WriteInstance(c) \/ Enqueue(c)

RunJob(c) ==
    \/ RunStartJob(c) \/ (\E t \in Tasks : OpenTask(c, t)) \/ SaveInstance(c) \/ AllOpened(c)
    \/ RunContinueJob(c) \/ NotRunning(c) \/ completeElement(c) \/ tryCompleteProcess(c)
    \/ FinishJob(c) \/ JobErrs(c)

Ending(c) == Conflict(c) \/ persistLocked(c) \/ PersistFails(c) \/ Reply(c)

Next ==
    \/ \E c \in Clients : Deployment(c) \/ Request(c)
    \/ Claim \/ RunJob(Worker)
    \/ \E c \in Actors : Ending(c)
    \/ Crash \/ Open

Spec == Init /\ [][Next]_vars

-----------------------------------------------------------------------------
(* Properties *)

OpRecord(o) ==
    /\ o.kind \in {"idle", "deploy", "delete", "start", "complete", "claim", "job", "finish"}
    /\ o.at \in {"idle", "enter", "xml", "insert", "enqueue", "route", "open", "save", "read", "end",
                 "persist", "reply"}
    /\ o.kind = "idle" <=> o.at = "idle"

\* The types of the tables, the files and the operations; in particular Open never
\* puts a definition it could not parse into the tables.
TypeOK ==
    /\ store \in {"file", "memory", "database"}
    /\ mem \in Tables
    /\ yaml \in Tables \cup {NoRow}
    /\ xml \in [Keys \X Versions -> Definitions \cup {NoDef}]
    /\ server \in {"up", "down", "broken"}
    /\ DOMAIN op = Actors /\ \A c \in Actors : OpRecord(op[c])
    /\ log \in Log
    /\ left \in [crashes : Nat, faults : Nat, deploys : Nat, starts : Nat]

HasJob(m, i, t) == \E n \in DOMAIN m.jobs : m.jobs[n].inst = i /\ m.jobs[n].task = t

\* The rows of instance i as they are between two transactions: nothing before
\* the start, the start job with a pending instance, all tasks once it runs, in
\* the waiting list exactly those that are open, a job for each closed one, and
\* nothing open when it has completed.
Whole(m, i) ==
    IF m.insts[i] = NoRow
    THEN ~HasJob(m, i, "start") /\ \A t \in Tasks : m.acts[i][t] = "none"
    ELSE LET row == m.insts[i]  open == ListActiveActivities(m, i) IN
         /\ HasJob(m, i, "start")
         /\ row.status = "pending" => \A t \in Tasks : m.acts[i][t] = "none"
         /\ row.status # "pending" =>
               /\ {row.active[n] : n \in DOMAIN row.active} = open
               /\ Len(row.active) = Cardinality(open)
               /\ \A t \in Tasks : m.acts[i][t] = IF HasJob(m, i, t) THEN "completed" ELSE "active"
         /\ row.status = "completed" => open = {}

InFlight(i) == \E c \in Actors : op[c].at \notin {"idle", "enter"} /\ "inst" \in DOMAIN op[c]
                                 /\ op[c].inst = i

\* Transactions are all or nothing for every instance none of whose transactions
\* has failed: state.yaml never holds half of one, wherever the server stops and
\* whichever file operation fails, and the tables never show half of one once it
\* is over (WithTx, persistLocked; docs/ddd/execution.md: "commit atomically").
WholeTransactions ==
    \A i \in Instances \ log.torn :
        /\ yaml # NoRow => Whole(yaml, i)
        /\ ~InFlight(i) /\ server = "up" => Whole(mem, i)

Shows(d, e) == e = d \/ e = RoundTrip(d)

\* What a caller was told has been done is in the files and, while the server is
\* up, in memory, after every failure and restart: a deployed version keeps its
\* number and its definition, or what the XML codec leaves of it, and an approved
\* task stays closed with a job to continue it.
AcknowledgedSurvives ==
    /\ \A a \in log.acked :
         /\ server = "up" => Shows(a[3], mem.procs[<<a[1], a[2]>>])
         /\ store = "file" => /\ yaml # NoRow /\ Shows(a[3], yaml.procs[<<a[1], a[2]>>])
                             /\ xml[<<a[1], a[2]>>] = a[3]
    /\ \A a \in log.approved :
         /\ server = "up" => mem.acts[a[1]][a[2]] = "completed" /\ HasJob(mem, a[1], a[2])
         /\ store = "file" => /\ yaml.acts[a[1]][a[2]] = "completed"
                             /\ HasJob(yaml, a[1], a[2])

\* A process whose deletion was acknowledged has no version, in memory or on
\* disk, until it is deployed again: no restart brings it back (DeleteProcess
\* against load, which reads state.yaml and the definition files).
DeletedStaysDeleted ==
    \A k \in log.deleted, v \in Versions :
        /\ mem.procs[<<k, v>>] = NoDef
        /\ xml[<<k, v>>] = NoDef
        /\ yaml # NoRow => yaml.procs[<<k, v>>] = NoDef

\* No job is executed twice, across restarts and failures of the file: scripts
\* and service calls of a job happen at most once (ClaimNextJob before the job).
JobRunsOnce == \A j \in JobNames : log.runs[j] <= 1
=============================================================================
