--------------------------- MODULE FileStoreProofs ---------------------------
(***************************************************************************)
(* Proofs about FileStore, for any number of clients, keys, versions,      *)
(* instances and tasks, any XML codec, and any number of stops and file    *)
(* failures.                                                               *)
(***************************************************************************)
EXTENDS FileStore, ListProofs, FiniteSetTheorems, FunctionTheorems

-----------------------------------------------------------------------------
(* The tables *)

\* InsertProcessVersion writes one definition.
LEMMA InsertTables ==
    ASSUME NEW m \in Tables, NEW k \in Keys, NEW v \in Versions, NEW d \in Definitions
    PROVE  /\ InsertProcessVersion(m, k, v, d) \in Tables
           /\ InsertProcessVersion(m, k, v, d).procs = [m.procs EXCEPT ![<<k, v>>] = d]
           /\ InsertProcessVersion(m, k, v, d).insts = m.insts
           /\ InsertProcessVersion(m, k, v, d).acts = m.acts
           /\ InsertProcessVersion(m, k, v, d).jobs = m.jobs
BY DEF InsertProcessVersion, Tables

\* DeleteProcess removes every version of a key.
LEMMA DeleteTables ==
    ASSUME NEW m \in Tables, NEW k \in Keys
    PROVE  /\ DeleteProcess(m, k) \in Tables
           /\ DeleteProcess(m, k).procs
                = [p \in Keys \X Versions |-> IF p[1] = k THEN NoDef ELSE m.procs[p]]
           /\ DeleteProcess(m, k).insts = m.insts
           /\ DeleteProcess(m, k).acts = m.acts
           /\ DeleteProcess(m, k).jobs = m.jobs
BY DEF DeleteProcess, Tables

\* An instance row is written.
LEMMA InstanceTables ==
    ASSUME NEW m \in Tables, NEW i \in Instances, NEW row \in InstanceRow
    PROVE  /\ CreateProcessInstance(m, i, row) \in Tables
           /\ CreateProcessInstance(m, i, row).insts = [m.insts EXCEPT ![i] = row]
           /\ CreateProcessInstance(m, i, row).procs = m.procs
           /\ CreateProcessInstance(m, i, row).acts = m.acts
           /\ CreateProcessInstance(m, i, row).jobs = m.jobs
BY DEF CreateProcessInstance, Tables

\* The lock version goes up by one.
LEMMA BumpedRow ==
    ASSUME NEW row \in InstanceRow
    PROVE  /\ Bumped(row) \in InstanceRow
           /\ Bumped(row).lock = row.lock + 1
           /\ Bumped(row).status = row.status
           /\ Bumped(row).active = row.active
BY DEF Bumped, InstanceRow

\* UpdateProcessInstance writes a row with the next lock version.
LEMMA UpdateTables ==
    ASSUME NEW m \in Tables, NEW i \in Instances, NEW row \in InstanceRow
    PROVE  /\ UpdateProcessInstance(m, i, row) \in Tables
           /\ UpdateProcessInstance(m, i, row).insts = [m.insts EXCEPT ![i] = Bumped(row)]
           /\ UpdateProcessInstance(m, i, row).procs = m.procs
           /\ UpdateProcessInstance(m, i, row).acts = m.acts
           /\ UpdateProcessInstance(m, i, row).jobs = m.jobs
<1>1. Bumped(row) \in InstanceRow
  BY BumpedRow
<1> QED
  BY <1>1 DEF UpdateProcessInstance, Tables

\* An activity row is written.
LEMMA ActivityTables ==
    ASSUME NEW m \in Tables, NEW i \in Instances, NEW t \in Tasks,
           NEW s \in {"active", "completed"}
    PROVE  /\ UpdateActivityInstance(m, i, t, s) \in Tables
           /\ UpdateActivityInstance(m, i, t, s).acts
                = [m.acts EXCEPT ![i] = [m.acts[i] EXCEPT ![t] = s]]
           /\ UpdateActivityInstance(m, i, t, s).procs = m.procs
           /\ UpdateActivityInstance(m, i, t, s).insts = m.insts
           /\ UpdateActivityInstance(m, i, t, s).jobs = m.jobs
<1>1. m.acts[i] \in [Tasks -> {"none", "active", "completed"}]
  BY DEF Tables
<1>2. [m.acts[i] EXCEPT ![t] = s] \in [Tasks -> {"none", "active", "completed"}]
  BY <1>1
<1> QED
  BY <1>2 DEF UpdateActivityInstance, Tables

\* Compacting a list leaves a list of tasks behind.
LEMMA CompactedList ==
    ASSUME NEW s \in Seq(Tasks), NEW t
    PROVE  Removed(s, t) \in Seq(Tasks) /\ Compacted(s, t) \in Seq(Tasks)
<1> DEFINE r == Removed(s, t)
           n == Len(r)
           u == SubSeq(s, n + 1, Len(s))
<1>1. r \in Seq(Tasks)
  BY OutsideFacts DEF Removed
<1>2. n \in Nat
  BY <1>1
<1> HIDE DEF r, n
<1>3. u \in Seq(Tasks)
  BY <1>2
<1> HIDE DEF u
<1>4. r \o u \in Seq(Tasks)
  BY <1>1, <1>3
<1> QED
  BY <1>1, <1>4 DEF Compacted, r, n, u

\* The shared list shows the compaction; nothing else of the row changes.
LEMMA ShowCompactedTables ==
    ASSUME NEW m \in Tables, NEW i \in Instances, NEW t, m.insts[i] # NoRow
    PROVE  /\ ShowCompacted(m, i, t) \in Tables
           /\ ShowCompacted(m, i, t).procs = m.procs
           /\ ShowCompacted(m, i, t).acts = m.acts
           /\ ShowCompacted(m, i, t).jobs = m.jobs
           /\ ShowCompacted(m, i, t).insts[i] \in InstanceRow
           /\ ShowCompacted(m, i, t).insts[i].lock = m.insts[i].lock
           /\ ShowCompacted(m, i, t).insts[i].status = m.insts[i].status
           /\ \A j \in Instances \ {i} : ShowCompacted(m, i, t).insts[j] = m.insts[j]
<1> DEFINE row == m.insts[i]
           new == [row EXCEPT !.active = Compacted(@, t)]
<1>1. row \in InstanceRow /\ m.insts \in [Instances -> InstanceRow \cup {NoRow}]
  BY DEF Tables
<1>2. Compacted(row.active, t) \in Seq(Tasks)
  BY <1>1, CompactedList DEF InstanceRow
<1>3. new \in InstanceRow /\ new.lock = row.lock /\ new.status = row.status
  BY <1>1, <1>2 DEF InstanceRow
<1>4. ShowCompacted(m, i, t) = [m EXCEPT !.insts = [m.insts EXCEPT ![i] = new]]
  BY <1>1 DEF ShowCompacted, Tables
<1> HIDE DEF new
<1>5. [m.insts EXCEPT ![i] = new] \in [Instances -> InstanceRow \cup {NoRow}]
  BY <1>1, <1>3
<1> QED
  BY <1>1, <1>3, <1>4, <1>5 DEF Tables

\* A job is appended.
LEMMA EnqueueTables ==
    ASSUME NEW m \in Tables, NEW i \in Instances, NEW t \in Tasks \cup {"start"}
    PROVE  /\ EnqueueJob(m, i, t) \in Tables
           /\ EnqueueJob(m, i, t).procs = m.procs
           /\ EnqueueJob(m, i, t).insts = m.insts
           /\ EnqueueJob(m, i, t).acts = m.acts
           /\ DOMAIN EnqueueJob(m, i, t).jobs = DOMAIN m.jobs \cup {Len(m.jobs) + 1}
           /\ Len(m.jobs) + 1 \notin DOMAIN m.jobs
           /\ \A n \in DOMAIN m.jobs : EnqueueJob(m, i, t).jobs[n] = m.jobs[n]
           /\ EnqueueJob(m, i, t).jobs[Len(m.jobs) + 1]
                = [inst |-> i, task |-> t, status |-> "pending"]
<1> DEFINE job == [inst |-> i, task |-> t, status |-> "pending"]
           js  == m.jobs
           ks  == Append(js, job)
<1>1. job \in JobRow /\ js \in Seq(JobRow)
  BY DEF JobRow, Tables
<1>2. EnqueueJob(m, i, t) = [m EXCEPT !.jobs = ks]
  BY DEF EnqueueJob
<1> HIDE DEF job, js
<1>3. /\ ks \in Seq(JobRow) /\ DOMAIN ks = 1..(Len(js) + 1)
      /\ \A n \in DOMAIN js : ks[n] = js[n]
      /\ ks[Len(js) + 1] = job
      /\ DOMAIN js = 1..Len(js) /\ Len(js) \in Nat
  BY <1>1
<1> HIDE DEF ks
<1>4. DOMAIN ks = DOMAIN js \cup {Len(js) + 1} /\ Len(js) + 1 \notin DOMAIN js
  BY <1>3
<1>5. /\ EnqueueJob(m, i, t) \in Tables /\ EnqueueJob(m, i, t).jobs = ks
      /\ EnqueueJob(m, i, t).procs = m.procs
      /\ EnqueueJob(m, i, t).insts = m.insts
      /\ EnqueueJob(m, i, t).acts = m.acts
  BY <1>2, <1>3 DEF Tables
<1> QED
  BY <1>3, <1>4, <1>5 DEF job, js

\* A job changes its status and nothing else.
LEMMA SetJobTables ==
    ASSUME NEW m \in Tables, NEW n \in DOMAIN m.jobs, NEW s \in {"running", "done", "failed"}
    PROVE  /\ SetJob(m, n, s) \in Tables
           /\ SetJob(m, n, s).procs = m.procs
           /\ SetJob(m, n, s).insts = m.insts
           /\ SetJob(m, n, s).acts = m.acts
           /\ DOMAIN SetJob(m, n, s).jobs = DOMAIN m.jobs
           /\ \A o \in DOMAIN m.jobs :
                /\ SetJob(m, n, s).jobs[o].inst = m.jobs[o].inst
                /\ SetJob(m, n, s).jobs[o].task = m.jobs[o].task
                /\ o # n => SetJob(m, n, s).jobs[o] = m.jobs[o]
           /\ SetJob(m, n, s).jobs[n].status = s
<1> DEFINE js  == m.jobs
           job == [js[n] EXCEPT !.status = s]
           ks  == [js EXCEPT ![n] = job]
<1>1. js \in Seq(JobRow) /\ n \in DOMAIN js
  BY DEF Tables
<1>2. js[n] \in JobRow
  BY <1>1
<1>3. job \in JobRow /\ job.inst = js[n].inst /\ job.task = js[n].task /\ job.status = s
  BY <1>2 DEF JobRow
<1>4. SetJob(m, n, s) = [m EXCEPT !.jobs = ks]
  BY DEF SetJob, Tables
<1>5. DOMAIN js = 1..Len(js) /\ Len(js) \in Nat /\ js \in [1..Len(js) -> JobRow]
  BY <1>1
<1> HIDE DEF job, js
<1>6. ks \in [1..Len(js) -> JobRow] /\ ks[n] = job /\ \A o \in DOMAIN js : o # n => ks[o] = js[o]
  BY <1>1, <1>3, <1>5
<1> HIDE DEF ks
<1>7. ks \in Seq(JobRow) /\ DOMAIN ks = DOMAIN js
  BY <1>5, <1>6
<1>8. /\ SetJob(m, n, s) \in Tables /\ SetJob(m, n, s).jobs = ks
      /\ SetJob(m, n, s).procs = m.procs
      /\ SetJob(m, n, s).insts = m.insts
      /\ SetJob(m, n, s).acts = m.acts
  BY <1>4, <1>7 DEF Tables
<1> QED
  BY <1>3, <1>6, <1>7, <1>8 DEF js

\* Among the versions of a key there is a largest one.
LEMMA LatestVersion ==
    ASSUME NEW m, NEW k
    PROVE  /\ latestVersionLocked(m, k) \in {0} \cup VersionsOf(m, k)
           /\ \A w \in VersionsOf(m, k) : w <= latestVersionLocked(m, k)
<1> DEFINE V == VersionsOf(m, k)
           B == {n \in Nat : \A w \in V : w <= n}
<1>1. V \subseteq 1..MaxVersion /\ MaxVersion \in Nat
  BY MemoryStoreAssumption DEF VersionsOf, Versions, MemoryStoreAssumption
<1>2. MaxVersion \in B
  BY <1>1
<1>3. PICK n \in B : \A x \in B : n <= x
  <2>1. B \subseteq Nat /\ B # {}
    BY <1>2
  <2> HIDE DEF B
  <2> QED
    BY <2>1, LeastNumber
<1>4. n \in {0} \cup V
  <2> SUFFICES ASSUME n \notin {0} \cup V PROVE FALSE
    OBVIOUS
  <2>1. n \in Nat /\ n # 0 /\ n \notin V
    BY <1>3
  <2>2. \A w \in V : w <= n-1
    BY <1>1, <1>3, <2>1
  <2>3. n-1 \in B
    BY <2>1, <2>2
  <2> QED
    BY <1>3, <2>1, <2>3
<1>5. \E v \in {0} \cup V : \A w \in V : w <= v
  BY <1>3, <1>4
<1> HIDE DEF V
<1> DEFINE L == CHOOSE v \in {0} \cup V : \A w \in V : w <= v
<1>6. L \in {0} \cup V /\ \A w \in V : w <= L
  BY <1>5, Zenon
<1> QED
  BY <1>6 DEF latestVersionLocked, V

\* The version after it is free, and GetProcess gives a definition or nothing.
LEMMA NextVersion ==
    ASSUME NEW m \in Tables, NEW k \in Keys
    PROVE  /\ latestVersionLocked(m, k) \in Nat
           /\ \A v \in Versions : v = latestVersionLocked(m, k) + 1 => m.procs[<<k, v>>] = NoDef
           /\ GetProcess(m, k) \in Definitions \cup {NoDef}
<1> DEFINE V == VersionsOf(m, k)
           L == latestVersionLocked(m, k)
<1>1. L \in {0} \cup V /\ \A w \in V : w <= L
  BY LatestVersion
<1>2. V \subseteq Versions /\ Versions \subseteq Nat \ {0}
  BY MemoryStoreAssumption DEF VersionsOf, Versions, MemoryStoreAssumption
<1>3. L \in Nat /\ \A w \in V : w # L + 1
  <2> HIDE DEF L, V
  <2> QED
    BY <1>1, <1>2
<1>4. \A v \in Versions : v = L + 1 => m.procs[<<k, v>>] = NoDef
  BY <1>3 DEF VersionsOf
<1>5. V # {} => L \in Versions
  <2> HIDE DEF L, V
  <2> SUFFICES ASSUME V # {} PROVE L \in Versions
    OBVIOUS
  <2>1. PICK w \in V : TRUE
    OBVIOUS
  <2>2. w \in Nat \ {0} /\ w <= L
    BY <1>1, <1>2
  <2>3. L # 0
    BY <2>2
  <2> QED
    BY <1>1, <1>2, <2>3
<1>6. GetProcess(m, k) \in Definitions \cup {NoDef}
  <2>1. CASE V = {}
    BY <2>1 DEF GetProcess
  <2>2. CASE V # {}
    <3>1. GetProcess(m, k) = m.procs[<<k, L>>] /\ L \in Versions
      BY <1>5, <2>2 DEF GetProcess
    <3> HIDE DEF L
    <3> QED
      BY <3>1 DEF Tables
  <2> QED
    BY <2>1, <2>2
<1> QED
  BY <1>3, <1>4, <1>6

-----------------------------------------------------------------------------
(* What tables never lose *)

\* No step of a running server takes back an instance, a job, what a job is
\* about or that it was claimed, or the completion of a task.
Grows(m, n) ==
    /\ \A i \in Instances : m.insts[i] # NoRow => n.insts[i] # NoRow
    /\ \A i \in Instances, t \in Tasks : m.acts[i][t] = "completed" => n.acts[i][t] = "completed"
    /\ \A j \in DOMAIN m.jobs :
         /\ j \in DOMAIN n.jobs
         /\ n.jobs[j].inst = m.jobs[j].inst /\ n.jobs[j].task = m.jobs[j].task
         /\ m.jobs[j].status # "pending" => n.jobs[j].status # "pending"

\* Every job is about an instance that exists.
JobsLinked(m) == \A j \in DOMAIN m.jobs : m.insts[m.jobs[j].inst] # NoRow

\* The fields of a job row.
LEMMA JobFields ==
    ASSUME NEW m \in Tables, NEW j \in DOMAIN m.jobs
    PROVE  /\ j \in Nat /\ m.jobs[j] \in JobRow
           /\ m.jobs[j].inst \in Instances /\ m.jobs[j].task \in Tasks \cup {"start"}
<1>1. m.jobs \in Seq(JobRow)
  BY DEF Tables
<1>2. m.jobs[j] \in JobRow /\ j \in Nat
  BY <1>1
<1> QED
  BY <1>2 DEF JobRow

\* Tables that differ in their definitions only.
LEMMA SameRows ==
    ASSUME NEW m, NEW n, n.insts = m.insts, n.acts = m.acts, n.jobs = m.jobs
    PROVE  Grows(m, n) /\ (JobsLinked(m) => JobsLinked(n))
BY DEF Grows, JobsLinked

\* A new version touches no row.
LEMMA InsertGrows ==
    ASSUME NEW m \in Tables, NEW k \in Keys, NEW v \in Versions, NEW d \in Definitions,
           JobsLinked(m)
    PROVE  /\ Grows(m, InsertProcessVersion(m, k, v, d))
           /\ JobsLinked(InsertProcessVersion(m, k, v, d))
<1> DEFINE n == InsertProcessVersion(m, k, v, d)
<1>1. n.insts = m.insts /\ n.acts = m.acts /\ n.jobs = m.jobs
  BY DEF InsertProcessVersion, Tables
<1> HIDE DEF n
<1>2. Grows(m, n) /\ JobsLinked(n)
  BY <1>1, SameRows
<1> QED
  BY <1>2 DEF n

\* A row written over, or where there was none.
LEMMA CreateGrows ==
    ASSUME NEW m \in Tables, NEW i \in Instances, NEW row \in InstanceRow, JobsLinked(m)
    PROVE  /\ Grows(m, CreateProcessInstance(m, i, row))
           /\ JobsLinked(CreateProcessInstance(m, i, row))
<1> DEFINE n == CreateProcessInstance(m, i, row)
<1>1. /\ n.insts = [m.insts EXCEPT ![i] = row]
      /\ n.acts = m.acts /\ n.jobs = m.jobs
  BY InstanceTables
<1>2. row # NoRow
  BY MemoryStoreAssumption DEF MemoryStoreAssumption
<1>3. m.insts \in [Instances -> InstanceRow \cup {NoRow}]
  BY DEF Tables
<1> HIDE DEF n
<1>4. \A j \in Instances : m.insts[j] # NoRow => n.insts[j] # NoRow
  BY <1>1, <1>2, <1>3
<1>5. \A j \in DOMAIN m.jobs : m.jobs[j].inst \in Instances
  BY JobFields
<1>6. Grows(m, n)
  BY <1>1, <1>4 DEF Grows
<1>7. JobsLinked(n)
  BY <1>1, <1>4, <1>5 DEF JobsLinked
<1> QED
  BY <1>6, <1>7 DEF n

\* A row written over the version it was read from stays a row.
LEMMA UpdateGrows ==
    ASSUME NEW m \in Tables, NEW i \in Instances, NEW row \in InstanceRow, JobsLinked(m)
    PROVE  /\ Grows(m, UpdateProcessInstance(m, i, row))
           /\ JobsLinked(UpdateProcessInstance(m, i, row))
<1>1. Bumped(row) \in InstanceRow
  BY BumpedRow
<1>2. UpdateProcessInstance(m, i, row) = CreateProcessInstance(m, i, Bumped(row))
  BY DEF UpdateProcessInstance, CreateProcessInstance
<1> QED
  BY <1>1, <1>2, CreateGrows

\* A task that is not completed is opened.
LEMMA OpenGrows ==
    ASSUME NEW m \in Tables, NEW i \in Instances, NEW t \in Tasks, JobsLinked(m),
           m.acts[i][t] = "none"
    PROVE  /\ CreateActivityInstance(m, i, t) \in Tables
           /\ Grows(m, CreateActivityInstance(m, i, t))
           /\ JobsLinked(CreateActivityInstance(m, i, t))
<1> DEFINE n == CreateActivityInstance(m, i, t)
<1>1. n = UpdateActivityInstance(m, i, t, "active")
  BY Zenon DEF CreateActivityInstance, UpdateActivityInstance
<1> HIDE DEF n
<1>2. /\ n \in Tables /\ n.insts = m.insts /\ n.jobs = m.jobs
      /\ n.acts = [m.acts EXCEPT ![i] = [m.acts[i] EXCEPT ![t] = "active"]]
  BY <1>1, ActivityTables
<1>3. m.acts \in [Instances -> [Tasks -> {"none", "active", "completed"}]]
  BY DEF Tables
<1>4. \A j \in Instances, u \in Tasks : m.acts[j][u] = "completed" => n.acts[j][u] = "completed"
  BY <1>2, <1>3
<1> QED
  BY <1>2, <1>4 DEF Grows, JobsLinked, n

\* A task is completed, and the shared list compacted.
LEMMA CloseGrows ==
    ASSUME NEW m \in Tables, NEW i \in Instances, NEW t \in Tasks, JobsLinked(m),
           m.insts[i] # NoRow
    PROVE  LET n == ShowCompacted(UpdateActivityInstance(m, i, t, "completed"), i, t)
           IN  /\ n \in Tables /\ Grows(m, n) /\ JobsLinked(n)
               /\ n.procs = m.procs /\ n.jobs = m.jobs
               /\ n.acts = [m.acts EXCEPT ![i] = [m.acts[i] EXCEPT ![t] = "completed"]]
               /\ n.acts[i][t] = "completed"
               /\ n.insts[i] \in InstanceRow
               /\ n.insts[i].lock = m.insts[i].lock /\ n.insts[i].status = m.insts[i].status
               /\ \A j \in Instances \ {i} : n.insts[j] = m.insts[j]
<1> DEFINE a == UpdateActivityInstance(m, i, t, "completed")
           n == ShowCompacted(a, i, t)
<1>1. /\ a \in Tables /\ a.insts = m.insts /\ a.jobs = m.jobs /\ a.procs = m.procs
      /\ a.acts = [m.acts EXCEPT ![i] = [m.acts[i] EXCEPT ![t] = "completed"]]
  BY ActivityTables
<1>2. m.acts \in [Instances -> [Tasks -> {"none", "active", "completed"}]]
  BY DEF Tables
<1> HIDE DEF a
<1>3. /\ n \in Tables /\ n.procs = a.procs /\ n.acts = a.acts /\ n.jobs = a.jobs
      /\ n.insts[i] \in InstanceRow
      /\ n.insts[i].lock = a.insts[i].lock /\ n.insts[i].status = a.insts[i].status
      /\ \A j \in Instances \ {i} : n.insts[j] = a.insts[j]
  BY <1>1, ShowCompactedTables
<1> HIDE DEF n
<1>4. \A j \in Instances, u \in Tasks : m.acts[j][u] = "completed" => n.acts[j][u] = "completed"
  BY <1>1, <1>2, <1>3
<1>5. \A j \in Instances : m.insts[j] # NoRow => n.insts[j] # NoRow
  BY <1>1, <1>3, MemoryStoreAssumption DEF MemoryStoreAssumption
<1>6. \A j \in DOMAIN m.jobs : m.jobs[j].inst \in Instances
  BY JobFields
<1>7. Grows(m, n) /\ JobsLinked(n)
  BY <1>1, <1>3, <1>4, <1>5, <1>6 DEF Grows, JobsLinked
<1>8. n.acts[i][t] = "completed"
  BY <1>1, <1>2, <1>3
<1> QED
  BY <1>1, <1>3, <1>7, <1>8 DEF n, a

\* A job is added, the others stay.
LEMMA EnqueueGrows ==
    ASSUME NEW m \in Tables, NEW i \in Instances, NEW t \in Tasks \cup {"start"},
           JobsLinked(m), m.insts[i] # NoRow
    PROVE  Grows(m, EnqueueJob(m, i, t)) /\ JobsLinked(EnqueueJob(m, i, t))
<1> DEFINE n == EnqueueJob(m, i, t)
           l == Len(m.jobs) + 1
<1>1. /\ n.insts = m.insts /\ n.acts = m.acts
      /\ DOMAIN n.jobs = DOMAIN m.jobs \cup {l}
      /\ \A j \in DOMAIN m.jobs : n.jobs[j] = m.jobs[j]
      /\ n.jobs[l] = [inst |-> i, task |-> t, status |-> "pending"]
  BY EnqueueTables
<1> HIDE DEF n, l
<1> QED
  BY <1>1 DEF Grows, JobsLinked, n

\* A claimed or finished job is never pending again.
LEMMA SetJobGrows ==
    ASSUME NEW m \in Tables, NEW j \in DOMAIN m.jobs, NEW s \in {"running", "done", "failed"},
           JobsLinked(m)
    PROVE  Grows(m, SetJob(m, j, s)) /\ JobsLinked(SetJob(m, j, s))
<1> DEFINE n == SetJob(m, j, s)
<1>1. /\ n.insts = m.insts /\ n.acts = m.acts /\ DOMAIN n.jobs = DOMAIN m.jobs
      /\ \A o \in DOMAIN m.jobs :
           /\ n.jobs[o].inst = m.jobs[o].inst /\ n.jobs[o].task = m.jobs[o].task
           /\ o # j => n.jobs[o] = m.jobs[o]
      /\ n.jobs[j].status = s
  BY SetJobTables
<1> HIDE DEF n
<1> QED
  BY <1>1 DEF Grows, JobsLinked, n

\* The oldest pending job exists.
LEMMA NextJobFacts ==
    ASSUME NEW m \in Tables, PendingJobs(m) # {}
    PROVE  NextJob(m) \in PendingJobs(m) /\ NextJob(m) \in DOMAIN m.jobs
<1> DEFINE P == PendingJobs(m)
<1>1. P \subseteq Nat /\ P \subseteq DOMAIN m.jobs
  <2>1. m.jobs \in Seq(JobRow)
    BY DEF Tables
  <2> QED
    BY <2>1 DEF PendingJobs
<1> HIDE DEF P
<1>2. \E n \in P : \A o \in P : n <= o
  BY <1>1, LeastNumber DEF P
<1> DEFINE N == CHOOSE n \in P : \A o \in P : n <= o
<1>3. N \in P
  BY <1>2, Zenon
<1> QED
  BY <1>1, <1>3 DEF NextJob, P

-----------------------------------------------------------------------------
(* The operations in progress *)

DeployOps == [kind : {"deploy"}, at : {"xml", "insert", "persist"},
              key : Keys, ver : Versions, def : Definitions]
DeleteOps == [kind : {"delete"}, at : {"xml", "persist"}, key : Keys]
StartOps == [kind : {"start"}, at : {"enter", "enqueue", "persist", "reply"},
             inst : Instances, row : InstanceRow]
CompleteOps == [kind : {"complete"}, at : {"enter", "route", "enqueue", "persist", "reply"},
                inst : Instances, task : Tasks, row : InstanceRow]
ClaimOps == [kind : {"claim"}, at : {"persist", "reply"}, job : Nat]
CalledOps == [kind : {"job"}, at : {"enter"}, job : Nat]
RunningOps == [kind : {"job"}, at : {"open", "save", "read", "end", "persist", "reply"},
               job : Nat, inst : Instances, row : InstanceRow]
FinishOps == [kind : {"finish"}, at : {"enter", "persist", "reply"}, job : Nat, ok : BOOLEAN]

Ops == {Idle} \cup DeployOps \cup DeleteOps \cup StartOps \cup CompleteOps
              \cup ClaimOps \cup CalledOps \cup RunningOps \cup FinishOps

\* The kind of an operation, and the step it is at, tell its fields.
LEMMA OpKinds ==
    ASSUME NEW o \in Ops
    PROVE  /\ o.kind = "idle" => o = Idle
           /\ o.kind = "deploy" => o \in DeployOps
           /\ o.kind = "delete" => o \in DeleteOps
           /\ o.kind = "start" => o \in StartOps
           /\ o.kind = "complete" => o \in CompleteOps
           /\ o.kind = "claim" => o \in ClaimOps
           /\ o.kind = "job" /\ o.at = "enter" => o \in CalledOps
           /\ o.kind = "job" /\ o.at # "enter" => o \in RunningOps
           /\ o.kind = "finish" => o \in FinishOps
           /\ o.at = "xml" => o.kind \in {"deploy", "delete"}
           /\ o.at = "enqueue" => o.kind \in {"start", "complete"}
           /\ o.kind = "idle" <=> o.at = "idle"
           /\ OpRecord(o)
<1>1. CASE o = Idle
  BY <1>1 DEF Idle, OpRecord
<1>2. CASE o \in DeployOps
  BY <1>2 DEF DeployOps, OpRecord
<1>3. CASE o \in DeleteOps
  BY <1>3 DEF DeleteOps, OpRecord
<1>4. CASE o \in StartOps
  BY <1>4 DEF StartOps, OpRecord
<1>5. CASE o \in CompleteOps
  BY <1>5 DEF CompleteOps, OpRecord
<1>6. CASE o \in ClaimOps
  BY <1>6 DEF ClaimOps, OpRecord
<1>7. CASE o \in CalledOps
  BY <1>7 DEF CalledOps, OpRecord
<1>8. CASE o \in RunningOps
  BY <1>8 DEF RunningOps, OpRecord
<1>9. CASE o \in FinishOps
  BY <1>9 DEF FinishOps, OpRecord
<1> QED
  BY <1>1, <1>2, <1>3, <1>4, <1>5, <1>6, <1>7, <1>8, <1>9 DEF Ops

\* Only the worker claims, runs and finishes jobs.
Plays(c, o) == o.kind \in {"claim", "job", "finish"} => c = Worker

\* What an operation refers to exists: the instance of a transaction that is past
\* its creation, and the job the worker has claimed.
Linked(m, o) ==
    /\ o.kind = "start" /\ o.at # "enter" => m.insts[o.inst] # NoRow
    /\ o.kind = "complete" => m.insts[o.inst] # NoRow
    /\ o.kind = "job" /\ o.at # "enter" => m.insts[o.inst] # NoRow
    /\ o.kind \in {"claim", "job", "finish"} => o.job \in DOMAIN m.jobs

TablesTyped ==
    /\ store \in {"file", "memory", "database"}
    /\ server \in {"up", "down", "broken"}
    /\ mem \in Tables /\ JobsLinked(mem)
    /\ yaml \in Tables \cup {NoRow}
    /\ yaml # NoRow => JobsLinked(yaml)
    /\ xml \in [Keys \X Versions -> Definitions \cup {NoDef}]

OpsTyped ==
    /\ op \in [Actors -> Ops]
    /\ \A c \in Actors : Plays(c, op[c]) /\ Linked(mem, op[c])
    /\ server # "up" => store = "file" /\ \A c \in Actors : op[c] = Idle

HistoryTyped ==
    /\ log \in Log
    /\ left \in [crashes : Nat, faults : Nat, deploys : Nat, starts : Nat]

StateInv == TablesTyped /\ OpsTyped

\* A step of the operation of c: the others stay where they are, the tables grow,
\* and state.yaml stays or becomes the tables.
Moves(c) ==
    /\ server = "up" /\ server' = "up" /\ store' = store
    /\ op' = [op EXCEPT ![c] = op'[c]] /\ op'[c] \in Ops /\ Plays(c, op'[c])
    /\ mem' \in Tables /\ Grows(mem, mem') /\ JobsLinked(mem') /\ Linked(mem', op'[c])
    /\ yaml' \in {yaml, mem}
    /\ xml' \in [Keys \X Versions -> Definitions \cup {NoDef}]

\* Operations stay linked while the tables grow.
LEMMA StillLinked ==
    ASSUME NEW o \in Ops, NEW m, NEW n, Linked(m, o), Grows(m, n)
    PROVE  Linked(n, o)
<1>1. /\ o.kind = "start" => o.inst \in Instances
      /\ o.kind = "complete" => o.inst \in Instances
      /\ o.kind = "job" /\ o.at # "enter" => o.inst \in Instances
  BY OpKinds DEF StartOps, CompleteOps, RunningOps
<1> QED
  BY <1>1 DEF Linked, Grows

\* A step of one operation keeps the state well formed.
LEMMA MovesKeepState ==
    ASSUME StateInv, NEW c \in Actors, Moves(c)
    PROVE  StateInv'
<1>1. TablesTyped'
  BY DEF StateInv, TablesTyped, OpsTyped, Moves
<1>2. op' \in [Actors -> Ops] /\ \A d \in Actors \ {c} : op'[d] = op[d]
  BY DEF StateInv, OpsTyped, Moves
<1>3. \A d \in Actors : Plays(d, op'[d]) /\ Linked(mem', op'[d])
  <2> SUFFICES ASSUME NEW d \in Actors PROVE Plays(d, op'[d]) /\ Linked(mem', op'[d])
    OBVIOUS
  <2>1. CASE d = c
    BY <2>1 DEF Moves
  <2>2. CASE d # c
    BY <1>2, <2>2, StillLinked DEF StateInv, OpsTyped, Moves
  <2> QED
    BY <2>1, <2>2
<1> QED
  BY <1>1, <1>2, <1>3 DEF StateInv, OpsTyped, Moves

-----------------------------------------------------------------------------
(* Every step of an operation is such a step *)

\* The operation of one actor is replaced, or goes on to its next step.
LEMMA ReplacedOp ==
    ASSUME StateInv, NEW c \in Actors, NEW o, op' = [op EXCEPT ![c] = o]
    PROVE  op'[c] = o /\ op' = [op EXCEPT ![c] = op'[c]]
           /\ \A d \in Actors \ {c} : op'[d] = op[d]
BY DEF StateInv, OpsTyped

\* An operation that goes on keeps its fields, and the others' operations.
LEMMA GotoOp ==
    ASSUME StateInv, NEW c \in Actors, NEW step, Goto(c, step)
    PROVE  /\ op'[c] = [op[c] EXCEPT !.at = step]
           /\ op' = [op EXCEPT ![c] = op'[c]]
           /\ \A d \in Actors \ {c} : op'[d] = op[d]
<1> DEFINE o == [op[c] EXCEPT !.at = step]
<1>1. op' = [op EXCEPT ![c] = o]
  BY DEF Goto, StateInv, OpsTyped
<1> HIDE DEF o
<1>2. op'[c] = o /\ op' = [op EXCEPT ![c] = op'[c]] /\ \A d \in Actors \ {c} : op'[d] = op[d]
  BY <1>1, ReplacedOp
<1> QED
  BY <1>2 DEF o

\* The next step of each kind of operation.
LEMMA NextStep ==
    ASSUME NEW o, NEW step, NEW p, p = [o EXCEPT !.at = step]
    PROVE  /\ o \in DeployOps /\ step = "persist" => p \in DeployOps /\ p \in Ops
           /\ o \in DeleteOps /\ step = "persist" => p \in DeleteOps /\ p \in Ops
           /\ o \in StartOps /\ step \in {"enqueue", "persist", "reply"} =>
                p \in StartOps /\ p \in Ops /\ p.inst = o.inst /\ p.row = o.row
           /\ o \in CompleteOps /\ step \in {"enqueue", "persist", "reply"} =>
                /\ p \in CompleteOps /\ p \in Ops
                /\ p.inst = o.inst /\ p.task = o.task /\ p.row = o.row
           /\ o \in RunningOps /\ step \in {"persist", "reply"} =>
                /\ p \in RunningOps /\ p \in Ops
                /\ p.inst = o.inst /\ p.job = o.job /\ p.row = o.row
           /\ o \in FinishOps /\ step \in {"persist", "reply"} =>
                p \in FinishOps /\ p \in Ops /\ p.job = o.job
<1>1. o \in DeployOps /\ step = "persist" => p \in DeployOps
  BY DEF DeployOps
<1>2. o \in DeleteOps /\ step = "persist" => p \in DeleteOps
  BY DEF DeleteOps
<1>3. o \in StartOps /\ step \in {"enqueue", "persist", "reply"} =>
        p \in StartOps /\ p.inst = o.inst /\ p.row = o.row
  BY DEF StartOps
<1>4. o \in CompleteOps /\ step \in {"enqueue", "persist", "reply"} =>
        p \in CompleteOps /\ p.inst = o.inst /\ p.task = o.task /\ p.row = o.row
  BY DEF CompleteOps
<1>5. o \in RunningOps /\ step \in {"persist", "reply"} =>
        p \in RunningOps /\ p.inst = o.inst /\ p.job = o.job /\ p.row = o.row
  BY DEF RunningOps
<1>6. o \in FinishOps /\ step \in {"persist", "reply"} => p \in FinishOps /\ p.job = o.job
  BY DEF FinishOps
<1> QED
  BY <1>1, <1>2, <1>3, <1>4, <1>5, <1>6 DEF Ops

\* Deploy takes the next version, and goes on to its file.
LEMMA DeployMoves ==
    ASSUME StateInv, NEW c \in Clients, NEW k \in Keys, NEW d \in Definitions, Deploy(c, k, d)
    PROVE  Moves(c)
<1> DEFINE v == latestVersionLocked(mem, k) + 1
           o == [kind |-> "deploy", at |-> "xml", key |-> k, ver |-> v, def |-> d]
<1>1. /\ server = "up" /\ v \in Versions /\ mem' = InsertProcessVersion(mem, k, v, d)
      /\ UNCHANGED <<store, yaml, xml, server>>
      /\ IF store = "memory" THEN op' = op ELSE op' = [op EXCEPT ![c] = o]
  BY DEF Deploy, StoreVersion, IsIdle, Begin
<1> HIDE DEF v
<1>2. mem' \in Tables /\ Grows(mem, mem') /\ JobsLinked(mem')
  BY <1>1, InsertTables, InsertGrows DEF StateInv, TablesTyped
<1>3. o \in Ops /\ Plays(c, o) /\ Linked(mem', o)
  BY <1>1 DEF Ops, DeployOps, Plays, Linked
<1> HIDE DEF o
<1>4. c \in Actors
  BY DEF Actors
<1>5. CASE store = "memory"
  <2>1. op' = op /\ op[c] \in Ops /\ Plays(c, op[c]) /\ Linked(mem', op[c])
    BY <1>1, <1>2, <1>4, <1>5, StillLinked DEF StateInv, OpsTyped
  <2> QED
    BY <1>1, <1>2, <1>4, <2>1 DEF Moves, StateInv, TablesTyped, OpsTyped
<1>6. CASE store # "memory"
  BY <1>1, <1>2, <1>3, <1>4, <1>6, ReplacedOp DEF Moves, StateInv, TablesTyped
<1> QED
  BY <1>5, <1>6

\* The database store has read the largest version.
LEMMA ReadVersionMoves ==
    ASSUME StateInv, NEW c \in Clients, NEW k \in Keys, NEW d \in Definitions,
           ReadVersion(c, k, d)
    PROVE  Moves(c)
<1> DEFINE v == latestVersionLocked(mem, k) + 1
           o == [kind |-> "deploy", at |-> "insert", key |-> k, ver |-> v, def |-> d]
<1>1. server = "up" /\ UNCHANGED <<store, mem, yaml, xml, server>> /\ op' = [op EXCEPT ![c] = o]
  BY DEF ReadVersion, IsIdle, Begin
<1>2. v \in Versions
  <2>1. latestVersionLocked(mem, k) \in Nat /\ latestVersionLocked(mem, k) < MaxVersion
    BY NextVersion DEF ReadVersion, StateInv, TablesTyped
  <2> QED
    BY <2>1, MemoryStoreAssumption DEF Versions, MemoryStoreAssumption
<1> HIDE DEF v
<1>3. o \in Ops /\ Plays(c, o) /\ Linked(mem', o)
  BY <1>2 DEF Ops, DeployOps, Plays, Linked
<1> HIDE DEF o
<1>4. mem' \in Tables /\ Grows(mem, mem') /\ JobsLinked(mem')
  BY <1>1, SameRows DEF StateInv, TablesTyped
<1> QED
  BY <1>1, <1>3, <1>4, ReplacedOp DEF Moves, StateInv, TablesTyped, Actors

\* No operation in progress.
LEMMA IdleOp ==
    ASSUME NEW c, NEW m
    PROVE  Idle \in Ops /\ Plays(c, Idle) /\ Linked(m, Idle) /\ Idle.kind = "idle" /\ Idle.at = "idle"
BY DEF Ops, Idle, Plays, Linked

\* The row of the database store is inserted, or refused.
LEMMA InsertVersionMoves ==
    ASSUME StateInv, NEW c \in Actors, InsertVersion(c)
    PROVE  Moves(c)
<1>1. server = "up" /\ op[c] \in DeployOps
  BY OpKinds DEF InsertVersion, At, StateInv, OpsTyped
<1>2. op' = [op EXCEPT ![c] = Idle] /\ UNCHANGED <<store, yaml, xml, server>>
  BY DEF InsertVersion, Return, UNCHANGED_Disk
<1>3. mem' \in Tables /\ Grows(mem, mem') /\ JobsLinked(mem')
  <2>1. CASE mem' = mem
    BY <2>1, SameRows DEF StateInv, TablesTyped
  <2>2. CASE mem' = InsertProcessVersion(mem, op[c].key, op[c].ver, op[c].def)
    <3>1. op[c].key \in Keys /\ op[c].ver \in Versions /\ op[c].def \in Definitions
      BY <1>1 DEF DeployOps
    <3> QED
      BY <2>2, <3>1, InsertTables, InsertGrows DEF StateInv, TablesTyped
  <2> QED
    BY <2>1, <2>2 DEF InsertVersion
<1>4. xml' \in [Keys \X Versions -> Definitions \cup {NoDef}]
  BY <1>2 DEF StateInv, TablesTyped
<1> QED
  BY <1>1, <1>2, <1>3, <1>4, ReplacedOp, IdleOp DEF Moves

\* The definition file is there.
LEMMA WriteXMLMoves ==
    ASSUME StateInv, NEW c \in Actors, writeProcessXML(c)
    PROVE  Moves(c)
<1>1. server = "up" /\ op[c] \in DeployOps /\ Goto(c, "persist")
  BY OpKinds DEF writeProcessXML, At, StateInv, OpsTyped
<1>2. /\ UNCHANGED <<store, mem, yaml, server>>
      /\ xml' = [xml EXCEPT ![<<op[c].key, op[c].ver>>] = op[c].def]
  BY DEF writeProcessXML
<1>3. mem' \in Tables /\ Grows(mem, mem') /\ JobsLinked(mem')
  BY <1>2, SameRows DEF StateInv, TablesTyped
<1>4. xml' \in [Keys \X Versions -> Definitions \cup {NoDef}]
  BY <1>1, <1>2 DEF DeployOps, StateInv, TablesTyped
<1>5. op'[c] = [op[c] EXCEPT !.at = "persist"] /\ op' = [op EXCEPT ![c] = op'[c]]
  BY <1>1, GotoOp
<1>6. op'[c] \in DeployOps /\ op'[c] \in Ops
  BY <1>1, <1>5, NextStep
<1>7. Plays(c, op'[c]) /\ Linked(mem', op'[c])
  BY <1>6 DEF Plays, Linked, DeployOps
<1> QED
  BY <1>1, <1>2, <1>3, <1>4, <1>5, <1>6, <1>7 DEF Moves

\* Delete clears the versions of its key, and goes on to its files.
LEMMA DeleteMoves ==
    ASSUME StateInv, NEW c \in Clients, NEW k \in Keys, Delete(c, k)
    PROVE  Moves(c)
<1> DEFINE o == [kind |-> "delete", at |-> "xml", key |-> k]
<1>1. /\ server = "up" /\ mem' = DeleteProcess(mem, k)
      /\ UNCHANGED <<store, yaml, xml, server>>
      /\ IF store # "file" THEN op' = op ELSE op' = [op EXCEPT ![c] = o]
  BY DEF Delete, IsIdle, Begin
<1>2. mem' \in Tables /\ Grows(mem, mem') /\ JobsLinked(mem')
  BY <1>1, DeleteTables, SameRows DEF StateInv, TablesTyped
<1>3. o \in Ops /\ Plays(c, o) /\ Linked(mem', o)
  BY DEF Ops, DeleteOps, Plays, Linked
<1> HIDE DEF o
<1>4. c \in Actors
  BY DEF Actors
<1>5. CASE store # "file"
  <2>1. op' = op /\ op[c] \in Ops /\ Plays(c, op[c]) /\ Linked(mem', op[c])
    BY <1>1, <1>2, <1>4, <1>5, StillLinked DEF StateInv, OpsTyped
  <2> QED
    BY <1>1, <1>2, <1>4, <2>1 DEF Moves, StateInv, TablesTyped, OpsTyped
<1>6. CASE store = "file"
  BY <1>1, <1>2, <1>3, <1>4, <1>6, ReplacedOp DEF Moves, StateInv, TablesTyped
<1> QED
  BY <1>5, <1>6

\* The definition files are gone.
LEMMA DeleteXMLMoves ==
    ASSUME StateInv, NEW c \in Actors, deleteProcessXML(c)
    PROVE  Moves(c)
<1>1. server = "up" /\ op[c] \in DeleteOps /\ Goto(c, "persist")
  BY OpKinds DEF deleteProcessXML, At, StateInv, OpsTyped
<1>2. /\ UNCHANGED <<store, mem, yaml, server>>
      /\ xml' = [p \in DOMAIN xml |-> IF p[1] = op[c].key THEN NoDef ELSE xml[p]]
  BY DEF deleteProcessXML
<1>3. mem' \in Tables /\ Grows(mem, mem') /\ JobsLinked(mem')
  BY <1>2, SameRows DEF StateInv, TablesTyped
<1>4. xml' \in [Keys \X Versions -> Definitions \cup {NoDef}]
  BY <1>2 DEF StateInv, TablesTyped
<1>5. op'[c] = [op[c] EXCEPT !.at = "persist"] /\ op' = [op EXCEPT ![c] = op'[c]]
  BY <1>1, GotoOp
<1>6. op'[c] \in DeleteOps /\ op'[c] \in Ops
  BY <1>1, <1>5, NextStep
<1>7. Plays(c, op'[c]) /\ Linked(mem', op'[c])
  BY <1>6 DEF Plays, Linked, DeleteOps
<1> QED
  BY <1>1, <1>2, <1>3, <1>4, <1>5, <1>6, <1>7 DEF Moves

\* A failing file operation ends its operation.
LEMMA XMLFailsMoves ==
    ASSUME StateInv, NEW c \in Actors, XMLFails(c)
    PROVE  Moves(c)
<1>1. /\ server = "up" /\ op' = [op EXCEPT ![c] = Idle]
      /\ UNCHANGED <<store, mem, yaml, server>>
  BY DEF XMLFails, Return
<1>2. xml' \in [Keys \X Versions -> Definitions \cup {NoDef}]
  <2>1. xml \in [Keys \X Versions -> Definitions \cup {NoDef}]
    BY DEF StateInv, TablesTyped
  <2>2. CASE xml' = xml
    BY <2>1, <2>2
  <2>3. CASE \E V \in SUBSET Versions :
               xml' = [p \in DOMAIN xml |->
                         IF p[1] = op[c].key /\ p[2] \in V THEN NoDef ELSE xml[p]]
    BY <2>1, <2>3
  <2> QED
    BY <2>2, <2>3 DEF XMLFails
<1>3. mem' \in Tables /\ Grows(mem, mem') /\ JobsLinked(mem')
  BY <1>1, SameRows DEF StateInv, TablesTyped
<1> QED
  BY <1>1, <1>2, <1>3, ReplacedOp, IdleOp DEF Moves

\* StartProcess has its definition.
LEMMA BeginStartMoves ==
    ASSUME StateInv, NEW c \in Clients, NEW i \in Instances, NEW k \in Keys, BeginStart(c, i, k)
    PROVE  Moves(c)
<1> DEFINE row == [status |-> "pending", active |-> <<>>, lock |-> 0, def |-> GetProcess(mem, k)]
           o == [kind |-> "start", at |-> "enter", inst |-> i, row |-> row]
<1>1. server = "up" /\ UNCHANGED <<store, mem, yaml, xml, server>> /\ op' = [op EXCEPT ![c] = o]
  BY DEF BeginStart, IsIdle, Begin
<1>2. GetProcess(mem, k) \in Definitions
  BY NextVersion DEF BeginStart, StateInv, TablesTyped
<1>3. row \in InstanceRow
  BY <1>2 DEF InstanceRow
<1> HIDE DEF row
<1>4. o \in Ops /\ Plays(c, o) /\ Linked(mem', o)
  BY <1>3 DEF Ops, StartOps, Plays, Linked
<1> HIDE DEF o
<1>5. mem' \in Tables /\ Grows(mem, mem') /\ JobsLinked(mem')
  BY <1>1, SameRows DEF StateInv, TablesTyped
<1> QED
  BY <1>1, <1>4, <1>5, ReplacedOp DEF Moves, StateInv, TablesTyped, Actors

\* The instance is in the tables, and its job is next.
LEMMA CreateInstanceMoves ==
    ASSUME StateInv, NEW c \in Actors, CreateInstance(c)
    PROVE  Moves(c)
<1>1. server = "up" /\ op[c] \in StartOps /\ Goto(c, "enqueue")
  BY OpKinds DEF CreateInstance, At, StateInv, OpsTyped
<1>2. /\ UNCHANGED <<store, yaml, xml, server>>
      /\ mem' = CreateProcessInstance(mem, op[c].inst, op[c].row)
  BY DEF CreateInstance, UNCHANGED_Disk
<1>3. op[c].inst \in Instances /\ op[c].row \in InstanceRow
  BY <1>1 DEF StartOps
<1>4. mem' \in Tables /\ Grows(mem, mem') /\ JobsLinked(mem')
  BY <1>2, <1>3, InstanceTables, CreateGrows DEF StateInv, TablesTyped
<1>5. mem'.insts[op[c].inst] # NoRow
  <2>1. mem'.insts = [mem.insts EXCEPT ![op[c].inst] = op[c].row]
    BY <1>2, <1>3, InstanceTables DEF StateInv, TablesTyped
  <2>2. mem.insts \in [Instances -> InstanceRow \cup {NoRow}]
    BY DEF StateInv, TablesTyped, Tables
  <2> QED
    BY <1>3, <2>1, <2>2, MemoryStoreAssumption DEF MemoryStoreAssumption
<1>6. op'[c] = [op[c] EXCEPT !.at = "enqueue"] /\ op' = [op EXCEPT ![c] = op'[c]]
  BY <1>1, GotoOp
<1>7. op'[c] \in StartOps /\ op'[c] \in Ops /\ op'[c].inst = op[c].inst
  BY <1>1, <1>6, NextStep
<1>8. Plays(c, op'[c]) /\ Linked(mem', op'[c])
  BY <1>5, <1>7 DEF Plays, Linked, StartOps
<1> QED
  BY <1>1, <1>2, <1>4, <1>6, <1>7, <1>8 DEF Moves, StateInv, TablesTyped

\* CompleteTask has read the row of its instance.
LEMMA BeginCompleteMoves ==
    ASSUME StateInv, NEW c \in Clients, NEW i \in Instances, NEW t \in Tasks,
           BeginComplete(c, i, t)
    PROVE  Moves(c)
<1> DEFINE o == [kind |-> "complete", at |-> "enter", inst |-> i, task |-> t,
                 row |-> mem.insts[i]]
<1>1. /\ server = "up" /\ UNCHANGED <<store, mem, yaml, xml, server>>
      /\ op' = [op EXCEPT ![c] = o] /\ mem.insts[i] # NoRow
  BY DEF BeginComplete, IsIdle, Begin
<1>2. mem.insts[i] \in InstanceRow
  BY <1>1 DEF StateInv, TablesTyped, Tables
<1>3. o \in Ops /\ Plays(c, o) /\ Linked(mem', o)
  BY <1>1, <1>2 DEF Ops, CompleteOps, Plays, Linked
<1> HIDE DEF o
<1>4. mem' \in Tables /\ Grows(mem, mem') /\ JobsLinked(mem')
  BY <1>1, SameRows DEF StateInv, TablesTyped
<1> QED
  BY <1>1, <1>3, <1>4, ReplacedOp DEF Moves, StateInv, TablesTyped, Actors

\* The row in hand loses the task; the operation is otherwise the same.
LEMMA CloseOp ==
    ASSUME StateInv, NEW c \in Actors, CloseTask(c)
    PROVE  /\ op' = [op EXCEPT ![c] = op'[c]]
           /\ op'[c] \in CompleteOps /\ op'[c] \in Ops /\ op'[c].at = "route"
           /\ op'[c].inst = op[c].inst /\ op'[c].task = op[c].task
           /\ op'[c].row \in InstanceRow
           /\ op'[c].row.active = Removed(op[c].row.active, op[c].task)
           /\ op'[c].row.lock = op[c].row.lock /\ op'[c].row.status = op[c].row.status
<1> DEFINE r == [op[c].row EXCEPT !.active = Removed(op[c].row.active, op[c].task)]
           o == [[op[c] EXCEPT !.at = "route"] EXCEPT !.row = r]
<1>1. op[c] \in CompleteOps
  BY OpKinds DEF CloseTask, At, StateInv, OpsTyped
<1>2. op' = [op EXCEPT ![c] = o]
  BY <1>1 DEF CloseTask, StateInv, OpsTyped, CompleteOps
<1>3. op[c].row \in InstanceRow /\ op[c].row.active \in Seq(Tasks)
  BY <1>1 DEF CompleteOps, InstanceRow
<1>4. Removed(op[c].row.active, op[c].task) \in Seq(Tasks)
  BY <1>3, CompactedList
<1>5. /\ r \in InstanceRow /\ r.lock = op[c].row.lock /\ r.status = op[c].row.status
      /\ r.active = Removed(op[c].row.active, op[c].task)
  BY <1>3, <1>4 DEF InstanceRow
<1> HIDE DEF r
<1>6. /\ o \in CompleteOps /\ o.row = r /\ o.inst = op[c].inst /\ o.task = op[c].task
      /\ o.at = "route"
  BY <1>1, <1>5 DEF CompleteOps
<1> HIDE DEF o
<1>7. op'[c] = o /\ op' = [op EXCEPT ![c] = op'[c]]
  BY <1>2, ReplacedOp
<1> QED
  BY <1>5, <1>6, <1>7 DEF Ops

\* The activity is completed, and the row is next.
LEMMA CloseTaskMoves ==
    ASSUME StateInv, NEW c \in Actors, CloseTask(c)
    PROVE  Moves(c)
<1> DEFINE i == op[c].inst
           t == op[c].task
<1>1. server = "up" /\ op[c] \in CompleteOps
  BY OpKinds DEF CloseTask, At, StateInv, OpsTyped
<1>2. /\ UNCHANGED <<store, yaml, xml, server>>
      /\ mem' = ShowCompacted(UpdateActivityInstance(mem, i, t, "completed"), i, t)
  BY DEF CloseTask, UNCHANGED_Disk
<1>3. i \in Instances /\ t \in Tasks /\ mem.insts[i] # NoRow
  BY <1>1 DEF CompleteOps, StateInv, OpsTyped, Linked
<1> HIDE DEF i, t
<1>4. mem' \in Tables /\ Grows(mem, mem') /\ JobsLinked(mem')
  BY <1>2, <1>3, CloseGrows DEF StateInv, TablesTyped
<1>5. /\ op' = [op EXCEPT ![c] = op'[c]] /\ op'[c] \in CompleteOps /\ op'[c] \in Ops
      /\ op'[c].inst = i
  BY CloseOp DEF i
<1>6. Plays(c, op'[c]) /\ Linked(mem', op'[c])
  BY <1>3, <1>4, <1>5 DEF Plays, Linked, CompleteOps, Grows
<1> QED
  BY <1>1, <1>2, <1>4, <1>5, <1>6 DEF Moves, StateInv, TablesTyped

\* The row is written, and the job is next.
LEMMA WriteInstanceMoves ==
    ASSUME StateInv, NEW c \in Actors, WriteInstance(c)
    PROVE  Moves(c)
<1>1. server = "up" /\ op[c] \in CompleteOps /\ Goto(c, "enqueue")
  BY OpKinds DEF WriteInstance, At, StateInv, OpsTyped
<1>2. /\ UNCHANGED <<store, yaml, xml, server>>
      /\ mem' = UpdateProcessInstance(mem, op[c].inst, op[c].row)
  BY DEF WriteInstance, UNCHANGED_Disk
<1>3. op[c].inst \in Instances /\ op[c].row \in InstanceRow /\ mem.insts[op[c].inst] # NoRow
  BY <1>1 DEF CompleteOps, StateInv, OpsTyped, Linked
<1>4. mem' \in Tables /\ Grows(mem, mem') /\ JobsLinked(mem')
  BY <1>2, <1>3, UpdateTables, UpdateGrows DEF StateInv, TablesTyped
<1>5. op'[c] = [op[c] EXCEPT !.at = "enqueue"] /\ op' = [op EXCEPT ![c] = op'[c]]
  BY <1>1, GotoOp
<1>6. op'[c] \in CompleteOps /\ op'[c] \in Ops /\ op'[c].inst = op[c].inst
  BY <1>1, <1>5, NextStep
<1>7. Plays(c, op'[c]) /\ Linked(mem', op'[c])
  BY <1>3, <1>4, <1>6 DEF Plays, Linked, CompleteOps, Grows
<1> QED
  BY <1>1, <1>2, <1>4, <1>5, <1>6, <1>7 DEF Moves, StateInv, TablesTyped

\* The task whose job a transaction enqueues.
JobTask(o) == IF o.kind = "start" THEN "start" ELSE o.task

\* The job is in the tables, and the file or the answer is next.
LEMMA EnqueueMoves ==
    ASSUME StateInv, NEW c \in Actors, Enqueue(c)
    PROVE  /\ Moves(c)
           /\ op[c].inst \in Instances /\ JobTask(op[c]) \in Tasks \cup {"start"}
           /\ mem' = EnqueueJob(mem, op[c].inst, JobTask(op[c]))
           /\ op'[c].kind = op[c].kind /\ op'[c].inst = op[c].inst
           /\ op[c].kind = "complete" => op'[c].task = op[c].task
           /\ op'[c].at = IF store = "file" THEN "persist" ELSE "reply"
<1> DEFINE next == IF store = "file" THEN "persist" ELSE "reply"
<1>1. /\ server = "up" /\ Goto(c, next) /\ UNCHANGED <<store, yaml, xml, server>>
      /\ mem' = EnqueueJob(mem, op[c].inst, JobTask(op[c]))
  BY DEF Enqueue, JobTask, UNCHANGED_Disk
<1>2. next \in {"persist", "reply"}
  OBVIOUS
<1> HIDE DEF next
<1>3. op[c] \in StartOps \/ op[c] \in CompleteOps
  BY OpKinds DEF Enqueue, StateInv, OpsTyped
<1>4. /\ op[c].inst \in Instances /\ JobTask(op[c]) \in Tasks \cup {"start"}
      /\ mem.insts[op[c].inst] # NoRow
  BY <1>3 DEF Enqueue, StartOps, CompleteOps, JobTask, StateInv, OpsTyped, Linked
<1>5. mem' \in Tables /\ Grows(mem, mem') /\ JobsLinked(mem')
  BY <1>1, <1>4, EnqueueTables, EnqueueGrows DEF StateInv, TablesTyped
<1>6. op'[c] = [op[c] EXCEPT !.at = next] /\ op' = [op EXCEPT ![c] = op'[c]]
  BY <1>1, GotoOp
<1>7. /\ op'[c] \in Ops /\ op'[c].inst = op[c].inst /\ op'[c].at = next
      /\ op'[c] \in StartOps \/ (op'[c] \in CompleteOps /\ op'[c].task = op[c].task)
      /\ op'[c].kind = op[c].kind
  <2>1. CASE op[c] \in StartOps
    <3>1. op'[c] \in StartOps /\ op'[c] \in Ops /\ op'[c].inst = op[c].inst
      BY <1>2, <1>6, <2>1, NextStep
    <3>2. op'[c].at = next
      BY <1>6, <2>1 DEF StartOps
    <3> QED
      BY <2>1, <3>1, <3>2 DEF StartOps
  <2>2. CASE op[c] \in CompleteOps
    <3>1. /\ op'[c] \in CompleteOps /\ op'[c] \in Ops /\ op'[c].inst = op[c].inst
          /\ op'[c].task = op[c].task
      BY <1>2, <1>6, <2>2, NextStep
    <3>2. op'[c].at = next
      BY <1>6, <2>2 DEF CompleteOps
    <3> QED
      BY <2>2, <3>1, <3>2 DEF CompleteOps
  <2> QED
    BY <1>3, <2>1, <2>2
<1>8. Plays(c, op'[c]) /\ Linked(mem', op'[c])
  BY <1>4, <1>5, <1>7 DEF Plays, Linked, StartOps, CompleteOps, Grows
<1>9. Moves(c)
  BY <1>1, <1>5, <1>6, <1>7, <1>8 DEF Moves, StateInv, TablesTyped
<1>10. op[c].kind = "complete" => op'[c].task = op[c].task
  BY <1>7 DEF StartOps, CompleteOps
<1> QED
  BY <1>1, <1>4, <1>7, <1>9, <1>10 DEF next

\* The worker has the oldest pending job.
LEMMA ClaimMoves ==
    ASSUME StateInv, Claim
    PROVE  /\ Moves(Worker)
           /\ op'[Worker] \in ClaimOps /\ op'[Worker].job = NextJob(mem)
           /\ op'[Worker].at = IF store = "file" THEN "persist" ELSE "reply"
<1> DEFINE n == NextJob(mem)
           o == [kind |-> "claim", at |-> IF store = "file" THEN "persist" ELSE "reply", job |-> n]
<1>1. /\ server = "up" /\ UNCHANGED <<store, yaml, xml, server>>
      /\ mem' = SetJob(mem, n, "running") /\ op' = [op EXCEPT ![Worker] = o]
  BY DEF Claim, ClaimNextJob, IsIdle, Begin, UNCHANGED_Disk
<1>2. n \in DOMAIN mem.jobs
  BY NextJobFacts DEF Claim, StateInv, TablesTyped
<1> HIDE DEF n
<1>3. mem' \in Tables /\ Grows(mem, mem') /\ JobsLinked(mem')
  BY <1>1, <1>2, SetJobTables, SetJobGrows DEF StateInv, TablesTyped
<1>4. n \in Nat
  BY <1>2, JobFields DEF StateInv, TablesTyped
<1>5. /\ o \in ClaimOps /\ o.job = n
      /\ o.at = IF store = "file" THEN "persist" ELSE "reply"
  BY <1>4 DEF ClaimOps
<1> HIDE DEF o
<1>6. o \in Ops /\ Plays(Worker, o) /\ Linked(mem', o)
  BY <1>2, <1>3, <1>5 DEF Ops, Plays, Linked, Grows, ClaimOps
<1>7. op'[Worker] = o /\ op' = [op EXCEPT ![Worker] = op'[Worker]]
  BY <1>1, ReplacedOp DEF Actors
<1> QED
  BY <1>1, <1>3, <1>5, <1>6, <1>7 DEF Moves, StateInv, TablesTyped, n

\* The job of the worker and its instance.
LEMMA JobInHand ==
    ASSUME StateInv, NEW c \in Actors, op[c].kind \in {"claim", "job", "finish"}
    PROVE  /\ c = Worker /\ op[c].job \in DOMAIN mem.jobs /\ op[c].job \in Nat
           /\ JobOf(c).inst \in Instances /\ JobOf(c).task \in Tasks \cup {"start"}
           /\ JobOf(c) \in JobRow
           /\ mem.insts[JobOf(c).inst] \in InstanceRow
<1>1. c = Worker /\ op[c].job \in DOMAIN mem.jobs
  BY DEF StateInv, OpsTyped, Plays, Linked
<1>2. /\ op[c].job \in Nat /\ JobOf(c) \in JobRow
      /\ JobOf(c).inst \in Instances /\ JobOf(c).task \in Tasks \cup {"start"}
  BY <1>1, JobFields DEF JobOf, StateInv, TablesTyped
<1>3. mem.insts[JobOf(c).inst] # NoRow
  BY <1>1 DEF JobOf, JobsLinked, StateInv, TablesTyped
<1> QED
  BY <1>1, <1>2, <1>3 DEF StateInv, TablesTyped, Tables

\* A job's transaction reads the row of its instance, may write it, and goes on with it.
LEMMA RunsMoves ==
    ASSUME StateInv, NEW c \in Actors, op[c].kind = "job", server = "up",
           NEW row \in InstanceRow, NEW i, i = JobOf(c).inst, NEW step \in {"open", "read"},
           NEW hand \in {row, Bumped(row)},
           mem' = mem \/ mem' = UpdateProcessInstance(mem, i, row),
           op' = [op EXCEPT ![c] = [kind |-> "job", at |-> step, job |-> op[c].job,
                                    inst |-> i, row |-> hand]],
           UNCHANGED_Disk
    PROVE  Moves(c)
<1> DEFINE o == [kind |-> "job", at |-> step, job |-> op[c].job, inst |-> i, row |-> hand]
<1>1. c = Worker /\ op[c].job \in DOMAIN mem.jobs /\ op[c].job \in Nat /\ i \in Instances
  BY JobInHand
<1>2. mem.insts[i] # NoRow
  BY <1>1 DEF JobOf, JobsLinked, StateInv, TablesTyped
<1>3. mem' \in Tables /\ Grows(mem, mem') /\ JobsLinked(mem')
  <2>1. CASE mem' = mem
    BY <2>1, SameRows DEF StateInv, TablesTyped
  <2>2. CASE mem' = UpdateProcessInstance(mem, i, row)
    BY <1>1, <2>2, UpdateTables, UpdateGrows DEF StateInv, TablesTyped
  <2> QED
    BY <2>1, <2>2
<1>4. hand \in InstanceRow
  BY BumpedRow
<1>5. o \in RunningOps /\ o.job = op[c].job /\ o.inst = i
  BY <1>1, <1>4 DEF RunningOps
<1>6. op' = [op EXCEPT ![c] = o]
  OBVIOUS
<1> HIDE DEF o
<1>7. o \in Ops /\ Plays(c, o) /\ Linked(mem', o)
  BY <1>1, <1>2, <1>3, <1>5 DEF Ops, Plays, Linked, Grows, RunningOps
<1>8. op'[c] = o /\ op' = [op EXCEPT ![c] = op'[c]]
  BY <1>6, ReplacedOp
<1> QED
  BY <1>3, <1>7, <1>8 DEF Moves, StateInv, TablesTyped, UNCHANGED_Disk

\* The start job writes its instance and opens the tasks.
LEMMA RunStartJobMoves ==
    ASSUME StateInv, NEW c \in Actors, RunStartJob(c)
    PROVE  Moves(c)
<1> DEFINE i == JobOf(c).inst
           row == [mem.insts[i] EXCEPT !.status = "running"]
<1>1. op[c].kind = "job" /\ server = "up"
  BY DEF RunStartJob, At
<1>2. mem.insts[i] \in InstanceRow
  BY <1>1, JobInHand
<1>3. row \in InstanceRow
  BY <1>2 DEF InstanceRow
<1>4. /\ mem' = UpdateProcessInstance(mem, i, row)
      /\ op' = [op EXCEPT ![c] = [kind |-> "job", at |-> "open", job |-> op[c].job,
                                  inst |-> i, row |-> Bumped(row)]]
      /\ UNCHANGED_Disk
  BY DEF RunStartJob
<1> HIDE DEF row
<1> QED
  BY <1>1, <1>3, <1>4, RunsMoves

\* A continue job reads its instance.
LEMMA RunContinueJobMoves ==
    ASSUME StateInv, NEW c \in Actors, RunContinueJob(c)
    PROVE  Moves(c)
<1> DEFINE i == JobOf(c).inst
           row == mem.insts[i]
<1>1. op[c].kind = "job" /\ server = "up"
  BY DEF RunContinueJob, At
<1>2. row \in InstanceRow
  BY <1>1, JobInHand
<1>3. /\ mem' = mem
      /\ op' = [op EXCEPT ![c] = [kind |-> "job", at |-> "read", job |-> op[c].job,
                                  inst |-> i, row |-> row]]
      /\ UNCHANGED_Disk
  BY DEF RunContinueJob
<1> HIDE DEF row
<1> QED
  BY <1>1, <1>2, <1>3, RunsMoves

\* Where a job ends, its row is next.
LEMMA FinishOp ==
    ASSUME StateInv, NEW c \in Actors, op[c].kind \in {"claim", "job", "finish"}, NEW b \in BOOLEAN,
           NEW o, o = [kind |-> "finish", at |-> "enter", job |-> op[c].job, ok |-> b]
    PROVE  o \in Ops /\ o \in FinishOps /\ o.job = op[c].job /\ Plays(c, o) /\ Linked(mem, o)
<1>1. c = Worker /\ op[c].job \in DOMAIN mem.jobs /\ op[c].job \in Nat
  BY JobInHand
<1>2. o \in FinishOps /\ o.job = op[c].job
  BY <1>1 DEF FinishOps
<1> QED
  BY <1>1, <1>2 DEF Ops, Plays, Linked, FinishOps

\* A job whose instance does not run goes on to its row.
LEMMA NotRunningMoves ==
    ASSUME StateInv, NEW c \in Actors, NotRunning(c)
    PROVE  Moves(c)
<1> DEFINE o == [kind |-> "finish", at |-> "enter", job |-> op[c].job, ok |-> FALSE]
<1>1. /\ op[c].kind = "job" /\ server = "up" /\ op' = [op EXCEPT ![c] = o]
      /\ UNCHANGED <<store, mem, yaml, xml, server>>
  BY DEF NotRunning, At, Begin, UNCHANGED_Disk
<1>2. o \in Ops /\ Plays(c, o) /\ Linked(mem, o)
  BY <1>1, FinishOp
<1> HIDE DEF o
<1>3. mem' \in Tables /\ Grows(mem, mem') /\ JobsLinked(mem')
  BY <1>1, SameRows DEF StateInv, TablesTyped
<1> QED
  BY <1>1, <1>2, <1>3, ReplacedOp DEF Moves, StateInv, TablesTyped

\* The transaction of a job in progress.
LEMMA RunningJob ==
    ASSUME StateInv, NEW c \in Actors, op[c].kind = "job", op[c].at # "enter"
    PROVE  /\ c = Worker /\ op[c] \in RunningOps
           /\ op[c].inst \in Instances /\ op[c].row \in InstanceRow
           /\ op[c].job \in DOMAIN mem.jobs /\ mem.insts[op[c].inst] # NoRow
           /\ mem.insts[op[c].inst] \in InstanceRow
<1>1. op[c] \in RunningOps
  BY OpKinds DEF StateInv, OpsTyped
<1>2. op[c].inst \in Instances /\ op[c].row \in InstanceRow
  BY <1>1 DEF RunningOps
<1>3. c = Worker /\ op[c].job \in DOMAIN mem.jobs /\ mem.insts[op[c].inst] # NoRow
  BY DEF StateInv, OpsTyped, Plays, Linked
<1> QED
  BY <1>1, <1>2, <1>3 DEF StateInv, TablesTyped, Tables

\* Such an operation with another step and row.
Stepped(o, step, row) == [[o EXCEPT !.at = step] EXCEPT !.row = row]

\* It still refers to the same job and instance.
LEMMA RunningOp ==
    ASSUME StateInv, NEW c \in Actors, op[c].kind = "job", op[c].at # "enter",
           NEW step \in {"open", "save", "read", "end", "persist", "reply"},
           NEW row \in InstanceRow, NEW o, o = Stepped(op[c], step, row)
    PROVE  /\ o \in RunningOps /\ o \in Ops /\ Plays(c, o) /\ Linked(mem, o)
           /\ o.inst = op[c].inst /\ o.row = row /\ o.at = step /\ o.job = op[c].job
<1>1. /\ c = Worker /\ op[c] \in RunningOps
      /\ op[c].job \in DOMAIN mem.jobs /\ mem.insts[op[c].inst] # NoRow
  BY RunningJob
<1>2. /\ o \in RunningOps /\ o.inst = op[c].inst /\ o.row = row /\ o.at = step
      /\ o.job = op[c].job
  BY <1>1 DEF RunningOps, Stepped
<1> QED
  BY <1>1, <1>2 DEF Ops, Plays, Linked, RunningOps

\* One activity is opened, and the row in hand lists it.
LEMMA OpenTaskOp ==
    ASSUME StateInv, NEW c \in Actors, NEW t \in Tasks, OpenTask(c, t)
    PROVE  /\ Moves(c) /\ op'[c] \in RunningOps /\ op'[c].at = "save"
           /\ op'[c].inst = op[c].inst /\ op'[c].job = op[c].job
           /\ op'[c].row.active = Append(op[c].row.active, t)
           /\ op'[c].row.lock = op[c].row.lock /\ op'[c].row.status = op[c].row.status
           /\ mem' = CreateActivityInstance(mem, op[c].inst, t)
           /\ mem.acts[op[c].inst][t] = "none"
<1> DEFINE i == op[c].inst
           row == [op[c].row EXCEPT !.active = Append(@, t)]
           o == Stepped(op[c], "save", row)
<1>1. /\ server = "up" /\ op[c].kind = "job" /\ op[c].at = "open" /\ mem.acts[i][t] = "none"
      /\ mem' = CreateActivityInstance(mem, i, t)
      /\ UNCHANGED <<store, yaml, xml, server>>
  BY DEF OpenTask, At, Unopened, UNCHANGED_Disk
<1>2. op[c] \in RunningOps /\ i \in Instances /\ op[c].row \in InstanceRow
  BY <1>1, RunningJob
<1>3. op' = [op EXCEPT ![c] = o]
  BY <1>2 DEF OpenTask, StateInv, OpsTyped, RunningOps, Stepped
<1>10. Append(op[c].row.active, t) \in Seq(Tasks)
  BY <1>2 DEF InstanceRow
<1>4. /\ row \in InstanceRow /\ row.active = Append(op[c].row.active, t)
      /\ row.lock = op[c].row.lock /\ row.status = op[c].row.status
  BY <1>2, <1>10 DEF InstanceRow
<1> HIDE DEF row
<1>5. /\ o \in RunningOps /\ o \in Ops /\ Plays(c, o) /\ Linked(mem, o)
      /\ o.inst = i /\ o.row = row /\ o.at = "save" /\ o.job = op[c].job
  BY <1>1, <1>4, RunningOp
<1> HIDE DEF o, i
<1>6. mem' \in Tables /\ Grows(mem, mem') /\ JobsLinked(mem')
  BY <1>1, <1>2, OpenGrows DEF StateInv, TablesTyped
<1>7. op'[c] = o /\ op' = [op EXCEPT ![c] = op'[c]] /\ Linked(mem', o)
  BY <1>3, <1>5, <1>6, ReplacedOp, StillLinked
<1>8. Moves(c)
  BY <1>1, <1>5, <1>6, <1>7 DEF Moves, StateInv, TablesTyped
<1> QED
  BY <1>1, <1>4, <1>5, <1>7, <1>8 DEF i

\* The row in hand is written, and bumped.
LEMMA SaveInstanceOp ==
    ASSUME StateInv, NEW c \in Actors, SaveInstance(c)
    PROVE  /\ Moves(c) /\ op'[c] \in RunningOps /\ op'[c].at = "open"
           /\ op'[c].inst = op[c].inst /\ op'[c].job = op[c].job
           /\ op'[c].row = Bumped(op[c].row)
<1> DEFINE i == op[c].inst
           row == Bumped(op[c].row)
           o == Stepped(op[c], "open", row)
<1>1. /\ server = "up" /\ op[c].kind = "job" /\ op[c].at = "save"
      /\ mem' = UpdateProcessInstance(mem, i, op[c].row)
      /\ UNCHANGED <<store, yaml, xml, server>>
  BY DEF SaveInstance, At, UNCHANGED_Disk
<1>2. op[c] \in RunningOps /\ i \in Instances /\ op[c].row \in InstanceRow
  BY <1>1, RunningJob
<1>3. op' = [op EXCEPT ![c] = o]
  BY <1>2 DEF SaveInstance, StateInv, OpsTyped, RunningOps, Stepped
<1>4. row \in InstanceRow
  BY <1>2, BumpedRow
<1> HIDE DEF row
<1>5. /\ o \in RunningOps /\ o \in Ops /\ Plays(c, o) /\ Linked(mem, o)
      /\ o.inst = i /\ o.row = row /\ o.at = "open" /\ o.job = op[c].job
  BY <1>1, <1>4, RunningOp
<1> HIDE DEF o, i
<1>6. mem' \in Tables /\ Grows(mem, mem') /\ JobsLinked(mem')
  BY <1>1, <1>2, UpdateTables, UpdateGrows DEF StateInv, TablesTyped
<1>7. op'[c] = o /\ op' = [op EXCEPT ![c] = op'[c]] /\ Linked(mem', o)
  BY <1>3, <1>5, <1>6, ReplacedOp, StillLinked
<1>8. Moves(c)
  BY <1>1, <1>5, <1>6, <1>7 DEF Moves, StateInv, TablesTyped
<1> QED
  BY <1>5, <1>7, <1>8 DEF i, row

\* completeElement writes the row that was read, and bumps it.
LEMMA CompleteElementOp ==
    ASSUME StateInv, NEW c \in Actors, completeElement(c)
    PROVE  /\ Moves(c) /\ op'[c] \in RunningOps /\ op'[c].at = "end"
           /\ op'[c].inst = op[c].inst /\ op'[c].job = op[c].job
           /\ op'[c].row = Bumped(op[c].row)
<1> DEFINE i == op[c].inst
           row == Bumped(op[c].row)
           o == Stepped(op[c], "end", row)
<1>1. /\ server = "up" /\ op[c].kind = "job" /\ op[c].at = "read"
      /\ mem' = UpdateProcessInstance(mem, i, op[c].row)
      /\ UNCHANGED <<store, yaml, xml, server>>
  BY DEF completeElement, At, UNCHANGED_Disk
<1>2. op[c] \in RunningOps /\ i \in Instances /\ op[c].row \in InstanceRow
  BY <1>1, RunningJob
<1>3. op' = [op EXCEPT ![c] = o]
  BY <1>2 DEF completeElement, StateInv, OpsTyped, RunningOps, Stepped
<1>4. row \in InstanceRow
  BY <1>2, BumpedRow
<1> HIDE DEF row
<1>5. /\ o \in RunningOps /\ o \in Ops /\ Plays(c, o) /\ Linked(mem, o)
      /\ o.inst = i /\ o.row = row /\ o.at = "end" /\ o.job = op[c].job
  BY <1>1, <1>4, RunningOp
<1> HIDE DEF o, i
<1>6. mem' \in Tables /\ Grows(mem, mem') /\ JobsLinked(mem')
  BY <1>1, <1>2, UpdateTables, UpdateGrows DEF StateInv, TablesTyped
<1>7. op'[c] = o /\ op' = [op EXCEPT ![c] = op'[c]] /\ Linked(mem', o)
  BY <1>3, <1>5, <1>6, ReplacedOp, StillLinked
<1>8. Moves(c)
  BY <1>1, <1>5, <1>6, <1>7 DEF Moves, StateInv, TablesTyped
<1> QED
  BY <1>5, <1>7, <1>8 DEF i, row

\* The transaction of a job is over, or the job's row is written.
LEMMA CommittedOp ==
    ASSUME StateInv, NEW c \in Actors, Committed(c),
           \/ op[c].kind = "job" /\ op[c].at # "enter"
           \/ op[c].kind = "finish"
    PROVE  /\ op' = [op EXCEPT ![c] = op'[c]]
           /\ op'[c] \in Ops /\ op'[c].kind = op[c].kind /\ op'[c].job = op[c].job
           /\ op'[c].at = IF store = "file" THEN "persist" ELSE "reply"
           /\ Plays(c, op'[c]) /\ Linked(mem, op'[c])
           /\ op[c].kind = "job" => op'[c].inst = op[c].inst /\ op'[c].row = op[c].row
<1> DEFINE next == IF store = "file" THEN "persist" ELSE "reply"
<1>1. next \in {"persist", "reply"} /\ Goto(c, next)
  BY DEF Committed
<1> HIDE DEF next
<1>2. op'[c] = [op[c] EXCEPT !.at = next] /\ op' = [op EXCEPT ![c] = op'[c]]
  BY <1>1, GotoOp
<1>3. CASE op[c].kind = "job" /\ op[c].at # "enter"
  <2>1. /\ c = Worker /\ op[c] \in RunningOps
        /\ op[c].job \in DOMAIN mem.jobs /\ mem.insts[op[c].inst] # NoRow
    BY <1>3, RunningJob
  <2>2. /\ op'[c] \in RunningOps /\ op'[c] \in Ops /\ op'[c].inst = op[c].inst
        /\ op'[c].job = op[c].job /\ op'[c].row = op[c].row
    BY <1>1, <1>2, <2>1, NextStep
  <2>3. op'[c].at = next
    BY <1>2, <2>1 DEF RunningOps
  <2>4. op'[c].kind = op[c].kind
    BY <2>1, <2>2 DEF RunningOps
  <2>5. Plays(c, op'[c]) /\ Linked(mem, op'[c])
    BY <1>3, <2>1, <2>2, <2>4 DEF Plays, Linked
  <2> QED
    BY <1>2, <2>2, <2>3, <2>4, <2>5 DEF next
<1>4. CASE op[c].kind = "finish"
  <2>1. c = Worker /\ op[c] \in FinishOps /\ op[c].job \in DOMAIN mem.jobs
    BY <1>4, OpKinds, JobInHand DEF StateInv, OpsTyped
  <2>2. op'[c] \in FinishOps /\ op'[c] \in Ops /\ op'[c].job = op[c].job
    BY <1>1, <1>2, <2>1, NextStep
  <2>3. op'[c].at = next
    BY <1>2, <2>1 DEF FinishOps
  <2>4. op'[c].kind = op[c].kind
    BY <2>1, <2>2 DEF FinishOps
  <2>5. Plays(c, op'[c]) /\ Linked(mem, op'[c])
    BY <1>4, <2>1, <2>2, <2>4 DEF Plays, Linked
  <2> QED
    BY <1>2, <1>4, <2>2, <2>3, <2>4, <2>5 DEF next
<1> QED
  BY <1>3, <1>4

\* The tables grow and the files stay while the operation goes on.
LEMMA GrowthMoves ==
    ASSUME StateInv, NEW c \in Actors, server = "up", server' = server, store' = store,
           yaml' = yaml, xml' = xml,
           mem' \in Tables, Grows(mem, mem'), JobsLinked(mem'),
           op' = [op EXCEPT ![c] = op'[c]], op'[c] \in Ops, Plays(c, op'[c]), Linked(mem, op'[c])
    PROVE  Moves(c)
<1>1. Linked(mem', op'[c])
  BY StillLinked
<1> QED
  BY <1>1 DEF Moves, StateInv, TablesTyped

\* A start job that has opened its tasks is committed.
LEMMA AllOpenedMoves ==
    ASSUME StateInv, NEW c \in Actors, AllOpened(c)
    PROVE  Moves(c)
<1>1. /\ server = "up" /\ op[c].kind = "job" /\ op[c].at # "enter" /\ Committed(c)
      /\ UNCHANGED <<store, mem, yaml, xml, server>>
  BY DEF AllOpened, At, UNCHANGED_Disk
<1>2. mem' \in Tables /\ Grows(mem, mem') /\ JobsLinked(mem')
  BY <1>1, SameRows DEF StateInv, TablesTyped
<1>3. /\ op' = [op EXCEPT ![c] = op'[c]] /\ op'[c] \in Ops
      /\ Plays(c, op'[c]) /\ Linked(mem, op'[c])
  BY <1>1, CommittedOp
<1> QED
  BY <1>1, <1>2, <1>3, GrowthMoves

\* A continue job that has reached the end event is committed.
LEMMA TryCompleteMoves ==
    ASSUME StateInv, NEW c \in Actors, tryCompleteProcess(c)
    PROVE  Moves(c)
<1> DEFINE i == op[c].inst
           row == [op[c].row EXCEPT !.status = "completed"]
<1>1. /\ server = "up" /\ op[c].kind = "job" /\ op[c].at # "enter" /\ Committed(c)
      /\ UNCHANGED <<store, yaml, xml, server>>
      /\ mem' = mem \/ mem' = UpdateProcessInstance(mem, i, row)
  BY DEF tryCompleteProcess, At, UNCHANGED_Disk
<1>2. i \in Instances /\ op[c].row \in InstanceRow
  BY <1>1, RunningJob
<1>3. row \in InstanceRow
  BY <1>2 DEF InstanceRow
<1> HIDE DEF row
<1>4. mem' \in Tables /\ Grows(mem, mem') /\ JobsLinked(mem')
  <2>1. CASE mem' = mem
    BY <2>1, SameRows DEF StateInv, TablesTyped
  <2>2. CASE mem' = UpdateProcessInstance(mem, i, row)
    BY <1>2, <1>3, <2>2, UpdateTables, UpdateGrows DEF StateInv, TablesTyped
  <2> QED
    BY <1>1, <2>1, <2>2
<1>5. /\ op' = [op EXCEPT ![c] = op'[c]] /\ op'[c] \in Ops
      /\ Plays(c, op'[c]) /\ Linked(mem, op'[c])
  BY <1>1, CommittedOp
<1> QED
  BY <1>1, <1>4, <1>5, GrowthMoves

\* The row of the job says how it went.
LEMMA FinishJobMoves ==
    ASSUME StateInv, NEW c \in Actors, FinishJob(c)
    PROVE  /\ Moves(c) /\ op[c].job \in DOMAIN mem.jobs
           /\ \E s \in {"done", "failed"} : mem' = SetJob(mem, op[c].job, s)
<1>1. /\ server = "up" /\ op[c].kind = "finish" /\ Committed(c)
      /\ UNCHANGED <<store, yaml, xml, server>>
      /\ \E s \in {"done", "failed"} : mem' = SetJob(mem, op[c].job, s)
  BY DEF FinishJob, At, UNCHANGED_Disk, CompleteJob, FailJob
<1>2. op[c].job \in DOMAIN mem.jobs
  BY <1>1, JobInHand
<1>3. mem' \in Tables /\ Grows(mem, mem') /\ JobsLinked(mem')
  BY <1>1, <1>2, SetJobTables, SetJobGrows DEF StateInv, TablesTyped
<1>4. /\ op' = [op EXCEPT ![c] = op'[c]] /\ op'[c] \in Ops
      /\ Plays(c, op'[c]) /\ Linked(mem, op'[c])
  BY <1>1, CommittedOp
<1> QED
  BY <1>1, <1>2, <1>3, <1>4, GrowthMoves

\* An operation that gets an error is over; the job's row is still to be written.
LEMMA AfterErrorOp ==
    ASSUME StateInv, NEW c \in Actors, AfterError(c)
    PROVE  /\ op' = [op EXCEPT ![c] = op'[c]] /\ op'[c] \in Ops
           /\ Plays(c, op'[c]) /\ Linked(mem, op'[c])
           /\ op[c].kind = "job" => op'[c] \in FinishOps /\ op'[c].at = "enter"
                                    /\ op'[c].job = op[c].job
           /\ op[c].kind # "job" => op'[c] = Idle
<1>1. CASE op[c].kind = "job"
  <2> DEFINE o == [kind |-> "finish", at |-> "enter", job |-> op[c].job, ok |-> FALSE]
  <2>1. op' = [op EXCEPT ![c] = o] /\ o.at = "enter"
    BY <1>1 DEF AfterError
  <2>2. o \in Ops /\ o \in FinishOps /\ o.job = op[c].job /\ Plays(c, o) /\ Linked(mem, o)
    BY <1>1, FinishOp
  <2> HIDE DEF o
  <2>3. op'[c] = o /\ op' = [op EXCEPT ![c] = op'[c]]
    BY <2>1, ReplacedOp
  <2> QED
    BY <1>1, <2>1, <2>2, <2>3
<1>2. CASE op[c].kind # "job"
  <2>1. op' = [op EXCEPT ![c] = Idle]
    BY <1>2 DEF AfterError
  <2>2. op'[c] = Idle /\ op' = [op EXCEPT ![c] = op'[c]]
    BY <2>1, ReplacedOp
  <2> QED
    BY <1>2, <2>2, IdleOp
<1> QED
  BY <1>1, <1>2

\* failInstance writes the row when it is still the stored one.
LEMMA JobErrsMoves ==
    ASSUME StateInv, NEW c \in Actors, JobErrs(c)
    PROVE  Moves(c)
<1> DEFINE i == op[c].inst
           row == [op[c].row EXCEPT !.status = "failed"]
<1>1. /\ server = "up" /\ op[c].kind = "job" /\ op[c].at # "enter" /\ AfterError(c)
      /\ UNCHANGED <<store, yaml, xml, server>>
      /\ mem' = mem \/ mem' = UpdateProcessInstance(mem, i, row)
  BY DEF JobErrs
<1>2. i \in Instances /\ op[c].row \in InstanceRow
  BY <1>1, RunningJob
<1>3. row \in InstanceRow
  BY <1>2 DEF InstanceRow
<1> HIDE DEF row
<1>4. mem' \in Tables /\ Grows(mem, mem') /\ JobsLinked(mem')
  <2>1. CASE mem' = mem
    BY <2>1, SameRows DEF StateInv, TablesTyped
  <2>2. CASE mem' = UpdateProcessInstance(mem, i, row)
    BY <1>2, <1>3, <2>2, UpdateTables, UpdateGrows DEF StateInv, TablesTyped
  <2> QED
    BY <1>1, <2>1, <2>2
<1>5. /\ op' = [op EXCEPT ![c] = op'[c]] /\ op'[c] \in Ops
      /\ Plays(c, op'[c]) /\ Linked(mem, op'[c])
  BY <1>1, AfterErrorOp
<1> QED
  BY <1>1, <1>4, <1>5, GrowthMoves

\* A version conflict writes nothing.
LEMMA ConflictMoves ==
    ASSUME StateInv, NEW c \in Actors, Conflict(c) \/ PersistFails(c)
    PROVE  Moves(c)
<1>1. server = "up" /\ AfterError(c) /\ UNCHANGED <<store, mem, yaml, xml, server>>
  BY DEF Conflict, PersistFails, UNCHANGED_Disk
<1>2. mem' \in Tables /\ Grows(mem, mem') /\ JobsLinked(mem')
  BY <1>1, SameRows DEF StateInv, TablesTyped
<1>3. /\ op' = [op EXCEPT ![c] = op'[c]] /\ op'[c] \in Ops
      /\ Plays(c, op'[c]) /\ Linked(mem, op'[c])
  BY <1>1, AfterErrorOp
<1> QED
  BY <1>1, <1>2, <1>3, GrowthMoves

\* What follows an operation that ends well: the job its claim, its row the job.
LEMMA AfterReplyOp ==
    ASSUME StateInv, NEW c \in Actors, AfterReply(c)
    PROVE  /\ op' = [op EXCEPT ![c] = op'[c]] /\ op'[c] \in Ops
           /\ Plays(c, op'[c]) /\ Linked(mem, op'[c])
           /\ op[c].kind = "claim" => op'[c] \in CalledOps /\ op'[c].job = op[c].job
           /\ op[c].kind = "job" => op'[c] \in FinishOps /\ op'[c].at = "enter"
                                    /\ op'[c].job = op[c].job
           /\ op[c].kind \notin {"claim", "job"} => op'[c] = Idle
<1>1. CASE op[c].kind = "claim"
  <2> DEFINE o == [kind |-> "job", at |-> "enter", job |-> op[c].job]
  <2>1. op' = [op EXCEPT ![c] = o]
    BY <1>1 DEF AfterReply
  <2>2. c = Worker /\ op[c].job \in DOMAIN mem.jobs /\ op[c].job \in Nat
    BY <1>1, JobInHand
  <2>3. o \in CalledOps /\ o.job = op[c].job
    BY <2>2 DEF CalledOps
  <2> HIDE DEF o
  <2>4. o \in Ops /\ Plays(c, o) /\ Linked(mem, o)
    BY <2>2, <2>3 DEF Ops, Plays, Linked, CalledOps
  <2> QED
    BY <1>1, <2>1, <2>3, <2>4, ReplacedOp
<1>2. CASE op[c].kind = "job"
  <2> DEFINE o == [kind |-> "finish", at |-> "enter", job |-> op[c].job, ok |-> TRUE]
  <2>1. op' = [op EXCEPT ![c] = o] /\ o.at = "enter"
    BY <1>2 DEF AfterReply
  <2>2. o \in Ops /\ o \in FinishOps /\ o.job = op[c].job /\ Plays(c, o) /\ Linked(mem, o)
    BY <1>2, FinishOp
  <2> HIDE DEF o
  <2>3. op'[c] = o /\ op' = [op EXCEPT ![c] = op'[c]]
    BY <2>1, ReplacedOp
  <2> QED
    BY <1>2, <2>1, <2>2, <2>3
<1>3. CASE op[c].kind \notin {"claim", "job"}
  <2>1. op' = [op EXCEPT ![c] = Idle]
    BY <1>3 DEF AfterReply
  <2>2. op'[c] = Idle /\ op' = [op EXCEPT ![c] = op'[c]]
    BY <2>1, ReplacedOp
  <2> QED
    BY <1>3, <2>2, IdleOp
<1> QED
  BY <1>1, <1>2, <1>3

\* The end of an operation writes at most the file.
LEMMA EndingMoves ==
    ASSUME StateInv, NEW c \in Actors, persistLocked(c) \/ Reply(c)
    PROVE  Moves(c)
<1>1. /\ server = "up" /\ AfterReply(c) /\ UNCHANGED <<store, mem, xml, server>>
      /\ yaml' \in {yaml, mem}
  BY DEF persistLocked, Reply
<1>2. mem' \in Tables /\ Grows(mem, mem') /\ JobsLinked(mem')
  BY <1>1, SameRows DEF StateInv, TablesTyped
<1>3. /\ op' = [op EXCEPT ![c] = op'[c]] /\ op'[c] \in Ops
      /\ Plays(c, op'[c]) /\ Linked(mem, op'[c])
  BY <1>1, AfterReplyOp
<1> QED
  BY <1>1, <1>2, <1>3 DEF Moves, StateInv, TablesTyped

\* The tables Open builds from the files are well formed unless a definition file
\* cannot be parsed, and then the server does not come up.
LEMMA LoadedTables ==
    ASSUME StateInv, ~ParseFails
    PROVE  /\ Loaded \in Tables /\ JobsLinked(Loaded)
           /\ yaml = NoRow => Loaded = NewStore
           /\ yaml # NoRow =>
                /\ Loaded.insts = yaml.insts /\ Loaded.acts = yaml.acts
                /\ Loaded.jobs = yaml.jobs
                /\ \A p \in Keys \X Versions :
                     Loaded.procs[p] = IF xml[p] # NoDef THEN RoundTrip(xml[p]) ELSE yaml.procs[p]
<1>1. CASE yaml = NoRow
  BY <1>1 DEF Loaded, NewStore, Tables, JobsLinked
<1>2. CASE yaml # NoRow
  <2> DEFINE ps == [p \in Keys \X Versions |->
                      IF xml[p] # NoDef THEN RoundTrip(xml[p]) ELSE yaml.procs[p]]
  <2>1. yaml \in Tables /\ JobsLinked(yaml)
    BY <1>2 DEF StateInv, TablesTyped
  <2>2. \A p \in Keys \X Versions : ps[p] \in Definitions \cup {NoDef}
    <3> SUFFICES ASSUME NEW p \in Keys \X Versions PROVE ps[p] \in Definitions \cup {NoDef}
      OBVIOUS
    <3>1. xml[p] \in Definitions \cup {NoDef} /\ p \in DOMAIN xml
          /\ yaml.procs[p] \in Definitions \cup {NoDef}
      BY <2>1 DEF StateInv, TablesTyped, Tables
    <3>2. CASE xml[p] # NoDef
      <4>1. RoundTrip(xml[p]) # Unreadable
        BY <1>2, <3>1, <3>2 DEF ParseFails
      <4> QED
        BY <3>1, <3>2, <4>1, FileStoreAssumption DEF FileStoreAssumption
    <3>3. CASE xml[p] = NoDef
      BY <3>1, <3>3
    <3> QED
      BY <3>2, <3>3
  <2>3. Loaded = [yaml EXCEPT !.procs = ps]
    BY <1>2, <2>1 DEF Loaded, Tables
  <2>4. ps \in [Keys \X Versions -> Definitions \cup {NoDef}]
    BY <2>2
  <2>5. \A p \in Keys \X Versions :
          ps[p] = IF xml[p] # NoDef THEN RoundTrip(xml[p]) ELSE yaml.procs[p]
    OBVIOUS
  <2> HIDE DEF ps
  <2>6. /\ Loaded \in Tables /\ Loaded.procs = ps /\ Loaded.insts = yaml.insts
        /\ Loaded.acts = yaml.acts /\ Loaded.jobs = yaml.jobs
    BY <2>1, <2>3, <2>4 DEF Tables
  <2>7. JobsLinked(Loaded)
    BY <2>1, <2>6 DEF JobsLinked
  <2> QED
    BY <1>2, <2>5, <2>6, <2>7
<1> QED
  BY <1>1, <1>2

-----------------------------------------------------------------------------
(* Type correctness *)

\* A step of the operation of c.
Acts(c) ==
    \/ c \in Clients /\ (Deployment(c) \/ Request(c))
    \/ c = Worker /\ (Claim \/ RunJob(c))
    \/ Ending(c)

\* A step is a step of one actor, a stop or a start.
LEMMA NextSplit ==
    Next <=> (\E c \in Actors : Acts(c)) \/ Crash \/ Open
BY DEF Next, Acts, Actors

\* Every step of an actor keeps what the tables never lose.
LEMMA ActsMoves ==
    ASSUME StateInv, NEW c \in Actors, Acts(c)
    PROVE  Moves(c)
<1>1. CASE c \in Clients /\ Deployment(c)
  BY <1>1, DeployMoves, ReadVersionMoves, InsertVersionMoves, WriteXMLMoves, DeleteMoves,
     DeleteXMLMoves, XMLFailsMoves
     DEF Deployment
<1>2. CASE c \in Clients /\ Request(c)
  BY <1>2, BeginStartMoves, CreateInstanceMoves, BeginCompleteMoves, CloseTaskMoves,
     WriteInstanceMoves, EnqueueMoves
     DEF Request
<1>3. CASE c = Worker /\ Claim
  BY <1>3, ClaimMoves
<1>4. CASE RunJob(c)
  BY <1>4, RunStartJobMoves, OpenTaskOp, SaveInstanceOp, CompleteElementOp, AllOpenedMoves, RunContinueJobMoves,
     NotRunningMoves, TryCompleteMoves, FinishJobMoves, JobErrsMoves
     DEF RunJob
<1>5. CASE Ending(c)
  BY <1>5, ConflictMoves, EndingMoves DEF Ending
<1> QED
  BY <1>1, <1>2, <1>3, <1>4, <1>5 DEF Acts

\* A stop leaves the files and nothing else.
LEMMA CrashState ==
    ASSUME StateInv, Crash
    PROVE  StateInv'
<1>1. mem' \in Tables /\ JobsLinked(mem')
  BY DEF Crash, NewStore, Tables, JobsLinked
<1>2. TablesTyped'
  BY <1>1 DEF Crash, StateInv, TablesTyped
<1>3. OpsTyped'
  BY IdleOp DEF Crash, OpsTyped
<1> QED
  BY <1>2, <1>3 DEF StateInv

\* Open brings well-formed tables, or no server.
LEMMA OpenState ==
    ASSUME StateInv, Open
    PROVE  StateInv'
<1>1. /\ UNCHANGED <<store, yaml, xml, op>> /\ server = "down" /\ server' \in {"up", "broken"}
      /\ \/ ~ParseFails /\ mem' = Loaded
         \/ mem' = mem
  BY DEF Open
<1>2. mem' \in Tables /\ JobsLinked(mem')
  BY <1>1, LoadedTables DEF StateInv, TablesTyped
<1>3. TablesTyped'
  BY <1>1, <1>2 DEF StateInv, TablesTyped
<1>4. OpsTyped'
  BY <1>1, IdleOp DEF StateInv, OpsTyped
<1> QED
  BY <1>3, <1>4 DEF StateInv

\* The initial states are well formed.
LEMMA InitState ==
    ASSUME Init
    PROVE  StateInv /\ HistoryTyped
<1>1. mem \in Tables /\ JobsLinked(mem) /\ xml \in [Keys \X Versions -> Definitions \cup {NoDef}]
  BY DEF Init, NewStore, Tables, JobsLinked
<1>2. TablesTyped
  BY <1>1 DEF Init, TablesTyped
<1>3. OpsTyped
  BY IdleOp DEF Init, OpsTyped
<1>4. HistoryTyped
  BY FileStoreAssumption DEF Init, HistoryTyped, Log, FileStoreAssumption
<1> QED
  BY <1>2, <1>3, <1>4 DEF StateInv

\* The state stays well formed.
LEMMA StateStep ==
    ASSUME StateInv, [Next]_vars
    PROVE  StateInv'
<1>1. CASE \E c \in Actors : Acts(c)
  BY <1>1, ActsMoves, MovesKeepState
<1>2. CASE Crash \/ Open
  BY <1>2, CrashState, OpenState
<1>3. CASE UNCHANGED vars
  BY <1>3 DEF vars, StateInv, TablesTyped, OpsTyped
<1> QED
  BY <1>1, <1>2, <1>3, NextSplit

\* What callers are told, and the budget, keep their types.
LEMMA DeploymentHistory ==
    ASSUME StateInv, HistoryTyped, NEW c \in Clients, Deployment(c)
    PROVE  HistoryTyped'
<1>1. ASSUME NEW k \in Keys, NEW d \in Definitions, Deploy(c, k, d) PROVE HistoryTyped'
  <2> DEFINE v == latestVersionLocked(mem, k) + 1
  <2>1. /\ v \in Versions /\ left.deploys > 0
        /\ left' = [left EXCEPT !.deploys = @ - 1]
        /\ \/ log' = [log EXCEPT !.deleted = @ \ {k}, !.acked = @ \cup {<<k, v, d>>}]
           \/ log' = [log EXCEPT !.deleted = @ \ {k}]
    BY <1>1 DEF Deploy, StoreVersion
  <2> HIDE DEF v
  <2>2. left' \in [crashes : Nat, faults : Nat, deploys : Nat, starts : Nat]
    BY <2>1 DEF HistoryTyped
  <2>3. <<k, v, d>> \in Keys \X Versions \X Definitions
    BY <2>1
  <2>4. log' \in Log
    <3> DEFINE a == <<k, v, d>>
    <3>1. a \in Keys \X Versions \X Definitions
      BY <2>3
    <3>2. \/ log' = [log EXCEPT !.deleted = @ \ {k}, !.acked = @ \cup {a}]
          \/ log' = [log EXCEPT !.deleted = @ \ {k}]
      BY <2>1
    <3> HIDE DEF a
    <3>3. log \in Log
      BY DEF HistoryTyped
    <3>4. CASE log' = [log EXCEPT !.deleted = @ \ {k}]
      BY <3>3, <3>4 DEF Log
    <3>5. CASE log' = [log EXCEPT !.deleted = @ \ {k}, !.acked = @ \cup {a}]
      BY <3>1, <3>3, <3>5 DEF Log
    <3> QED
      BY <3>2, <3>4, <3>5
  <2> QED
    BY <2>2, <2>4 DEF HistoryTyped
<1>2. ASSUME NEW k \in Keys, NEW d \in Definitions, ReadVersion(c, k, d) PROVE HistoryTyped'
  BY <1>2 DEF ReadVersion, HistoryTyped
<1>3. ASSUME NEW k \in Keys, Delete(c, k) PROVE HistoryTyped'
  <2> DEFINE kept == {a \in log.acked : a[1] # k}
  <2>1. /\ left.deploys > 0 /\ left' = [left EXCEPT !.deploys = @ - 1]
        /\ \/ log' = [log EXCEPT !.acked = kept, !.deleted = @ \cup {k}]
           \/ log' = [log EXCEPT !.acked = kept]
    BY <1>3 DEF Delete
  <2>2. left' \in [crashes : Nat, faults : Nat, deploys : Nat, starts : Nat]
    BY <2>1 DEF HistoryTyped
  <2>3. log \in Log /\ kept \subseteq log.acked
    BY DEF HistoryTyped
  <2> HIDE DEF kept
  <2>4. CASE log' = [log EXCEPT !.acked = kept, !.deleted = @ \cup {k}]
    BY <2>2, <2>3, <2>4 DEF HistoryTyped, Log
  <2>5. CASE log' = [log EXCEPT !.acked = kept]
    BY <2>2, <2>3, <2>5 DEF HistoryTyped, Log
  <2> QED
    BY <2>1, <2>4, <2>5
<1>4. CASE InsertVersion(c)
  <2>1. op[c] \in DeployOps
    BY <1>4, OpKinds DEF InsertVersion, At, StateInv, OpsTyped, Actors
  <2>2. PICK k, a : k = op[c].key /\ a = <<op[c].key, op[c].ver, op[c].def>>
    OBVIOUS
  <2>3. a \in Keys \X Versions \X Definitions
    BY <2>1, <2>2 DEF DeployOps
  <2>4. /\ left' = left
        /\ log' = log \/ log' = [log EXCEPT !.deleted = @ \ {k}, !.acked = @ \cup {a}]
    BY <1>4, <2>2 DEF InsertVersion, UNCHANGED_Disk
  <2>5. log \in Log
    BY DEF HistoryTyped
  <2>6. CASE log' = log
    BY <2>4, <2>6 DEF HistoryTyped
  <2>7. CASE log' = [log EXCEPT !.deleted = @ \ {k}, !.acked = @ \cup {a}]
    BY <2>3, <2>4, <2>5, <2>7 DEF HistoryTyped, Log
  <2> QED
    BY <2>4, <2>6, <2>7
<1>5. CASE writeProcessXML(c) \/ deleteProcessXML(c) \/ XMLFails(c)
  BY <1>5 DEF writeProcessXML, deleteProcessXML, XMLFails, HistoryTyped
<1> QED
  BY <1>1, <1>2, <1>3, <1>4, <1>5 DEF Deployment

\* A job that runs is counted.
LEMMA RanLog ==
    ASSUME StateInv, HistoryTyped, NEW c \in Actors, op[c].kind = "job"
    PROVE  Ran(c) \in Log
<1> DEFINE j == <<JobOf(c).inst, JobOf(c).task>>
<1>1. j \in JobNames
  BY JobInHand DEF JobNames
<1> HIDE DEF j
<1>2. [log EXCEPT !.runs[j] = @ + 1] \in Log
  BY <1>1 DEF HistoryTyped, Log
<1> QED
  BY <1>2 DEF Ran, j

\* What the caller learns is typed.
LEMMA RepliedLog ==
    ASSUME StateInv, HistoryTyped, NEW c \in Actors
    PROVE  Replied(c) \in Log
<1>1. op[c] \in Ops
  BY DEF StateInv, OpsTyped
<1>2. CASE op[c].kind = "deploy"
  <2>1. op[c].key \in Keys /\ op[c].ver \in Versions /\ op[c].def \in Definitions
    BY <1>1, <1>2, OpKinds DEF DeployOps
  <2> QED
    BY <1>2, <2>1 DEF Replied, HistoryTyped, Log
<1>3. CASE op[c].kind = "delete"
  <2>1. op[c].key \in Keys
    BY <1>1, <1>3, OpKinds DEF DeleteOps
  <2> QED
    BY <1>3, <2>1 DEF Replied, HistoryTyped, Log
<1>4. CASE op[c].kind = "complete"
  <2>1. op[c].inst \in Instances /\ op[c].task \in Tasks
    BY <1>1, <1>4, OpKinds DEF CompleteOps
  <2> QED
    BY <1>4, <2>1 DEF Replied, HistoryTyped, Log
<1>5. CASE op[c].kind \notin {"deploy", "delete", "complete"}
  BY <1>5 DEF Replied, HistoryTyped
<1> QED
  BY <1>2, <1>3, <1>4, <1>5

\* A failing transaction is noted.
LEMMA TornLog ==
    ASSUME StateInv, HistoryTyped, NEW c \in Actors, Conflict(c) \/ JobErrs(c)
    PROVE  log' = [log EXCEPT !.torn = @ \cup {op[c].inst}] /\ op[c].inst \in Instances /\ log' \in Log
<1>1. /\ log' = [log EXCEPT !.torn = @ \cup {op[c].inst}]
      /\ op[c].kind = "complete" \/ (op[c].kind = "job" /\ op[c].at # "enter")
  BY DEF Conflict, JobErrs
<1>2. op[c].inst \in Instances
  BY <1>1, OpKinds, RunningJob DEF CompleteOps, StateInv, OpsTyped
<1> QED
  BY <1>1, <1>2 DEF HistoryTyped, Log

\* The history stays typed.
LEMMA HistoryStep ==
    ASSUME StateInv, HistoryTyped, [Next]_vars
    PROVE  HistoryTyped'
<1>1. ASSUME NEW c \in Clients, Deployment(c) PROVE HistoryTyped'
  BY <1>1, DeploymentHistory
<1>2. ASSUME NEW c \in Clients, Request(c) PROVE HistoryTyped'
  <2>1. ASSUME NEW i \in Instances, NEW k \in Keys, BeginStart(c, i, k) PROVE HistoryTyped'
    <3>1. left' \in [crashes : Nat, faults : Nat, deploys : Nat, starts : Nat]
      BY <2>1 DEF BeginStart, HistoryTyped
    <3>2. log' = [log EXCEPT !.used = @ \cup {i}] /\ log \in Log
      BY <2>1 DEF BeginStart, HistoryTyped
    <3>3. log' \in Log
      BY <3>2 DEF Log
    <3> QED
      BY <3>1, <3>3 DEF HistoryTyped
  <2>2. ASSUME NEW i \in Instances, NEW t \in Tasks, BeginComplete(c, i, t) PROVE HistoryTyped'
    BY <2>2 DEF BeginComplete, HistoryTyped
  <2>3. CASE CreateInstance(c) \/ CloseTask(c) \/ WriteInstance(c) \/ Enqueue(c)
    BY <2>3 DEF CreateInstance, CloseTask, WriteInstance, Enqueue, UNCHANGED_Disk, HistoryTyped
  <2> QED
    BY <1>2, <2>1, <2>2, <2>3 DEF Request
<1>3. CASE Claim
  BY <1>3 DEF Claim, UNCHANGED_Disk, HistoryTyped
<1>4. CASE RunJob(Worker)
  <2>1. Worker \in Actors
    BY DEF Actors
  <2>2. CASE RunStartJob(Worker) \/ RunContinueJob(Worker) \/ NotRunning(Worker)
    BY <2>1, <2>2, RanLog
       DEF RunStartJob, RunContinueJob, NotRunning, At, UNCHANGED_Disk, HistoryTyped
  <2>3. CASE \/ \E t \in Tasks : OpenTask(Worker, t)
             \/ SaveInstance(Worker) \/ completeElement(Worker) \/ AllOpened(Worker)
             \/ tryCompleteProcess(Worker) \/ FinishJob(Worker)
    BY <2>3 DEF OpenTask, SaveInstance, completeElement, AllOpened, tryCompleteProcess, FinishJob,
                UNCHANGED_Disk, HistoryTyped
  <2>4. CASE JobErrs(Worker)
    <3>1. log' \in Log
      BY <2>1, <2>4, TornLog
    <3> QED
      BY <2>4, <3>1 DEF JobErrs, HistoryTyped
  <2> QED
    BY <1>4, <2>2, <2>3, <2>4 DEF RunJob
<1>5. ASSUME NEW c \in Actors, Ending(c) PROVE HistoryTyped'
  <2>1. CASE Conflict(c)
    BY <2>1, TornLog DEF Conflict, UNCHANGED_Disk, HistoryTyped
  <2>2. CASE persistLocked(c) \/ Reply(c)
    BY <2>2, RepliedLog DEF persistLocked, Reply, HistoryTyped
  <2>3. CASE PersistFails(c)
    BY <2>3 DEF PersistFails, HistoryTyped
  <2> QED
    BY <1>5, <2>1, <2>2, <2>3 DEF Ending
<1>6. CASE Crash \/ Open
  BY <1>6 DEF Crash, Open, HistoryTyped
<1>7. CASE UNCHANGED vars
  BY <1>7 DEF vars, HistoryTyped
<1> QED
  BY <1>1, <1>2, <1>3, <1>4, <1>5, <1>6, <1>7 DEF Next

\* The tables, the files, the operations and the history always have their types:
\* in particular no operation refers to a row or a job that does not exist, no
\* matter which file operation fails and where the server stops, and a definition
\* that cannot be parsed never gets into the tables.
THEOREM TypeCorrect == Spec => []TypeOK
<1>1. Init => StateInv /\ HistoryTyped
  BY InitState
<1>2. StateInv /\ HistoryTyped /\ [Next]_vars => (StateInv /\ HistoryTyped)'
  BY StateStep, HistoryStep
<1>3. StateInv /\ HistoryTyped => TypeOK
  BY OpKinds DEF StateInv, TablesTyped, OpsTyped, HistoryTyped, TypeOK
<1> QED
  BY <1>1, <1>2, <1>3, PTL DEF Spec

-----------------------------------------------------------------------------
(* Definitions: what is acknowledged and what is deleted *)

Entered(o) == o.at \notin {"idle", "enter"}

\* s.mu: with the file store at most one operation is past its beginning.
Mutex ==
    store = "file" =>
        \A c, d \in Actors : c # d => ~Entered(op[c]) \/ ~Entered(op[d])

\* Which steps which store takes; only the file store has files.
Backend(o) ==
    /\ o.at \in {"xml", "persist"} => store = "file"
    /\ o.at = "insert" => store = "database"
    /\ o.at = "reply" => store # "file"

Backends ==
    /\ \A c \in Actors : Backend(op[c])
    /\ store # "file" => yaml = NoRow /\ \A p \in Keys \X Versions : xml[p] = NoDef

\* While a deletion is under way the key has no version in the tables, and once
\* its files are removed none on disk; nothing acknowledged is lost.
Deleting(o) ==
    o.kind = "delete" =>
        /\ \A v \in Versions : mem.procs[<<o.key, v>>] = NoDef
        /\ o.at = "persist" => \A v \in Versions : xml[<<o.key, v>>] = NoDef
        /\ \A a \in log.acked : a[1] # o.key

\* While a deployment is under way its version is in the tables, and once its file
\* is written on disk; the version is not an acknowledged one and the key is not
\* a deleted one.
Deploying(o) ==
    o.kind = "deploy" /\ o.at # "insert" =>
        /\ mem.procs[<<o.key, o.ver>>] = o.def
        /\ o.at = "persist" => xml[<<o.key, o.ver>>] = o.def
        /\ \A a \in log.acked : a[1] # o.key \/ a[2] # o.ver
        /\ o.key \notin log.deleted

\* The first half of AcknowledgedSurvives.
AckedSurvives ==
    \A a \in log.acked :
        /\ server = "up" => Shows(a[3], mem.procs[<<a[1], a[2]>>])
        /\ store = "file" => /\ yaml # NoRow /\ Shows(a[3], yaml.procs[<<a[1], a[2]>>])
                            /\ xml[<<a[1], a[2]>>] = a[3]

PlaceInv == Mutex /\ Backends

ProcInv ==
    /\ \A c \in Actors : Deleting(op[c]) /\ Deploying(op[c])
    /\ DeletedStaysDeleted
    /\ AckedSurvives

\* Where an operation goes: into its write only when no other one is in it, and
\* only to steps its store has.
LEMMA Places ==
    ASSUME StateInv, Backends, NEW c \in Actors, Acts(c)
    PROVE  /\ ~Entered(op'[c]) \/ Entered(op[c]) \/ MayEnter(c) \/ store # "file"
           /\ Backend(op'[c])
<1> USE DEF Entered
<1>0. /\ op[c] \in Ops /\ Backend(op[c])
      /\ Idle.at = "idle" /\ Backend(Idle)
  BY IdleOp DEF StateInv, OpsTyped, Backends, Backend
<1>1. ASSUME NEW k \in Keys, NEW d \in Definitions, Deploy(c, k, d)
      PROVE  MayEnter(c) /\ Backend(op'[c])
  <2> DEFINE v == latestVersionLocked(mem, k) + 1
             o == [kind |-> "deploy", at |-> "xml", key |-> k, ver |-> v, def |-> d]
  <2>1. /\ MayEnter(c) /\ store # "database"
        /\ IF store = "memory" THEN op' = op ELSE op' = [op EXCEPT ![c] = o]
    BY <1>1 DEF Deploy, StoreVersion, Begin
  <2>2. o.at = "xml"
    OBVIOUS
  <2> HIDE DEF o
  <2>3. op' = op \/ (store = "file" /\ op'[c] = o)
    BY <2>1, ReplacedOp DEF StateInv, TablesTyped
  <2> QED
    BY <1>0, <2>1, <2>2, <2>3 DEF Backend
<1>2. ASSUME NEW k \in Keys, NEW d \in Definitions, ReadVersion(c, k, d)
      PROVE  store # "file" /\ Backend(op'[c])
  <2> DEFINE v == latestVersionLocked(mem, k) + 1
             o == [kind |-> "deploy", at |-> "insert", key |-> k, def |-> d, ver |-> v]
  <2>1. store = "database" /\ op' = [op EXCEPT ![c] = o] /\ o.at = "insert"
    BY <1>2 DEF ReadVersion, Begin
  <2> HIDE DEF o
  <2>2. op'[c] = o
    BY <2>1, ReplacedOp
  <2> QED
    BY <2>1, <2>2 DEF Backend
<1>3. ASSUME NEW k \in Keys, Delete(c, k)
      PROVE  MayEnter(c) /\ Backend(op'[c])
  <2> DEFINE o == [kind |-> "delete", at |-> "xml", key |-> k]
  <2>1. /\ MayEnter(c) /\ o.at = "xml"
        /\ IF store # "file" THEN op' = op ELSE op' = [op EXCEPT ![c] = o]
    BY <1>3 DEF Delete, Begin
  <2> HIDE DEF o
  <2>2. op' = op \/ (store = "file" /\ op'[c] = o)
    BY <2>1, ReplacedOp
  <2> QED
    BY <1>0, <2>1, <2>2 DEF Backend
<1>4. CASE InsertVersion(c) \/ XMLFails(c)
  <2>1. op'[c] = Idle
    BY <1>4, ReplacedOp DEF InsertVersion, XMLFails, Return
  <2> QED
    BY <1>0, <2>1
<1>5. CASE writeProcessXML(c) \/ deleteProcessXML(c)
  <2>1. op[c].at = "xml" /\ op'[c] = [op[c] EXCEPT !.at = "persist"]
        /\ (op[c] \in DeployOps \/ op[c] \in DeleteOps)
    BY <1>0, <1>5, GotoOp, OpKinds DEF writeProcessXML, deleteProcessXML, At
  <2>2. op'[c].at = "persist"
    BY <2>1 DEF DeployOps, DeleteOps
  <2> QED
    BY <1>0, <2>1, <2>2 DEF Backend
<1>6. CASE Deployment(c)
  BY <1>1, <1>2, <1>3, <1>4, <1>5, <1>6 DEF Deployment
<1>7. ASSUME NEW i \in Instances, NEW k \in Keys, BeginStart(c, i, k)
      PROVE  ~Entered(op'[c]) /\ Backend(op'[c])
  <2>1. op'[c].at = "enter"
    BY <1>7, ReplacedOp DEF BeginStart, Begin, StateInv, OpsTyped
  <2> QED
    BY <2>1 DEF Backend
<1>8. ASSUME NEW i \in Instances, NEW t \in Tasks, BeginComplete(c, i, t)
      PROVE  ~Entered(op'[c]) /\ Backend(op'[c])
  <2>1. op'[c].at = "enter"
    BY <1>8, ReplacedOp DEF BeginComplete, Begin, StateInv, OpsTyped
  <2> QED
    BY <2>1 DEF Backend
<1>9. CASE CreateInstance(c) \/ WriteInstance(c)
  <2>1. /\ MayEnter(c) \/ op[c].at = "route"
        /\ op'[c] = [op[c] EXCEPT !.at = "enqueue"]
        /\ op[c] \in StartOps \/ op[c] \in CompleteOps
    BY <1>0, <1>9, GotoOp, OpKinds DEF CreateInstance, WriteInstance, At
  <2>2. op'[c].at = "enqueue"
    BY <2>1 DEF StartOps, CompleteOps
  <2> QED
    BY <2>1, <2>2 DEF Backend
<1>10. CASE CloseTask(c)
  BY <1>10, CloseOp DEF CloseTask, Backend
<1>11. CASE Enqueue(c)
  <2>1. op[c].at = "enqueue" /\ op'[c].at = IF store = "file" THEN "persist" ELSE "reply"
    BY <1>11, EnqueueMoves DEF Enqueue
  <2> QED
    BY <2>1 DEF Backend
<1>12. CASE Request(c)
  BY <1>7, <1>8, <1>9, <1>10, <1>11, <1>12 DEF Request
<1>13. CASE c = Worker /\ Claim
  BY <1>13, ClaimMoves DEF Claim, Backend
<1>14. CASE RunStartJob(c) \/ RunContinueJob(c) \/ NotRunning(c)
  <2>1. MayEnter(c) /\ op'[c].at \in {"open", "read", "enter"}
    BY <1>14, ReplacedOp DEF RunStartJob, RunContinueJob, NotRunning, Begin, StateInv, OpsTyped
  <2> QED
    BY <2>1 DEF Backend
<1>15. ASSUME NEW t \in Tasks, OpenTask(c, t)
       PROVE  Entered(op[c]) /\ Backend(op'[c])
  BY <1>15, OpenTaskOp DEF OpenTask, At, Backend
<1>16. CASE SaveInstance(c) \/ completeElement(c)
  BY <1>16, SaveInstanceOp, CompleteElementOp DEF SaveInstance, completeElement, At, Backend
<1>17. CASE AllOpened(c) \/ tryCompleteProcess(c) \/ FinishJob(c)
  <2>1. /\ MayEnter(c) \/ op[c].at \in {"open", "end"}
        /\ op'[c].at = IF store = "file" THEN "persist" ELSE "reply"
    BY <1>17, CommittedOp DEF AllOpened, tryCompleteProcess, FinishJob, At
  <2> QED
    BY <2>1 DEF Backend
<1>18. CASE JobErrs(c) \/ Conflict(c) \/ PersistFails(c)
  <2>1. op'[c].at \in {"idle", "enter"}
    BY <1>0, <1>18, AfterErrorOp DEF JobErrs, Conflict, PersistFails
  <2> QED
    BY <2>1 DEF Backend
<1>19. CASE RunJob(c)
  BY <1>14, <1>15, <1>16, <1>17, <1>18, <1>19 DEF RunJob
<1>20. CASE persistLocked(c) \/ Reply(c)
  <2>1. op'[c].at \in {"idle", "enter"}
    BY <1>0, <1>20, AfterReplyOp DEF persistLocked, Reply, CalledOps
  <2> QED
    BY <2>1 DEF Backend
<1> QED
  BY <1>6, <1>12, <1>13, <1>18, <1>19, <1>20 DEF Acts, Ending

\* Only an operation at its file step touches the definition files, and only one
\* at its persist step state.yaml.
LEMMA FilesWritten ==
    ASSUME StateInv, Backends, NEW c \in Actors, Acts(c)
    PROVE  /\ xml' = xml \/ op[c].at = "xml"
           /\ yaml' = yaml \/ (persistLocked(c) /\ yaml' = mem)
           /\ store' = store
<1>1. CASE Deployment(c)
  BY <1>1 DEF Deployment, Deploy, StoreVersion, ReadVersion, Delete, InsertVersion,
              writeProcessXML, deleteProcessXML, XMLFails, UNCHANGED_Disk, At
<1>2. CASE Request(c)
  BY <1>2 DEF Request, BeginStart, BeginComplete, CreateInstance, CloseTask, WriteInstance,
              Enqueue, UNCHANGED_Disk
<1>3. CASE Claim \/ RunJob(c)
  BY <1>3 DEF Claim, RunJob, RunStartJob, OpenTask, SaveInstance, AllOpened, RunContinueJob,
              completeElement, NotRunning, tryCompleteProcess, FinishJob, JobErrs, UNCHANGED_Disk
<1>4. CASE Ending(c)
  BY <1>4 DEF Ending, Conflict, persistLocked, PersistFails, Reply, UNCHANGED_Disk
<1> QED
  BY <1>1, <1>2, <1>3, <1>4 DEF Acts

\* s.mu keeps excluding, whatever step is taken.
LEMMA PlaceStep ==
    ASSUME StateInv, PlaceInv, [Next]_vars
    PROVE  PlaceInv'
<1>1. ASSUME NEW c \in Actors, Acts(c) PROVE PlaceInv'
  <2>1. Moves(c) /\ \A d \in Actors \ {c} : op'[d] = op[d]
    BY <1>1, ActsMoves DEF Moves, StateInv, OpsTyped
  <2>2. /\ ~Entered(op'[c]) \/ Entered(op[c]) \/ MayEnter(c) \/ store # "file"
        /\ Backend(op'[c])
    BY <1>1, Places DEF PlaceInv
  <2>3. /\ xml' = xml \/ op[c].at = "xml"
        /\ yaml' = yaml \/ op[c].at = "persist"
        /\ store' = store
    BY <1>1, FilesWritten DEF PlaceInv, persistLocked
  <2>4. Mutex'
    <3> SUFFICES ASSUME store = "file", NEW d \in Actors, NEW e \in Actors, d # e
                 PROVE  ~Entered(op'[d]) \/ ~Entered(op'[e])
      BY <2>3 DEF Mutex
    <3>1. ~Entered(op[d]) \/ ~Entered(op[e])
      BY DEF PlaceInv, Mutex
    <3>2. ~Entered(op'[c]) \/ Entered(op[c])
          \/ \A a \in Actors : a # c => ~Entered(op[a])
      BY <2>2 DEF MayEnter, Entered
    <3>3. CASE d = c
      BY <2>1, <3>1, <3>2, <3>3
    <3>4. CASE e = c
      BY <2>1, <3>1, <3>2, <3>4
    <3>5. CASE d # c /\ e # c
      BY <2>1, <3>1, <3>5
    <3> QED
      BY <3>3, <3>4, <3>5
  <2>5. Backends'
    <3>1. \A d \in Actors : Backend(op[d])'
      BY <2>1, <2>2, <2>3 DEF PlaceInv, Backends, Backend
    <3>2. store # "file" => yaml' = yaml /\ xml' = xml
      BY <2>3 DEF PlaceInv, Backends, Backend
    <3> QED
      BY <2>3, <3>1, <3>2 DEF PlaceInv, Backends
  <2> QED
    BY <2>4, <2>5 DEF PlaceInv
<1>2. CASE Crash
  BY <1>2, IdleOp DEF Crash, PlaceInv, Mutex, Backends, Backend, Entered
<1>3. CASE Open
  BY <1>3 DEF Open, PlaceInv, Mutex, Backends, Backend, Entered
<1>4. CASE UNCHANGED vars
  BY <1>4 DEF vars, PlaceInv, Mutex, Backends, Backend, Entered
<1> QED
  BY <1>1, <1>2, <1>3, <1>4, NextSplit

\* Nobody is past its beginning.
LEMMA InitPlace ==
    ASSUME Init
    PROVE  PlaceInv
BY IdleOp DEF Init, NewStore, PlaceInv, Mutex, Backends, Backend, Entered

\* Everything but a deployment, a deletion and the writing of state.yaml leaves
\* the definitions, and what was said about them, alone.
LEMMA ProcFrame ==
    ASSUME StateInv, HistoryTyped, NEW c \in Actors,
           \/ Request(c) \/ (c = Worker /\ Claim) \/ RunJob(c)
           \/ Conflict(c) \/ PersistFails(c) \/ Reply(c)
    PROVE  /\ mem'.procs = mem.procs /\ xml' = xml /\ yaml' = yaml
           /\ log'.acked = log.acked /\ log'.deleted = log.deleted
           /\ op'[c].kind \notin {"deploy", "delete"}
<1>0. op[c] \in Ops /\ mem \in Tables /\ log \in Log
  BY DEF StateInv, OpsTyped, TablesTyped, HistoryTyped
<1>1. ASSUME NEW i \in Instances, NEW k \in Keys, BeginStart(c, i, k)
      PROVE  /\ mem'.procs = mem.procs /\ xml' = xml /\ yaml' = yaml
             /\ log'.acked = log.acked /\ log'.deleted = log.deleted
             /\ op'[c].kind \notin {"deploy", "delete"}
  <2>1. op'[c].kind = "start"
    BY <1>1, ReplacedOp DEF BeginStart, Begin, StateInv, OpsTyped
  <2> QED
    BY <1>0, <1>1, <2>1 DEF BeginStart, Log
<1>2. ASSUME NEW i \in Instances, NEW t \in Tasks, BeginComplete(c, i, t)
      PROVE  /\ mem'.procs = mem.procs /\ xml' = xml /\ yaml' = yaml
             /\ log'.acked = log.acked /\ log'.deleted = log.deleted
             /\ op'[c].kind \notin {"deploy", "delete"}
  <2>1. op'[c].kind = "complete"
    BY <1>2, ReplacedOp DEF BeginComplete, Begin, StateInv, OpsTyped
  <2> QED
    BY <1>2, <2>1 DEF BeginComplete
<1>3. CASE CreateInstance(c)
  <2>1. op[c] \in StartOps /\ op'[c] = [op[c] EXCEPT !.at = "enqueue"]
    BY <1>0, <1>3, GotoOp, OpKinds DEF CreateInstance, At
  <2>2. op'[c].kind = "start" /\ op[c].inst \in Instances /\ op[c].row \in InstanceRow
    BY <2>1 DEF StartOps
  <2>3. mem'.procs = mem.procs
    BY <1>0, <1>3, <2>2, InstanceTables DEF CreateInstance
  <2> QED
    BY <1>3, <2>2, <2>3 DEF CreateInstance, UNCHANGED_Disk
<1>4. CASE CloseTask(c)
  <2>1. op'[c].kind = "complete"
    BY <1>4, CloseOp DEF CompleteOps
  <2>2. op[c] \in CompleteOps /\ mem.insts[op[c].inst] # NoRow
    BY <1>0, <1>4, OpKinds DEF CloseTask, At, StateInv, OpsTyped, Linked
  <2>3. op[c].inst \in Instances /\ op[c].task \in Tasks
    BY <2>2 DEF CompleteOps
  <2>4. mem'.procs = mem.procs
    BY <1>0, <1>4, <2>2, <2>3, CloseGrows DEF CloseTask, StateInv, TablesTyped
  <2> QED
    BY <1>4, <2>1, <2>4 DEF CloseTask, UNCHANGED_Disk
<1>5. CASE WriteInstance(c)
  <2>1. op[c] \in CompleteOps /\ op'[c] = [op[c] EXCEPT !.at = "enqueue"]
    BY <1>0, <1>5, GotoOp, OpKinds DEF WriteInstance, At
  <2>2. op'[c].kind = "complete" /\ op[c].inst \in Instances /\ op[c].row \in InstanceRow
    BY <2>1 DEF CompleteOps
  <2>3. mem'.procs = mem.procs
    BY <1>0, <1>5, <2>2, UpdateTables DEF WriteInstance
  <2> QED
    BY <1>5, <2>2, <2>3 DEF WriteInstance, UNCHANGED_Disk
<1>6. CASE Enqueue(c)
  <2>3. /\ op'[c].kind = op[c].kind /\ mem' = EnqueueJob(mem, op[c].inst, JobTask(op[c]))
        /\ op[c].inst \in Instances /\ JobTask(op[c]) \in Tasks \cup {"start"}
    BY <1>6, EnqueueMoves
  <2>1. mem'.procs = mem.procs /\ op'[c].kind = op[c].kind
    BY <1>0, <2>3, EnqueueTables
  <2>2. op[c].kind \in {"start", "complete"}
    BY <1>0, <1>6, OpKinds DEF Enqueue
  <2> QED
    BY <1>6, <2>1, <2>2 DEF Enqueue, UNCHANGED_Disk
<1>7. CASE Request(c)
  BY <1>1, <1>2, <1>3, <1>4, <1>5, <1>6, <1>7 DEF Request
<1>8. CASE c = Worker /\ Claim
  <2>1. NextJob(mem) \in DOMAIN mem.jobs
    BY <1>0, <1>8, NextJobFacts DEF Claim
  <2>2. mem'.procs = mem.procs
    BY <1>0, <1>8, <2>1, SetJobTables DEF Claim, ClaimNextJob
  <2>3. op'[c].kind = "claim"
    BY <1>8, ClaimMoves DEF ClaimOps
  <2> QED
    BY <1>8, <2>2, <2>3 DEF Claim, UNCHANGED_Disk
<1>9. CASE RunStartJob(c) \/ RunContinueJob(c) \/ NotRunning(c)
  <2>1. op[c].kind = "job"
    BY <1>9 DEF RunStartJob, RunContinueJob, NotRunning, At
  <2>2. op'[c].kind \in {"job", "finish"}
    BY <1>9, ReplacedOp DEF RunStartJob, RunContinueJob, NotRunning, Begin, StateInv, OpsTyped
  <2>3. log' = Ran(c) /\ xml' = xml /\ yaml' = yaml
    BY <1>9 DEF RunStartJob, RunContinueJob, NotRunning, UNCHANGED_Disk
  <2>4. log'.acked = log.acked /\ log'.deleted = log.deleted
    BY <1>0, <2>3 DEF Ran, Log
  <2>5. JobOf(c).inst \in Instances /\ mem.insts[JobOf(c).inst] \in InstanceRow
    BY <2>1, JobInHand
  <2>6. mem'.procs = mem.procs
    <3>1. CASE RunStartJob(c)
      <4> DEFINE row == [mem.insts[JobOf(c).inst] EXCEPT !.status = "running"]
      <4>1. row \in InstanceRow /\ mem' = UpdateProcessInstance(mem, JobOf(c).inst, row)
        BY <2>5, <3>1 DEF RunStartJob, InstanceRow
      <4> HIDE DEF row
      <4> QED
        BY <1>0, <2>5, <4>1, UpdateTables
    <3>2. CASE RunContinueJob(c)
      BY <3>2 DEF RunContinueJob
    <3>3. CASE NotRunning(c)
      BY <3>3 DEF NotRunning
    <3> QED
      BY <1>9, <3>1, <3>2, <3>3
  <2> QED
    BY <2>2, <2>3, <2>4, <2>6
<1>10. ASSUME NEW t \in Tasks, OpenTask(c, t)
       PROVE  /\ mem'.procs = mem.procs /\ xml' = xml /\ yaml' = yaml
              /\ log'.acked = log.acked /\ log'.deleted = log.deleted
              /\ op'[c].kind \notin {"deploy", "delete"}
  <2>1. op'[c].kind = "job" /\ mem' = CreateActivityInstance(mem, op[c].inst, t)
    BY <1>10, OpenTaskOp DEF RunningOps
  <2>2. mem'.procs = mem.procs
    BY <1>0, <2>1 DEF CreateActivityInstance, Tables
  <2> QED
    BY <1>10, <2>1, <2>2 DEF OpenTask, UNCHANGED_Disk
<1>11. CASE SaveInstance(c) \/ completeElement(c)
  <2>1. op'[c].kind = "job"
    BY <1>11, SaveInstanceOp, CompleteElementOp DEF RunningOps
  <2>2. op[c].inst \in Instances /\ op[c].row \in InstanceRow
    BY <1>11, RunningJob DEF SaveInstance, completeElement, At
  <2>3. mem'.procs = mem.procs
    <3>1. mem' = UpdateProcessInstance(mem, op[c].inst, op[c].row)
      BY <1>11 DEF SaveInstance, completeElement
    <3> QED
      BY <1>0, <2>2, <3>1, UpdateTables
  <2> QED
    BY <1>11, <2>1, <2>3 DEF SaveInstance, completeElement, UNCHANGED_Disk
<1>12. CASE AllOpened(c) \/ tryCompleteProcess(c) \/ FinishJob(c)
  <2>1. op'[c].kind \in {"job", "finish"}
    BY <1>12, CommittedOp DEF AllOpened, tryCompleteProcess, FinishJob, At
  <2>2. mem'.procs = mem.procs
    <3>1. CASE AllOpened(c)
      BY <3>1 DEF AllOpened
    <3>2. CASE tryCompleteProcess(c)
      <4> DEFINE row == [op[c].row EXCEPT !.status = "completed"]
      <4>1. op[c].inst \in Instances /\ op[c].row \in InstanceRow
        BY <3>2, RunningJob DEF tryCompleteProcess, At
      <4>2. row \in InstanceRow
        BY <4>1 DEF InstanceRow
      <4>3. mem' = mem \/ mem' = UpdateProcessInstance(mem, op[c].inst, row)
        BY <3>2 DEF tryCompleteProcess
      <4> HIDE DEF row
      <4>4. UpdateProcessInstance(mem, op[c].inst, row).procs = mem.procs
        BY <1>0, <4>1, <4>2, UpdateTables
      <4> QED
        BY <4>3, <4>4
    <3>3. CASE FinishJob(c)
      BY <1>0, <3>3, FinishJobMoves, SetJobTables
    <3> QED
      BY <1>12, <3>1, <3>2, <3>3
  <2> QED
    BY <1>12, <2>1, <2>2 DEF AllOpened, tryCompleteProcess, FinishJob, UNCHANGED_Disk
<1>13. CASE JobErrs(c) \/ Conflict(c)
  <2>1. op'[c].kind \in {"idle", "finish"}
    BY <1>13, AfterErrorOp, IdleOp DEF JobErrs, Conflict, FinishOps
  <2>2. log'.acked = log.acked /\ log'.deleted = log.deleted
    BY <1>0, <1>13, TornLog DEF Log
  <2>3. mem'.procs = mem.procs
    <3>1. CASE Conflict(c)
      BY <3>1 DEF Conflict
    <3>2. CASE JobErrs(c)
      <4> DEFINE row == [op[c].row EXCEPT !.status = "failed"]
      <4>1. op[c].inst \in Instances /\ op[c].row \in InstanceRow
        BY <3>2, RunningJob DEF JobErrs
      <4>2. row \in InstanceRow
        BY <4>1 DEF InstanceRow
      <4>3. mem' = mem \/ mem' = UpdateProcessInstance(mem, op[c].inst, row)
        BY <3>2 DEF JobErrs
      <4> HIDE DEF row
      <4>4. UpdateProcessInstance(mem, op[c].inst, row).procs = mem.procs
        BY <1>0, <4>1, <4>2, UpdateTables
      <4> QED
        BY <4>3, <4>4
    <3> QED
      BY <1>13, <3>1, <3>2
  <2> QED
    BY <1>13, <2>1, <2>2, <2>3 DEF JobErrs, Conflict, UNCHANGED_Disk
<1>14. CASE RunJob(c)
  BY <1>9, <1>10, <1>11, <1>12, <1>13, <1>14 DEF RunJob
<1>15. CASE PersistFails(c)
  <2>1. op'[c].kind \in {"idle", "finish"}
    BY <1>15, AfterErrorOp, IdleOp DEF PersistFails, FinishOps
  <2> QED
    BY <1>15, <2>1 DEF PersistFails
<1>16. CASE Reply(c)
  <2>1. op[c].kind \notin {"deploy", "delete"}
    BY <1>0, <1>16, OpKinds DEF Reply, DeployOps, DeleteOps
  <2>2. log'.acked = log.acked /\ log'.deleted = log.deleted
    BY <1>0, <1>16, <2>1 DEF Reply, Replied, Log
  <2>3. op'[c].kind \in {"idle", "job", "finish"}
    BY <1>16, AfterReplyOp, IdleOp DEF Reply, FinishOps, CalledOps
  <2> QED
    BY <1>16, <2>2, <2>3 DEF Reply
<1> QED
  BY <1>7, <1>8, <1>13, <1>14, <1>15, <1>16

\* A definition that is shown is there.
LEMMA ShownIsThere ==
    ASSUME NEW d \in Definitions, NEW e, Shows(d, e)
    PROVE  e # NoDef
BY FileStoreAssumption, MemoryStoreAssumption
   DEF Shows, FileStoreAssumption, MemoryStoreAssumption

\* The fields of an acknowledged deployment.
LEMMA AckedFields ==
    ASSUME HistoryTyped, NEW a \in log.acked
    PROVE  a[1] \in Keys /\ a[2] \in Versions /\ a[3] \in Definitions
           /\ <<a[1], a[2]>> \in Keys \X Versions
BY DEF HistoryTyped, Log

\* What is known of a deleted key.
LEMMA DeletedFields ==
    ASSUME HistoryTyped
    PROVE  log.deleted \subseteq Keys
BY DEF HistoryTyped, Log

\* While an operation holds s.mu no other one deploys or deletes; without the
\* lock, all there is are insertions that have not happened.
LEMMA OthersQuiet ==
    ASSUME StateInv, PlaceInv, NEW c \in Actors, MayEnter(c) \/ Entered(op[c]) \/ store # "file",
           Moves(c)
    PROVE  \A d \in Actors \ {c} : (Deleting(op[d]) /\ Deploying(op[d]))'
<1> SUFFICES ASSUME NEW d \in Actors \ {c}
             PROVE  (Deleting(op[d]) /\ Deploying(op[d]))'
  OBVIOUS
<1>1. op'[d] = op[d]
  BY DEF Moves, StateInv, OpsTyped
<1>2. store = "file" => ~Entered(op[d])
  BY DEF PlaceInv, Mutex, MayEnter, Entered
<1>3. /\ op[d].kind = "delete" => Entered(op[d]) /\ op[d].at \in {"xml", "persist"}
      /\ op[d].kind = "deploy" => Entered(op[d]) /\ op[d].at \in {"xml", "insert", "persist"}
  BY OpKinds DEF StateInv, OpsTyped, DeployOps, DeleteOps, Entered
<1>4. op[d].at \in {"xml", "persist"} => store = "file"
  BY DEF PlaceInv, Backends, Backend
<1>5. op[d].kind # "delete" /\ ~(op[d].kind = "deploy" /\ op[d].at # "insert")
  BY <1>2, <1>3, <1>4
<1> QED
  BY <1>1, <1>5 DEF Deleting, Deploying

\* Deploy takes a version nobody was told about.
LEMMA DeployProc ==
    ASSUME StateInv, HistoryTyped, PlaceInv, ProcInv,
           NEW c \in Clients, NEW k \in Keys, NEW d \in Definitions, Deploy(c, k, d)
    PROVE  ProcInv'
<1> DEFINE v == latestVersionLocked(mem, k) + 1
           o == [kind |-> "deploy", at |-> "xml", key |-> k, ver |-> v, def |-> d]
<1>1. /\ server = "up" /\ v \in Versions /\ mem' = InsertProcessVersion(mem, k, v, d)
      /\ UNCHANGED <<store, yaml, xml, server>> /\ MayEnter(c)
      /\ IF store = "memory"
         THEN op' = op /\ log' = [log EXCEPT !.deleted = @ \ {k}, !.acked = @ \cup {<<k, v, d>>}]
         ELSE op' = [op EXCEPT ![c] = o] /\ log' = [log EXCEPT !.deleted = @ \ {k}]
      /\ store # "database"
  BY DEF Deploy, StoreVersion, IsIdle, Begin
<1>2. mem.procs[<<k, v>>] = NoDef
  BY <1>1, NextVersion DEF StateInv, TablesTyped
<1> HIDE DEF v
<1>3. c \in Actors /\ Moves(c)
  BY DeployMoves DEF Actors
<1>4. mem'.procs = [mem.procs EXCEPT ![<<k, v>>] = d]
  BY <1>1, InsertTables DEF StateInv, TablesTyped
<1>5. mem.procs \in [Keys \X Versions -> Definitions \cup {NoDef}]
  BY DEF StateInv, TablesTyped, Tables
<1>6. \A p \in Keys \X Versions : p # <<k, v>> => mem'.procs[p] = mem.procs[p]
  BY <1>4, <1>5
<1>7. mem'.procs[<<k, v>>] = d
  BY <1>1, <1>4, <1>5
<1>8. /\ log'.deleted = log.deleted \ {k}
      /\ log'.acked = log.acked \/ (store = "memory" /\ log'.acked = log.acked \cup {<<k, v, d>>})
  <2>1. log \in Log
    BY DEF HistoryTyped
  <2> QED
    BY <1>1, <2>1 DEF Log
<1>9. \A a \in log.acked : a[1] # k \/ a[2] # v
  <2> SUFFICES ASSUME NEW a \in log.acked, a[1] = k, a[2] = v PROVE FALSE
    OBVIOUS
  <2>1. Shows(a[3], mem.procs[<<k, v>>])
    BY <1>1 DEF ProcInv, AckedSurvives
  <2> QED
    BY <1>2, <2>1, AckedFields, ShownIsThere
<1>10. DeletedStaysDeleted'
  <2> SUFFICES ASSUME NEW l \in log'.deleted, NEW w \in Versions
               PROVE  /\ mem'.procs[<<l, w>>] = NoDef /\ xml'[<<l, w>>] = NoDef
                      /\ yaml' # NoRow => yaml'.procs[<<l, w>>] = NoDef
    BY DEF DeletedStaysDeleted
  <2>1. l \in log.deleted /\ l # k /\ l \in Keys
    BY <1>8, DeletedFields
  <2>2. <<l, w>> # <<k, v>> /\ <<l, w>> \in Keys \X Versions
    BY <2>1
  <2> QED
    BY <1>1, <1>6, <2>1, <2>2 DEF ProcInv, DeletedStaysDeleted
<1>11. AckedSurvives'
  <2> SUFFICES ASSUME NEW a \in log'.acked
               PROVE  /\ server' = "up" => Shows(a[3], mem'.procs[<<a[1], a[2]>>])
                      /\ store' = "file" =>
                           /\ yaml' # NoRow /\ Shows(a[3], yaml'.procs[<<a[1], a[2]>>])
                           /\ xml'[<<a[1], a[2]>>] = a[3]
    BY DEF AckedSurvives
  <2>1. CASE a \in log.acked
    <3>1. <<a[1], a[2]>> \in Keys \X Versions /\ <<a[1], a[2]>> # <<k, v>>
      BY <1>9, <2>1, AckedFields
    <3> QED
      BY <1>1, <1>6, <2>1, <3>1 DEF ProcInv, AckedSurvives
  <2>2. CASE a = <<k, v, d>> /\ store = "memory"
    <3>1. a[1] = k /\ a[2] = v /\ a[3] = d
      BY <2>2
    <3> QED
      BY <1>1, <1>7, <2>2, <3>1 DEF Shows
  <2> QED
    BY <1>8, <2>1, <2>2
<1>12. (Deleting(op[c]) /\ Deploying(op[c]))'
  <2>1. CASE store = "memory"
    <3>1. op' = op /\ op[c].kind = "idle"
      BY <1>1, <2>1 DEF Deploy, IsIdle
    <3> QED
      BY <3>1 DEF Deleting, Deploying
  <2>2. CASE store # "memory"
    <3>1. op' = [op EXCEPT ![c] = o] /\ log'.acked = log.acked
      BY <1>1, <1>8, <2>2
    <3>2. o.kind = "deploy" /\ o.at = "xml" /\ o.key = k /\ o.ver = v /\ o.def = d
      OBVIOUS
    <3> HIDE DEF o
    <3>3. op'[c] = o
      BY <1>3, <3>1, ReplacedOp
    <3> QED
      BY <1>7, <1>8, <1>9, <3>1, <3>2, <3>3 DEF Deleting, Deploying
  <2> QED
    BY <2>1, <2>2
<1>13. \A e \in Actors \ {c} : (Deleting(op[e]) /\ Deploying(op[e]))'
  BY <1>1, <1>3, OthersQuiet
<1> QED
  BY <1>10, <1>11, <1>12, <1>13 DEF ProcInv

\* A step that changes no definition, no file and nothing that was said about
\* them.
LEMMA QuietProc ==
    ASSUME StateInv, ProcInv, NEW c \in Actors, Moves(c),
           mem'.procs = mem.procs, xml' = xml, yaml' = yaml,
           log'.acked = log.acked, log'.deleted = log.deleted,
           op'[c].kind # "delete", op'[c].kind # "deploy" \/ op'[c].at = "insert"
    PROVE  ProcInv'
<1>1. (Deleting(op[c]) /\ Deploying(op[c]))'
  BY DEF Deleting, Deploying
<1>2. \A d \in Actors \ {c} : (Deleting(op[d]) /\ Deploying(op[d]))'
  <2> SUFFICES ASSUME NEW d \in Actors \ {c} PROVE (Deleting(op[d]) /\ Deploying(op[d]))'
    OBVIOUS
  <2>1. op'[d] = op[d]
    BY DEF Moves, StateInv, OpsTyped
  <2> QED
    BY <2>1 DEF ProcInv, Deleting, Deploying
<1>3. DeletedStaysDeleted'
  BY DEF ProcInv, DeletedStaysDeleted
<1>4. AckedSurvives'
  BY DEF ProcInv, AckedSurvives, Moves
<1> QED
  BY <1>1, <1>2, <1>3, <1>4 DEF ProcInv

\* Reading the largest version changes nothing.
LEMMA ReadVersionProc ==
    ASSUME StateInv, HistoryTyped, PlaceInv, ProcInv,
           NEW c \in Clients, NEW k \in Keys, NEW d \in Definitions, ReadVersion(c, k, d)
    PROVE  ProcInv'
<1> DEFINE v == latestVersionLocked(mem, k) + 1
           o == [kind |-> "deploy", at |-> "insert", key |-> k, def |-> d, ver |-> v]
<1>1. op' = [op EXCEPT ![c] = o] /\ o.at = "insert" /\ o.kind = "deploy"
      /\ UNCHANGED <<mem, yaml, xml, log>>
  BY DEF ReadVersion, Begin
<1> HIDE DEF o
<1>2. c \in Actors /\ op'[c] = o /\ Moves(c)
  BY <1>1, ReplacedOp, ReadVersionMoves DEF Actors
<1> QED
  BY <1>1, <1>2, QuietProc

\* The primary key keeps an acknowledged version from being overwritten.
LEMMA InsertVersionProc ==
    ASSUME StateInv, HistoryTyped, PlaceInv, ProcInv, NEW c \in Actors, InsertVersion(c)
    PROVE  ProcInv'
<1>0. PICK k, v, d : k = op[c].key /\ v = op[c].ver /\ d = op[c].def
  OBVIOUS
<1>1. /\ server = "up" /\ UNCHANGED <<store, yaml, xml, server>> /\ op[c].at = "insert"
      /\ IF mem.procs[<<k, v>>] = NoDef
         THEN /\ mem' = InsertProcessVersion(mem, k, v, d)
              /\ log' = [log EXCEPT !.deleted = @ \ {k}, !.acked = @ \cup {<<k, v, d>>}]
         ELSE UNCHANGED <<mem, log>>
  BY <1>0 DEF InsertVersion, At, UNCHANGED_Disk
<1>2. k \in Keys /\ v \in Versions /\ d \in Definitions
  BY <1>0, OpKinds DEF InsertVersion, At, DeployOps, StateInv, OpsTyped
<1>3. op'[c] = Idle /\ Moves(c) /\ store = "database"
  BY <1>1, ReplacedOp, InsertVersionMoves DEF InsertVersion, Return, PlaceInv, Backends, Backend
<1>4. CASE mem.procs[<<k, v>>] # NoDef
  BY <1>1, <1>3, <1>4, QuietProc, IdleOp
<1>5. CASE mem.procs[<<k, v>>] = NoDef
  <2>1. mem'.procs = [mem.procs EXCEPT ![<<k, v>>] = d]
    BY <1>1, <1>2, <1>5, InsertTables DEF StateInv, TablesTyped
  <2>2. mem.procs \in [Keys \X Versions -> Definitions \cup {NoDef}]
    BY DEF StateInv, TablesTyped, Tables
  <2>3. /\ \A p \in Keys \X Versions : p # <<k, v>> => mem'.procs[p] = mem.procs[p]
        /\ mem'.procs[<<k, v>>] = d
    BY <1>2, <2>1, <2>2
  <2>4. log'.deleted = log.deleted \ {k} /\ log'.acked = log.acked \cup {<<k, v, d>>}
    BY <1>1, <1>5 DEF HistoryTyped, Log
  <2>5. DeletedStaysDeleted'
    <3> SUFFICES ASSUME NEW l \in log'.deleted, NEW w \in Versions
                 PROVE  /\ mem'.procs[<<l, w>>] = NoDef /\ xml'[<<l, w>>] = NoDef
                        /\ yaml' # NoRow => yaml'.procs[<<l, w>>] = NoDef
      BY DEF DeletedStaysDeleted
    <3>1. l \in log.deleted /\ l # k /\ l \in Keys
      BY <2>4, DeletedFields
    <3>2. <<l, w>> # <<k, v>> /\ <<l, w>> \in Keys \X Versions
      BY <3>1
    <3> QED
      BY <1>1, <2>3, <3>1, <3>2 DEF ProcInv, DeletedStaysDeleted
  <2>6. AckedSurvives'
    <3> SUFFICES ASSUME NEW a \in log'.acked
                 PROVE  Shows(a[3], mem'.procs[<<a[1], a[2]>>])
      BY <1>1, <1>3 DEF AckedSurvives
    <3>1. CASE a \in log.acked
      <4>1. Shows(a[3], mem.procs[<<a[1], a[2]>>])
        BY <1>1, <3>1 DEF ProcInv, AckedSurvives
      <4>2. <<a[1], a[2]>> \in Keys \X Versions /\ <<a[1], a[2]>> # <<k, v>>
        BY <1>5, <3>1, <4>1, AckedFields, ShownIsThere
      <4> QED
        BY <2>3, <4>1, <4>2
    <3>2. CASE a = <<k, v, d>>
      <4>1. a[1] = k /\ a[2] = v /\ a[3] = d
        BY <3>2
      <4> QED
        BY <2>3, <4>1 DEF Shows
    <3> QED
      BY <2>4, <3>1, <3>2
  <2>7. (Deleting(op[c]) /\ Deploying(op[c]))'
    BY <1>3, IdleOp DEF Deleting, Deploying
  <2>8. \A e \in Actors \ {c} : (Deleting(op[e]) /\ Deploying(op[e]))'
    BY <1>3, OthersQuiet
  <2> QED
    BY <2>5, <2>6, <2>7, <2>8 DEF ProcInv
<1> QED
  BY <1>4, <1>5

\* The file that is written holds the definition that is acknowledged.
LEMMA WriteXMLProc ==
    ASSUME StateInv, HistoryTyped, PlaceInv, ProcInv, NEW c \in Actors, writeProcessXML(c)
    PROVE  ProcInv'
<1>0. PICK k, v, d : k = op[c].key /\ v = op[c].ver /\ d = op[c].def
  OBVIOUS
<1>1. /\ server = "up" /\ UNCHANGED <<store, mem, yaml, server, log>>
      /\ op[c].kind = "deploy" /\ op[c].at = "xml"
      /\ xml' = [xml EXCEPT ![<<k, v>>] = d] /\ Goto(c, "persist")
  BY <1>0 DEF writeProcessXML, At
<1>2. op[c] \in DeployOps /\ k \in Keys /\ v \in Versions /\ d \in Definitions
  BY <1>0, <1>1, OpKinds DEF DeployOps, StateInv, OpsTyped
<1>3. op'[c] = [op[c] EXCEPT !.at = "persist"] /\ Moves(c)
  BY <1>1, GotoOp, WriteXMLMoves
<1>4. op'[c].kind = "deploy" /\ op'[c].key = k /\ op'[c].ver = v /\ op'[c].def = d
  BY <1>0, <1>2, <1>3 DEF DeployOps
<1>5. xml \in [Keys \X Versions -> Definitions \cup {NoDef}]
  BY DEF StateInv, TablesTyped
<1>6. /\ \A p \in Keys \X Versions : p # <<k, v>> => xml'[p] = xml[p]
      /\ xml'[<<k, v>>] = d
  BY <1>1, <1>2, <1>5
<1>7. /\ mem.procs[<<k, v>>] = d /\ k \notin log.deleted
      /\ \A a \in log.acked : a[1] # k \/ a[2] # v
  BY <1>0, <1>1 DEF ProcInv, Deploying
<1>8. DeletedStaysDeleted'
  <2> SUFFICES ASSUME NEW l \in log.deleted, NEW w \in Versions
               PROVE  /\ mem.procs[<<l, w>>] = NoDef /\ xml'[<<l, w>>] = NoDef
                      /\ yaml # NoRow => yaml.procs[<<l, w>>] = NoDef
    BY <1>1 DEF DeletedStaysDeleted
  <2>1. <<l, w>> # <<k, v>> /\ <<l, w>> \in Keys \X Versions
    BY <1>7, DeletedFields
  <2> QED
    BY <1>6, <2>1 DEF ProcInv, DeletedStaysDeleted
<1>9. AckedSurvives'
  <2> SUFFICES ASSUME NEW a \in log.acked
               PROVE  /\ Shows(a[3], mem.procs[<<a[1], a[2]>>])
                      /\ store = "file" =>
                           /\ yaml # NoRow /\ Shows(a[3], yaml.procs[<<a[1], a[2]>>])
                           /\ xml'[<<a[1], a[2]>>] = a[3]
    BY <1>1 DEF AckedSurvives
  <2>1. <<a[1], a[2]>> \in Keys \X Versions /\ <<a[1], a[2]>> # <<k, v>>
    BY <1>7, AckedFields
  <2> QED
    BY <1>1, <1>6, <2>1 DEF ProcInv, AckedSurvives
<1>10. (Deleting(op[c]) /\ Deploying(op[c]))'
  BY <1>1, <1>4, <1>6, <1>7 DEF Deleting, Deploying
<1>11. \A e \in Actors \ {c} : (Deleting(op[e]) /\ Deploying(op[e]))'
  BY <1>1, <1>3, OthersQuiet DEF Entered
<1> QED
  BY <1>8, <1>9, <1>10, <1>11 DEF ProcInv

\* Delete takes back what was acknowledged for its key.
LEMMA DeleteProc ==
    ASSUME StateInv, HistoryTyped, PlaceInv, ProcInv,
           NEW c \in Clients, NEW k \in Keys, Delete(c, k)
    PROVE  ProcInv'
<1> DEFINE o == [kind |-> "delete", at |-> "xml", key |-> k]
           kept == {a \in log.acked : a[1] # k}
<1>1. /\ server = "up" /\ mem' = DeleteProcess(mem, k) /\ MayEnter(c) /\ op[c].kind = "idle"
      /\ UNCHANGED <<store, yaml, xml, server>>
      /\ IF store # "file"
         THEN op' = op /\ log' = [log EXCEPT !.acked = kept, !.deleted = @ \cup {k}]
         ELSE op' = [op EXCEPT ![c] = o] /\ log' = [log EXCEPT !.acked = kept]
  BY DEF Delete, IsIdle, Begin
<1>2. c \in Actors /\ Moves(c)
  BY DeleteMoves DEF Actors
<1>3. mem'.procs = [p \in Keys \X Versions |-> IF p[1] = k THEN NoDef ELSE mem.procs[p]]
  BY <1>1, DeleteTables DEF StateInv, TablesTyped
<1>4. /\ \A w \in Versions : mem'.procs[<<k, w>>] = NoDef
      /\ \A l \in Keys, w \in Versions : l # k => mem'.procs[<<l, w>>] = mem.procs[<<l, w>>]
  BY <1>3
<1>5. /\ log'.acked = kept
      /\ store # "file" => log'.deleted = log.deleted \cup {k}
      /\ store = "file" => log'.deleted = log.deleted
  BY <1>1 DEF HistoryTyped, Log
<1>6. DeletedStaysDeleted'
  <2> SUFFICES ASSUME NEW l \in log'.deleted, NEW w \in Versions
               PROVE  /\ mem'.procs[<<l, w>>] = NoDef /\ xml'[<<l, w>>] = NoDef
                      /\ yaml' # NoRow => yaml'.procs[<<l, w>>] = NoDef
    BY DEF DeletedStaysDeleted
  <2>1. CASE l \in log.deleted
    <3>1. l \in Keys
      BY <2>1, DeletedFields
    <3> QED
      BY <1>1, <1>4, <2>1, <3>1 DEF ProcInv, DeletedStaysDeleted
  <2>2. CASE l = k /\ store # "file"
    BY <1>1, <1>4, <2>2 DEF PlaceInv, Backends
  <2> QED
    BY <1>5, <2>1, <2>2
<1>7. AckedSurvives'
  <2> SUFFICES ASSUME NEW a \in log'.acked
               PROVE  /\ server' = "up" => Shows(a[3], mem'.procs[<<a[1], a[2]>>])
                      /\ store' = "file" =>
                           /\ yaml' # NoRow /\ Shows(a[3], yaml'.procs[<<a[1], a[2]>>])
                           /\ xml'[<<a[1], a[2]>>] = a[3]
    BY DEF AckedSurvives
  <2>1. a \in log.acked /\ a[1] # k
    BY <1>5
  <2>2. a[1] \in Keys /\ a[2] \in Versions
    BY <2>1, AckedFields
  <2>3. mem'.procs[<<a[1], a[2]>>] = mem.procs[<<a[1], a[2]>>]
    BY <1>4, <2>1, <2>2
  <2> QED
    BY <1>1, <2>1, <2>3 DEF ProcInv, AckedSurvives
<1>8. (Deleting(op[c]) /\ Deploying(op[c]))'
  <2>1. CASE store # "file"
    BY <1>1, <2>1 DEF Deleting, Deploying
  <2>2. CASE store = "file"
    <3>1. op' = [op EXCEPT ![c] = o] /\ o.kind = "delete" /\ o.at = "xml" /\ o.key = k
      BY <1>1, <2>2
    <3>2. \A a \in log'.acked : a[1] # k
      BY <1>5
    <3> HIDE DEF o
    <3>3. op'[c] = o
      BY <1>2, <3>1, ReplacedOp
    <3> QED
      BY <1>4, <3>1, <3>2, <3>3 DEF Deleting, Deploying
  <2> QED
    BY <2>1, <2>2
<1>9. \A e \in Actors \ {c} : (Deleting(op[e]) /\ Deploying(op[e]))'
  BY <1>1, <1>2, OthersQuiet
<1> QED
  BY <1>6, <1>7, <1>8, <1>9 DEF ProcInv

\* Definition files of a key that is being deleted are removed, all or some.
LEMMA RemoveXMLProc ==
    ASSUME StateInv, HistoryTyped, PlaceInv, ProcInv, NEW c \in Actors, Moves(c),
           op[c].kind = "delete", op[c].at = "xml",
           UNCHANGED <<store, mem, yaml, server, log>>,
           \A p \in Keys \X Versions : xml'[p] = xml[p] \/ (p[1] = op[c].key /\ xml'[p] = NoDef),
           (Deleting(op[c]) /\ Deploying(op[c]))'
    PROVE  ProcInv'
<1>1. server = "up" /\ \A a \in log.acked : a[1] # op[c].key
  BY DEF ProcInv, Deleting, Moves
<1>2. DeletedStaysDeleted'
  <2> SUFFICES ASSUME NEW l \in log.deleted, NEW w \in Versions
               PROVE  /\ mem.procs[<<l, w>>] = NoDef /\ xml'[<<l, w>>] = NoDef
                      /\ yaml # NoRow => yaml.procs[<<l, w>>] = NoDef
    BY DEF DeletedStaysDeleted
  <2>1. <<l, w>> \in Keys \X Versions /\ xml[<<l, w>>] = NoDef
    BY DeletedFields DEF ProcInv, DeletedStaysDeleted
  <2>2. xml'[<<l, w>>] = NoDef
    BY <2>1
  <2> QED
    BY <2>2 DEF ProcInv, DeletedStaysDeleted
<1>3. AckedSurvives'
  <2> SUFFICES ASSUME NEW a \in log.acked
               PROVE  /\ Shows(a[3], mem.procs[<<a[1], a[2]>>])
                      /\ store = "file" =>
                           /\ yaml # NoRow /\ Shows(a[3], yaml.procs[<<a[1], a[2]>>])
                           /\ xml'[<<a[1], a[2]>>] = a[3]
    BY DEF AckedSurvives
  <2>1. <<a[1], a[2]>> \in Keys \X Versions /\ <<a[1], a[2]>>[1] # op[c].key
    BY <1>1, AckedFields
  <2>2. xml'[<<a[1], a[2]>>] = xml[<<a[1], a[2]>>]
    BY <2>1
  <2> QED
    BY <1>1, <2>2 DEF ProcInv, AckedSurvives
<1>4. \A e \in Actors \ {c} : (Deleting(op[e]) /\ Deploying(op[e]))'
  BY OthersQuiet DEF Entered
<1> QED
  BY <1>2, <1>3, <1>4 DEF ProcInv

\* All files of the key are gone before the deletion is acknowledged.
LEMMA DeleteXMLProc ==
    ASSUME StateInv, HistoryTyped, PlaceInv, ProcInv, NEW c \in Actors, deleteProcessXML(c)
    PROVE  ProcInv'
<1>1. /\ op[c].kind = "delete" /\ op[c].at = "xml" /\ Goto(c, "persist")
      /\ UNCHANGED <<store, mem, yaml, server, log>>
      /\ xml' = [p \in DOMAIN xml |-> IF p[1] = op[c].key THEN NoDef ELSE xml[p]]
  BY DEF deleteProcessXML, At
<1>2. op[c] \in DeleteOps /\ Moves(c) /\ op'[c] = [op[c] EXCEPT !.at = "persist"]
  BY <1>1, OpKinds, DeleteXMLMoves, GotoOp DEF StateInv, OpsTyped
<1>3. op'[c].kind = "delete" /\ op'[c].key = op[c].key /\ op[c].key \in Keys
  BY <1>2 DEF DeleteOps
<1>4. xml \in [Keys \X Versions -> Definitions \cup {NoDef}]
  BY DEF StateInv, TablesTyped
<1>5. /\ \A p \in Keys \X Versions : xml'[p] = xml[p] \/ (p[1] = op[c].key /\ xml'[p] = NoDef)
      /\ \A w \in Versions : xml'[<<op[c].key, w>>] = NoDef
  BY <1>1, <1>3, <1>4
<1>6. (Deleting(op[c]) /\ Deploying(op[c]))'
  <2>1. /\ \A w \in Versions : mem.procs[<<op[c].key, w>>] = NoDef
        /\ \A a \in log.acked : a[1] # op[c].key
    BY <1>1 DEF ProcInv, Deleting
  <2>2. Deleting(op[c])'
    BY <1>1, <1>3, <1>5, <2>1 DEF Deleting
  <2>3. Deploying(op[c])'
    BY <1>3 DEF Deploying
  <2> QED
    BY <2>2, <2>3
<1> QED
  BY <1>1, <1>2, <1>5, <1>6, RemoveXMLProc

\* A deployment or deletion that fails is not acknowledged.
LEMMA XMLFailsProc ==
    ASSUME StateInv, HistoryTyped, PlaceInv, ProcInv, NEW c \in Actors, XMLFails(c)
    PROVE  ProcInv'
<1>1. op[c].at = "xml" /\ UNCHANGED <<store, mem, yaml, server, log>>
  BY DEF XMLFails
<1>2. op'[c] = Idle /\ Moves(c)
  BY ReplacedOp, XMLFailsMoves DEF XMLFails, Return
<1>3. CASE op[c].kind = "deploy" /\ xml' = xml
  BY <1>1, <1>2, <1>3, QuietProc, IdleOp
<1>4. CASE /\ op[c].kind = "delete"
           /\ \E V \in SUBSET Versions :
                xml' = [p \in DOMAIN xml |->
                          IF p[1] = op[c].key /\ p[2] \in V THEN NoDef ELSE xml[p]]
  <2>1. xml \in [Keys \X Versions -> Definitions \cup {NoDef}]
    BY DEF StateInv, TablesTyped
  <2>2. \A p \in Keys \X Versions : xml'[p] = xml[p] \/ (p[1] = op[c].key /\ xml'[p] = NoDef)
    BY <1>4, <2>1
  <2>3. (Deleting(op[c]) /\ Deploying(op[c]))'
    BY <1>2, IdleOp DEF Deleting, Deploying
  <2> QED
    BY <1>1, <1>2, <1>4, <2>2, <2>3, RemoveXMLProc
<1> QED
  BY <1>3, <1>4 DEF XMLFails

\* What is acknowledged is in state.yaml.
LEMMA PersistProc ==
    ASSUME StateInv, HistoryTyped, PlaceInv, ProcInv, NEW c \in Actors, persistLocked(c)
    PROVE  ProcInv'
<1>1. /\ server = "up" /\ op[c].at = "persist" /\ yaml' = mem /\ log' = Replied(c)
      /\ AfterReply(c) /\ UNCHANGED <<store, mem, xml, server>>
  BY DEF persistLocked
<1>2. op[c] \in Ops /\ mem # NoRow /\ log \in Log
  BY MemoryStoreAssumption
     DEF StateInv, OpsTyped, TablesTyped, HistoryTyped, MemoryStoreAssumption
<1>3. Moves(c) /\ op'[c].kind \notin {"deploy", "delete"}
  BY <1>1, EndingMoves, AfterReplyOp, IdleOp DEF CalledOps, FinishOps
<1>4. (Deleting(op[c]) /\ Deploying(op[c]))'
  BY <1>3 DEF Deleting, Deploying
<1>5. \A e \in Actors \ {c} : (Deleting(op[e]) /\ Deploying(op[e]))'
  BY <1>1, <1>3, OthersQuiet DEF Entered
<1>6. DeletedStaysDeleted'
  <2> SUFFICES ASSUME NEW l \in log'.deleted, NEW w \in Versions
               PROVE  mem.procs[<<l, w>>] = NoDef /\ xml[<<l, w>>] = NoDef
    BY <1>1 DEF DeletedStaysDeleted
  <2>1. CASE l \in log.deleted
    BY <2>1 DEF ProcInv, DeletedStaysDeleted
  <2>2. CASE op[c].kind = "delete" /\ l = op[c].key
    BY <1>1, <2>2 DEF ProcInv, Deleting
  <2>3. l \in log.deleted \/ (op[c].kind = "delete" /\ l = op[c].key)
    BY <1>1, <1>2 DEF Replied, Log
  <2> QED
    BY <2>1, <2>2, <2>3
<1>7. AckedSurvives'
  <2> SUFFICES ASSUME NEW a \in log'.acked
               PROVE  /\ Shows(a[3], mem.procs[<<a[1], a[2]>>])
                      /\ store = "file" => xml[<<a[1], a[2]>>] = a[3]
    BY <1>1, <1>2 DEF AckedSurvives
  <2>1. CASE a \in log.acked
    BY <1>1, <2>1 DEF ProcInv, AckedSurvives
  <2>2. CASE op[c].kind = "deploy" /\ a = <<op[c].key, op[c].ver, op[c].def>>
    BY <1>1, <2>2 DEF ProcInv, Deploying, Shows
  <2>3. a \in log.acked \/ (op[c].kind = "deploy" /\ a = <<op[c].key, op[c].ver, op[c].def>>)
    BY <1>1, <1>2 DEF Replied, Log
  <2> QED
    BY <2>1, <2>2, <2>3
<1> QED
  BY <1>4, <1>5, <1>6, <1>7 DEF ProcInv

\* Every step of an actor keeps what was acknowledged.
LEMMA ActsProc ==
    ASSUME StateInv, HistoryTyped, PlaceInv, ProcInv, NEW c \in Actors, Acts(c)
    PROVE  ProcInv'
<1>1. CASE c \in Clients /\ Deployment(c)
  BY <1>1, DeployProc, ReadVersionProc, InsertVersionProc, WriteXMLProc, DeleteProc,
     DeleteXMLProc, XMLFailsProc
     DEF Deployment
<1>2. CASE persistLocked(c)
  BY <1>2, PersistProc
<1>3. CASE \/ Request(c) \/ (c = Worker /\ Claim) \/ RunJob(c)
           \/ Conflict(c) \/ PersistFails(c) \/ Reply(c)
  BY <1>3, ProcFrame, ActsMoves, QuietProc
<1> QED
  BY <1>1, <1>2, <1>3 DEF Acts, Ending

\* What Open reads shows what was acknowledged, and nothing deleted.
LEMMA OpenProc ==
    ASSUME StateInv, HistoryTyped, PlaceInv, ProcInv, Open
    PROVE  ProcInv'
<1>1. /\ server = "down" /\ UNCHANGED <<store, yaml, xml, op, log>>
      /\ \/ server' = "up" /\ ~ParseFails /\ mem' = Loaded
         \/ server' = "broken" /\ mem' = mem
  BY DEF Open
<1>2. store = "file" /\ \A c \in Actors : op[c] = Idle
  BY <1>1 DEF StateInv, OpsTyped
<1>3. \A c \in Actors : (Deleting(op[c]) /\ Deploying(op[c]))'
  BY <1>1, <1>2, IdleOp DEF Deleting, Deploying
<1>4. DeletedStaysDeleted'
  <2> SUFFICES ASSUME NEW l \in log.deleted, NEW w \in Versions
               PROVE  /\ mem'.procs[<<l, w>>] = NoDef /\ xml[<<l, w>>] = NoDef
                      /\ yaml # NoRow => yaml.procs[<<l, w>>] = NoDef
    BY <1>1 DEF DeletedStaysDeleted
  <2>1. /\ mem.procs[<<l, w>>] = NoDef /\ xml[<<l, w>>] = NoDef
        /\ yaml # NoRow => yaml.procs[<<l, w>>] = NoDef
    BY DEF ProcInv, DeletedStaysDeleted
  <2>2. <<l, w>> \in Keys \X Versions
    BY DeletedFields
  <2>3. CASE mem' = mem
    BY <2>1, <2>3
  <2>4. CASE ~ParseFails /\ mem' = Loaded /\ yaml = NoRow
    BY <2>1, <2>2, <2>4, LoadedTables DEF NewStore
  <2>5. CASE ~ParseFails /\ mem' = Loaded /\ yaml # NoRow
    BY <2>1, <2>2, <2>5, LoadedTables
  <2> QED
    BY <1>1, <2>3, <2>4, <2>5
<1>5. AckedSurvives'
  <2> SUFFICES ASSUME NEW a \in log.acked
               PROVE  /\ server' = "up" => Shows(a[3], mem'.procs[<<a[1], a[2]>>])
                      /\ yaml # NoRow /\ Shows(a[3], yaml.procs[<<a[1], a[2]>>])
                      /\ xml[<<a[1], a[2]>>] = a[3]
    BY <1>1 DEF AckedSurvives
  <2>1. /\ yaml # NoRow /\ Shows(a[3], yaml.procs[<<a[1], a[2]>>])
        /\ xml[<<a[1], a[2]>>] = a[3]
    BY <1>2 DEF ProcInv, AckedSurvives
  <2>2. <<a[1], a[2]>> \in Keys \X Versions /\ a[3] # NoDef
    BY AckedFields, MemoryStoreAssumption DEF MemoryStoreAssumption
  <2>3. ~ParseFails => Loaded.procs[<<a[1], a[2]>>] = RoundTrip(a[3])
    BY <2>1, <2>2, LoadedTables
  <2> QED
    BY <1>1, <2>1, <2>3 DEF Shows
<1> QED
  BY <1>3, <1>4, <1>5 DEF ProcInv

\* A stop keeps the files.
LEMMA CrashProc ==
    ASSUME StateInv, HistoryTyped, PlaceInv, ProcInv, Crash
    PROVE  ProcInv'
<1>1. /\ server' = "down" /\ mem' = NewStore /\ UNCHANGED <<store, yaml, xml, log>>
      /\ op' = [c \in Actors |-> Idle]
  BY DEF Crash
<1>2. \A c \in Actors : (Deleting(op[c]) /\ Deploying(op[c]))'
  BY <1>1, IdleOp DEF Deleting, Deploying
<1>3. \A k \in Keys, v \in Versions : mem'.procs[<<k, v>>] = NoDef
  BY <1>1 DEF NewStore
<1>4. DeletedStaysDeleted'
  BY <1>1, <1>3, DeletedFields DEF ProcInv, DeletedStaysDeleted
<1>5. AckedSurvives'
  BY <1>1 DEF ProcInv, AckedSurvives
<1> QED
  BY <1>2, <1>4, <1>5 DEF ProcInv

\* Definitions keep what callers were told, step by step.
LEMMA ProcStep ==
    ASSUME StateInv, HistoryTyped, PlaceInv, ProcInv, [Next]_vars
    PROVE  ProcInv'
<1>1. CASE \E c \in Actors : Acts(c)
  BY <1>1, ActsProc
<1>2. CASE Crash \/ Open
  BY <1>2, CrashProc, OpenProc
<1>3. CASE UNCHANGED vars
  BY <1>3 DEF vars, ProcInv, Deleting, Deploying, DeletedStaysDeleted, AckedSurvives
<1> QED
  BY <1>1, <1>2, <1>3, NextSplit

\* Definitions keep what callers were told, always.
LEMMA ProcInvariant == Spec => [](StateInv /\ HistoryTyped /\ PlaceInv /\ ProcInv)
<1>1. Init => StateInv /\ HistoryTyped /\ PlaceInv /\ ProcInv
  BY InitState, InitPlace, IdleOp
     DEF Init, ProcInv, Deleting, Deploying, DeletedStaysDeleted, AckedSurvives
<1>2. StateInv /\ HistoryTyped /\ PlaceInv /\ ProcInv /\ [Next]_vars
        => (StateInv /\ HistoryTyped /\ PlaceInv /\ ProcInv)'
  BY StateStep, HistoryStep, PlaceStep, ProcStep
<1> QED
  BY <1>1, <1>2, PTL DEF Spec

\* A process whose deletion was acknowledged stays deleted, in memory, in
\* state.yaml and among the definition files, for every interleaving of requests,
\* every failing file operation and every stop of the server.
THEOREM DeletionsLast == Spec => []DeletedStaysDeleted
<1>1. ProcInv => DeletedStaysDeleted
  BY DEF ProcInv
<1> QED
  BY <1>1, ProcInvariant, PTL

-----------------------------------------------------------------------------
(* Jobs and approvals *)

\* Both transactions that end with EnqueueJob: the task is completed before its
\* job is there, and with the job when the transaction is written or answered.
Approving(o) ==
    o.kind = "complete" =>
        /\ o.at # "enter" => mem.acts[o.inst][o.task] = "completed"
        /\ o.at \in {"persist", "reply"} => HasJob(mem, o.inst, o.task)

ApprovedIn(m, a) == m.acts[a[1]][a[2]] = "completed" /\ HasJob(m, a[1], a[2])

\* The second half of AcknowledgedSurvives.
ApprovedSurvives ==
    \A a \in log.approved :
        /\ server = "up" => ApprovedIn(mem, a)
        /\ store = "file" => yaml # NoRow /\ ApprovedIn(yaml, a)

ApprovalInv == ApprovedSurvives /\ \A c \in Actors : Approving(op[c])

\* A job stays when the tables grow.
LEMMA HasJobGrows ==
    ASSUME NEW m, NEW n, NEW i, NEW t, Grows(m, n), HasJob(m, i, t)
    PROVE  HasJob(n, i, t)
BY DEF Grows, HasJob

\* Deployments and deletions touch no instance, task or job, and nothing that was
\* said about them.
LEMMA RowFrame ==
    ASSUME StateInv, HistoryTyped, NEW c \in Actors, Deployment(c)
    PROVE  /\ mem'.insts = mem.insts /\ mem'.acts = mem.acts /\ mem'.jobs = mem.jobs
           /\ yaml' = yaml
           /\ log'.approved = log.approved /\ log'.used = log.used /\ log'.runs = log.runs
           /\ op'[c].kind \in {"idle", "deploy", "delete"}
<1>0. op[c] \in Ops /\ mem \in Tables /\ log \in Log
  BY DEF StateInv, OpsTyped, TablesTyped, HistoryTyped
<1>1. CASE \E k \in Keys, d \in Definitions : Deploy(c, k, d)
  <2>1. PICK k \in Keys, d \in Definitions : Deploy(c, k, d)
    BY <1>1
  <2> DEFINE v == latestVersionLocked(mem, k) + 1
             o == [kind |-> "deploy", at |-> "xml", key |-> k, ver |-> v, def |-> d]
  <2>2. /\ v \in Versions /\ mem' = InsertProcessVersion(mem, k, v, d)
        /\ op[c].kind = "idle" /\ yaml' = yaml
        /\ IF store = "memory"
           THEN op' = op /\ log' = [log EXCEPT !.deleted = @ \ {k}, !.acked = @ \cup {<<k, v, d>>}]
           ELSE op' = [op EXCEPT ![c] = o] /\ log' = [log EXCEPT !.deleted = @ \ {k}]
    BY <2>1 DEF Deploy, StoreVersion, IsIdle, Begin
  <2> HIDE DEF v
  <2>3. o.kind = "deploy"
    OBVIOUS
  <2> HIDE DEF o
  <2>4. mem'.insts = mem.insts /\ mem'.acts = mem.acts /\ mem'.jobs = mem.jobs
    BY <1>0, <2>2 DEF InsertProcessVersion, Tables
  <2>5. log'.approved = log.approved /\ log'.used = log.used /\ log'.runs = log.runs
    BY <1>0, <2>2 DEF Log
  <2>6. op' = op \/ op'[c] = o
    BY <2>2, ReplacedOp
  <2> QED
    BY <2>2, <2>3, <2>4, <2>5, <2>6
<1>2. CASE \E k \in Keys, d \in Definitions : ReadVersion(c, k, d)
  <2>1. PICK k \in Keys, d \in Definitions : ReadVersion(c, k, d)
    BY <1>2
  <2>2. op'[c].kind = "deploy"
    BY <2>1, ReplacedOp DEF ReadVersion, Begin, StateInv, OpsTyped
  <2> QED
    BY <2>1, <2>2 DEF ReadVersion
<1>3. CASE \E k \in Keys : Delete(c, k)
  <2>1. PICK k \in Keys : Delete(c, k)
    BY <1>3
  <2>2. mem'.insts = mem.insts /\ mem'.acts = mem.acts /\ mem'.jobs = mem.jobs
    BY <1>0, <2>1, DeleteTables DEF Delete
  <2>3. log'.approved = log.approved /\ log'.used = log.used /\ log'.runs = log.runs
    BY <1>0, <2>1 DEF Delete, Log
  <2> DEFINE o == [kind |-> "delete", at |-> "xml", key |-> k]
  <2>4. (op' = op /\ op[c].kind = "idle") \/ op' = [op EXCEPT ![c] = o]
    BY <2>1 DEF Delete, IsIdle, Begin
  <2>5. o.kind = "delete"
    OBVIOUS
  <2> HIDE DEF o
  <2>6. op'[c].kind \in {"idle", "delete"}
    BY <2>4, <2>5, ReplacedOp
  <2> QED
    BY <2>1, <2>2, <2>3, <2>6 DEF Delete
<1>4. CASE InsertVersion(c)
  <2>0. PICK k, v, d : k = op[c].key /\ v = op[c].ver /\ d = op[c].def
    OBVIOUS
  <2>1. /\ mem' = mem \/ mem' = InsertProcessVersion(mem, k, v, d)
        /\ log' = log \/ log' = [log EXCEPT !.deleted = @ \ {k}, !.acked = @ \cup {<<k, v, d>>}]
        /\ yaml' = yaml
    BY <1>4, <2>0 DEF InsertVersion, UNCHANGED_Disk
  <2>2. mem'.insts = mem.insts /\ mem'.acts = mem.acts /\ mem'.jobs = mem.jobs
    BY <1>0, <2>1 DEF InsertProcessVersion, Tables
  <2>3. log'.approved = log.approved /\ log'.used = log.used /\ log'.runs = log.runs
    BY <1>0, <2>1 DEF Log
  <2>4. op'[c].kind = "idle"
    BY <1>4, ReplacedOp, IdleOp DEF InsertVersion, Return
  <2> QED
    BY <2>1, <2>2, <2>3, <2>4
<1>5. CASE writeProcessXML(c) \/ deleteProcessXML(c)
  <2>1. op'[c] = [op[c] EXCEPT !.at = "persist"] /\ (op[c] \in DeployOps \/ op[c] \in DeleteOps)
    BY <1>0, <1>5, GotoOp, OpKinds DEF writeProcessXML, deleteProcessXML, At
  <2>2. op'[c].kind \in {"deploy", "delete"}
    BY <2>1 DEF DeployOps, DeleteOps
  <2> QED
    BY <1>5, <2>2 DEF writeProcessXML, deleteProcessXML
<1>6. CASE XMLFails(c)
  <2>1. op'[c].kind = "idle"
    BY <1>6, ReplacedOp, IdleOp DEF XMLFails, Return
  <2> QED
    BY <1>6, <2>1 DEF XMLFails
<1> QED
  BY <1>1, <1>2, <1>3, <1>4, <1>5, <1>6 DEF Deployment

\* The worker's steps start no transaction of a request, and what was approved and
\* which ids are used does not change.
LEMMA WorkerFrame ==
    ASSUME StateInv, HistoryTyped, NEW c \in Actors, (c = Worker /\ Claim) \/ RunJob(c)
    PROVE  /\ op'[c].kind \in {"claim", "job", "finish"}
           /\ yaml' = yaml /\ log'.approved = log.approved /\ log'.used = log.used
<1>0. log \in Log
  BY DEF HistoryTyped
<1>1. CASE c = Worker /\ Claim
  BY <1>1, ClaimMoves DEF Claim, UNCHANGED_Disk, ClaimOps
<1>2. CASE RunStartJob(c) \/ RunContinueJob(c) \/ NotRunning(c)
  <2>1. op'[c].kind \in {"job", "finish"}
    BY <1>2, ReplacedOp DEF RunStartJob, RunContinueJob, NotRunning, Begin, StateInv, OpsTyped
  <2>2. log' = Ran(c) /\ yaml' = yaml
    BY <1>2 DEF RunStartJob, RunContinueJob, NotRunning, UNCHANGED_Disk
  <2> QED
    BY <1>0, <2>1, <2>2 DEF Ran, Log
<1>3. CASE \E t \in Tasks : OpenTask(c, t)
  BY <1>3, OpenTaskOp DEF OpenTask, UNCHANGED_Disk, RunningOps
<1>4. CASE SaveInstance(c) \/ completeElement(c)
  BY <1>4, SaveInstanceOp, CompleteElementOp
     DEF SaveInstance, completeElement, UNCHANGED_Disk, RunningOps
<1>5. CASE AllOpened(c) \/ tryCompleteProcess(c) \/ FinishJob(c)
  <2>1. op'[c].kind \in {"job", "finish"}
    BY <1>5, CommittedOp DEF AllOpened, tryCompleteProcess, FinishJob, At
  <2> QED
    BY <1>5, <2>1 DEF AllOpened, tryCompleteProcess, FinishJob, UNCHANGED_Disk
<1>6. CASE JobErrs(c)
  <2>1. op'[c].kind = "finish"
    BY <1>6, AfterErrorOp DEF JobErrs, FinishOps
  <2>2. log'.approved = log.approved /\ log'.used = log.used
    BY <1>0, <1>6, TornLog DEF Log
  <2> QED
    BY <1>6, <2>1, <2>2 DEF JobErrs
<1> QED
  BY <1>1, <1>2, <1>3, <1>4, <1>5, <1>6 DEF RunJob

\* An operation that ends leaves the tables alone.
LEMMA EndingFrame ==
    ASSUME StateInv, HistoryTyped, NEW c \in Actors, Ending(c)
    PROVE  /\ mem' = mem /\ log'.used = log.used /\ log'.runs = log.runs
           /\ op'[c].kind \in {"idle", "job", "finish"} /\ op'[c].at \in {"idle", "enter"}
           /\ op'[c].kind = "job" =>
                /\ op[c].kind = "claim" /\ op'[c].job = op[c].job
                /\ persistLocked(c) \/ Reply(c)
           /\ yaml' = yaml \/ (persistLocked(c) /\ yaml' = mem)
           /\ \A a \in log'.approved : a \in log.approved
                \/ /\ persistLocked(c) \/ Reply(c)
                   /\ op[c].kind = "complete" /\ a = <<op[c].inst, op[c].task>>
<1>0. log \in Log
  BY DEF HistoryTyped
<1>1. CASE Conflict(c)
  <2>1. op'[c].kind \in {"idle", "finish"} /\ op'[c].at \in {"idle", "enter"}
    BY <1>1, AfterErrorOp, IdleOp DEF Conflict, FinishOps
  <2>2. log'.approved = log.approved /\ log'.used = log.used /\ log'.runs = log.runs
    BY <1>0, <1>1, TornLog DEF Log
  <2> QED
    BY <1>1, <2>1, <2>2 DEF Conflict, UNCHANGED_Disk
<1>2. CASE PersistFails(c)
  <2>1. op'[c].kind \in {"idle", "finish"} /\ op'[c].at \in {"idle", "enter"}
    BY <1>2, AfterErrorOp, IdleOp DEF PersistFails, FinishOps
  <2> QED
    BY <1>2, <2>1 DEF PersistFails
<1>3. CASE persistLocked(c) \/ Reply(c)
  <2>1. AfterReply(c) /\ log' = Replied(c) /\ mem' = mem
        /\ (yaml' = yaml \/ (persistLocked(c) /\ yaml' = mem))
    BY <1>3 DEF persistLocked, Reply
  <2>2. /\ op'[c].kind \in {"idle", "job", "finish"} /\ op'[c].at \in {"idle", "enter"}
        /\ op'[c].kind = "job" => op[c].kind = "claim" /\ op'[c].job = op[c].job
    BY <2>1, AfterReplyOp, IdleOp DEF FinishOps, CalledOps
  <2>3. log'.used = log.used /\ log'.runs = log.runs
    BY <1>0, <2>1 DEF Replied, Log
  <2>4. \A a \in log'.approved :
          a \in log.approved \/ (op[c].kind = "complete" /\ a = <<op[c].inst, op[c].task>>)
    BY <1>0, <2>1 DEF Replied, Log
  <2> QED
    BY <1>3, <2>1, <2>2, <2>3, <2>4
<1> QED
  BY <1>1, <1>2, <1>3 DEF Ending

\* The transactions of requests leave the history alone, but for the id of a new
\* instance.
LEMMA RequestFrame ==
    ASSUME StateInv, HistoryTyped, NEW c \in Actors, Request(c)
    PROVE  /\ yaml' = yaml /\ log'.approved = log.approved /\ log'.runs = log.runs
           /\ \/ log'.used = log.used
              \/ \E i \in Instances, k \in Keys : BeginStart(c, i, k)
<1>0. log \in Log
  BY DEF HistoryTyped
<1>1. CASE \E i \in Instances, k \in Keys : BeginStart(c, i, k)
  BY <1>0, <1>1 DEF BeginStart, Log
<1>2. CASE \E i \in Instances, t \in Tasks : BeginComplete(c, i, t)
  BY <1>2 DEF BeginComplete
<1>3. CASE CreateInstance(c) \/ CloseTask(c) \/ WriteInstance(c) \/ Enqueue(c)
  BY <1>3 DEF CreateInstance, CloseTask, WriteInstance, Enqueue, UNCHANGED_Disk
<1> QED
  BY <1>1, <1>2, <1>3 DEF Request

\* What a closing task writes.
LEMMA CloseTables ==
    ASSUME StateInv, NEW c \in Actors, CloseTask(c)
    PROVE  /\ op[c] \in CompleteOps /\ op[c].inst \in Instances /\ op[c].task \in Tasks
           /\ mem.insts[op[c].inst] \in InstanceRow /\ mem'.insts[op[c].inst] \in InstanceRow
           /\ mem'.jobs = mem.jobs /\ mem'.acts[op[c].inst][op[c].task] = "completed"
           /\ mem'.insts[op[c].inst].lock = mem.insts[op[c].inst].lock
           /\ mem'.insts[op[c].inst].status = mem.insts[op[c].inst].status
           /\ \A j \in Instances \ {op[c].inst} : mem'.insts[j] = mem.insts[j]
<1>1. op[c] \in CompleteOps /\ mem.insts[op[c].inst] # NoRow
  BY OpKinds DEF CloseTask, At, StateInv, OpsTyped, Linked
<1>2. op[c].inst \in Instances /\ op[c].task \in Tasks
  BY <1>1 DEF CompleteOps
<1>3. mem.insts[op[c].inst] \in InstanceRow
  BY <1>1, <1>2 DEF StateInv, TablesTyped, Tables
<1>4. PICK i, t : i = op[c].inst /\ t = op[c].task
  OBVIOUS
<1> DEFINE n == ShowCompacted(UpdateActivityInstance(mem, i, t, "completed"), i, t)
<1>5. mem \in Tables /\ JobsLinked(mem) /\ i \in Instances /\ t \in Tasks /\ mem.insts[i] # NoRow
  BY <1>1, <1>2, <1>4 DEF StateInv, TablesTyped
<1>6. /\ n.jobs = mem.jobs /\ n.acts[i][t] = "completed"
      /\ n.insts[i] \in InstanceRow
      /\ n.insts[i].lock = mem.insts[i].lock
      /\ n.insts[i].status = mem.insts[i].status
      /\ \A j \in Instances \ {i} : n.insts[j] = mem.insts[j]
  BY <1>5, CloseGrows, ZenonT(60)
<1>7. mem' = n
  BY <1>4 DEF CloseTask
<1> HIDE DEF n
<1> QED
  BY <1>1, <1>2, <1>3, <1>4, <1>6, <1>7

\* A transaction that approves a task, after a step of its own.
LEMMA ApprovingOwn ==
    ASSUME StateInv, HistoryTyped, NEW c \in Actors, Approving(op[c]), Acts(c)
    PROVE  Approving(op[c])'
<1>0. Moves(c)
  BY ActsMoves
<1>1. CASE \/ c \in Clients /\ Deployment(c)
           \/ c = Worker /\ (Claim \/ RunJob(c))
           \/ Ending(c)
  <2>1. op'[c].kind # "complete"
    BY <1>1, RowFrame, WorkerFrame, EndingFrame
  <2> QED
    BY <2>1 DEF Approving
<1>2. CASE \E i \in Instances, k \in Keys : BeginStart(c, i, k)
  <2>1. op'[c].kind = "start"
    BY <1>2, ReplacedOp DEF BeginStart, Begin, StateInv, OpsTyped
  <2> QED
    BY <2>1 DEF Approving
<1>3. CASE \E i \in Instances, t \in Tasks : BeginComplete(c, i, t)
  <2>1. op'[c].at = "enter"
    BY <1>3, ReplacedOp DEF BeginComplete, Begin, StateInv, OpsTyped
  <2> QED
    BY <2>1 DEF Approving
<1>4. CASE CreateInstance(c)
  <2>1. op[c] \in StartOps /\ op'[c] = [op[c] EXCEPT !.at = "enqueue"]
    BY <1>4, OpKinds, GotoOp DEF CreateInstance, At, StateInv, OpsTyped
  <2>2. op'[c].kind = "start"
    BY <2>1 DEF StartOps
  <2> QED
    BY <2>2 DEF Approving
<1>5. CASE CloseTask(c)
  BY <1>5, CloseOp, CloseTables DEF Approving
<1>6. CASE WriteInstance(c)
  <2>1. op[c] \in CompleteOps /\ op'[c] = [op[c] EXCEPT !.at = "enqueue"] /\ op[c].at = "route"
    BY <1>6, OpKinds, GotoOp DEF WriteInstance, At, StateInv, OpsTyped
  <2>2. op'[c].at = "enqueue" /\ op'[c].inst = op[c].inst /\ op'[c].task = op[c].task
        /\ op[c].kind = "complete" /\ op[c].inst \in Instances /\ op[c].task \in Tasks
    BY <2>1 DEF CompleteOps
  <2>3. mem'.acts[op[c].inst][op[c].task] = "completed"
    BY <1>0, <2>1, <2>2 DEF Approving, Moves, Grows
  <2> QED
    BY <2>2, <2>3 DEF Approving
<1>7. CASE Enqueue(c)
  <2>1. /\ op[c].inst \in Instances /\ JobTask(op[c]) \in Tasks \cup {"start"}
        /\ mem' = EnqueueJob(mem, op[c].inst, JobTask(op[c]))
        /\ op'[c].kind = op[c].kind /\ op'[c].inst = op[c].inst
        /\ op[c].kind = "complete" => op'[c].task = op[c].task
    BY <1>7, EnqueueMoves
  <2>2. CASE op[c].kind # "complete"
    BY <2>1, <2>2 DEF Approving
  <2>3. CASE op[c].kind = "complete"
    <3>1. JobTask(op[c]) = op[c].task /\ op[c].task \in Tasks /\ op[c].at = "enqueue"
      BY <1>7, <2>3, OpKinds DEF JobTask, CompleteOps, StateInv, OpsTyped, Enqueue
    <3>2. mem'.acts[op[c].inst][op[c].task] = "completed"
      BY <1>0, <2>1, <2>3, <3>1 DEF Approving, Moves, Grows
    <3>3. HasJob(mem', op[c].inst, op[c].task)
      <4> DEFINE i == op[c].inst
                 t == op[c].task
                 n == EnqueueJob(mem, i, t)
                 l == Len(mem.jobs) + 1
      <4>1. i \in Instances /\ t \in Tasks \cup {"start"} /\ mem \in Tables
        BY <2>1, <3>1 DEF StateInv, TablesTyped
      <4> HIDE DEF i, t
      <4>2. /\ DOMAIN n.jobs = DOMAIN mem.jobs \cup {l}
            /\ n.jobs[l] = [inst |-> i, task |-> t, status |-> "pending"]
        BY <4>1, EnqueueTables
      <4>3. mem' = n
        BY <2>1, <3>1 DEF i, t
      <4> HIDE DEF n, l
      <4> QED
        BY <4>2, <4>3 DEF HasJob, i, t
    <3> QED
      BY <2>1, <2>3, <3>1, <3>2, <3>3 DEF Approving
  <2> QED
    BY <2>2, <2>3
<1> QED
  BY <1>1, <1>2, <1>3, <1>4, <1>5, <1>6, <1>7 DEF Acts, Request

\* The others' approvals: what they have written stays.
LEMMA ApprovingOthers ==
    ASSUME StateInv, NEW c \in Actors, Moves(c), NEW d \in Actors \ {c}, Approving(op[d])
    PROVE  Approving(op[d])'
<1>1. op'[d] = op[d] /\ Grows(mem, mem')
  BY DEF Moves, StateInv, OpsTyped
<1>2. op[d].kind = "complete" => op[d].inst \in Instances /\ op[d].task \in Tasks
  BY OpKinds DEF StateInv, OpsTyped, CompleteOps
<1>3. op[d].kind = "complete" /\ op[d].at # "enter" => mem'.acts[op[d].inst][op[d].task] = "completed"
  BY <1>1, <1>2 DEF Approving, Grows
<1>4. op[d].kind = "complete" /\ op[d].at \in {"persist", "reply"}
        => HasJob(mem', op[d].inst, op[d].task)
  BY <1>1, HasJobGrows DEF Approving
<1> QED
  BY <1>1, <1>3, <1>4 DEF Approving

\* Approvals keep what callers were told, step by step.
LEMMA ApprovalStep ==
    ASSUME StateInv, HistoryTyped, PlaceInv, ApprovalInv, [Next]_vars
    PROVE  ApprovalInv'
<1>1. ASSUME NEW c \in Actors, Acts(c) PROVE ApprovalInv'
  <2>1. Moves(c)
    BY <1>1, ActsMoves
  <2>2. \A d \in Actors : Approving(op[d])'
    <3> SUFFICES ASSUME NEW d \in Actors PROVE Approving(op[d])'
      OBVIOUS
    <3>1. CASE d = c
      BY <1>1, <3>1, ApprovingOwn DEF ApprovalInv
    <3>2. CASE d # c
      BY <2>1, <3>2, ApprovingOthers DEF ApprovalInv
    <3> QED
      BY <3>1, <3>2
  <2>3. /\ yaml' = yaml \/ (persistLocked(c) /\ yaml' = mem)
        /\ \A a \in log'.approved : a \in log.approved
             \/ /\ persistLocked(c) \/ Reply(c)
                /\ op[c].kind = "complete" /\ a = <<op[c].inst, op[c].task>>
    BY <1>1, RowFrame, RequestFrame, WorkerFrame, EndingFrame DEF Acts
  <2>4. \A a \in log.approved \cup {<<op[c].inst, op[c].task>>} :
          ApprovedIn(mem, a) /\ a \in Instances \X Tasks => ApprovedIn(mem', a)
    BY <2>1, HasJobGrows DEF ApprovedIn, Moves, Grows
  <2>5. log.approved \subseteq Instances \X Tasks
    BY DEF HistoryTyped, Log
  <2>6. mem # NoRow /\ server = "up" /\ server' = "up" /\ store' = store
    BY <2>1, MemoryStoreAssumption DEF StateInv, TablesTyped, Moves, MemoryStoreAssumption
  <2>7. ASSUME NEW a \in log.approved
        PROVE  ApprovedIn(mem', a) /\ (store = "file" => yaml' # NoRow /\ ApprovedIn(yaml', a))
    <3>1. ApprovedIn(mem, a) /\ (store = "file" => yaml # NoRow /\ ApprovedIn(yaml, a))
      BY <2>6 DEF ApprovalInv, ApprovedSurvives
    <3> QED
      BY <2>3, <2>4, <2>5, <2>6, <3>1
  <2>8. ASSUME persistLocked(c) \/ Reply(c), op[c].kind = "complete",
               NEW a, a = <<op[c].inst, op[c].task>>
        PROVE  ApprovedIn(mem', a) /\ (store = "file" => yaml' # NoRow /\ ApprovedIn(yaml', a))
    <3>1. op[c].at \in {"persist", "reply"} /\ mem' = mem
          /\ (op[c].at = "reply" \/ yaml' = mem)
      BY <2>8 DEF persistLocked, Reply
    <3>2. ApprovedIn(mem, a)
      BY <2>8, <3>1 DEF ApprovalInv, Approving, ApprovedIn
    <3>3. op[c].at = "reply" => store # "file"
      BY DEF PlaceInv, Backends, Backend
    <3> QED
      BY <2>6, <3>1, <3>2, <3>3
  <2>9. ApprovedSurvives'
    BY <2>3, <2>6, <2>7, <2>8 DEF ApprovedSurvives
  <2> QED
    BY <2>2, <2>9 DEF ApprovalInv
<1>2. CASE Crash
  BY <1>2, IdleOp DEF Crash, ApprovalInv, Approving, ApprovedSurvives
<1>3. CASE Open
  <2>1. /\ server = "down" /\ UNCHANGED <<store, yaml, op, log>>
        /\ \/ server' = "up" /\ ~ParseFails /\ mem' = Loaded
           \/ server' = "broken"
    BY <1>3 DEF Open
  <2>2. store = "file" /\ \A c \in Actors : op[c] = Idle
    BY <2>1 DEF StateInv, OpsTyped
  <2>3. \A c \in Actors : Approving(op[c])'
    BY <2>1, <2>2, IdleOp DEF Approving
  <2>4. yaml # NoRow /\ ~ParseFails => Loaded.acts = yaml.acts /\ Loaded.jobs = yaml.jobs
    BY LoadedTables
  <2>5. ApprovedSurvives'
    BY <2>1, <2>2, <2>4 DEF ApprovalInv, ApprovedSurvives, ApprovedIn, HasJob
  <2> QED
    BY <2>3, <2>5 DEF ApprovalInv
<1>4. CASE UNCHANGED vars
  BY <1>4 DEF vars, ApprovalInv, Approving, ApprovedSurvives
<1> QED
  BY <1>1, <1>2, <1>3, <1>4, NextSplit

\* What a caller was told has been done survives every failing file operation and
\* every stop of the server: a deployed version keeps its number and shows its
\* definition, or what the XML codec leaves of it, and an approved task stays
\* completed, with a job that continues it.
THEOREM AcknowledgedLasts == Spec => []AcknowledgedSurvives
<1>1. Init => ApprovalInv
  BY IdleOp DEF Init, ApprovalInv, Approving, ApprovedSurvives
<1>2. StateInv /\ HistoryTyped /\ PlaceInv /\ ProcInv /\ ApprovalInv /\ [Next]_vars => ApprovalInv'
  BY ApprovalStep
<1>3. ProcInv /\ ApprovalInv => AcknowledgedSurvives
  BY DEF ProcInv, AckedSurvives, ApprovalInv, ApprovedSurvives, ApprovedIn, AcknowledgedSurvives
<1> QED
  BY <1>1, <1>2, <1>3, ProcInvariant, PTL DEF Spec

-----------------------------------------------------------------------------
(* Jobs are enqueued once *)

\* A job is named by its instance and task, and only completed tasks have one.
JobsOrdered(m) ==
    /\ \A n, o \in DOMAIN m.jobs :
         m.jobs[n].inst = m.jobs[o].inst /\ m.jobs[n].task = m.jobs[o].task => n = o
    /\ \A i \in Instances, t \in Tasks : HasJob(m, i, t) => m.acts[i][t] = "completed"

\* Instance ids are new.
IdsUsed ==
    /\ \A i \in Instances : mem.insts[i] # NoRow => i \in log.used
    /\ yaml # NoRow => \A i \in Instances : yaml.insts[i] # NoRow => i \in log.used
    /\ \A c \in Actors : op[c].kind = "start" =>
         /\ op[c].inst \in log.used
         /\ op[c].at = "enter" => mem.insts[op[c].inst] = NoRow
         /\ \A d \in Actors \ {c} : op[d].kind = "start" => op[d].inst # op[c].inst

\* Operation o is about to enqueue the job of task t of instance i.
Enqueues(o, i, t) == o.at = "enqueue" /\ o.inst = i /\ JobTask(o) = t

\* Nobody else enqueues the job an operation is about to enqueue.
EnqueuedOnce ==
    \A c \in Actors : op[c].at = "enqueue" =>
        /\ ~HasJob(mem, op[c].inst, JobTask(op[c]))
        /\ \A d \in Actors \ {c} : ~Enqueues(op[d], op[c].inst, JobTask(op[c]))

\* The optimistic lock: an approval whose row is still the stored one is the first.
LockHeld ==
    \A c \in Actors : op[c].kind = "complete" /\ op[c].at \in {"enter", "route"} =>
        /\ op[c].row.lock <= mem.insts[op[c].inst].lock
        /\ op[c].row.lock = mem.insts[op[c].inst].lock =>
             /\ ~HasJob(mem, op[c].inst, op[c].task)
             /\ \A d \in Actors : ~Enqueues(op[d], op[c].inst, op[c].task)

EnqueueInv ==
    /\ JobsOrdered(mem) /\ (yaml # NoRow => JobsOrdered(yaml))
    /\ IdsUsed /\ EnqueuedOnce /\ LockHeld
    /\ \A c \in Actors : Approving(op[c])

\* The jobs and what they are about are the same.
SameNames(m, n) ==
    /\ DOMAIN n.jobs = DOMAIN m.jobs
    /\ \A j \in DOMAIN m.jobs : n.jobs[j].inst = m.jobs[j].inst /\ n.jobs[j].task = m.jobs[j].task

\* Lock versions only go up.
LocksUp(m, n) ==
    \A i \in Instances : m.insts[i] # NoRow => m.insts[i].lock <= n.insts[i].lock

\* Rows that a step of o may add.
NewRows(m, n, o) ==
    \A i \in Instances : m.insts[i] = NoRow /\ n.insts[i] # NoRow => o.kind = "start" /\ o.inst = i

\* The same jobs, whatever their status.
LEMMA SameNamesFacts ==
    ASSUME NEW m, NEW n, SameNames(m, n)
    PROVE  \A i, t : HasJob(n, i, t) <=> HasJob(m, i, t)
BY DEF SameNames, HasJob

\* A row is written over the version it was read from.
LEMMA UpdateLocks ==
    ASSUME NEW m \in Tables, NEW i \in Instances, NEW row \in InstanceRow, NEW o, NEW n,
           n = UpdateProcessInstance(m, i, row), LockVersionMatches(m, i, row)
    PROVE  /\ LocksUp(m, n) /\ SameNames(m, n) /\ NewRows(m, n, o)
           /\ n.insts[i].lock = m.insts[i].lock + 1
<1>1. n.insts = [m.insts EXCEPT ![i] = Bumped(row)] /\ n.jobs = m.jobs
  BY UpdateTables
<1>2. m.insts \in [Instances -> InstanceRow \cup {NoRow}]
  BY DEF Tables
<1>3. m.insts[i] # NoRow /\ m.insts[i].lock = row.lock
  BY DEF LockVersionMatches
<1>4. Bumped(row).lock = row.lock + 1
  BY BumpedRow
<1>5. \A j \in Instances : m.insts[j] # NoRow => m.insts[j].lock \in Nat
  BY <1>2 DEF InstanceRow
<1>6. n.insts[i] = Bumped(row) /\ \A j \in Instances : j # i => n.insts[j] = m.insts[j]
  BY <1>1, <1>2
<1>7. LocksUp(m, n)
  BY <1>3, <1>4, <1>5, <1>6 DEF LocksUp
<1>8. SameNames(m, n) /\ NewRows(m, n, o)
  BY <1>1, <1>3, <1>6 DEF SameNames, NewRows
<1> QED
  BY <1>3, <1>4, <1>6, <1>7, <1>8

\* Instances are the same.
LEMMA SameLocks ==
    ASSUME NEW m \in Tables, NEW n, NEW o, n.insts = m.insts
    PROVE  LocksUp(m, n) /\ NewRows(m, n, o)
<1>1. \A j \in Instances : m.insts[j] # NoRow => m.insts[j].lock \in Nat
  BY DEF Tables, InstanceRow
<1> QED
  BY <1>1 DEF LocksUp, NewRows

\* What a step of the worker writes.
LEMMA WorkerRows ==
    ASSUME StateInv, NEW c \in Actors, (c = Worker /\ Claim) \/ RunJob(c)
    PROVE  LocksUp(mem, mem') /\ SameNames(mem, mem') /\ NewRows(mem, mem', op[c])
<1>0. mem \in Tables
  BY DEF StateInv, TablesTyped
<1>1. CASE c = Worker /\ Claim
  <2>1. NextJob(mem) \in DOMAIN mem.jobs /\ mem' = SetJob(mem, NextJob(mem), "running")
    BY <1>0, <1>1, NextJobFacts DEF Claim, ClaimNextJob
  <2>2. mem'.insts = mem.insts /\ SameNames(mem, mem')
    BY <1>0, <2>1, SetJobTables DEF SameNames
  <2> QED
    BY <1>0, <2>2, SameLocks
<1>2. CASE FinishJob(c)
  <2>1. PICK s \in {"done", "failed"} : mem' = SetJob(mem, op[c].job, s)
    BY <1>2, FinishJobMoves
  <2>2. op[c].job \in DOMAIN mem.jobs
    BY <1>2, FinishJobMoves
  <2>3. mem'.insts = mem.insts /\ SameNames(mem, mem')
    BY <1>0, <2>1, <2>2, SetJobTables DEF SameNames
  <2> QED
    BY <1>0, <2>3, SameLocks
<1>3. CASE RunStartJob(c)
  <2> DEFINE i == JobOf(c).inst
             row == [mem.insts[i] EXCEPT !.status = "running"]
  <2>1. i \in Instances /\ mem.insts[i] \in InstanceRow
    BY <1>3, JobInHand DEF RunStartJob, At
  <2>2. row \in InstanceRow /\ row.lock = mem.insts[i].lock
    BY <2>1 DEF InstanceRow
  <2>3. mem' = UpdateProcessInstance(mem, i, row)
    BY <1>3 DEF RunStartJob
  <2>4. mem.insts[i] # NoRow
    BY <2>1, MemoryStoreAssumption DEF MemoryStoreAssumption
  <2> HIDE DEF row
  <2> QED
    BY <1>0, <2>1, <2>2, <2>3, <2>4, UpdateLocks DEF LockVersionMatches
<1>5. CASE RunContinueJob(c) \/ NotRunning(c) \/ AllOpened(c)
  <2>1. mem' = mem
    BY <1>5 DEF RunContinueJob, NotRunning, AllOpened
  <2> QED
    BY <1>0, <2>1, SameLocks DEF SameNames
<1>6. CASE \E t \in Tasks : OpenTask(c, t)
  <2>1. PICK t \in Tasks : OpenTask(c, t)
    BY <1>6
  <2>2. mem' = CreateActivityInstance(mem, op[c].inst, t)
    BY <2>1, OpenTaskOp
  <2>3. mem'.insts = mem.insts /\ mem'.jobs = mem.jobs
    BY <1>0, <2>2 DEF CreateActivityInstance, Tables
  <2> QED
    BY <1>0, <2>3, SameLocks DEF SameNames
<1>7. CASE SaveInstance(c) \/ completeElement(c)
  <2>1. op[c].inst \in Instances /\ op[c].row \in InstanceRow
    BY <1>7, RunningJob DEF SaveInstance, completeElement, At
  <2>2. /\ LockVersionMatches(mem, op[c].inst, op[c].row)
        /\ mem' = UpdateProcessInstance(mem, op[c].inst, op[c].row)
    BY <1>7 DEF SaveInstance, completeElement
  <2> QED
    BY <1>0, <2>1, <2>2, UpdateLocks
<1>8. ASSUME NEW s \in {"completed", "failed"}, NEW row, row = [op[c].row EXCEPT !.status = s],
             op[c].kind = "job", op[c].at # "enter",
             \/ mem' = mem
             \/ /\ mem' = UpdateProcessInstance(mem, op[c].inst, row)
                /\ LockVersionMatches(mem, op[c].inst, op[c].row)
      PROVE  LocksUp(mem, mem') /\ SameNames(mem, mem') /\ NewRows(mem, mem', op[c])
  <2>1. op[c].inst \in Instances /\ op[c].row \in InstanceRow
    BY <1>8, RunningJob
  <2>2. row \in InstanceRow /\ row.lock = op[c].row.lock
    BY <1>8, <2>1 DEF InstanceRow
  <2>3. CASE mem' = mem
    BY <1>0, <2>3, SameLocks DEF SameNames
  <2>4. CASE /\ mem' = UpdateProcessInstance(mem, op[c].inst, row)
             /\ LockVersionMatches(mem, op[c].inst, op[c].row)
    <3>1. LockVersionMatches(mem, op[c].inst, row)
      BY <2>2, <2>4 DEF LockVersionMatches
    <3> QED
      BY <1>0, <2>1, <2>2, <2>4, <3>1, UpdateLocks
  <2> QED
    BY <1>8, <2>3, <2>4
<1>9. CASE tryCompleteProcess(c)
  <2>0. PICK row : row = [op[c].row EXCEPT !.status = "completed"]
    OBVIOUS
  <2>1. /\ op[c].kind = "job" /\ op[c].at # "enter"
        /\ \/ mem' = mem
           \/ /\ mem' = UpdateProcessInstance(mem, op[c].inst, row)
              /\ LockVersionMatches(mem, op[c].inst, row)
    BY <1>9, <2>0 DEF tryCompleteProcess, At
  <2>2. row.lock = op[c].row.lock
    BY <2>0, <2>1, RunningJob DEF InstanceRow
  <2> QED
    BY <1>8, <2>0, <2>1, <2>2 DEF LockVersionMatches
<1>10. CASE JobErrs(c)
  <2>0. PICK row : row = [op[c].row EXCEPT !.status = "failed"]
    OBVIOUS
  <2>1. /\ op[c].kind = "job" /\ op[c].at # "enter"
        /\ \/ mem' = mem
           \/ /\ mem' = UpdateProcessInstance(mem, op[c].inst, row)
              /\ LockVersionMatches(mem, op[c].inst, op[c].row)
    BY <1>10, <2>0 DEF JobErrs
  <2> QED
    BY <1>8, <2>0, <2>1
<1> QED
  BY <1>1, <1>2, <1>3, <1>5, <1>6, <1>7, <1>9, <1>10 DEF RunJob

\* Job names stay unique when no job is added.
LEMMA JobsOrderedSame ==
    ASSUME NEW m, NEW n, JobsOrdered(m), SameNames(m, n), Grows(m, n)
    PROVE  JobsOrdered(n)
<1>1. \A i, t : HasJob(n, i, t) <=> HasJob(m, i, t)
  BY SameNamesFacts
<1>2. \A i \in Instances, t \in Tasks : HasJob(n, i, t) => n.acts[i][t] = "completed"
  BY <1>1 DEF JobsOrdered, Grows
<1>3. \A j, k \in DOMAIN n.jobs :
        n.jobs[j].inst = n.jobs[k].inst /\ n.jobs[j].task = n.jobs[k].task => j = k
  BY DEF JobsOrdered, SameNames
<1> QED
  BY <1>2, <1>3 DEF JobsOrdered

\* The fields of the transactions of requests.
LEMMA TransactionFields ==
    ASSUME StateInv, NEW c \in Actors
    PROVE  /\ op[c].kind = "complete" =>
                /\ op[c].inst \in Instances /\ op[c].task \in Tasks
                /\ op[c].row \in InstanceRow /\ op[c].row.lock \in Nat
                /\ mem.insts[op[c].inst] \in InstanceRow /\ mem.insts[op[c].inst].lock \in Nat
                /\ mem.insts[op[c].inst] # NoRow
           /\ op[c].kind = "start" => op[c].inst \in Instances /\ op[c].row \in InstanceRow
           /\ op[c].at = "enqueue" =>
                /\ op[c].kind \in {"start", "complete"} /\ op[c].inst \in Instances
                /\ JobTask(op[c]) \in Tasks \cup {"start"}
<1>1. op[c] \in Ops
  BY DEF StateInv, OpsTyped
<1>2. op[c].kind = "complete" =>
        op[c].inst \in Instances /\ op[c].task \in Tasks /\ op[c].row \in InstanceRow
  BY <1>1, OpKinds DEF CompleteOps
<1>3. op[c].kind = "complete" => mem.insts[op[c].inst] # NoRow
  BY DEF StateInv, OpsTyped, Linked
<1>4. op[c].kind = "complete" => mem.insts[op[c].inst] \in InstanceRow
  BY <1>2, <1>3 DEF StateInv, TablesTyped, Tables
<1>5. op[c].kind = "start" => op[c].inst \in Instances /\ op[c].row \in InstanceRow
  BY <1>1, OpKinds DEF StartOps
<1>6. op[c].at = "enqueue" => op[c].kind \in {"start", "complete"}
  BY <1>1, OpKinds
<1>7. \A r \in InstanceRow : r.lock \in Nat
  BY DEF InstanceRow
<1> QED
  BY <1>2, <1>3, <1>4, <1>5, <1>6, <1>7 DEF JobTask

\* What a step that reaches EnqueueJob must have made sure of.
FreshEnqueue(c) ==
    op'[c].at = "enqueue" =>
        /\ ~HasJob(mem, op'[c].inst, JobTask(op'[c]))
        /\ \A d \in Actors \ {c} :
             /\ ~Enqueues(op[d], op'[c].inst, JobTask(op'[c]))
             /\ op[d].kind = "complete" /\ op[d].at \in {"enter", "route"}
                  /\ op[d].inst = op'[c].inst /\ op[d].task = JobTask(op'[c])
                => op[d].row.lock < mem'.insts[op[d].inst].lock

\* What c itself must see to after its step.
OwnStart(c) ==
    op'[c].kind = "start" =>
        /\ op'[c].inst \in log'.used
        /\ op'[c].at = "enter" => mem'.insts[op'[c].inst] = NoRow
        /\ \A d \in Actors \ {c} : op[d].kind = "start" => op[d].inst # op'[c].inst

OwnLock(c) ==
    op'[c].kind = "complete" /\ op'[c].at \in {"enter", "route"} =>
        /\ op'[c].row.lock <= mem'.insts[op'[c].inst].lock
        /\ op'[c].row.lock = mem'.insts[op'[c].inst].lock =>
             /\ ~HasJob(mem, op'[c].inst, op'[c].task)
             /\ \A d \in Actors \ {c} : ~Enqueues(op[d], op'[c].inst, op'[c].task)

\* A step that adds no job keeps the invariant, given that.
LEMMA KeepEnqueue ==
    ASSUME StateInv, HistoryTyped, EnqueueInv, NEW c \in Actors, Moves(c),
           SameNames(mem, mem'), LocksUp(mem, mem'), NewRows(mem, mem', op[c]),
           log.used \subseteq log'.used, FreshEnqueue(c), OwnStart(c), OwnLock(c),
           Approving(op[c])'
    PROVE  EnqueueInv'
<1>1. /\ \A d \in Actors \ {c} : op'[d] = op[d]
      /\ Grows(mem, mem') /\ yaml' \in {yaml, mem}
  BY DEF Moves, StateInv, OpsTyped
<1>2. \A i, t : HasJob(mem', i, t) <=> HasJob(mem, i, t)
  BY SameNamesFacts
<1>3. JobsOrdered(mem)' /\ (yaml # NoRow => JobsOrdered(yaml))'
  <2>1. JobsOrdered(mem')
    BY <1>1, JobsOrderedSame DEF EnqueueInv
  <2>2. yaml' # NoRow => JobsOrdered(yaml')
    BY <1>1 DEF EnqueueInv
  <2> QED
    BY <2>1, <2>2
<1>4. IdsUsed'
  <2>1. \A i \in Instances : mem'.insts[i] # NoRow => i \in log'.used
    BY DEF EnqueueInv, IdsUsed, NewRows
  <2>2. yaml' # NoRow => \A i \in Instances : yaml'.insts[i] # NoRow => i \in log'.used
    BY <1>1 DEF EnqueueInv, IdsUsed
  <2>3. ASSUME NEW d \in Actors, op'[d].kind = "start"
        PROVE  /\ op'[d].inst \in log'.used
               /\ op'[d].at = "enter" => mem'.insts[op'[d].inst] = NoRow
               /\ \A e \in Actors \ {d} : op'[e].kind = "start" => op'[e].inst # op'[d].inst
    <3>1. CASE d = c
      BY <1>1, <2>3, <3>1 DEF OwnStart
    <3>2. CASE d # c
      <4>1. op'[d] = op[d] /\ op[d].kind = "start"
        BY <1>1, <2>3, <3>2
      <4>2. /\ op[d].inst \in log.used
            /\ op[d].at = "enter" => mem.insts[op[d].inst] = NoRow
            /\ \A e \in Actors \ {d} : op[e].kind = "start" => op[e].inst # op[d].inst
        BY <4>1 DEF EnqueueInv, IdsUsed
      <4>3. op[d].at = "enter" => mem'.insts[op[d].inst] = NoRow
        BY <3>2, <4>1, <4>2, TransactionFields DEF NewRows
      <4>4. op'[c].kind = "start" => op'[c].inst # op[d].inst
        BY <3>2, <4>1 DEF OwnStart
      <4> QED
        BY <1>1, <3>2, <4>1, <4>2, <4>3, <4>4
    <3> QED
      BY <3>1, <3>2
  <2> QED
    BY <2>1, <2>2, <2>3 DEF IdsUsed
<1>5. EnqueuedOnce'
  <2> SUFFICES ASSUME NEW d \in Actors, op'[d].at = "enqueue"
               PROVE  /\ ~HasJob(mem, op'[d].inst, JobTask(op'[d]))
                      /\ \A e \in Actors \ {d} : ~Enqueues(op'[e], op'[d].inst, JobTask(op'[d]))
    BY <1>2 DEF EnqueuedOnce
  <2>1. CASE d = c
    BY <1>1, <2>1 DEF FreshEnqueue
  <2>2. CASE d # c
    <3>1. op'[d] = op[d] /\ op[d].at = "enqueue"
      BY <1>1, <2>2
    <3>2. /\ ~HasJob(mem, op[d].inst, JobTask(op[d]))
          /\ \A e \in Actors \ {d} : ~Enqueues(op[e], op[d].inst, JobTask(op[d]))
      BY <3>1 DEF EnqueueInv, EnqueuedOnce
    <3>3. ~Enqueues(op'[c], op[d].inst, JobTask(op[d]))
      BY <2>2, <3>1 DEF FreshEnqueue, Enqueues
    <3> QED
      BY <1>1, <2>2, <3>1, <3>2, <3>3
  <2> QED
    BY <2>1, <2>2
<1>6. LockHeld'
  <2> SUFFICES ASSUME NEW d \in Actors, op'[d].kind = "complete", op'[d].at \in {"enter", "route"}
               PROVE  /\ op'[d].row.lock <= mem'.insts[op'[d].inst].lock
                      /\ op'[d].row.lock = mem'.insts[op'[d].inst].lock =>
                           /\ ~HasJob(mem, op'[d].inst, op'[d].task)
                           /\ \A e \in Actors : ~Enqueues(op'[e], op'[d].inst, op'[d].task)
    BY <1>2 DEF LockHeld
  <2>1. CASE d = c
    <3>1. \A t : ~Enqueues(op'[c], op'[c].inst, t)
      BY <2>1 DEF Enqueues
    <3> QED
      BY <1>1, <2>1, <3>1 DEF OwnLock
  <2>2. CASE d # c
    <3>1. op'[d] = op[d] /\ op[d].kind = "complete" /\ op[d].at \in {"enter", "route"}
      BY <1>1, <2>2
    <3>2. /\ op[d].row.lock <= mem.insts[op[d].inst].lock
          /\ op[d].row.lock = mem.insts[op[d].inst].lock =>
               /\ ~HasJob(mem, op[d].inst, op[d].task)
               /\ \A e \in Actors : ~Enqueues(op[e], op[d].inst, op[d].task)
      BY <3>1 DEF EnqueueInv, LockHeld
    <3>3. /\ op[d].inst \in Instances /\ op[d].row.lock \in Nat
          /\ mem.insts[op[d].inst].lock \in Nat
          /\ mem.insts[op[d].inst].lock <= mem'.insts[op[d].inst].lock
          /\ mem'.insts[op[d].inst].lock \in Nat
      <4>1. op[d].inst \in Instances /\ mem.insts[op[d].inst] # NoRow
            /\ op[d].row.lock \in Nat /\ mem.insts[op[d].inst].lock \in Nat
        BY <3>1, TransactionFields
      <4>2. mem'.insts[op[d].inst] \in InstanceRow
        BY <1>1, <4>1 DEF Moves, Grows, Tables
      <4> QED
        BY <4>1, <4>2 DEF LocksUp, InstanceRow
    <3>4. op[d].row.lock <= mem'.insts[op[d].inst].lock
      BY <3>2, <3>3
    <3>5. ASSUME op[d].row.lock = mem'.insts[op[d].inst].lock
          PROVE  /\ ~HasJob(mem, op[d].inst, op[d].task)
                 /\ \A e \in Actors : ~Enqueues(op'[e], op[d].inst, op[d].task)
      <4>1. op[d].row.lock = mem.insts[op[d].inst].lock
        BY <3>2, <3>3, <3>5
      <4>2. ~Enqueues(op'[c], op[d].inst, op[d].task)
        <5> SUFFICES ASSUME Enqueues(op'[c], op[d].inst, op[d].task) PROVE FALSE
          OBVIOUS
        <5>1. op[d].row.lock < mem'.insts[op[d].inst].lock
          BY <2>2, <3>1 DEF FreshEnqueue, Enqueues
        <5> QED
          BY <3>3, <3>5, <5>1
      <4> QED
        BY <1>1, <2>2, <3>2, <4>1, <4>2
    <3> QED
      BY <3>1, <3>4, <3>5
  <2> QED
    BY <2>1, <2>2
<1>7. \A d \in Actors : Approving(op[d])'
  BY ApprovingOthers DEF EnqueueInv
<1> QED
  BY <1>3, <1>4, <1>5, <1>6, <1>7 DEF EnqueueInv


\* A step after which c is in no transaction of a request.
LEMMA NoTransaction ==
    ASSUME NEW c \in Actors, Moves(c), op'[c].kind \notin {"start", "complete"}
    PROVE  FreshEnqueue(c) /\ OwnStart(c) /\ OwnLock(c)
<1>1. op'[c].at # "enqueue"
  BY OpKinds DEF Moves
<1> QED
  BY <1>1 DEF FreshEnqueue, OwnStart, OwnLock

\* Deployments, the worker and the end of an operation.
LEMMA OtherEnqueue ==
    ASSUME StateInv, HistoryTyped, EnqueueInv, NEW c \in Actors, Acts(c),
           \/ c \in Clients /\ Deployment(c)
           \/ c = Worker /\ (Claim \/ RunJob(c))
           \/ Ending(c)
    PROVE  EnqueueInv'
<1>0. mem \in Tables
  BY DEF StateInv, TablesTyped
<1>1. Moves(c) /\ Approving(op[c])'
  BY ActsMoves, ApprovingOwn DEF EnqueueInv
<1>2. /\ SameNames(mem, mem') /\ LocksUp(mem, mem') /\ NewRows(mem, mem', op[c])
      /\ log'.used = log.used /\ op'[c].kind \notin {"start", "complete"}
  <2>1. CASE c \in Clients /\ Deployment(c)
    <3>1. mem'.insts = mem.insts /\ mem'.jobs = mem.jobs /\ log'.used = log.used
          /\ op'[c].kind \in {"idle", "deploy", "delete"}
      BY <2>1, RowFrame
    <3>2. LocksUp(mem, mem') /\ NewRows(mem, mem', op[c])
      BY <1>0, <3>1, SameLocks
    <3> QED
      BY <3>1, <3>2 DEF SameNames
  <2>2. CASE c = Worker /\ (Claim \/ RunJob(c))
    BY <2>2, WorkerFrame, WorkerRows
  <2>3. CASE Ending(c)
    <3>1. mem' = mem /\ log'.used = log.used /\ op'[c].kind \in {"idle", "job", "finish"}
      BY <2>3, EndingFrame
    <3>2. LocksUp(mem, mem') /\ NewRows(mem, mem', op[c])
      BY <1>0, <3>1, SameLocks
    <3> QED
      BY <3>1, <3>2 DEF SameNames
  <2> QED
    BY <2>1, <2>2, <2>3
<1>3. FreshEnqueue(c) /\ OwnStart(c) /\ OwnLock(c)
  BY <1>1, <1>2, NoTransaction
<1> QED
  BY <1>1, <1>2, <1>3, KeepEnqueue

\* StartProcess takes an id nobody has used.
LEMMA BeginStartEnqueue ==
    ASSUME StateInv, HistoryTyped, EnqueueInv, NEW c \in Actors, Acts(c),
           NEW i \in Instances, NEW k \in Keys, BeginStart(c, i, k)
    PROVE  EnqueueInv'
<1>0. mem \in Tables /\ log \in Log
  BY DEF StateInv, TablesTyped, HistoryTyped
<1>1. Moves(c) /\ Approving(op[c])'
  BY ActsMoves, ApprovingOwn DEF EnqueueInv
<1>2. mem' = mem /\ i \notin log.used /\ log' = [log EXCEPT !.used = @ \cup {i}]
  BY DEF BeginStart
<1>3. SameNames(mem, mem') /\ LocksUp(mem, mem') /\ NewRows(mem, mem', op[c])
  BY <1>0, <1>2, SameLocks DEF SameNames
<1>4. log'.used = log.used \cup {i}
  BY <1>0, <1>2 DEF Log
<1>5. op'[c].kind = "start" /\ op'[c].at = "enter" /\ op'[c].inst = i
  BY DEF BeginStart, Begin, StateInv, OpsTyped
<1>6. mem.insts[i] = NoRow /\ \A d \in Actors : op[d].kind = "start" => op[d].inst # i
  BY <1>2 DEF EnqueueInv, IdsUsed
<1>7. FreshEnqueue(c) /\ OwnStart(c) /\ OwnLock(c)
  BY <1>2, <1>4, <1>5, <1>6 DEF FreshEnqueue, OwnStart, OwnLock
<1> QED
  BY <1>1, <1>3, <1>4, <1>7, KeepEnqueue

\* An open task has no job, and nobody is about to enqueue one.
LEMMA OpenHasNoJob ==
    ASSUME StateInv, EnqueueInv, NEW i \in Instances, NEW t \in Tasks, mem.acts[i][t] = "active"
    PROVE  ~HasJob(mem, i, t) /\ \A d \in Actors : ~Enqueues(op[d], i, t)
<1>1. ~HasJob(mem, i, t)
  BY DEF EnqueueInv, JobsOrdered
<1>2. ASSUME NEW d \in Actors, Enqueues(op[d], i, t) PROVE FALSE
  <2>1. op[d].at = "enqueue" /\ op[d].inst = i /\ JobTask(op[d]) = t
    BY <1>2 DEF Enqueues
  <2>2. op[d].kind = "complete"
    BY <2>1, TransactionFields, MemoryStoreAssumption DEF MemoryStoreAssumption, JobTask
  <2>3. op[d].task = t
    BY <2>1, <2>2 DEF JobTask
  <2> QED
    BY <2>1, <2>2, <2>3 DEF EnqueueInv, Approving
<1> QED
  BY <1>1, <1>2

\* CompleteTask begins with an open task: it has no job yet.
LEMMA BeginCompleteEnqueue ==
    ASSUME StateInv, HistoryTyped, EnqueueInv, NEW c \in Actors, Acts(c),
           NEW i \in Instances, NEW t \in Tasks, BeginComplete(c, i, t)
    PROVE  EnqueueInv'
<1>0. mem \in Tables
  BY DEF StateInv, TablesTyped
<1>1. Moves(c) /\ Approving(op[c])'
  BY ActsMoves, ApprovingOwn DEF EnqueueInv
<1>2. mem' = mem /\ log' = log /\ mem.acts[i][t] = "active" /\ mem.insts[i] # NoRow
  BY DEF BeginComplete
<1>3. SameNames(mem, mem') /\ LocksUp(mem, mem') /\ NewRows(mem, mem', op[c])
  BY <1>0, <1>2, SameLocks DEF SameNames
<1>4. /\ op'[c].kind = "complete" /\ op'[c].at = "enter" /\ op'[c].inst = i /\ op'[c].task = t
      /\ op'[c].row = mem.insts[i]
  BY DEF BeginComplete, Begin, StateInv, OpsTyped
<1>5. mem.insts[i].lock \in Nat
  BY <1>0, <1>2 DEF Tables, InstanceRow
<1>6. ~HasJob(mem, i, t) /\ \A d \in Actors : ~Enqueues(op[d], i, t)
  BY <1>2, OpenHasNoJob
<1>7. FreshEnqueue(c) /\ OwnStart(c)
  BY <1>4 DEF FreshEnqueue, OwnStart
<1>8. OwnLock(c)
  BY <1>2, <1>4, <1>5, <1>6 DEF OwnLock
<1> QED
  BY <1>1, <1>2, <1>3, <1>7, <1>8, KeepEnqueue

\* A new instance has no job, and its id is nobody else's.
LEMMA CreateInstanceEnqueue ==
    ASSUME StateInv, HistoryTyped, EnqueueInv, NEW c \in Actors, Acts(c), CreateInstance(c)
    PROVE  EnqueueInv'
<1>0. mem \in Tables /\ JobsLinked(mem)
  BY DEF StateInv, TablesTyped
<1>1. Moves(c) /\ Approving(op[c])'
  BY ActsMoves, ApprovingOwn DEF EnqueueInv
<1>2. /\ op[c].kind = "start" /\ op[c].at = "enter" /\ log' = log
      /\ mem' = CreateProcessInstance(mem, op[c].inst, op[c].row)
      /\ op[c] \in StartOps /\ op'[c] = [op[c] EXCEPT !.at = "enqueue"]
  BY OpKinds, GotoOp DEF CreateInstance, At, StateInv, OpsTyped
<1>3. /\ op[c].inst \in Instances /\ op[c].row \in InstanceRow
      /\ op'[c].kind = "start" /\ op'[c].at = "enqueue" /\ op'[c].inst = op[c].inst
  BY <1>2 DEF StartOps
<1>4. PICK i, row : i = op[c].inst /\ row = op[c].row
  OBVIOUS
<1>5. mem'.insts = [mem.insts EXCEPT ![i] = row] /\ mem'.jobs = mem.jobs
  BY <1>0, <1>2, <1>3, <1>4, InstanceTables
<1>6. /\ mem.insts[i] = NoRow /\ i \in log.used
      /\ \A d \in Actors \ {c} : op[d].kind = "start" => op[d].inst # i
  BY <1>2, <1>4 DEF EnqueueInv, IdsUsed
<1>7. mem.insts \in [Instances -> InstanceRow \cup {NoRow}]
  BY <1>0 DEF Tables
<1>8. /\ \A j \in Instances \ {i} : mem'.insts[j] = mem.insts[j]
      /\ \A j \in Instances : mem.insts[j] # NoRow => mem.insts[j].lock \in Nat
  BY <1>5, <1>7 DEF InstanceRow
<1>9. SameNames(mem, mem') /\ LocksUp(mem, mem') /\ NewRows(mem, mem', op[c])
  BY <1>2, <1>4, <1>5, <1>6, <1>8 DEF SameNames, LocksUp, NewRows
<1>10. \A t : ~HasJob(mem, i, t)
  BY <1>0, <1>6 DEF HasJob, JobsLinked
<1>11. JobTask(op'[c]) = "start"
  BY <1>3 DEF JobTask
<1>12. ASSUME NEW d \in Actors \ {c} PROVE ~Enqueues(op[d], i, "start")
  <2> SUFFICES ASSUME Enqueues(op[d], i, "start") PROVE FALSE
    OBVIOUS
  <2>1. op[d].at = "enqueue" /\ op[d].inst = i /\ JobTask(op[d]) = "start"
    BY DEF Enqueues
  <2>2. op[d].kind \in {"start", "complete"}
    BY <2>1, TransactionFields
  <2>3. op[d].kind = "complete" => op[d].task \in Tasks /\ JobTask(op[d]) = op[d].task
    BY TransactionFields DEF JobTask
  <2> QED
    BY <1>6, <2>1, <2>2, <2>3, MemoryStoreAssumption DEF MemoryStoreAssumption
<1>13. ASSUME NEW d \in Actors, op[d].kind = "complete" PROVE op[d].inst # i
  BY <1>6, <1>13, TransactionFields
<1>14. FreshEnqueue(c)
  BY <1>3, <1>4, <1>10, <1>11, <1>12, <1>13 DEF FreshEnqueue
<1>15. OwnStart(c) /\ OwnLock(c)
  BY <1>2, <1>3, <1>4, <1>6 DEF OwnStart, OwnLock
<1> QED
  BY <1>1, <1>2, <1>9, <1>14, <1>15, KeepEnqueue

\* Closing the activity leaves the lock version alone.
LEMMA CloseTaskEnqueue ==
    ASSUME StateInv, HistoryTyped, EnqueueInv, NEW c \in Actors, Acts(c), CloseTask(c)
    PROVE  EnqueueInv'
<1>0. mem \in Tables
  BY DEF StateInv, TablesTyped
<1>1. Moves(c) /\ Approving(op[c])'
  BY ActsMoves, ApprovingOwn DEF EnqueueInv
<1>2. PICK i, t : i = op[c].inst /\ t = op[c].task
  OBVIOUS
<1>3. /\ i \in Instances /\ t \in Tasks
      /\ mem.insts[i] \in InstanceRow /\ mem'.insts[i] \in InstanceRow
      /\ mem'.jobs = mem.jobs /\ mem'.insts[i].lock = mem.insts[i].lock
      /\ \A j \in Instances \ {i} : mem'.insts[j] = mem.insts[j]
  BY <1>2, CloseTables
<1>4. \A j \in Instances : mem.insts[j] # NoRow => mem.insts[j].lock \in Nat
  BY <1>0 DEF Tables, InstanceRow
<1>5. mem.insts[i] # NoRow
  BY <1>3, MemoryStoreAssumption DEF MemoryStoreAssumption
<1>6. SameNames(mem, mem') /\ LocksUp(mem, mem') /\ NewRows(mem, mem', op[c])
  BY <1>3, <1>4, <1>5 DEF SameNames, LocksUp, NewRows
<1>7. /\ op'[c].kind = "complete" /\ op'[c].at = "route" /\ op'[c].inst = i /\ op'[c].task = t
      /\ op'[c].row.lock = op[c].row.lock
  BY <1>2, CloseOp DEF CompleteOps
<1>8. op[c].kind = "complete" /\ op[c].at = "enter" /\ log' = log
  BY DEF CloseTask, At
<1>9. /\ op[c].row.lock <= mem.insts[i].lock
      /\ op[c].row.lock = mem.insts[i].lock =>
           ~HasJob(mem, i, t) /\ \A d \in Actors : ~Enqueues(op[d], i, t)
  BY <1>2, <1>8 DEF EnqueueInv, LockHeld
<1>10. FreshEnqueue(c) /\ OwnStart(c) /\ OwnLock(c)
  BY <1>3, <1>7, <1>9 DEF FreshEnqueue, OwnStart, OwnLock
<1> QED
  BY <1>1, <1>6, <1>8, <1>10, KeepEnqueue

\* The optimistic lock lets one approval of a task through.
LEMMA WriteInstanceEnqueue ==
    ASSUME StateInv, HistoryTyped, EnqueueInv, NEW c \in Actors, Acts(c), WriteInstance(c)
    PROVE  EnqueueInv'
<1>0. mem \in Tables
  BY DEF StateInv, TablesTyped
<1>1. Moves(c) /\ Approving(op[c])'
  BY ActsMoves, ApprovingOwn DEF EnqueueInv
<1>2. /\ op[c].kind = "complete" /\ op[c].at = "route" /\ log' = log
      /\ op[c] \in CompleteOps /\ op'[c] = [op[c] EXCEPT !.at = "enqueue"]
  BY OpKinds, GotoOp DEF WriteInstance, At, StateInv, OpsTyped
<1>3. PICK i, t, row : i = op[c].inst /\ t = op[c].task /\ row = op[c].row
  OBVIOUS
<1>4. /\ i \in Instances /\ t \in Tasks /\ row \in InstanceRow
      /\ op'[c].kind = "complete" /\ op'[c].at = "enqueue" /\ op'[c].inst = i /\ op'[c].task = t
  BY <1>2, <1>3 DEF CompleteOps
<1>5. mem' = UpdateProcessInstance(mem, i, row) /\ LockVersionMatches(mem, i, row)
  BY <1>3 DEF WriteInstance
<1>6. /\ SameNames(mem, mem') /\ LocksUp(mem, mem') /\ NewRows(mem, mem', op[c])
      /\ mem'.insts[i].lock = mem.insts[i].lock + 1
  BY <1>0, <1>4, <1>5, UpdateLocks
<1>7. row.lock = mem.insts[i].lock
  BY <1>5 DEF LockVersionMatches
<1>8. ~HasJob(mem, i, t) /\ \A d \in Actors : ~Enqueues(op[d], i, t)
  BY <1>2, <1>3, <1>7 DEF EnqueueInv, LockHeld
<1>9. JobTask(op'[c]) = t
  BY <1>4 DEF JobTask
<1>10. ASSUME NEW d \in Actors, op[d].kind = "complete", op[d].at \in {"enter", "route"},
              op[d].inst = i
       PROVE  op[d].row.lock < mem'.insts[op[d].inst].lock
  <2>1. op[d].row.lock <= mem.insts[i].lock
    BY <1>10 DEF EnqueueInv, LockHeld
  <2>2. op[d].row.lock \in Nat /\ mem.insts[i].lock \in Nat
    BY <1>10, TransactionFields
  <2> QED
    BY <1>6, <1>10, <2>1, <2>2
<1>11. FreshEnqueue(c)
  BY <1>4, <1>8, <1>9, <1>10 DEF FreshEnqueue
<1>12. OwnStart(c) /\ OwnLock(c)
  BY <1>4 DEF OwnStart, OwnLock
<1> QED
  BY <1>1, <1>2, <1>6, <1>11, <1>12, KeepEnqueue

\* EnqueueJob adds the one job its transaction stands for.
LEMMA EnqueueEnqueue ==
    ASSUME StateInv, HistoryTyped, EnqueueInv, NEW c \in Actors, Acts(c), Enqueue(c)
    PROVE  EnqueueInv'
<1>0. mem \in Tables /\ op[c].at = "enqueue"
  BY DEF StateInv, TablesTyped, Enqueue
<1>1. Moves(c) /\ Approving(op[c])'
  BY ActsMoves, ApprovingOwn DEF EnqueueInv
<1>2. PICK i, t, l : i = op[c].inst /\ t = JobTask(op[c]) /\ l = Len(mem.jobs) + 1
  OBVIOUS
<1>3. /\ i \in Instances /\ t \in Tasks \cup {"start"} /\ mem' = EnqueueJob(mem, i, t)
      /\ op'[c].kind = op[c].kind /\ op'[c].inst = i /\ op'[c].at \in {"persist", "reply"}
  BY <1>2, EnqueueMoves
<1>4. log' = log /\ yaml' = yaml
  BY DEF Enqueue, UNCHANGED_Disk
<1>5. /\ mem'.insts = mem.insts /\ mem'.acts = mem.acts
      /\ DOMAIN mem'.jobs = DOMAIN mem.jobs \cup {l} /\ l \notin DOMAIN mem.jobs
      /\ \A n \in DOMAIN mem.jobs : mem'.jobs[n] = mem.jobs[n]
      /\ mem'.jobs[l].inst = i /\ mem'.jobs[l].task = t
  <2> DEFINE n == EnqueueJob(mem, i, t)
  <2>1. /\ n.insts = mem.insts /\ n.acts = mem.acts
        /\ DOMAIN n.jobs = DOMAIN mem.jobs \cup {Len(mem.jobs) + 1}
        /\ Len(mem.jobs) + 1 \notin DOMAIN mem.jobs
        /\ \A k \in DOMAIN mem.jobs : n.jobs[k] = mem.jobs[k]
        /\ n.jobs[Len(mem.jobs) + 1] = [inst |-> i, task |-> t, status |-> "pending"]
    BY <1>0, <1>3, EnqueueTables
  <2>2. mem' = n
    BY <1>3
  <2> HIDE DEF n
  <2> QED
    BY <1>2, <2>1, <2>2
<1>6. \A j, u : HasJob(mem', j, u) => HasJob(mem, j, u) \/ (j = i /\ u = t)
  BY <1>5 DEF HasJob
<1>7. \A d \in Actors \ {c} : op'[d] = op[d]
  BY <1>1 DEF Moves, StateInv, OpsTyped
<1>8. /\ ~HasJob(mem, i, t)
      /\ \A d \in Actors \ {c} : ~Enqueues(op[d], i, t)
  BY <1>0, <1>2 DEF EnqueueInv, EnqueuedOnce
<1>9. t \in Tasks => mem.acts[i][t] = "completed"
  BY <1>0, <1>2, TransactionFields, MemoryStoreAssumption
     DEF MemoryStoreAssumption, EnqueueInv, Approving, JobTask
<1>10. JobsOrdered(mem')
  <2>1. ASSUME NEW n \in DOMAIN mem'.jobs, NEW o \in DOMAIN mem'.jobs,
               mem'.jobs[n].inst = mem'.jobs[o].inst, mem'.jobs[n].task = mem'.jobs[o].task
        PROVE  n = o
    <3>1. CASE n = l \/ o = l
      BY <1>5, <1>8, <2>1, <3>1 DEF HasJob
    <3>2. CASE n # l /\ o # l
      BY <1>5, <2>1, <3>2 DEF EnqueueInv, JobsOrdered
    <3> QED
      BY <3>1, <3>2
  <2>2. \A j \in Instances, u \in Tasks : HasJob(mem', j, u) => mem'.acts[j][u] = "completed"
    BY <1>5, <1>6, <1>9 DEF EnqueueInv, JobsOrdered
  <2> QED
    BY <2>1, <2>2 DEF JobsOrdered
<1>11. IdsUsed'
  <2>1. \A d \in Actors : op'[d].kind = op[d].kind /\ (op[d].kind = "start" => op'[d].inst = op[d].inst)
        /\ (op'[d].at = "enter" => op[d].at = "enter")
    BY <1>2, <1>3, <1>7
  <2>2. \A d \in Actors : op[d].kind = "start" =>
          /\ op[d].inst \in log.used
          /\ op[d].at = "enter" => mem.insts[op[d].inst] = NoRow
          /\ \A e \in Actors \ {d} : op[e].kind = "start" => op[e].inst # op[d].inst
    BY DEF EnqueueInv, IdsUsed
  <2>3. \A d \in Actors : op'[d].kind = "start" =>
          /\ op'[d].inst \in log'.used
          /\ op'[d].at = "enter" => mem'.insts[op'[d].inst] = NoRow
          /\ \A e \in Actors \ {d} : op'[e].kind = "start" => op'[e].inst # op'[d].inst
    BY <1>4, <1>5, <2>1, <2>2
  <2>4. /\ \A j \in Instances : mem'.insts[j] # NoRow => j \in log'.used
        /\ yaml' # NoRow => \A j \in Instances : yaml'.insts[j] # NoRow => j \in log'.used
    BY <1>4, <1>5 DEF EnqueueInv, IdsUsed
  <2> QED
    BY <2>3, <2>4 DEF IdsUsed
<1>12. EnqueuedOnce'
  <2> SUFFICES ASSUME NEW d \in Actors, op'[d].at = "enqueue"
               PROVE  /\ ~HasJob(mem', op'[d].inst, JobTask(op'[d]))
                      /\ \A e \in Actors \ {d} : ~Enqueues(op'[e], op'[d].inst, JobTask(op'[d]))
    BY DEF EnqueuedOnce
  <2>1. d # c /\ op'[d] = op[d]
    BY <1>3, <1>7
  <2>2. /\ ~HasJob(mem, op[d].inst, JobTask(op[d]))
        /\ \A e \in Actors \ {d} : ~Enqueues(op[e], op[d].inst, JobTask(op[d]))
    BY <2>1 DEF EnqueueInv, EnqueuedOnce
  <2>3. ~(op[d].inst = i /\ JobTask(op[d]) = t)
    BY <1>8, <2>1 DEF Enqueues
  <2>4. \A j, u : ~Enqueues(op'[c], j, u)
    BY <1>3 DEF Enqueues
  <2> QED
    BY <1>6, <1>7, <2>1, <2>2, <2>3, <2>4
<1>13. LockHeld'
  <2> SUFFICES ASSUME NEW d \in Actors, op'[d].kind = "complete", op'[d].at \in {"enter", "route"}
               PROVE  /\ op'[d].row.lock <= mem'.insts[op'[d].inst].lock
                      /\ op'[d].row.lock = mem'.insts[op'[d].inst].lock =>
                           /\ ~HasJob(mem', op'[d].inst, op'[d].task)
                           /\ \A e \in Actors : ~Enqueues(op'[e], op'[d].inst, op'[d].task)
    BY DEF LockHeld
  <2>1. d # c /\ op'[d] = op[d]
    BY <1>3, <1>7
  <2>2. /\ op[d].row.lock <= mem.insts[op[d].inst].lock
        /\ op[d].row.lock = mem.insts[op[d].inst].lock =>
             /\ ~HasJob(mem, op[d].inst, op[d].task)
             /\ \A e \in Actors : ~Enqueues(op[e], op[d].inst, op[d].task)
    BY <2>1 DEF EnqueueInv, LockHeld
  <2>3. Enqueues(op[c], i, t)
    BY <1>0, <1>2 DEF Enqueues
  <2>4. \A j, u : ~Enqueues(op'[c], j, u)
    BY <1>3 DEF Enqueues
  <2> QED
    BY <1>5, <1>6, <1>7, <2>1, <2>2, <2>3, <2>4
<1>14. \A d \in Actors : Approving(op[d])'
  BY <1>1, ApprovingOthers DEF EnqueueInv
<1>15. yaml' # NoRow => JobsOrdered(yaml')
  BY <1>4 DEF EnqueueInv
<1> QED
  BY <1>10, <1>11, <1>12, <1>13, <1>14, <1>15 DEF EnqueueInv

\* Nothing in progress, and tables without instances or the ones of the file.
LEMMA RestEnqueue ==
    ASSUME NEW m, NEW y, NEW used, NEW o, o = [c \in Actors |-> Idle],
           JobsOrdered(m), y # NoRow => JobsOrdered(y),
           \A i \in Instances : m.insts[i] # NoRow => i \in used,
           y # NoRow => \A i \in Instances : y.insts[i] # NoRow => i \in used,
           mem' = m, yaml' = y, op' = o, log'.used = used
    PROVE  EnqueueInv'
<1>1. \A c \in Actors : op'[c].kind = "idle" /\ op'[c].at = "idle"
  BY IdleOp
<1> QED
  BY <1>1 DEF EnqueueInv, IdsUsed, EnqueuedOnce, LockHeld, Approving, Enqueues

\* A new store.
LEMMA NewStoreEnqueue ==
    JobsOrdered(NewStore) /\ \A i \in Instances : NewStore.insts[i] = NoRow
BY DEF NewStore, JobsOrdered, HasJob

\* No job is enqueued twice, whatever the order of the requests.
LEMMA EnqueueStep ==
    ASSUME StateInv, HistoryTyped, EnqueueInv, [Next]_vars
    PROVE  EnqueueInv'
<1>1. ASSUME NEW c \in Actors, Acts(c) PROVE EnqueueInv'
  <2>1. CASE \/ c \in Clients /\ Deployment(c)
             \/ c = Worker /\ (Claim \/ RunJob(c))
             \/ Ending(c)
    BY <1>1, <2>1, OtherEnqueue
  <2>2. CASE Request(c)
    BY <1>1, <2>2, BeginStartEnqueue, BeginCompleteEnqueue, CreateInstanceEnqueue,
       CloseTaskEnqueue, WriteInstanceEnqueue, EnqueueEnqueue
       DEF Request
  <2> QED
    BY <1>1, <2>1, <2>2 DEF Acts
<1>2. CASE Crash
  <2>1. /\ mem' = NewStore /\ op' = [c \in Actors |-> Idle] /\ log' = log /\ yaml' = yaml
    BY <1>2 DEF Crash
  <2> QED
    BY <2>1, NewStoreEnqueue, RestEnqueue DEF EnqueueInv, IdsUsed
<1>3. CASE Open
  <2>1. /\ server = "down" /\ UNCHANGED <<yaml, op, log>>
        /\ (~ParseFails /\ mem' = Loaded) \/ mem' = mem
    BY <1>3 DEF Open
  <2>2. op' = [c \in Actors |-> Idle]
    BY <2>1 DEF StateInv, OpsTyped
  <2>3. JobsOrdered(mem') /\ \A i \in Instances : mem'.insts[i] # NoRow => i \in log.used
    <3>1. CASE mem' = mem
      BY <3>1 DEF EnqueueInv, IdsUsed
    <3>2. CASE ~ParseFails /\ mem' = Loaded /\ yaml = NoRow
      BY <3>2, LoadedTables, NewStoreEnqueue
    <3>3. CASE ~ParseFails /\ mem' = Loaded /\ yaml # NoRow
      <4>1. mem'.insts = yaml.insts /\ mem'.acts = yaml.acts /\ mem'.jobs = yaml.jobs
        BY <3>3, LoadedTables
      <4> QED
        BY <3>3, <4>1 DEF EnqueueInv, IdsUsed, JobsOrdered, HasJob
    <3> QED
      BY <2>1, <3>1, <3>2, <3>3
  <2> QED
    BY <2>1, <2>2, <2>3, RestEnqueue DEF EnqueueInv, IdsUsed
<1>4. CASE UNCHANGED vars
  <2>1. mem' = mem /\ yaml' = yaml /\ op' = op /\ log' = log
    BY <1>4 DEF vars
  <2> QED
    BY <2>1 DEF EnqueueInv, IdsUsed, EnqueuedOnce, LockHeld, Approving
<1> QED
  BY <1>1, <1>2, <1>3, <1>4, NextSplit

\* Without jobs and operations nothing is enqueued twice.
LEMMA InitEnqueue ==
    ASSUME Init
    PROVE  EnqueueInv
<1>1. \A c \in Actors : op[c].kind = "idle" /\ op[c].at = "idle"
  BY IdleOp DEF Init
<1>2. mem = NewStore /\ yaml = NoRow
  BY DEF Init
<1> QED
  BY <1>1, <1>2, NewStoreEnqueue
     DEF EnqueueInv, IdsUsed, EnqueuedOnce, LockHeld, Approving, Enqueues

-----------------------------------------------------------------------------
(* Jobs run once *)

\* Job n is the one named j, and somebody has claimed it.
Claimed(m, n, j) ==
    n \in DOMAIN m.jobs /\ <<m.jobs[n].inst, m.jobs[n].task>> = j /\ m.jobs[n].status # "pending"

\* What has run is claimed wherever it may be read from.
RanIsClaimed ==
    \A j \in JobNames : log.runs[j] > 0 =>
        /\ server = "up" => \E n \in DOMAIN mem.jobs : Claimed(mem, n, j)
        /\ store = "file" => yaml # NoRow /\ \E n \in DOMAIN yaml.jobs : Claimed(yaml, n, j)

\* The job in the worker's hand has not run yet, and when it is about to run the
\* claim is in the file.
InHand(o) ==
    o.kind = "claim" \/ (o.kind = "job" /\ o.at = "enter") =>
        \E j \in JobNames :
            /\ log.runs[j] = 0 /\ Claimed(mem, o.job, j)
            /\ store = "file" /\ o.kind = "job" => yaml # NoRow /\ Claimed(yaml, o.job, j)

RunInv == RanIsClaimed /\ InHand(op[Worker]) /\ JobRunsOnce

\* A claim stays when the tables grow.
LEMMA StillClaimed ==
    ASSUME NEW m, NEW n, NEW k, NEW j, Grows(m, n), Claimed(m, k, j)
    PROVE  Claimed(n, k, j)
BY DEF Grows, Claimed

\* The counts are numbers.
LEMMA RunCounts ==
    ASSUME HistoryTyped
    PROVE  \A j \in JobNames : log.runs[j] \in Nat
BY DEF HistoryTyped, Log

\* A step that runs no job.
LEMMA RunsKept ==
    ASSUME StateInv, HistoryTyped, RunInv, NEW c \in Actors, Moves(c), log'.runs = log.runs,
           yaml' = yaml \/ (yaml' = mem /\ mem' = mem),
           InHand(op[Worker])'
    PROVE  RunInv'
<1>1. server = "up" /\ server' = "up" /\ store' = store /\ Grows(mem, mem') /\ mem # NoRow
  BY MemoryStoreAssumption DEF Moves, MemoryStoreAssumption, StateInv, TablesTyped
<1>2. ASSUME NEW j \in JobNames, log.runs[j] > 0
      PROVE  /\ \E n \in DOMAIN mem'.jobs : Claimed(mem', n, j)
             /\ store = "file" => yaml' # NoRow /\ \E n \in DOMAIN yaml'.jobs : Claimed(yaml', n, j)
  <2>1. /\ \E n \in DOMAIN mem.jobs : Claimed(mem, n, j)
        /\ store = "file" => yaml # NoRow /\ \E n \in DOMAIN yaml.jobs : Claimed(yaml, n, j)
    BY <1>1, <1>2 DEF RunInv, RanIsClaimed
  <2>2. PICK n \in DOMAIN mem.jobs : Claimed(mem, n, j)
    BY <2>1
  <2>3. Claimed(mem', n, j)
    BY <1>1, <2>2, StillClaimed
  <2>4. n \in DOMAIN mem'.jobs
    BY <2>3 DEF Claimed
  <2>5. store = "file" => yaml' # NoRow /\ \E k \in DOMAIN yaml'.jobs : Claimed(yaml', k, j)
    BY <1>1, <2>1, <2>2
  <2> QED
    BY <2>3, <2>4, <2>5
<1>3. RanIsClaimed'
  BY <1>1, <1>2 DEF RanIsClaimed
<1>4. JobRunsOnce'
  BY DEF RunInv, JobRunsOnce
<1> QED
  BY <1>3, <1>4 DEF RunInv

\* The steps of the others leave the worker's job in its hand.
LEMMA OthersRuns ==
    ASSUME StateInv, HistoryTyped, RunInv, NEW c \in Actors \ {Worker}, Acts(c)
    PROVE  RunInv'
<1>1. Moves(c) /\ Worker \in Actors
  BY ActsMoves DEF Actors
<1>2. /\ yaml' = yaml \/ (yaml' = mem /\ mem' = mem)
      /\ log'.runs = log.runs
  BY RowFrame, RequestFrame, EndingFrame DEF Acts
<1>3. op'[Worker] = op[Worker] /\ Grows(mem, mem') /\ store' = store /\ mem # NoRow
  BY <1>1, MemoryStoreAssumption DEF Moves, MemoryStoreAssumption, StateInv, TablesTyped, OpsTyped
<1>4. InHand(op[Worker])'
  <2> SUFFICES ASSUME op[Worker].kind = "claim" \/ (op[Worker].kind = "job" /\ op[Worker].at = "enter")
               PROVE  \E j \in JobNames :
                        /\ log'.runs[j] = 0 /\ Claimed(mem', op[Worker].job, j)
                        /\ store' = "file" /\ op[Worker].kind = "job" =>
                             yaml' # NoRow /\ Claimed(yaml', op[Worker].job, j)
    BY <1>3 DEF InHand
  <2>1. PICK j \in JobNames :
          /\ log.runs[j] = 0 /\ Claimed(mem, op[Worker].job, j)
          /\ store = "file" /\ op[Worker].kind = "job" => yaml # NoRow /\ Claimed(yaml, op[Worker].job, j)
    BY DEF RunInv, InHand
  <2>2. Claimed(mem', op[Worker].job, j)
    BY <1>3, <2>1, StillClaimed
  <2> WITNESS j \in JobNames
  <2> QED
    BY <1>2, <1>3, <2>1, <2>2
<1> QED
  BY <1>1, <1>2, <1>4, RunsKept

\* ClaimNextJob takes a job that has not run.
LEMMA ClaimRuns ==
    ASSUME StateInv, HistoryTyped, EnqueueInv, RunInv, Claim
    PROVE  RunInv'
<1>0. mem \in Tables /\ Worker \in Actors /\ server = "up"
  BY DEF StateInv, TablesTyped, Actors, Claim, IsIdle
<1>1. /\ Moves(Worker) /\ op'[Worker] \in ClaimOps /\ op'[Worker].job = NextJob(mem)
      /\ log' = log /\ yaml' = yaml
  BY ClaimMoves DEF Claim, UNCHANGED_Disk
<1>2. PICK n : n = NextJob(mem)
  OBVIOUS
<1>3. n \in PendingJobs(mem) /\ n \in DOMAIN mem.jobs /\ mem' = SetJob(mem, n, "running")
  BY <1>0, <1>2, NextJobFacts DEF Claim, ClaimNextJob
<1>4. mem.jobs[n].status = "pending"
  BY <1>3 DEF PendingJobs
<1>5. PICK j : j = <<mem.jobs[n].inst, mem.jobs[n].task>>
  OBVIOUS
<1>6. j \in JobNames
  BY <1>0, <1>3, <1>5, JobFields DEF JobNames
<1>7. log.runs[j] = 0
  <2>1. ASSUME log.runs[j] > 0 PROVE FALSE
    <3>1. PICK k \in DOMAIN mem.jobs : Claimed(mem, k, j)
      BY <1>0, <1>6, <2>1 DEF RunInv, RanIsClaimed
    <3>2. k = n
      BY <1>3, <1>5, <3>1 DEF Claimed, EnqueueInv, JobsOrdered
    <3> QED
      BY <1>4, <3>1, <3>2 DEF Claimed
  <2>2. log.runs[j] \in Nat
    BY <1>6, RunCounts
  <2> QED
    BY <2>1, <2>2
<1>8. Claimed(mem', n, j)
  <2>1. /\ DOMAIN mem'.jobs = DOMAIN mem.jobs /\ mem'.jobs[n].status = "running"
        /\ mem'.jobs[n].inst = mem.jobs[n].inst /\ mem'.jobs[n].task = mem.jobs[n].task
    BY <1>0, <1>3, SetJobTables
  <2> QED
    BY <1>3, <1>5, <2>1 DEF Claimed
<1>9. InHand(op[Worker])'
  <2>1. op'[Worker].kind = "claim" /\ op'[Worker].job = n
    BY <1>1, <1>2 DEF ClaimOps
  <2> QED
    BY <1>1, <1>6, <1>7, <1>8, <2>1 DEF InHand
<1> QED
  BY <1>0, <1>1, <1>9, RunsKept

\* When the worker goes on to run the job, the claim has been written.
LEMMA EndingRuns ==
    ASSUME StateInv, HistoryTyped, PlaceInv, RunInv, Ending(Worker)
    PROVE  RunInv'
<1>0. Worker \in Actors /\ mem # NoRow
  BY MemoryStoreAssumption DEF Actors, MemoryStoreAssumption, StateInv, TablesTyped
<1>1. Moves(Worker)
  BY <1>0, ActsMoves DEF Acts
<1>2. /\ mem' = mem /\ log'.runs = log.runs /\ op'[Worker].kind # "claim"
      /\ op'[Worker].kind = "job" =>
           /\ op[Worker].kind = "claim" /\ op'[Worker].job = op[Worker].job
           /\ persistLocked(Worker) \/ Reply(Worker)
      /\ yaml' = yaml \/ (persistLocked(Worker) /\ yaml' = mem)
  BY <1>0, EndingFrame
<1>3. InHand(op[Worker])'
  <2> SUFFICES ASSUME op'[Worker].kind = "job" PROVE InHand(op[Worker])'
    BY <1>2 DEF InHand
  <2>1. PICK j \in JobNames : log.runs[j] = 0 /\ Claimed(mem, op[Worker].job, j)
    BY <1>2 DEF RunInv, InHand
  <2>2. store' = "file" => yaml' = mem
    <3>1. op[Worker].at = "reply" => store # "file"
      BY <1>0 DEF PlaceInv, Backends, Backend
    <3>2. (persistLocked(Worker) /\ yaml' = mem) \/ op[Worker].at = "reply"
      BY <1>2 DEF persistLocked, Reply
    <3> QED
      BY <1>1, <3>1, <3>2 DEF Moves
  <2> QED
    BY <1>0, <1>2, <2>1, <2>2 DEF InHand
<1> QED
  BY <1>0, <1>1, <1>2, <1>3, RunsKept

\* The one step that runs a job.
LEMMA RanOnce ==
    ASSUME StateInv, HistoryTyped, RunInv, Moves(Worker), log' = Ran(Worker), yaml' = yaml,
           op[Worker].kind = "job", op[Worker].at = "enter",
           op'[Worker].kind = "finish" \/ (op'[Worker].kind = "job" /\ op'[Worker].at # "enter")
    PROVE  RunInv'
<1>0. /\ server = "up" /\ server' = "up" /\ store' = store /\ Grows(mem, mem') /\ log \in Log
      /\ Worker \in Actors
  BY DEF Moves, HistoryTyped, Actors
<1>1. PICK j \in JobNames :
        /\ log.runs[j] = 0 /\ Claimed(mem, op[Worker].job, j)
        /\ store = "file" => yaml # NoRow /\ Claimed(yaml, op[Worker].job, j)
  BY DEF RunInv, InHand
<1>2. j = <<JobOf(Worker).inst, JobOf(Worker).task>>
  BY <1>1 DEF Claimed, JobOf
<1>3. log'.runs = [log.runs EXCEPT ![j] = log.runs[j] + 1]
  BY <1>0, <1>2 DEF Ran, Log
<1>4. log.runs \in [JobNames -> Nat]
  BY <1>0 DEF Log
<1>5. log'.runs[j] = 1 /\ \A k \in JobNames \ {j} : log'.runs[k] = log.runs[k]
  BY <1>1, <1>3, <1>4
<1>6. ASSUME NEW k \in JobNames, log'.runs[k] > 0
      PROVE  /\ \E n \in DOMAIN mem'.jobs : Claimed(mem', n, k)
             /\ store = "file" => yaml # NoRow /\ \E n \in DOMAIN yaml.jobs : Claimed(yaml, n, k)
  <2>1. PICK n : /\ Claimed(mem, n, k)
                 /\ store = "file" => yaml # NoRow /\ \E i \in DOMAIN yaml.jobs : Claimed(yaml, i, k)
    <3>1. CASE k = j
      BY <1>1, <3>1 DEF Claimed
    <3>2. CASE k # j
      BY <1>0, <1>5, <1>6, <3>2 DEF RunInv, RanIsClaimed
    <3> QED
      BY <3>1, <3>2
  <2>2. Claimed(mem', n, k)
    BY <1>0, <2>1, StillClaimed
  <2> QED
    BY <2>1, <2>2 DEF Claimed
<1>7. RanIsClaimed'
  BY <1>0, <1>6 DEF RanIsClaimed
<1>8. JobRunsOnce'
  BY <1>5 DEF RunInv, JobRunsOnce
<1>9. InHand(op[Worker])'
  BY DEF InHand
<1> QED
  BY <1>7, <1>8, <1>9 DEF RunInv

\* Of the steps of a job only its first runs it.
LEMMA RunJobRuns ==
    ASSUME StateInv, HistoryTyped, RunInv, RunJob(Worker)
    PROVE  RunInv'
<1>0. Worker \in Actors /\ log \in Log
  BY DEF Actors, HistoryTyped
<1>1. Moves(Worker)
  BY <1>0, ActsMoves DEF Acts
<1>2. yaml' = yaml
  BY <1>0, WorkerFrame
<1>3. CASE RunStartJob(Worker) \/ RunContinueJob(Worker) \/ NotRunning(Worker)
  <2>1. log' = Ran(Worker) /\ op[Worker].kind = "job" /\ op[Worker].at = "enter"
    BY <1>3 DEF RunStartJob, RunContinueJob, NotRunning, At
  <2>2. op'[Worker].kind = "finish" \/ (op'[Worker].kind = "job" /\ op'[Worker].at # "enter")
    BY <1>0, <1>3 DEF RunStartJob, RunContinueJob, NotRunning, Begin, StateInv, OpsTyped
  <2> QED
    BY <1>1, <1>2, <2>1, <2>2, RanOnce
<1>4. CASE \/ \E t \in Tasks : OpenTask(Worker, t)
           \/ SaveInstance(Worker) \/ completeElement(Worker) \/ AllOpened(Worker)
           \/ tryCompleteProcess(Worker) \/ FinishJob(Worker) \/ JobErrs(Worker)
  <2>1. log'.runs = log.runs
    <3>1. CASE JobErrs(Worker)
      BY <1>0, <3>1, TornLog DEF Log
    <3>2. CASE ~JobErrs(Worker)
      BY <1>4, <3>2 DEF OpenTask, SaveInstance, completeElement, AllOpened, tryCompleteProcess,
                        FinishJob
    <3> QED
      BY <3>1, <3>2
  <2>2. op'[Worker].kind = "finish" \/ (op'[Worker].kind = "job" /\ op'[Worker].at # "enter")
    <3>1. CASE \E t \in Tasks : OpenTask(Worker, t)
      BY <1>0, <3>1, OpenTaskOp DEF RunningOps
    <3>2. CASE SaveInstance(Worker) \/ completeElement(Worker)
      BY <1>0, <3>2, SaveInstanceOp, CompleteElementOp DEF RunningOps
    <3>3. CASE AllOpened(Worker) \/ tryCompleteProcess(Worker) \/ FinishJob(Worker)
      BY <1>0, <3>3, CommittedOp DEF AllOpened, tryCompleteProcess, FinishJob, At
    <3>4. CASE JobErrs(Worker)
      BY <1>0, <3>4, AfterErrorOp DEF JobErrs, FinishOps
    <3> QED
      BY <1>4, <3>1, <3>2, <3>3, <3>4
  <2>3. InHand(op[Worker])'
    BY <2>2 DEF InHand
  <2> QED
    BY <1>0, <1>1, <1>2, <2>1, <2>3, RunsKept
<1> QED
  BY <1>3, <1>4 DEF RunJob

\* What has run stays claimed, step by step.
LEMMA RunStep ==
    ASSUME StateInv, HistoryTyped, PlaceInv, EnqueueInv, RunInv, [Next]_vars
    PROVE  RunInv'
<1>1. ASSUME NEW c \in Actors, Acts(c) PROVE RunInv'
  <2>1. CASE c # Worker
    BY <1>1, <2>1, OthersRuns
  <2>2. CASE c = Worker
    BY <1>1, <2>2, ClaimRuns, RunJobRuns, EndingRuns, FileStoreAssumption
       DEF Acts, FileStoreAssumption
  <2> QED
    BY <2>1, <2>2
<1>2. CASE Crash
  <2>1. /\ server' = "down" /\ UNCHANGED <<store, yaml, log>>
        /\ op' = [c \in Actors |-> Idle]
    BY <1>2 DEF Crash
  <2>2. op'[Worker].kind = "idle"
    BY <2>1, IdleOp DEF Actors
  <2> QED
    BY <2>1, <2>2 DEF RunInv, RanIsClaimed, InHand, JobRunsOnce
<1>3. CASE Open
  <2>1. /\ server = "down" /\ UNCHANGED <<store, yaml, op, log>>
        /\ \/ server' = "up" /\ ~ParseFails /\ mem' = Loaded
           \/ server' = "broken"
    BY <1>3 DEF Open
  <2>2. store = "file" /\ op[Worker].kind = "idle"
    BY <2>1, IdleOp DEF StateInv, OpsTyped, Actors
  <2>3. yaml # NoRow /\ ~ParseFails => Loaded.jobs = yaml.jobs
    BY LoadedTables
  <2>4. RanIsClaimed'
    BY <2>1, <2>2, <2>3 DEF RunInv, RanIsClaimed, Claimed
  <2> QED
    BY <2>1, <2>2, <2>4 DEF RunInv, InHand, JobRunsOnce
<1>4. CASE UNCHANGED vars
  BY <1>4 DEF vars, RunInv, RanIsClaimed, InHand, JobRunsOnce
<1> QED
  BY <1>1, <1>2, <1>3, <1>4, NextSplit

\* A job is enqueued once, and claimed before it runs.
LEMMA RunInvariant == Spec => [](EnqueueInv /\ RunInv)
<1>1. Init => EnqueueInv /\ RunInv
  <2>1. Init => RunInv
    BY IdleOp DEF Init, RunInv, RanIsClaimed, InHand, JobRunsOnce, Actors
  <2> QED
    BY <2>1, InitEnqueue
<1>2. StateInv /\ HistoryTyped /\ PlaceInv /\ ProcInv /\ EnqueueInv /\ RunInv /\ [Next]_vars
        => EnqueueInv' /\ RunInv'
  BY EnqueueStep, RunStep
<1> QED
  BY <1>1, <1>2, ProcInvariant, PTL DEF Spec

\* No job is executed twice.  ClaimNextJob takes a job whose name is its own (the
\* optimistic lock lets one approval of a task through), and the claim is in the
\* file before the job runs: no stop of the server, no failing file operation and
\* no order of the requests brings the job back.
THEOREM JobsRunOnce == Spec => []JobRunsOnce
<1>1. RunInv => JobRunsOnce
  BY DEF RunInv
<1> QED
  BY <1>1, RunInvariant, PTL

-----------------------------------------------------------------------------
(* Whole transactions *)

\* A list without repetitions of the members of S.
Exact(s, S) == Members(s) = S /\ \A j, k \in DOMAIN s : s[j] = s[k] => j = k

\* Whole, with what the next transaction relies on.
AtRest(m, i) ==
    IF m.insts[i] = NoRow
    THEN ~HasJob(m, i, "start") /\ \A t \in Tasks : m.acts[i][t] = "none"
    ELSE /\ HasJob(m, i, "start")
         /\ m.insts[i].status \in {"pending", "running", "completed"}
         /\ m.insts[i].status = "pending" =>
              m.insts[i].active = <<>> /\ \A t \in Tasks : m.acts[i][t] = "none"
         /\ m.insts[i].status # "pending" =>
              /\ Exact(m.insts[i].active, ListActiveActivities(m, i))
              /\ \A t \in Tasks : m.acts[i][t] = IF HasJob(m, i, t) THEN "completed" ELSE "active"
         /\ m.insts[i].status = "completed" => ListActiveActivities(m, i) = {}

\* The row an operation works on is the stored version.
Current(o) == o.row.lock = mem.insts[o.inst].lock

\* Operation o has read the row of instance i, and done nothing else yet.
HasRead(o, i) ==
    /\ \/ o.kind = "complete" /\ o.at = "enter"
       \/ o.kind = "job" /\ o.at = "read"
    /\ o.inst = i

\* Who has closed a task of instance i and not written its row yet, and where the
\* start job of the instance is.
Closing(i) == {c \in Actors : op[c].kind = "complete" /\ op[c].at = "route" /\ op[c].inst = i}
Opening(i) == op[Worker].kind = "job" /\ op[Worker].at = "open" /\ op[Worker].inst = i
Saving(i) == op[Worker].kind = "job" /\ op[Worker].at = "save" /\ op[Worker].inst = i

\* A transaction on instance i will not get past its next versioned write.
Doomed(i) ==
    \/ \E c \in Closing(i) : ~Current(op[c])
    \/ Saving(i) /\ ~Current(op[Worker])
    \/ Opening(i) /\ ~Current(op[Worker]) /\ \E t \in Tasks : mem.acts[i][t] = "none"

\* The rows of an instance that was never created, and of one that was.
OwedRows(i) ==
    IF mem.insts[i] = NoRow THEN \A t \in Tasks : mem.acts[i][t] = "none"
    ELSE /\ HasJob(mem, i, "start") \/ \E c \in Actors : Enqueues(op[c], i, "start")
         /\ mem.insts[i].status \in {"pending", "running", "completed"}
         /\ mem.insts[i].status = "pending" =>
              mem.insts[i].active = <<>> /\ \A t \in Tasks : mem.acts[i][t] = "none"
         /\ mem.insts[i].status = "completed" => ListActiveActivities(mem, i) = {}

\* What is still missing is owed by a transaction under way: the activities that
\* are not open yet, the jobs of those that are closed, and the waiting list.
OwedTasks(i) ==
    mem.insts[i] # NoRow /\ mem.insts[i].status # "pending" =>
        /\ \A t \in Tasks : mem.acts[i][t] = "none" => Opening(i) \/ Saving(i)
        /\ \A t \in Tasks : mem.acts[i][t] = "completed" =>
             \/ HasJob(mem, i, t)
             \/ \E c \in Closing(i) : op[c].task = t
             \/ \E c \in Actors : Enqueues(op[c], i, t)
        /\ Closing(i) = {} /\ ~Saving(i) =>
             Exact(mem.insts[i].active, ListActiveActivities(mem, i))

\* The waiting list in the hand of the one transaction that may write it.
OwedLists(i) ==
    /\ \A c \in Actors :
         /\ HasRead(op[c], i)
              /\ Current(op[c]) /\ Closing(i) = {} => op[c].row.active = mem.insts[i].active
         /\ Closing(i) = {c} /\ ~Saving(i) =>
              Exact(op[c].row.active, ListActiveActivities(mem, i))
    /\ Opening(i) /\ Current(op[Worker]) /\ Closing(i) = {} =>
         op[Worker].row.active = mem.insts[i].active
    /\ Saving(i) /\ Closing(i) = {} =>
         Exact(op[Worker].row.active, ListActiveActivities(mem, i))

Owed(i) == OwedRows(i) /\ OwedTasks(i) /\ OwedLists(i)

WholeInv ==
    \A i \in Instances \ log.torn :
        (Doomed(i) \/ Owed(i)) /\ (yaml # NoRow => AtRest(yaml, i))

\* An instance is pending until its start job runs.
StartFirst(m) ==
    \A n \in DOMAIN m.jobs : m.jobs[n].task = "start" /\ m.jobs[n].status = "pending"
                               => m.insts[m.jobs[n].inst].status = "pending"

\* What an operation knows about the status of its instance.
Status(o) ==
    /\ o.kind = "claim" \/ (o.kind = "job" /\ o.at = "enter") =>
         (mem.jobs[o.job].task = "start" => mem.insts[mem.jobs[o.job].inst].status = "pending")
    /\ o.kind = "start" =>
         /\ o.row.status = "pending" /\ o.row.active = <<>>
         /\ o.at = "enqueue" => mem.insts[o.inst].status = "pending"
    /\ o.kind = "complete" =>
         /\ mem.insts[o.inst].status # "pending" /\ mem.acts[o.inst][o.task] # "none"
         /\ o.row.status = "running"
         /\ o.at \in {"enter", "route"} /\ Current(o) => mem.insts[o.inst].status = "running"
    /\ o.kind = "job" /\ o.at \in {"open", "save", "read", "end"} =>
         /\ mem.insts[o.inst].status = "running" /\ o.row.status = "running"
         /\ o.row.lock <= mem.insts[o.inst].lock

StatusInv ==
    /\ StartFirst(mem) /\ (yaml # NoRow => StartFirst(yaml))
    /\ \A c \in Actors : Status(op[c])

-----------------------------------------------------------------------------
(* Lists that name each open activity once *)

\* The empty list, one more entry, and one entry less.
LEMMA ExactLists ==
    ASSUME NEW s \in Seq(Tasks), NEW S, NEW t \in Tasks, Exact(s, S)
    PROVE  /\ Exact(<<>>, {})
           /\ t \notin S => Exact(Append(s, t), S \cup {t})
           /\ Exact(Removed(s, t), S \ {t})
<1>1. Exact(<<>>, {})
  BY DEF Exact, Members
<1>2. NoRepeats(s) /\ Members(s) = S
  BY DEF Exact, NoRepeats
<1>3. t \notin S => NoRepeats(Append(s, t)) /\ Members(Append(s, t)) = S \cup {t}
  BY <1>2, NoRepeatsAppend, MembersAppend
<1>4. NoRepeats(Removed(s, t)) /\ Members(Removed(s, t)) = S \ {t}
  BY <1>2, OutsideNoRepeats, OutsideFacts DEF Removed
<1> QED
  BY <1>1, <1>3, <1>4 DEF Exact, NoRepeats

\* Such a list is as long as there are activities.
LEMMA ExactLength ==
    ASSUME NEW s \in Seq(Tasks), NEW S, Exact(s, S)
    PROVE  {s[n] : n \in DOMAIN s} = S /\ Len(s) = Cardinality(S)
<1>1. Len(s) \in Nat /\ DOMAIN s = 1..Len(s)
  OBVIOUS
<1>2. s \in [1..Len(s) -> S]
  BY <1>1 DEF Exact, Members
<1>3. s \in Bijection(1..Len(s), S)
  BY <1>1, <1>2 DEF Exact, Members, Bijection, Injection, IsInjective, Surjection
<1>4. IsFiniteSet(1..Len(s)) /\ Cardinality(1..Len(s)) = Len(s)
  BY <1>1, FS_Interval
<1>5. ExistsBijection(1..Len(s), S)
  BY <1>3 DEF ExistsBijection
<1>6. Cardinality(S) = Cardinality(1..Len(s))
  BY <1>4, <1>5, FS_Bijection, FS_SameCardinalityBij
<1> QED
  BY <1>4, <1>6 DEF Exact, Members

\* Rows at rest are whole.
LEMMA RestIsWhole ==
    ASSUME NEW m \in Tables, NEW i \in Instances, AtRest(m, i)
    PROVE  Whole(m, i)
<1>1. CASE m.insts[i] = NoRow
  BY <1>1 DEF AtRest, Whole
<1>2. CASE m.insts[i] # NoRow
  <2>1. m.insts[i].active \in Seq(Tasks)
    BY <1>2 DEF Tables, InstanceRow
  <2> DEFINE row == m.insts[i]
             open == ListActiveActivities(m, i)
  <2>2. /\ HasJob(m, i, "start")
        /\ row.status = "pending" => \A t \in Tasks : m.acts[i][t] = "none"
        /\ row.status # "pending" =>
             /\ Exact(row.active, open)
             /\ \A t \in Tasks : m.acts[i][t] = IF HasJob(m, i, t) THEN "completed" ELSE "active"
        /\ row.status = "completed" => open = {}
    BY <1>2 DEF AtRest
  <2>3. row.status # "pending" =>
          {row.active[n] : n \in DOMAIN row.active} = open /\ Len(row.active) = Cardinality(open)
    BY <2>1, <2>2, ExactLength
  <2> HIDE DEF row, open
  <2>4. Whole(m, i) <=>
          /\ HasJob(m, i, "start")
          /\ row.status = "pending" => \A t \in Tasks : m.acts[i][t] = "none"
          /\ row.status # "pending" =>
                /\ {row.active[n] : n \in DOMAIN row.active} = open
                /\ Len(row.active) = Cardinality(open)
                /\ \A t \in Tasks : m.acts[i][t] = IF HasJob(m, i, t) THEN "completed" ELSE "active"
          /\ row.status = "completed" => open = {}
    BY <1>2 DEF Whole, row, open
  <2> QED
    BY <2>2, <2>3, <2>4
<1> QED
  BY <1>1, <1>2

\* With nobody between two writes on an instance, nothing is owed.
LEMMA NothingOwed ==
    ASSUME StateInv, EnqueueInv, NEW i \in Instances, Owed(i),
           Closing(i) = {}, ~Saving(i), ~Opening(i),
           \A c \in Actors, t \in Tasks \cup {"start"} : ~Enqueues(op[c], i, t)
    PROVE  AtRest(mem, i)
<1>0. mem \in Tables /\ JobsLinked(mem)
  BY DEF StateInv, TablesTyped
<1>1. CASE mem.insts[i] = NoRow
  <2>1. ~HasJob(mem, i, "start")
    BY <1>0, <1>1 DEF HasJob, JobsLinked
  <2> QED
    BY <1>1, <2>1 DEF AtRest, Owed, OwedRows
<1>2. CASE mem.insts[i] # NoRow
  <2>1. /\ HasJob(mem, i, "start")
        /\ mem.insts[i].status \in {"pending", "running", "completed"}
        /\ mem.insts[i].status = "pending" =>
             mem.insts[i].active = <<>> /\ \A t \in Tasks : mem.acts[i][t] = "none"
        /\ mem.insts[i].status = "completed" => ListActiveActivities(mem, i) = {}
    BY <1>2 DEF Owed, OwedRows
  <2>2. ASSUME mem.insts[i].status # "pending"
        PROVE  /\ Exact(mem.insts[i].active, ListActiveActivities(mem, i))
               /\ \A t \in Tasks : mem.acts[i][t] = IF HasJob(mem, i, t) THEN "completed" ELSE "active"
    <3>1. /\ \A t \in Tasks : mem.acts[i][t] # "none"
          /\ \A t \in Tasks : mem.acts[i][t] = "completed" => HasJob(mem, i, t)
          /\ Exact(mem.insts[i].active, ListActiveActivities(mem, i))
      BY <1>2, <2>2 DEF Owed, OwedTasks
    <3>2. \A t \in Tasks : HasJob(mem, i, t) => mem.acts[i][t] = "completed"
      BY DEF EnqueueInv, JobsOrdered
    <3>3. \A t \in Tasks : mem.acts[i][t] \in {"none", "active", "completed"}
      BY <1>0 DEF Tables
    <3> QED
      BY <3>1, <3>2, <3>3
  <2> QED
    BY <1>2, <2>1, <2>2 DEF AtRest
<1> QED
  BY <1>1, <1>2

\* Rows at rest owe nothing to anybody.
LEMMA RestOwesNothing ==
    ASSUME NEW i \in Instances, AtRest(mem, i), \A c \in Actors : op[c] = Idle, Worker \in Actors
    PROVE  Owed(i)
<1>1. \A c \in Actors : op[c].kind = "idle" /\ op[c].at = "idle"
  BY IdleOp
<1>2. Closing(i) = {} /\ ~Saving(i) /\ ~Opening(i)
  BY <1>1 DEF Closing, Saving, Opening
<1>3. OwedRows(i)
  BY DEF AtRest, OwedRows
<1>4. OwedTasks(i)
  BY <1>2 DEF AtRest, OwedTasks
<1>5. OwedLists(i)
  BY <1>1, <1>2 DEF OwedLists, HasRead
<1> QED
  BY <1>3, <1>4, <1>5 DEF Owed

-----------------------------------------------------------------------------
(* Steps that leave an instance alone *)

\* Operation o is not between two writes on instance i.
Aloof(o, i) ==
    /\ ~(o.kind = "complete" /\ o.at = "route" /\ o.inst = i)
    /\ ~(o.kind = "job" /\ o.at \in {"open", "save"} /\ o.inst = i)

\* Instance i has job t, or a transaction is about to enqueue it.
Promised(i, t) == HasJob(mem, i, t) \/ \E d \in Actors : Enqueues(op[d], i, t)

\* The rows of instance i stay.
SameRowsOf(i) ==
    /\ mem'.insts[i] = mem.insts[i] /\ mem'.acts[i] = mem.acts[i]
    /\ \A t \in Tasks \cup {"start"} : HasJob(mem', i, t) <=> HasJob(mem, i, t)

\* The others keep their operations.
LEMMA OthersStay ==
    ASSUME StateInv, NEW c \in Actors, Moves(c)
    PROVE  /\ \A d \in Actors \ {c} : op'[d] = op[d]
           /\ Worker \in Actors
           /\ mem \in Tables /\ mem' \in Tables
BY DEF StateInv, OpsTyped, TablesTyped, Moves, Actors

\* Whoever is between two writes on instance i still is, if c is not and was not.
LEMMA AloofStages ==
    ASSUME StateInv, NEW c \in Actors, Moves(c), NEW i,
           Aloof(op[c], i), Aloof(op'[c], i)
    PROVE  /\ Closing(i)' = Closing(i)
           /\ \A d \in Closing(i) : op'[d] = op[d]
           /\ Opening(i)' <=> Opening(i)
           /\ Saving(i)' <=> Saving(i)
           /\ Opening(i) \/ Saving(i) => op'[Worker] = op[Worker]
<1>1. (\A d \in Actors \ {c} : op'[d] = op[d]) /\ Worker \in Actors
  BY OthersStay
<1>2. Closing(i)' = Closing(i) /\ \A d \in Closing(i) : op'[d] = op[d]
  <2>1. c \notin Closing(i) /\ c \notin Closing(i)'
    BY DEF Closing, Aloof
  <2>2. \A d \in Actors \ {c} : d \in Closing(i)' <=> d \in Closing(i)
    BY <1>1 DEF Closing
  <2>3. Closing(i) \subseteq Actors /\ Closing(i)' \subseteq Actors
    BY DEF Closing
  <2> QED
    BY <1>1, <2>1, <2>2, <2>3
<1>3. (Opening(i)' <=> Opening(i)) /\ (Saving(i)' <=> Saving(i))
      /\ (Opening(i) \/ Saving(i) => op'[Worker] = op[Worker])
  BY <1>1 DEF Opening, Saving, Aloof
<1> QED
  BY <1>2, <1>3

\* Nothing changes for an instance whose rows and promised jobs stay and with
\* which c has nothing to do, but for reading its row.
LEMMA FrameOwed ==
    ASSUME StateInv, NEW c \in Actors, Moves(c), NEW i \in Instances,
           Aloof(op[c], i), Aloof(op'[c], i),
           HasRead(op'[c], i) => op'[c].row.active = mem'.insts[i].active,
           mem'.insts[i] = mem.insts[i], mem'.acts[i] = mem.acts[i],
           \A t \in Tasks \cup {"start"} : Promised(i, t) => Promised(i, t)',
           Doomed(i) \/ Owed(i)
    PROVE  Doomed(i)' \/ Owed(i)'
<1>1. /\ Closing(i)' = Closing(i)
      /\ \A d \in Closing(i) : op'[d] = op[d]
      /\ Opening(i)' <=> Opening(i)
      /\ Saving(i)' <=> Saving(i)
      /\ Opening(i) \/ Saving(i) => op'[Worker] = op[Worker]
      /\ \A d \in Actors \ {c} : op'[d] = op[d]
  BY AloofStages, OthersStay
<1>2. mem'.insts[i] = mem.insts[i] /\ mem'.acts[i] = mem.acts[i]
  OBVIOUS
<1>3. ListActiveActivities(mem', i) = ListActiveActivities(mem, i)
  BY <1>2 DEF ListActiveActivities
<1>4. \A d \in Closing(i) : Current(op[d])' <=> Current(op[d])
  BY <1>1, <1>2 DEF Current, Closing
<1>5. Opening(i) \/ Saving(i) => (Current(op[Worker])' <=> Current(op[Worker]))
  BY <1>1, <1>2 DEF Current, Opening, Saving
<1>6. CASE Doomed(i)
  BY <1>1, <1>2, <1>4, <1>5, <1>6 DEF Doomed
<1>7. CASE Owed(i)
  <2>1. OwedRows(i)'
    <3>1. Promised(i, "start") => Promised(i, "start")'
      OBVIOUS
    <3> QED
      BY <1>2, <1>3, <1>7, <3>1 DEF Owed, OwedRows, Promised
  <2>2. OwedTasks(i)'
    <3> SUFFICES ASSUME mem.insts[i] # NoRow, mem.insts[i].status # "pending"
                 PROVE  OwedTasks(i)'
      BY <1>2 DEF OwedTasks
    <3>1. /\ \A t \in Tasks : mem.acts[i][t] = "none" => Opening(i) \/ Saving(i)
          /\ \A t \in Tasks : mem.acts[i][t] = "completed" =>
               Promised(i, t) \/ \E d \in Closing(i) : op[d].task = t
          /\ Closing(i) = {} /\ ~Saving(i) =>
               Exact(mem.insts[i].active, ListActiveActivities(mem, i))
      BY <1>7 DEF Owed, OwedTasks, Promised
    <3>2. \A t \in Tasks : mem'.acts[i][t] = "completed" =>
               Promised(i, t)' \/ \E d \in Closing(i)' : op'[d].task = t
      BY <1>1, <1>2, <3>1
    <3>3. /\ \A t \in Tasks : mem'.acts[i][t] = "none" => Opening(i)' \/ Saving(i)'
          /\ Closing(i)' = {} /\ ~Saving(i)' =>
               Exact(mem'.insts[i].active, ListActiveActivities(mem', i))
      BY <1>1, <1>2, <1>3, <3>1
    <3> QED
      BY <3>2, <3>3 DEF OwedTasks, Promised
  <2>3. OwedLists(i)'
    <3>1. ASSUME NEW d \in Actors
          PROVE  /\ HasRead(op'[d], i)
                      /\ Current(op[d])' /\ Closing(i)' = {} => op'[d].row.active = mem'.insts[i].active
                 /\ Closing(i)' = {d} /\ ~Saving(i)' =>
                      Exact(op'[d].row.active, ListActiveActivities(mem', i))
      <4>1. /\ HasRead(op[d], i)
                 /\ Current(op[d]) /\ Closing(i) = {} => op[d].row.active = mem.insts[i].active
            /\ Closing(i) = {d} /\ ~Saving(i) =>
                 Exact(op[d].row.active, ListActiveActivities(mem, i))
        BY <1>7 DEF Owed, OwedLists
      <4>2. d # c /\ op[d].inst = i => op'[d] = op[d] /\ (Current(op[d])' <=> Current(op[d]))
        BY <1>1, <1>2 DEF Current
      <4>3. HasRead(op[d], i) => op[d].inst = i
        BY DEF HasRead
      <4>4. d # c => op'[d] = op[d]
        BY <1>1
      <4> QED
        BY <1>1, <1>2, <1>3, <4>1, <4>2, <4>3, <4>4
    <3>2. /\ Opening(i)' /\ Current(op[Worker])' /\ Closing(i)' = {} =>
               op'[Worker].row.active = mem'.insts[i].active
          /\ Saving(i)' /\ Closing(i)' = {} =>
               Exact(op'[Worker].row.active, ListActiveActivities(mem', i))
      BY <1>1, <1>2, <1>3, <1>5, <1>7 DEF Owed, OwedLists
    <3> QED
      BY <3>1, <3>2 DEF OwedLists
  <2> QED
    BY <2>1, <2>2, <2>3 DEF Owed
<1> QED
  BY <1>6, <1>7

\* Promises of others are kept.
LEMMA OthersPromise ==
    ASSUME StateInv, NEW c \in Actors, Moves(c), NEW i, NEW t, Promised(i, t), ~Enqueues(op[c], i, t)
    PROVE  Promised(i, t)'
<1>1. CASE HasJob(mem, i, t)
  BY <1>1, HasJobGrows DEF Promised, Moves
<1>2. CASE \E d \in Actors : Enqueues(op[d], i, t)
  <2>1. PICK d \in Actors : Enqueues(op[d], i, t)
    BY <1>2
  <2>2. op'[d] = op[d]
    BY <2>1, OthersStay
  <2> QED
    BY <2>1, <2>2 DEF Promised
<1> QED
  BY <1>1, <1>2 DEF Promised

\* Nothing changes for an instance that c has nothing to do with.
LEMMA QuietOwed ==
    ASSUME StateInv, NEW c \in Actors, Moves(c), NEW i \in Instances,
           Aloof(op[c], i), ~(op[c].at = "enqueue" /\ op[c].inst = i),
           Aloof(op'[c], i), ~HasRead(op'[c], i),
           mem'.insts[i] = mem.insts[i], mem'.acts[i] = mem.acts[i], Doomed(i) \/ Owed(i)
    PROVE  Doomed(i)' \/ Owed(i)'
<1>1. \A t : ~Enqueues(op[c], i, t)
  BY DEF Enqueues
<1>2. \A t \in Tasks \cup {"start"} : Promised(i, t) => Promised(i, t)'
  BY <1>1, OthersPromise
<1> QED
  BY <1>2, FrameOwed

-----------------------------------------------------------------------------
(* What each step writes *)

\* A versioned write of the row of instance i.
Writes(i, row) ==
    /\ i \in Instances /\ row \in InstanceRow
    /\ mem.insts[i] \in InstanceRow /\ mem.insts[i] # NoRow /\ mem.insts[i].lock = row.lock
    /\ mem'.insts = [mem.insts EXCEPT ![i] = Bumped(row)]
    /\ mem'.acts = mem.acts /\ mem'.jobs = mem.jobs

\* The written row, and the others.
LEMMA WritesRows ==
    ASSUME NEW i, NEW row, Writes(i, row), mem \in Tables
    PROVE  /\ mem'.insts[i] = Bumped(row)
           /\ mem'.insts[i].status = row.status /\ mem'.insts[i].active = row.active
           /\ mem'.insts[i].lock = mem.insts[i].lock + 1 /\ mem.insts[i].lock \in Nat
           /\ mem'.insts[i] # NoRow
           /\ \A j \in Instances \ {i} : SameRowsOf(j)
           /\ \A t : HasJob(mem', i, t) <=> HasJob(mem, i, t)
           /\ LocksUp(mem, mem') /\ SameNames(mem, mem')
<1>1. mem.insts \in [Instances -> InstanceRow \cup {NoRow}]
  BY DEF Tables
<1>2. mem'.insts[i] = Bumped(row) /\ \A j \in Instances \ {i} : mem'.insts[j] = mem.insts[j]
  BY <1>1 DEF Writes
<1>3. /\ Bumped(row) \in InstanceRow /\ Bumped(row).lock = row.lock + 1
      /\ Bumped(row).status = row.status /\ Bumped(row).active = row.active
  BY BumpedRow DEF Writes
<1>4. \A r \in InstanceRow : r.lock \in Nat /\ r # NoRow
  BY MemoryStoreAssumption DEF MemoryStoreAssumption, InstanceRow
<1>5. \A j, t : HasJob(mem', j, t) <=> HasJob(mem, j, t)
  BY DEF Writes, HasJob
<1>6. \A j \in Instances \ {i} : SameRowsOf(j)
  BY <1>2, <1>5 DEF SameRowsOf, Writes
<1>7. LocksUp(mem, mem')
  <2> SUFFICES ASSUME NEW j \in Instances, mem.insts[j] # NoRow
               PROVE  mem.insts[j].lock <= mem'.insts[j].lock
    BY DEF LocksUp
  <2>1. mem.insts[j].lock \in Nat
    BY <1>1, <1>4
  <2>2. CASE j = i
    BY <1>2, <1>3, <2>1, <2>2 DEF Writes
  <2>3. CASE j # i
    BY <1>2, <2>1, <2>3
  <2> QED
    BY <2>2, <2>3
<1>8. SameNames(mem, mem')
  BY DEF Writes, SameNames
<1> QED
  BY <1>2, <1>3, <1>4, <1>5, <1>6, <1>7, <1>8 DEF Writes

\* The steps that are versioned writes.
LEMMA WriteSteps ==
    ASSUME StateInv, NEW c \in Actors
    PROVE  /\ WriteInstance(c) => Writes(op[c].inst, op[c].row)
           /\ RunStartJob(c) => Writes(JobOf(c).inst, [mem.insts[JobOf(c).inst] EXCEPT !.status = "running"])
           /\ SaveInstance(c) \/ completeElement(c) => Writes(op[c].inst, op[c].row)
           /\ tryCompleteProcess(c) /\ Finishes(c) =>
                Writes(op[c].inst, [op[c].row EXCEPT !.status = "completed"])
           /\ JobErrs(c) =>
                \/ mem' = mem
                \/ Writes(op[c].inst, [op[c].row EXCEPT !.status = "failed"])
<1>0. mem \in Tables
  BY DEF StateInv, TablesTyped
<1>1. ASSUME NEW i \in Instances, NEW row \in InstanceRow, LockVersionMatches(mem, i, row),
             mem' = UpdateProcessInstance(mem, i, row)
      PROVE  Writes(i, row)
  <2>1. mem.insts[i] # NoRow /\ mem.insts[i].lock = row.lock
    BY <1>1 DEF LockVersionMatches
  <2>2. mem.insts[i] \in InstanceRow
    BY <1>0, <2>1 DEF Tables
  <2> QED
    BY <1>0, <1>1, <2>1, <2>2, UpdateTables DEF Writes
<1>2. ASSUME WriteInstance(c) PROVE Writes(op[c].inst, op[c].row)
  <2>1. op[c].inst \in Instances /\ op[c].row \in InstanceRow
    BY <1>2, TransactionFields DEF WriteInstance, At
  <2> QED
    BY <1>1, <1>2, <2>1 DEF WriteInstance
<1>3. ASSUME SaveInstance(c) \/ completeElement(c) PROVE Writes(op[c].inst, op[c].row)
  <2>1. op[c].inst \in Instances /\ op[c].row \in InstanceRow
    BY <1>3, RunningJob DEF SaveInstance, completeElement, At
  <2> QED
    BY <1>1, <1>3, <2>1 DEF SaveInstance, completeElement
<1>4. ASSUME RunStartJob(c)
      PROVE  JobOf(c).inst \in Instances /\ mem.insts[JobOf(c).inst] \in InstanceRow
             /\ mem.insts[JobOf(c).inst] # NoRow
  <2>1. op[c].kind = "job"
    BY <1>4 DEF RunStartJob, At
  <2> QED
    BY <2>1, JobInHand, MemoryStoreAssumption DEF MemoryStoreAssumption
<1>5. ASSUME RunStartJob(c)
      PROVE  Writes(JobOf(c).inst, [mem.insts[JobOf(c).inst] EXCEPT !.status = "running"])
  <2>1. PICK i, row : i = JobOf(c).inst /\ row = [mem.insts[i] EXCEPT !.status = "running"]
    OBVIOUS
  <2>2. row \in InstanceRow /\ row.lock = mem.insts[i].lock
    BY <1>4, <1>5, <2>1 DEF InstanceRow
  <2>3. mem' = UpdateProcessInstance(mem, i, row)
    BY <1>5, <2>1 DEF RunStartJob
  <2> QED
    BY <1>1, <1>4, <1>5, <2>1, <2>2, <2>3 DEF LockVersionMatches
<1>7. ASSUME NEW s \in {"completed", "failed"}, op[c].kind = "job", op[c].at # "enter",
             NEW row, row = [op[c].row EXCEPT !.status = s]
      PROVE  /\ op[c].inst \in Instances /\ row \in InstanceRow
             /\ LockVersionMatches(mem, op[c].inst, row) <=> LockVersionMatches(mem, op[c].inst, op[c].row)
  <2>1. op[c].inst \in Instances /\ op[c].row \in InstanceRow
    BY <1>7, RunningJob
  <2>2. row \in InstanceRow /\ row.lock = op[c].row.lock
    BY <1>7, <2>1 DEF InstanceRow
  <2> QED
    BY <2>1, <2>2 DEF LockVersionMatches
<1>8. ASSUME tryCompleteProcess(c), Finishes(c)
      PROVE  Writes(op[c].inst, [op[c].row EXCEPT !.status = "completed"])
  <2>1. PICK row : row = [op[c].row EXCEPT !.status = "completed"]
    OBVIOUS
  <2>2. /\ op[c].kind = "job" /\ op[c].at # "enter"
        /\ LockVersionMatches(mem, op[c].inst, row)
        /\ mem' = UpdateProcessInstance(mem, op[c].inst, row)
    BY <1>8, <2>1 DEF tryCompleteProcess, At
  <2> QED
    BY <1>1, <1>7, <2>1, <2>2
<1>9. ASSUME JobErrs(c)
      PROVE  \/ mem' = mem
             \/ Writes(op[c].inst, [op[c].row EXCEPT !.status = "failed"])
  <2>1. PICK row : row = [op[c].row EXCEPT !.status = "failed"]
    OBVIOUS
  <2>2. /\ op[c].kind = "job" /\ op[c].at # "enter"
        /\ \/ mem' = mem
           \/ /\ LockVersionMatches(mem, op[c].inst, op[c].row)
              /\ mem' = UpdateProcessInstance(mem, op[c].inst, row)
    BY <1>9, <2>1 DEF JobErrs
  <2> QED
    BY <1>1, <1>7, <2>1, <2>2
<1> QED
  BY <1>2, <1>3, <1>5, <1>8, <1>9

\* What the other steps on instances write.
LEMMA CreateRows ==
    ASSUME StateInv, NEW c \in Actors, CreateInstance(c)
    PROVE  /\ op[c].kind = "start" /\ op[c].at = "enter" /\ op[c].inst \in Instances
           /\ op[c].row \in InstanceRow
           /\ mem'.insts = [mem.insts EXCEPT ![op[c].inst] = op[c].row]
           /\ mem'.acts = mem.acts /\ mem'.jobs = mem.jobs
           /\ op'[c].kind = "start" /\ op'[c].at = "enqueue"
           /\ op'[c].inst = op[c].inst /\ op'[c].row = op[c].row
<1>0. mem \in Tables
  BY DEF StateInv, TablesTyped
<1>1. /\ op[c].kind = "start" /\ op[c].at = "enter"
      /\ mem' = CreateProcessInstance(mem, op[c].inst, op[c].row)
      /\ op[c] \in StartOps /\ op'[c] = [op[c] EXCEPT !.at = "enqueue"]
  BY OpKinds, GotoOp DEF CreateInstance, At, StateInv, OpsTyped
<1>2. /\ op[c].inst \in Instances /\ op[c].row \in InstanceRow
      /\ op'[c].kind = "start" /\ op'[c].at = "enqueue"
      /\ op'[c].inst = op[c].inst /\ op'[c].row = op[c].row
  BY <1>1 DEF StartOps
<1> QED
  BY <1>0, <1>1, <1>2, InstanceTables

\* CloseTask closes one activity.
LEMMA CloseRows ==
    ASSUME StateInv, NEW c \in Actors, CloseTask(c)
    PROVE  /\ mem'.acts = [mem.acts EXCEPT ![op[c].inst] =
                             [mem.acts[op[c].inst] EXCEPT ![op[c].task] = "completed"]]
           /\ op[c].kind = "complete" /\ op[c].at = "enter"
           /\ op'[c].kind = "complete"
<1>1. op[c].inst \in Instances /\ op[c].task \in Tasks /\ op[c].kind = "complete" /\ op[c].at = "enter"
      /\ mem.insts[op[c].inst] # NoRow
  BY TransactionFields DEF CloseTask, At
<1>2. PICK i, t : i = op[c].inst /\ t = op[c].task
  OBVIOUS
<1>0. mem \in Tables /\ JobsLinked(mem) /\ i \in Instances /\ t \in Tasks /\ mem.insts[i] # NoRow
  BY <1>1, <1>2 DEF StateInv, TablesTyped
<1> DEFINE n == ShowCompacted(UpdateActivityInstance(mem, i, t, "completed"), i, t)
<1>3. n.acts = [mem.acts EXCEPT ![i] = [mem.acts[i] EXCEPT ![t] = "completed"]]
  BY <1>0, CloseGrows
<1>4. mem' = n
  BY <1>2 DEF CloseTask
<1> HIDE DEF n
<1>5. op'[c].kind = "complete"
  BY CloseOp DEF CompleteOps
<1> QED
  BY <1>1, <1>2, <1>3, <1>4, <1>5

\* OpenTask opens one.
LEMMA OpenRows ==
    ASSUME StateInv, NEW c \in Actors, NEW t \in Tasks, OpenTask(c, t)
    PROVE  /\ mem'.acts = [mem.acts EXCEPT ![op[c].inst] = [mem.acts[op[c].inst] EXCEPT ![t] = "active"]]
           /\ mem'.insts = mem.insts /\ mem'.jobs = mem.jobs
           /\ op[c].inst \in Instances /\ op[c].kind = "job" /\ op[c].at = "open"
<1>1. op[c].kind = "job" /\ op[c].at = "open" /\ op[c].inst \in Instances
  BY RunningJob DEF OpenTask, At
<1>2. mem' = CreateActivityInstance(mem, op[c].inst, t) /\ mem \in Tables
  BY OpenTaskOp DEF StateInv, TablesTyped
<1> QED
  BY <1>1, <1>2 DEF CreateActivityInstance, Tables

\* Enqueue adds one job, which is pending.
LEMMA EnqueueRows ==
    ASSUME StateInv, NEW c \in Actors, Enqueue(c)
    PROVE  /\ mem'.insts = mem.insts /\ mem'.acts = mem.acts
           /\ \A j, u : HasJob(mem', j, u) <=>
                          HasJob(mem, j, u) \/ (j = op[c].inst /\ u = JobTask(op[c]))
           /\ \A n \in DOMAIN mem'.jobs :
                \/ n \in DOMAIN mem.jobs /\ mem'.jobs[n] = mem.jobs[n]
                \/ mem'.jobs[n].inst = op[c].inst /\ mem'.jobs[n].task = JobTask(op[c])
           /\ op[c].inst \in Instances /\ op[c].at = "enqueue"
<1>1. PICK i, t, l : i = op[c].inst /\ t = JobTask(op[c]) /\ l = Len(mem.jobs) + 1
  OBVIOUS
<1>2. /\ i \in Instances /\ t \in Tasks \cup {"start"} /\ mem' = EnqueueJob(mem, i, t)
      /\ mem \in Tables
  BY <1>1, EnqueueMoves DEF StateInv, TablesTyped
<1> DEFINE n == EnqueueJob(mem, i, t)
<1>3. /\ n.insts = mem.insts /\ n.acts = mem.acts
      /\ DOMAIN n.jobs = DOMAIN mem.jobs \cup {Len(mem.jobs) + 1}
      /\ Len(mem.jobs) + 1 \notin DOMAIN mem.jobs
      /\ \A k \in DOMAIN mem.jobs : n.jobs[k] = mem.jobs[k]
      /\ n.jobs[Len(mem.jobs) + 1] = [inst |-> i, task |-> t, status |-> "pending"]
  BY <1>2, EnqueueTables
<1>4. mem' = n
  BY <1>2
<1> HIDE DEF n
<1>5. /\ DOMAIN mem'.jobs = DOMAIN mem.jobs \cup {l} /\ l \notin DOMAIN mem.jobs
      /\ \A k \in DOMAIN mem.jobs : mem'.jobs[k] = mem.jobs[k]
      /\ mem'.jobs[l].inst = i /\ mem'.jobs[l].task = t
  BY <1>1, <1>3, <1>4
<1>6. \A j, u : HasJob(mem', j, u) <=> HasJob(mem, j, u) \/ (j = i /\ u = t)
  BY <1>5 DEF HasJob
<1> QED
  BY <1>1, <1>2, <1>3, <1>4, <1>5, <1>6 DEF Enqueue

-----------------------------------------------------------------------------
(* The status of an instance *)

\* What a step of c may do to the status of instance i.
KeepsStatus(i, c) ==
    /\ mem.insts[i].status = "pending" =>
         \/ mem'.insts[i].status = "pending"
         \/ c = Worker /\ \A d \in Actors : ~Enqueues(op[d], i, "start")
    /\ mem.insts[i].status # "pending" => mem'.insts[i].status # "pending"
    /\ mem'.insts[i].lock = mem.insts[i].lock => mem'.insts[i].status = mem.insts[i].status
    /\ c # Worker => mem'.insts[i].status = mem.insts[i].status

\* No activity is forgotten.
KeepsTasks ==
    \A i \in Instances, t \in Tasks : mem.acts[i][t] # "none" => mem'.acts[i][t] # "none"

\* The others still know what they knew.
LEMMA StatusOthers ==
    ASSUME StateInv, EnqueueInv, StatusInv, NEW c \in Actors, Moves(c), LocksUp(mem, mem'), KeepsTasks,
           \A i \in Instances : mem.insts[i] # NoRow => KeepsStatus(i, c),
           NEW d \in Actors \ {c}
    PROVE  Status(op[d])'
<1>0. PICK o : o = op[d] /\ o = op'[d]
  BY OthersStay
<1>1. o \in Ops /\ Plays(d, o) /\ Linked(mem, o) /\ Status(o)
  BY <1>0 DEF StateInv, OpsTyped, StatusInv
<1>2. /\ mem \in Tables /\ mem' \in Tables /\ Grows(mem, mem') /\ JobsLinked(mem)
  BY DEF StateInv, TablesTyped, Moves
<1>3. \A i \in Instances : mem.insts[i] # NoRow =>
        /\ mem.insts[i] \in InstanceRow /\ mem'.insts[i] \in InstanceRow
        /\ mem.insts[i].lock \in Nat /\ mem'.insts[i].lock \in Nat
        /\ mem.insts[i].lock <= mem'.insts[i].lock
  BY <1>2 DEF Tables, Grows, LocksUp, InstanceRow
<1>4. ASSUME o.kind = "claim" \/ (o.kind = "job" /\ o.at = "enter"), mem'.jobs[o.job].task = "start"
      PROVE  mem'.insts[mem'.jobs[o.job].inst].status = "pending"
  <2>1. d = Worker /\ c # Worker /\ o.job \in DOMAIN mem.jobs
    BY <1>1, <1>4 DEF Plays, Linked
  <2>2. mem'.jobs[o.job].inst = mem.jobs[o.job].inst /\ mem.jobs[o.job].task = "start"
    BY <1>2, <1>4, <2>1 DEF Grows
  <2>3. mem.jobs[o.job].inst \in Instances /\ mem.insts[mem.jobs[o.job].inst] # NoRow
    BY <1>2, <2>1, JobFields DEF JobsLinked
  <2>4. mem.insts[mem.jobs[o.job].inst].status = "pending"
    BY <1>1, <1>4, <2>2 DEF Status
  <2> QED
    BY <2>1, <2>2, <2>3, <2>4 DEF KeepsStatus
<1>5. ASSUME o.kind = "start", o.at = "enqueue"
      PROVE  mem'.insts[o.inst].status = "pending"
  <2>1. o.inst \in Instances /\ mem.insts[o.inst] # NoRow /\ mem.insts[o.inst].status = "pending"
    BY <1>1, <1>5, OpKinds DEF StartOps, Linked, Status
  <2>2. Enqueues(op[d], o.inst, "start")
    BY <1>0, <1>5 DEF Enqueues, JobTask
  <2> QED
    BY <2>1, <2>2 DEF KeepsStatus
<1>6. ASSUME o.kind = "complete"
      PROVE  /\ mem'.insts[o.inst].status # "pending" /\ mem'.acts[o.inst][o.task] # "none"
             /\ o.at \in {"enter", "route"} /\ o.row.lock = mem'.insts[o.inst].lock
                  => mem'.insts[o.inst].status = "running"
  <2>1. /\ o.inst \in Instances /\ o.task \in Tasks /\ mem.insts[o.inst] # NoRow
        /\ o.row.lock \in Nat
    BY <1>0, <1>6, TransactionFields
  <2>2. /\ mem.insts[o.inst].status # "pending" /\ mem.acts[o.inst][o.task] # "none"
        /\ o.at \in {"enter", "route"} /\ o.row.lock = mem.insts[o.inst].lock
             => mem.insts[o.inst].status = "running"
    BY <1>1, <1>6 DEF Status, Current
  <2>3. o.at \in {"enter", "route"} => o.row.lock <= mem.insts[o.inst].lock
    BY <1>0, <1>6 DEF EnqueueInv, LockHeld
  <2>4. o.at \in {"enter", "route"} /\ o.row.lock = mem'.insts[o.inst].lock
          => mem'.insts[o.inst].lock = mem.insts[o.inst].lock
    BY <1>3, <2>1, <2>3
  <2> QED
    BY <2>1, <2>2, <2>4 DEF KeepsStatus, KeepsTasks
<1>7. ASSUME o.kind = "job", o.at \in {"open", "save", "read", "end"}
      PROVE  mem'.insts[o.inst].status = "running" /\ o.row.lock <= mem'.insts[o.inst].lock
  <2>1. d = Worker /\ c # Worker /\ o.inst \in Instances /\ o.row.lock \in Nat /\ mem.insts[o.inst] # NoRow
    <3>1. o \in RunningOps /\ d = Worker
      BY <1>1, <1>7, OpKinds DEF Plays
    <3> QED
      BY <1>1, <1>7, <3>1 DEF RunningOps, InstanceRow, Linked
  <2>2. mem.insts[o.inst].status = "running" /\ o.row.lock <= mem.insts[o.inst].lock
    BY <1>1, <1>7 DEF Status
  <2>3. mem'.insts[o.inst].status = "running"
    BY <2>1, <2>2 DEF KeepsStatus
  <2> QED
    BY <1>3, <2>1, <2>2, <2>3
<1>8. /\ o.kind = "start" => o.row.status = "pending" /\ o.row.active = <<>>
      /\ o.kind = "complete" => o.row.status = "running"
      /\ o.kind = "job" /\ o.at \in {"open", "save", "read", "end"} => o.row.status = "running"
  BY <1>1 DEF Status
<1> QED
  BY <1>0, <1>4, <1>5, <1>6, <1>7, <1>8 DEF Status, Current

\* No pending start job appears while instances stay pending.
LEMMA StartFirstKept ==
    ASSUME StateInv, StatusInv, NEW c \in Actors, Moves(c), SameNames(mem, mem'),
           \A i \in Instances : mem.insts[i] # NoRow /\ mem.insts[i].status = "pending"
                                  => mem'.insts[i].status = "pending"
    PROVE  StartFirst(mem')
<1> SUFFICES ASSUME NEW n \in DOMAIN mem'.jobs, mem'.jobs[n].task = "start",
                    mem'.jobs[n].status = "pending"
             PROVE  mem'.insts[mem'.jobs[n].inst].status = "pending"
  BY DEF StartFirst
<1>1. /\ n \in DOMAIN mem.jobs /\ mem'.jobs[n].inst = mem.jobs[n].inst
      /\ mem.jobs[n].task = "start"
  BY DEF SameNames
<1>2. mem.jobs[n].status = "pending"
  BY <1>1 DEF Moves, Grows
<1>3. mem.jobs[n].inst \in Instances /\ mem.insts[mem.jobs[n].inst] # NoRow
  BY <1>1, JobFields DEF StateInv, TablesTyped, JobsLinked
<1> QED
  BY <1>1, <1>2, <1>3 DEF StatusInv, StartFirst

\* All of them, and c itself.
LEMMA StatusKept ==
    ASSUME StateInv, EnqueueInv, StatusInv, NEW c \in Actors, Moves(c), LocksUp(mem, mem'), KeepsTasks,
           \A i \in Instances : mem.insts[i] # NoRow => KeepsStatus(i, c),
           StartFirst(mem'), Status(op[c])'
    PROVE  StatusInv'
<1>1. \A d \in Actors : Status(op[d])'
  BY StatusOthers
<1>2. (yaml # NoRow => StartFirst(yaml))'
  BY DEF Moves, StatusInv
<1> QED
  BY <1>1, <1>2 DEF StatusInv

\* A step that writes no instance row and no new job.
LEMMA QuietStatus ==
    ASSUME StateInv, EnqueueInv, StatusInv, NEW c \in Actors, Moves(c),
           mem'.insts = mem.insts, SameNames(mem, mem'), KeepsTasks, Status(op[c])'
    PROVE  StatusInv'
<1>1. LocksUp(mem, mem')
  BY SameLocks DEF StateInv, TablesTyped
<1>2. \A i \in Instances : KeepsStatus(i, c)
  BY DEF KeepsStatus
<1>3. StartFirst(mem')
  BY StartFirstKept
<1> QED
  BY <1>1, <1>2, <1>3, StatusKept

\* A versioned write to an instance that is running.
LEMMA WriteStatus ==
    ASSUME StateInv, EnqueueInv, StatusInv, NEW c \in Actors, Moves(c), NEW i, NEW row, Writes(i, row),
           mem.insts[i].status = "running", row.status # "pending",
           c # Worker => row.status = "running", Status(op[c])'
    PROVE  StatusInv'
<1>0. mem \in Tables
  BY DEF StateInv, TablesTyped
<1>1. /\ mem'.insts[i].status = row.status
      /\ mem'.insts[i].lock = mem.insts[i].lock + 1 /\ mem.insts[i].lock \in Nat
      /\ \A j \in Instances \ {i} : SameRowsOf(j)
      /\ LocksUp(mem, mem') /\ SameNames(mem, mem')
  BY <1>0, WritesRows
<1>2. KeepsStatus(i, c)
  BY <1>1 DEF KeepsStatus
<1>3. \A j \in Instances \ {i} : KeepsStatus(j, c) /\ mem'.insts[j] = mem.insts[j]
  BY <1>1 DEF KeepsStatus, SameRowsOf
<1>4. StartFirst(mem')
  <2>1. \A j \in Instances : mem.insts[j] # NoRow /\ mem.insts[j].status = "pending"
          => mem'.insts[j].status = "pending"
    BY <1>3
  <2> QED
    BY <1>1, <2>1, StartFirstKept
<1>5. KeepsTasks
  BY DEF Writes, KeepsTasks
<1> QED
  BY <1>1, <1>2, <1>3, <1>4, <1>5, StatusKept

\* Deployments, the claim of a job and the end of an operation.
LEMMA OtherStatus ==
    ASSUME StateInv, HistoryTyped, EnqueueInv, StatusInv, NEW c \in Actors, Acts(c),
           \/ c \in Clients /\ Deployment(c)
           \/ c = Worker /\ Claim
           \/ Ending(c)
    PROVE  StatusInv'
<1>0. Moves(c) /\ mem \in Tables /\ JobsLinked(mem)
  BY ActsMoves DEF StateInv, TablesTyped
<1>1. CASE c \in Clients /\ Deployment(c)
  <2>1. /\ mem'.insts = mem.insts /\ mem'.acts = mem.acts /\ mem'.jobs = mem.jobs
        /\ op'[c].kind \in {"idle", "deploy", "delete"}
    BY <1>1, RowFrame
  <2>2. Status(op[c])'
    BY <2>1 DEF Status
  <2> QED
    BY <1>0, <2>1, <2>2, QuietStatus DEF SameNames, KeepsTasks
<1>2. CASE c = Worker /\ Claim
  <2>1. op'[c] \in ClaimOps /\ op'[c].job = NextJob(mem)
    BY <1>2, ClaimMoves
  <2>2. PICK n : n = NextJob(mem)
    OBVIOUS
  <2>3. n \in PendingJobs(mem) /\ n \in DOMAIN mem.jobs /\ mem' = SetJob(mem, n, "running")
    BY <1>0, <1>2, <2>2, NextJobFacts DEF Claim, ClaimNextJob
  <2>4. /\ mem'.insts = mem.insts /\ mem'.acts = mem.acts /\ SameNames(mem, mem')
        /\ mem'.jobs[n].inst = mem.jobs[n].inst /\ mem'.jobs[n].task = mem.jobs[n].task
    BY <1>0, <2>3, SetJobTables DEF SameNames
  <2>5. mem.jobs[n].task = "start" => mem.insts[mem.jobs[n].inst].status = "pending"
    BY <2>3 DEF PendingJobs, StatusInv, StartFirst
  <2>6. Status(op[c])'
    BY <2>1, <2>2, <2>4, <2>5 DEF Status, ClaimOps
  <2> QED
    BY <1>0, <2>4, <2>6, QuietStatus DEF KeepsTasks
<1>3. CASE Ending(c)
  <2>1. /\ mem' = mem
        /\ op'[c].kind \in {"idle", "job", "finish"} /\ op'[c].at \in {"idle", "enter"}
        /\ op'[c].kind = "job" => op[c].kind = "claim" /\ op'[c].job = op[c].job
    BY <1>3, EndingFrame
  <2>2. Status(op[c])
    BY DEF StatusInv
  <2>3. Status(op[c])'
    BY <2>1, <2>2 DEF Status
  <2> QED
    BY <1>0, <2>1, <2>3, QuietStatus DEF SameNames, KeepsTasks
<1> QED
  BY <1>1, <1>2, <1>3

\* StartProcess and CompleteTask read before their transactions.
LEMMA BeginStatus ==
    ASSUME StateInv, HistoryTyped, EnqueueInv, StatusInv, NEW c \in Actors, Acts(c),
           \/ \E i \in Instances, k \in Keys : BeginStart(c, i, k)
           \/ \E i \in Instances, t \in Tasks : BeginComplete(c, i, t)
    PROVE  StatusInv'
<1>0. Moves(c)
  BY ActsMoves
<1>1. mem' = mem /\ KeepsTasks /\ SameNames(mem, mem')
  BY DEF BeginStart, BeginComplete, KeepsTasks, SameNames
<1>2. CASE \E i \in Instances, k \in Keys : BeginStart(c, i, k)
  <2>1. PICK i \in Instances, k \in Keys : BeginStart(c, i, k)
    BY <1>2
  <2> DEFINE r == [status |-> "pending", active |-> <<>>, lock |-> 0, def |-> GetProcess(mem, k)]
             o == [kind |-> "start", at |-> "enter", inst |-> i, row |-> r]
  <2>2. op'[c] = o
    <3>1. op' = [op EXCEPT ![c] = o]
      BY <2>1 DEF BeginStart, Begin
    <3> HIDE DEF o
    <3> QED
      BY <3>1, ReplacedOp
  <2>3. o.kind = "start" /\ o.at = "enter" /\ o.row.status = "pending" /\ o.row.active = <<>>
    OBVIOUS
  <2> HIDE DEF o
  <2>4. Status(op[c])'
    BY <2>2, <2>3 DEF Status
  <2> QED
    BY <1>0, <1>1, <2>4, QuietStatus
<1>3. CASE \E i \in Instances, t \in Tasks : BeginComplete(c, i, t)
  <2>1. PICK i \in Instances, t \in Tasks : BeginComplete(c, i, t)
    BY <1>3
  <2> DEFINE o == [kind |-> "complete", at |-> "enter", inst |-> i, task |-> t, row |-> mem.insts[i]]
  <2>2. op'[c] = o
    BY <2>1, ReplacedOp DEF BeginComplete, Begin
  <2>3. /\ o.kind = "complete" /\ o.at = "enter" /\ o.inst = i /\ o.task = t
        /\ o.row = mem.insts[i]
    OBVIOUS
  <2>4. mem.insts[i].status = "running" /\ mem.acts[i][t] = "active"
    BY <2>1 DEF BeginComplete
  <2> HIDE DEF o
  <2>5. Status(op[c])'
    BY <1>1, <2>2, <2>3, <2>4 DEF Status
  <2> QED
    BY <1>0, <1>1, <2>5, QuietStatus
<1> QED
  BY <1>2, <1>3

\* The steps of the transactions of requests.
LEMMA RequestStatus ==
    ASSUME StateInv, HistoryTyped, EnqueueInv, StatusInv, NEW c \in Clients, c \in Actors,
           Acts(c), CreateInstance(c) \/ CloseTask(c) \/ WriteInstance(c) \/ Enqueue(c)
    PROVE  StatusInv'
<1>0. /\ Moves(c) /\ mem \in Tables /\ JobsLinked(mem) /\ Status(op[c])
      /\ mem.insts \in [Instances -> InstanceRow \cup {NoRow}]
      /\ mem.acts \in [Instances -> [Tasks -> {"none", "active", "completed"}]]
  BY ActsMoves DEF StateInv, TablesTyped, StatusInv, Tables
<1>1. CASE CreateInstance(c)
  <2>1. PICK i, row : i = op[c].inst /\ row = op[c].row
    OBVIOUS
  <2>2. /\ op[c].kind = "start" /\ op[c].at = "enter" /\ i \in Instances /\ row \in InstanceRow
        /\ mem'.insts = [mem.insts EXCEPT ![i] = row] /\ mem'.acts = mem.acts /\ mem'.jobs = mem.jobs
        /\ op'[c].kind = "start" /\ op'[c].at = "enqueue"
        /\ op'[c].inst = i /\ op'[c].row = row
    BY <1>1, <2>1, CreateRows
  <2>3. mem.insts[i] = NoRow
    BY <2>1, <2>2 DEF EnqueueInv, IdsUsed
  <2>4. mem'.insts[i] = row /\ \A j \in Instances \ {i} : mem'.insts[j] = mem.insts[j]
    BY <1>0, <2>2
  <2>5. row.status = "pending" /\ row.active = <<>>
    BY <1>0, <2>1, <2>2 DEF Status
  <2>6. Status(op[c])'
    BY <2>2, <2>4, <2>5 DEF Status
  <2>7. \A j \in Instances : mem.insts[j] # NoRow => mem'.insts[j] = mem.insts[j]
    BY <2>3, <2>4
  <2>8. /\ \A j \in Instances : mem.insts[j] # NoRow => KeepsStatus(j, c)
        /\ SameNames(mem, mem') /\ KeepsTasks
    BY <2>2, <2>7 DEF KeepsStatus, SameNames, KeepsTasks
  <2>9. LocksUp(mem, mem')
    <3>1. \A j \in Instances : mem.insts[j] # NoRow => mem.insts[j].lock \in Nat
      BY <1>0 DEF InstanceRow
    <3> QED
      BY <2>7, <3>1 DEF LocksUp
  <2>10. StartFirst(mem')
    BY <1>0, <2>7, <2>8, StartFirstKept
  <2> QED
    BY <1>0, <2>6, <2>8, <2>9, <2>10, StatusKept
<1>2. CASE CloseTask(c)
  <2>1. PICK i, t : i = op[c].inst /\ t = op[c].task
    OBVIOUS
  <2>2. /\ i \in Instances /\ t \in Tasks
        /\ mem.insts[i] \in InstanceRow /\ mem'.insts[i] \in InstanceRow
        /\ mem'.jobs = mem.jobs
        /\ mem'.insts[i].lock = mem.insts[i].lock /\ mem'.insts[i].status = mem.insts[i].status
        /\ \A j \in Instances \ {i} : mem'.insts[j] = mem.insts[j]
    BY <1>2, <2>1, CloseTables
  <2>3. /\ mem'.acts = [mem.acts EXCEPT ![i] = [mem.acts[i] EXCEPT ![t] = "completed"]]
        /\ op[c].kind = "complete" /\ op[c].at = "enter" /\ op'[c].kind = "complete"
    BY <1>2, <2>1, CloseRows
  <2>4. /\ op'[c].at = "route" /\ op'[c].inst = i /\ op'[c].task = t
        /\ op'[c].row.lock = op[c].row.lock /\ op'[c].row.status = op[c].row.status
    BY <1>2, <2>1, CloseOp
  <2>5. KeepsTasks /\ mem'.acts[i][t] = "completed"
    BY <1>0, <2>2, <2>3 DEF KeepsTasks
  <2>6. Status(op[c])'
    <3>1. /\ mem.insts[i].status # "pending" /\ op[c].row.status = "running"
          /\ op[c].row.lock = mem.insts[i].lock => mem.insts[i].status = "running"
      BY <1>0, <2>1, <2>3 DEF Status, Current
    <3> QED
      BY <2>2, <2>3, <2>4, <2>5, <3>1 DEF Status, Current
  <2>7. /\ \A j \in Instances : mem'.insts[j].status = mem.insts[j].status
        /\ \A j \in Instances : KeepsStatus(j, c)
    BY <2>2, FileStoreAssumption DEF KeepsStatus, FileStoreAssumption
  <2>8. LocksUp(mem, mem')
    <3>1. \A j \in Instances : mem.insts[j] # NoRow => mem.insts[j].lock \in Nat
      BY <1>0 DEF InstanceRow
    <3> QED
      BY <2>2, <3>1 DEF LocksUp
  <2>9. StartFirst(mem')
    BY <1>0, <2>2, <2>7, StartFirstKept DEF SameNames
  <2> QED
    BY <1>0, <2>5, <2>6, <2>7, <2>8, <2>9, StatusKept
<1>3. CASE WriteInstance(c)
  <2>1. /\ op[c].kind = "complete" /\ op[c].at = "route"
        /\ op[c] \in CompleteOps /\ op'[c] = [op[c] EXCEPT !.at = "enqueue"]
    BY <1>3, OpKinds, GotoOp DEF WriteInstance, At, StateInv, OpsTyped
  <2>2. PICK i, row : i = op[c].inst /\ row = op[c].row
    OBVIOUS
  <2>3. /\ op'[c].kind = "complete" /\ op'[c].at = "enqueue" /\ op'[c].inst = i
        /\ op'[c].task = op[c].task /\ op'[c].row = row
    BY <2>1, <2>2 DEF CompleteOps
  <2>4. Writes(i, row)
    BY <1>3, <2>2, WriteSteps
  <2>5. /\ row.status = "running" /\ mem.insts[i].status = "running"
        /\ mem.acts[i][op[c].task] # "none"
    BY <1>0, <2>1, <2>2, <2>4 DEF Status, Current, Writes
  <2>6. mem'.insts[i].status = row.status /\ mem'.acts = mem.acts
    BY <1>0, <2>4, WritesRows DEF Writes
  <2>7. Status(op[c])'
    BY <2>3, <2>5, <2>6 DEF Status
  <2> QED
    BY <1>0, <2>4, <2>5, <2>7, WriteStatus
<1>4. CASE Enqueue(c)
  <2>1. /\ mem'.insts = mem.insts /\ mem'.acts = mem.acts
        /\ \A n \in DOMAIN mem'.jobs :
             \/ n \in DOMAIN mem.jobs /\ mem'.jobs[n] = mem.jobs[n]
             \/ mem'.jobs[n].inst = op[c].inst /\ mem'.jobs[n].task = JobTask(op[c])
        /\ op[c].inst \in Instances /\ op[c].at = "enqueue"
    BY <1>4, EnqueueRows
  <2>2. /\ op'[c].kind = op[c].kind /\ op'[c].inst = op[c].inst
        /\ op[c].kind = "complete" => op'[c].task = op[c].task
        /\ op'[c].at \in {"persist", "reply"}
    BY <1>4, EnqueueMoves
  <2>3. op[c].kind \in {"start", "complete"}
    BY <2>1, TransactionFields
  <2>4. op'[c].row = op[c].row
    <3>1. op'[c] = [op[c] EXCEPT !.at = IF store = "file" THEN "persist" ELSE "reply"]
      BY <1>4, GotoOp DEF Enqueue
    <3>2. op[c] \in StartOps \/ op[c] \in CompleteOps
      BY <2>3, OpKinds DEF StateInv, OpsTyped
    <3> QED
      BY <3>1, <3>2 DEF StartOps, CompleteOps
  <2>5. Status(op[c])'
    BY <1>0, <2>1, <2>2, <2>3, <2>4 DEF Status
  <2>6. JobTask(op[c]) = "start" => mem.insts[op[c].inst].status = "pending"
    <3>1. op[c].kind = "complete" => JobTask(op[c]) # "start"
      BY TransactionFields, MemoryStoreAssumption DEF MemoryStoreAssumption, JobTask
    <3> QED
      BY <1>0, <2>1, <2>3, <3>1 DEF Status
  <2>7. StartFirst(mem')
    <3>1. StartFirst(mem)
      BY DEF StatusInv
    <3> QED
      BY <2>1, <2>6, <3>1 DEF StartFirst
  <2>8. KeepsTasks /\ LocksUp(mem, mem') /\ \A j \in Instances : KeepsStatus(j, c)
    BY <1>0, <2>1, SameLocks DEF KeepsTasks, KeepsStatus
  <2> QED
    BY <1>0, <2>5, <2>7, <2>8, StatusKept
<1> QED
  BY <1>1, <1>2, <1>3, <1>4

\* The start job runs when its instance is pending, and no other start job of it
\* is waiting or about to be enqueued.
LEMMA RunStartStatus ==
    ASSUME StateInv, HistoryTyped, EnqueueInv, RunInv, StatusInv, RunStartJob(Worker)
    PROVE  StatusInv'
<1>0. Worker \in Actors
  BY DEF Actors
<1>1. /\ Moves(Worker) /\ mem \in Tables /\ JobsLinked(mem) /\ Status(op[Worker])
      /\ StartFirst(mem)
  BY <1>0, RunStartJobMoves DEF StateInv, TablesTyped, StatusInv
<1>2. op[Worker].kind = "job" /\ op[Worker].at = "enter" /\ JobOf(Worker).task = "start"
  BY DEF RunStartJob, At
<1>3. PICK n, i, row : /\ n = op[Worker].job /\ i = mem.jobs[n].inst
                       /\ row = [mem.insts[i] EXCEPT !.status = "running"]
  OBVIOUS
<1>4. n \in DOMAIN mem.jobs /\ i \in Instances /\ mem.insts[i] \in InstanceRow /\ mem.jobs[n].task = "start"
  BY <1>0, <1>2, <1>3, JobInHand DEF JobOf
<1>5. Writes(i, row)
  BY <1>0, <1>3, WriteSteps DEF JobOf
<1>6. row.status = "running"
  BY <1>3, <1>4 DEF InstanceRow
<1>7. mem.insts[i].status = "pending"
  BY <1>1, <1>2, <1>3, <1>4 DEF Status
<1>8. mem.jobs[n].status # "pending"
  BY <1>2, <1>3 DEF RunInv, InHand, Claimed
<1>9. \A d \in Actors : ~Enqueues(op[d], i, "start")
  <2>1. HasJob(mem, i, "start")
    BY <1>3, <1>4 DEF HasJob
  <2> QED
    BY <2>1 DEF EnqueueInv, EnqueuedOnce, Enqueues
<1>10. /\ mem'.insts[i] = Bumped(row) /\ mem'.insts[i].status = "running"
       /\ mem'.insts[i].lock = mem.insts[i].lock + 1 /\ mem.insts[i].lock \in Nat
       /\ \A j \in Instances \ {i} : SameRowsOf(j)
       /\ LocksUp(mem, mem') /\ SameNames(mem, mem')
  BY <1>1, <1>5, <1>6, WritesRows
<1>11. \A j \in Instances : KeepsStatus(j, Worker)
  BY <1>7, <1>9, <1>10 DEF KeepsStatus, SameRowsOf
<1>12. StartFirst(mem')
  <2> SUFFICES ASSUME NEW k \in DOMAIN mem'.jobs, mem'.jobs[k].task = "start",
                      mem'.jobs[k].status = "pending"
               PROVE  mem'.insts[mem'.jobs[k].inst].status = "pending"
    BY DEF StartFirst
  <2>1. mem'.jobs = mem.jobs
    BY <1>5 DEF Writes
  <2>2. mem.jobs[k].inst # i
    BY <1>3, <1>4, <1>8, <2>1 DEF EnqueueInv, JobsOrdered
  <2>3. mem.jobs[k].inst \in Instances
    BY <1>1, <2>1, JobFields
  <2> QED
    BY <1>1, <1>10, <2>1, <2>2, <2>3 DEF StartFirst, SameRowsOf
<1>13. Status(op[Worker])'
  <2> DEFINE o == [kind |-> "job", at |-> "open", job |-> op[Worker].job, inst |-> i, row |-> Bumped(row)]
  <2>1. op'[Worker] = o
    BY <1>0, <1>3, ReplacedOp DEF RunStartJob, JobOf
  <2>2. o.kind = "job" /\ o.at = "open" /\ o.inst = i /\ o.row = Bumped(row)
    OBVIOUS
  <2> HIDE DEF o
  <2>3. Bumped(row).status = "running" /\ Bumped(row).lock \in Nat
    BY <1>5, <1>6, BumpedRow DEF Writes, InstanceRow
  <2> QED
    BY <1>10, <2>1, <2>2, <2>3 DEF Status
<1>14. KeepsTasks
  BY <1>5 DEF Writes, KeepsTasks
<1> QED
  BY <1>0, <1>1, <1>10, <1>11, <1>12, <1>13, <1>14, StatusKept

\* The other steps of a job.
LEMMA RunJobStatus ==
    ASSUME StateInv, HistoryTyped, EnqueueInv, StatusInv, RunJob(Worker), ~RunStartJob(Worker)
    PROVE  StatusInv'
<1>0. Worker \in Actors
  BY DEF Actors
<1>1. Moves(Worker) /\ mem \in Tables /\ Status(op[Worker])
  BY <1>0, ActsMoves DEF Acts, StateInv, TablesTyped, StatusInv
<1>2. CASE RunContinueJob(Worker)
  <2>1. PICK i, row : i = JobOf(Worker).inst /\ row = mem.insts[i]
    OBVIOUS
  <2>2. mem' = mem /\ row.status = "running" /\ op[Worker].kind = "job"
    BY <1>2, <2>1 DEF RunContinueJob, At
  <2> DEFINE o == [kind |-> "job", at |-> "read", job |-> op[Worker].job, inst |-> i, row |-> row]
  <2>3. op'[Worker] = o
    <3>1. op' = [op EXCEPT ![Worker] = o]
      BY <1>2, <2>1 DEF RunContinueJob
    <3> HIDE DEF o
    <3> QED
      BY <1>0, <3>1, ReplacedOp
  <2>4. o.kind = "job" /\ o.at = "read" /\ o.inst = i /\ o.row = row
    OBVIOUS
  <2> HIDE DEF o
  <2>5. row.lock \in Nat
    BY <1>0, <2>1, <2>2, JobInHand DEF InstanceRow
  <2>7. Status(op[Worker])'
    BY <2>1, <2>2, <2>3, <2>4, <2>5 DEF Status
  <2> QED
    BY <1>0, <1>1, <2>2, <2>7, QuietStatus DEF SameNames, KeepsTasks
<1>3. CASE NotRunning(Worker)
  <2>1. mem' = mem
    BY <1>3 DEF NotRunning
  <2>2. op'[Worker].kind = "finish"
    BY <1>0, <1>3, ReplacedOp DEF NotRunning, Begin, StateInv, OpsTyped
  <2>3. Status(op[Worker])'
    BY <2>2 DEF Status
  <2> QED
    BY <1>0, <1>1, <2>1, <2>3, QuietStatus DEF SameNames, KeepsTasks
<1>4. CASE \E t \in Tasks : OpenTask(Worker, t)
  <2>1. PICK t \in Tasks : OpenTask(Worker, t)
    BY <1>4
  <2>2. PICK i : i = op[Worker].inst
    OBVIOUS
  <2>3. /\ mem'.acts = [mem.acts EXCEPT ![i] = [mem.acts[i] EXCEPT ![t] = "active"]]
        /\ mem'.insts = mem.insts /\ mem'.jobs = mem.jobs
        /\ i \in Instances /\ op[Worker].kind = "job" /\ op[Worker].at = "open"
    BY <1>0, <2>1, <2>2, OpenRows
  <2>4. /\ op'[Worker].kind = "job" /\ op'[Worker].at = "save" /\ op'[Worker].inst = i
        /\ op'[Worker].row.lock = op[Worker].row.lock
        /\ op'[Worker].row.status = op[Worker].row.status
    BY <1>0, <2>1, <2>2, OpenTaskOp DEF RunningOps
  <2>5. Status(op[Worker])'
    BY <1>1, <2>2, <2>3, <2>4 DEF Status
  <2>6. KeepsTasks
    <3>1. mem.acts \in [Instances -> [Tasks -> {"none", "active", "completed"}]]
      BY <1>1 DEF Tables
    <3> QED
      BY <2>3, <3>1 DEF KeepsTasks
  <2> QED
    BY <1>0, <1>1, <2>3, <2>5, <2>6, QuietStatus DEF SameNames
<1>5. CASE SaveInstance(Worker) \/ completeElement(Worker)
  <2>1. PICK i, row : i = op[Worker].inst /\ row = op[Worker].row
    OBVIOUS
  <2>2. Writes(i, row)
    BY <1>0, <1>5, <2>1, WriteSteps
  <2>3. row.status = "running" /\ mem.insts[i].status = "running"
    BY <1>1, <1>5, <2>1 DEF Status, SaveInstance, completeElement, At
  <2>4. /\ op'[Worker].kind = "job" /\ op'[Worker].at \in {"open", "end"} /\ op'[Worker].inst = i
        /\ op'[Worker].row = Bumped(row)
    BY <1>0, <1>5, <2>1, SaveInstanceOp, CompleteElementOp DEF RunningOps
  <2>5. mem'.insts[i] = Bumped(row)
    BY <1>1, <2>2, WritesRows
  <2>6. Bumped(row).status = "running" /\ Bumped(row).lock \in Nat
    BY <2>2, <2>3, BumpedRow DEF Writes, InstanceRow
  <2>7. Status(op[Worker])'
    BY <2>4, <2>5, <2>6 DEF Status
  <2> QED
    BY <1>0, <1>1, <2>2, <2>3, <2>7, WriteStatus
<1>6. CASE AllOpened(Worker) \/ tryCompleteProcess(Worker) \/ FinishJob(Worker)
  <2>1. op'[Worker].kind \in {"job", "finish"} /\ op'[Worker].at \in {"persist", "reply"}
    BY <1>0, <1>6, CommittedOp DEF AllOpened, tryCompleteProcess, FinishJob, At
  <2>2. Status(op[Worker])'
    BY <2>1 DEF Status
  <2>3. CASE AllOpened(Worker) \/ (tryCompleteProcess(Worker) /\ ~Finishes(Worker))
    <3>1. mem' = mem
      BY <2>3 DEF AllOpened, tryCompleteProcess
    <3> QED
      BY <1>0, <1>1, <2>2, <3>1, QuietStatus DEF SameNames, KeepsTasks
  <2>4. CASE tryCompleteProcess(Worker) /\ Finishes(Worker)
    <3>1. PICK i, row : i = op[Worker].inst /\ row = [op[Worker].row EXCEPT !.status = "completed"]
      OBVIOUS
    <3>2. Writes(i, row)
      BY <1>0, <2>4, <3>1, WriteSteps
    <3>3. mem.insts[i].status = "running"
      BY <1>1, <2>4, <3>1 DEF Status, tryCompleteProcess, At
    <3>4. op[Worker].row \in InstanceRow
      BY <1>0, <2>4, RunningJob DEF tryCompleteProcess, At
    <3>5. row.status = "completed"
      BY <3>1, <3>4 DEF InstanceRow
    <3> QED
      BY <1>0, <1>1, <2>2, <3>2, <3>3, <3>5, WriteStatus
  <2>5. CASE FinishJob(Worker)
    <3>1. PICK s \in {"done", "failed"} : mem' = SetJob(mem, op[Worker].job, s)
      BY <1>0, <2>5, FinishJobMoves
    <3>2. op[Worker].job \in DOMAIN mem.jobs
      BY <1>0, <2>5, FinishJobMoves
    <3>3. mem'.insts = mem.insts /\ mem'.acts = mem.acts /\ SameNames(mem, mem')
      BY <1>1, <3>1, <3>2, SetJobTables DEF SameNames
    <3> QED
      BY <1>0, <1>1, <2>2, <3>3, QuietStatus DEF KeepsTasks
  <2> QED
    BY <1>6, <2>3, <2>4, <2>5
<1>7. CASE JobErrs(Worker)
  <2>1. op'[Worker].kind = "finish"
    BY <1>0, <1>7, AfterErrorOp DEF JobErrs, FinishOps
  <2>2. Status(op[Worker])'
    BY <2>1 DEF Status
  <2>3. PICK i, row : i = op[Worker].inst /\ row = [op[Worker].row EXCEPT !.status = "failed"]
    OBVIOUS
  <2>4. mem' = mem \/ Writes(i, row)
    BY <1>0, <1>7, <2>3, WriteSteps
  <2>5. mem.insts[i].status = "running"
    BY <1>1, <1>7, <2>3 DEF Status, JobErrs
  <2>6. op[Worker].row \in InstanceRow
    BY <1>0, <1>7, RunningJob DEF JobErrs
  <2>7. row.status = "failed"
    BY <2>3, <2>6 DEF InstanceRow
  <2>8. CASE mem' = mem
    BY <1>0, <1>1, <2>2, <2>8, QuietStatus DEF SameNames, KeepsTasks
  <2>9. CASE Writes(i, row)
    BY <1>0, <1>1, <2>2, <2>5, <2>7, <2>9, WriteStatus
  <2> QED
    BY <2>4, <2>8, <2>9
<1> QED
  BY <1>2, <1>3, <1>4, <1>5, <1>6, <1>7 DEF RunJob

\* What operations know about their instances stays true, step by step.
LEMMA StatusStep ==
    ASSUME StateInv, HistoryTyped, EnqueueInv, RunInv, StatusInv, [Next]_vars
    PROVE  StatusInv'
<1>1. ASSUME NEW c \in Actors, Acts(c) PROVE StatusInv'
  <2>1. CASE \/ c \in Clients /\ Deployment(c)
             \/ c = Worker /\ Claim
             \/ Ending(c)
    BY <1>1, <2>1, OtherStatus
  <2>2. CASE c \in Clients /\ Request(c)
    <3>1. CASE \/ \E i \in Instances, k \in Keys : BeginStart(c, i, k)
               \/ \E i \in Instances, t \in Tasks : BeginComplete(c, i, t)
      BY <1>1, <3>1, BeginStatus
    <3>2. CASE CreateInstance(c) \/ CloseTask(c) \/ WriteInstance(c) \/ Enqueue(c)
      BY <1>1, <2>2, <3>2, RequestStatus
    <3> QED
      BY <2>2, <3>1, <3>2 DEF Request
  <2>3. CASE c = Worker /\ RunJob(c)
    BY <2>3, RunStartStatus, RunJobStatus
  <2> QED
    BY <1>1, <2>1, <2>2, <2>3 DEF Acts
<1>2. CASE Crash
  <2>1. /\ mem' = NewStore /\ op' = [c \in Actors |-> Idle] /\ yaml' = yaml
    BY <1>2 DEF Crash
  <2>2. \A c \in Actors : Status(op[c])'
    BY <2>1, IdleOp DEF Status
  <2>3. StartFirst(mem')
    BY <2>1 DEF NewStore, StartFirst
  <2> QED
    BY <2>1, <2>2, <2>3 DEF StatusInv
<1>3. CASE Open
  <2>1. /\ server = "down" /\ UNCHANGED <<yaml, op>>
        /\ (~ParseFails /\ mem' = Loaded) \/ mem' = mem
    BY <1>3 DEF Open
  <2>2. \A c \in Actors : op'[c] = Idle
    BY <2>1 DEF StateInv, OpsTyped
  <2>3. \A c \in Actors : Status(op[c])'
    BY <2>2, IdleOp DEF Status
  <2>4. StartFirst(mem')
    <3>1. CASE mem' = mem
      BY <3>1 DEF StatusInv
    <3>2. CASE ~ParseFails /\ mem' = Loaded /\ yaml = NoRow
      <4>1. mem' = NewStore
        BY <3>2, LoadedTables
      <4> QED
        BY <4>1 DEF NewStore, StartFirst
    <3>3. CASE ~ParseFails /\ mem' = Loaded /\ yaml # NoRow
      <4>1. mem'.insts = yaml.insts /\ mem'.jobs = yaml.jobs
        BY <3>3, LoadedTables
      <4> QED
        BY <3>3, <4>1 DEF StatusInv, StartFirst
    <3> QED
      BY <2>1, <3>1, <3>2, <3>3
  <2> QED
    BY <2>1, <2>3, <2>4 DEF StatusInv
<1>4. CASE UNCHANGED vars
  BY <1>4 DEF vars, StatusInv, Status, StartFirst, Current
<1> QED
  BY <1>1, <1>2, <1>3, <1>4, NextSplit

-----------------------------------------------------------------------------
(* What a transaction owes *)

\* A versioned write leaves everybody else on the instance with a stale row: who
\* has closed or opened a task by then is doomed, and otherwise nobody had.
LEMMA WriteDooms ==
    ASSUME StateInv, EnqueueInv, StatusInv, NEW c \in Actors, Moves(c), NEW i, NEW row,
           Writes(i, row), ~Doomed(i)',
           c \in Closing(i) \/ (c = Worker /\ (Saving(i) \/ Opening(i))) => Current(op[c])
    PROVE  /\ Closing(i) \subseteq {c} /\ Closing(i)' \subseteq {c}
           /\ \A d \in Actors \ {c} : HasRead(op'[d], i) => ~Current(op[d])'
           /\ c # Worker =>
                /\ ~Saving(i) /\ ~Saving(i)' /\ (Opening(i)' <=> Opening(i))
                /\ Opening(i) => ~Current(op[Worker])' /\ \A t \in Tasks : mem.acts[i][t] # "none"
           /\ ~Doomed(i)
<1>1. /\ \A d \in Actors \ {c} : op'[d] = op[d]
      /\ Worker \in Actors /\ mem \in Tables
  BY OthersStay
<1>2. /\ mem'.insts[i].lock = mem.insts[i].lock + 1 /\ mem.insts[i].lock \in Nat
      /\ mem'.acts = mem.acts
  BY <1>1, WritesRows DEF Writes
<1>3. ASSUME NEW d \in Actors \ {c}, HasRead(op[d], i) \/ d \in Closing(i)
      PROVE  ~Current(op[d])'
  <2>1. op[d].row.lock \in Nat /\ op[d].row.lock <= mem.insts[i].lock /\ op[d].inst = i
    <3>1. CASE op[d].kind = "complete"
      BY <1>3, <3>1, TransactionFields DEF EnqueueInv, LockHeld, HasRead, Closing
    <3>2. CASE op[d].kind = "job" /\ op[d].at = "read"
      <4>1. Status(op[d]) /\ op[d].inst = i
        BY <1>3, <3>2 DEF StatusInv, HasRead, Closing
      <4> QED
        BY <3>2, <4>1, RunningJob DEF Status, InstanceRow
    <3> QED
      BY <1>3, <3>1, <3>2 DEF HasRead, Closing
  <2> QED
    BY <1>1, <1>2, <2>1 DEF Current
<1>4. ASSUME c # Worker, Saving(i) \/ Opening(i)
      PROVE  ~Current(op[Worker])'
  <2>1. op[Worker].kind = "job" /\ op[Worker].at \in {"open", "save"} /\ op[Worker].inst = i
    BY <1>4 DEF Saving, Opening
  <2>2. op[Worker].row.lock \in Nat
    BY <1>1, <2>1, RunningJob DEF InstanceRow
  <2>3. Status(op[Worker])
    BY <1>1 DEF StatusInv
  <2>4. op[Worker].row.lock <= mem.insts[i].lock
    BY <2>1, <2>3 DEF Status
  <2>5. op'[Worker] = op[Worker]
    BY <1>1, <1>4
  <2> QED
    BY <1>2, <2>1, <2>2, <2>4, <2>5 DEF Current
<1>5. \A d \in Actors \ {c} : d \in Closing(i)' <=> d \in Closing(i)
  BY <1>1 DEF Closing
<1>6. Closing(i) \subseteq {c} /\ Closing(i)' \subseteq {c}
  <2>1. \A d \in Actors \ {c} : d \notin Closing(i)
    BY <1>3, <1>5 DEF Doomed, Closing
  <2> QED
    BY <1>5, <2>1 DEF Closing
<1>7. \A d \in Actors \ {c} : HasRead(op'[d], i) => ~Current(op[d])'
  BY <1>1, <1>3
<1>8. c # Worker => (Saving(i)' <=> Saving(i)) /\ (Opening(i)' <=> Opening(i))
  BY <1>1 DEF Saving, Opening
<1>9. c # Worker =>
        /\ ~Saving(i) /\ ~Saving(i)' /\ (Opening(i)' <=> Opening(i))
        /\ Opening(i) => ~Current(op[Worker])' /\ \A t \in Tasks : mem.acts[i][t] # "none"
  BY <1>2, <1>4, <1>8 DEF Doomed
<1>10. ~Doomed(i)
  BY <1>6, <1>9 DEF Doomed
<1> QED
  BY <1>6, <1>7, <1>9, <1>10

\* What a versioned write must bring with it, unless it dooms somebody.
LEMMA WriteOwed ==
    ASSUME StateInv, EnqueueInv, StatusInv, NEW c \in Actors, Moves(c), NEW i, NEW row,
           Writes(i, row), ~Doomed(i)',
           c \in Closing(i) \/ (c = Worker /\ (Saving(i) \/ Opening(i))) => Current(op[c]),
           row.status \in {"running", "completed"},
           row.status = "completed" => ListActiveActivities(mem, i) = {},
           Exact(row.active, ListActiveActivities(mem, i)),
           ~HasRead(op'[c], i), c \notin Closing(i)',
           Promised(i, "start")',
           \A t \in Tasks : mem.acts[i][t] = "completed" => Promised(i, t)',
           \A t \in Tasks : mem.acts[i][t] = "none" => Opening(i)',
           c = Worker => ~Saving(i)' /\ (Opening(i)' => op'[Worker].row.active = row.active)
    PROVE  Owed(i)'
<1>1. /\ Closing(i)' = {}
      /\ \A d \in Actors : HasRead(op'[d], i) => ~Current(op[d])'
      /\ ~Saving(i)'
      /\ c # Worker => (Opening(i)' => ~Current(op[Worker])')
  BY WriteDooms
<1>2. /\ mem'.insts[i] # NoRow /\ mem'.acts = mem.acts
      /\ mem'.insts[i].status = row.status /\ mem'.insts[i].active = row.active
  BY OthersStay, WritesRows DEF Writes
<1>3. ListActiveActivities(mem', i) = ListActiveActivities(mem, i)
  BY <1>2 DEF ListActiveActivities
<1>4. OwedRows(i)'
  BY <1>2, <1>3 DEF OwedRows, Promised
<1>5. OwedTasks(i)'
  BY <1>1, <1>2, <1>3 DEF OwedTasks, Promised
<1>6. OwedLists(i)'
  BY <1>1, <1>2, <1>3 DEF OwedLists
<1> QED
  BY <1>4, <1>5, <1>6 DEF Owed

\* WriteInstance: the job of the closed task is about to be enqueued.
LEMMA WriteInstanceOwed ==
    ASSUME StateInv, EnqueueInv, StatusInv, NEW c \in Actors, Moves(c), WriteInstance(c),
           NEW i, i = op[c].inst, Doomed(i) \/ Owed(i), ~Doomed(i)'
    PROVE  Owed(i)'
<1>1. PICK row : i = op[c].inst /\ row = op[c].row
  OBVIOUS
<1>2. /\ op[c].kind = "complete" /\ op[c].at = "route" /\ op[c] \in CompleteOps
      /\ op'[c] = [op[c] EXCEPT !.at = "enqueue"]
  BY OpKinds, GotoOp DEF WriteInstance, At, StateInv, OpsTyped
<1>3. /\ op'[c].kind = "complete" /\ op'[c].at = "enqueue" /\ op'[c].inst = i
      /\ op'[c].task = op[c].task
  BY <1>1, <1>2 DEF CompleteOps
<1>4. Writes(i, row) /\ c \in Closing(i) /\ Current(op[c])
  BY <1>1, <1>2, WriteSteps DEF Writes, Closing, Current
<1>5. /\ c = Worker => ~Saving(i) /\ ~Opening(i) /\ ~Saving(i)' /\ ~Opening(i)'
      /\ ~HasRead(op'[c], i) /\ c \notin Closing(i)'
  BY <1>2, <1>3 DEF Saving, Opening, HasRead, Closing
<1>6. /\ Closing(i) = {c} /\ ~Saving(i) /\ ~Doomed(i)
      /\ Opening(i) => \A t \in Tasks : mem.acts[i][t] # "none"
  BY <1>1, <1>4, <1>5, WriteDooms
<1>7. Owed(i)
  BY <1>1, <1>6
<1>8. Exact(row.active, ListActiveActivities(mem, i))
  BY <1>1, <1>6, <1>7 DEF Owed, OwedLists
<1>9. row.status = "running" /\ mem.insts[i].status = "running" /\ mem.insts[i] # NoRow
  <2>1. Status(op[c])
    BY DEF StatusInv
  <2> QED
    BY <1>1, <1>2, <1>4, <2>1 DEF Status, Writes
<1>10. \A t : ~Enqueues(op[c], i, t)
  BY <1>2 DEF Enqueues
<1>11. Promised(i, "start")'
  <2>1. Promised(i, "start")
    BY <1>7, <1>9 DEF Owed, OwedRows, Promised
  <2> QED
    BY <1>10, <2>1, OthersPromise
<1>12. ASSUME NEW t \in Tasks, mem.acts[i][t] = "completed" PROVE Promised(i, t)'
  <2>1. Promised(i, t) \/ op[c].task = t
    BY <1>6, <1>7, <1>9, <1>12 DEF Owed, OwedTasks, Promised
  <2>2. CASE Promised(i, t)
    BY <1>10, <2>2, OthersPromise
  <2>3. CASE op[c].task = t
    <3>1. Enqueues(op'[c], i, t)
      BY <1>3, <2>3 DEF Enqueues, JobTask
    <3> QED
      BY <3>1 DEF Promised
  <2> QED
    BY <2>1, <2>2, <2>3
<1>13. \A t \in Tasks : mem.acts[i][t] # "none"
  BY <1>6, <1>7, <1>9 DEF Owed, OwedTasks
<1> QED
  BY <1>1, <1>3, <1>4, <1>5, <1>8, <1>9, <1>11, <1>12, <1>13, WriteOwed

\* SaveInstance: the waiting list names the task that was opened.
LEMMA SaveInstanceOwed ==
    ASSUME StateInv, EnqueueInv, StatusInv, Worker \in Actors, SaveInstance(Worker),
           NEW i, i = op[Worker].inst, Doomed(i) \/ Owed(i), ~Doomed(i)'
    PROVE  Owed(i)'
<1>1. PICK row : i = op[Worker].inst /\ row = op[Worker].row
  OBVIOUS
<1>2. /\ Moves(Worker) /\ op[Worker].kind = "job" /\ op[Worker].at = "save"
      /\ op'[Worker].kind = "job" /\ op'[Worker].at = "open" /\ op'[Worker].inst = i
      /\ op'[Worker].row = Bumped(row)
  BY <1>1, SaveInstanceOp DEF SaveInstance, At, RunningOps
<1>3. /\ Writes(i, row) /\ Saving(i) /\ ~Saving(i)' /\ Opening(i)' /\ Current(op[Worker])
      /\ Worker \notin Closing(i) /\ Worker \notin Closing(i)' /\ ~HasRead(op'[Worker], i)
  BY <1>1, <1>2, WriteSteps DEF Writes, Closing, Saving, Opening, Current, HasRead
<1>4. Closing(i) = {} /\ ~Doomed(i)
  <2>1. Closing(i) \subseteq {Worker} /\ ~Doomed(i)
    BY <1>1, <1>2, <1>3, WriteDooms
  <2> QED
    BY <1>3, <2>1
<1>5. Owed(i)
  BY <1>1, <1>4
<1>6. Exact(row.active, ListActiveActivities(mem, i))
  BY <1>1, <1>3, <1>4, <1>5 DEF Owed, OwedLists
<1>7. row.status = "running" /\ mem.insts[i].status = "running" /\ mem.insts[i] # NoRow
  <2>1. Status(op[Worker])
    BY DEF StatusInv
  <2> QED
    BY <1>1, <1>2, <1>3, <2>1 DEF Status, Writes
<1>8. \A t : Promised(i, t) => Promised(i, t)'
  <2>1. \A t : ~Enqueues(op[Worker], i, t)
    BY <1>2 DEF Enqueues
  <2> QED
    BY <1>2, <2>1, OthersPromise
<1>9. Promised(i, "start")'
  BY <1>5, <1>7, <1>8 DEF Owed, OwedRows, Promised
<1>10. \A t \in Tasks : mem.acts[i][t] = "completed" => Promised(i, t)'
  <2>1. \A t \in Tasks : mem.acts[i][t] = "completed" => Promised(i, t)
    BY <1>4, <1>5, <1>7 DEF Owed, OwedTasks, Promised
  <2> QED
    BY <1>8, <2>1
<1>11. op'[Worker].row.active = row.active
  BY <1>2, <1>3, BumpedRow DEF Writes
<1> QED
  BY <1>1, <1>2, <1>3, <1>6, <1>7, <1>9, <1>10, <1>11, WriteOwed

\* RunStartJob: nobody has opened or closed a task of a pending instance.
LEMMA RunStartOwed ==
    ASSUME StateInv, EnqueueInv, StatusInv, Worker \in Actors, RunStartJob(Worker),
           NEW i, i = JobOf(Worker).inst, Doomed(i) \/ Owed(i), ~Doomed(i)'
    PROVE  Owed(i)'
<1>1. PICK row : i = JobOf(Worker).inst /\ row = [mem.insts[i] EXCEPT !.status = "running"]
  OBVIOUS
<1>2. op[Worker].kind = "job" /\ op[Worker].at = "enter" /\ JobOf(Worker).task = "start" /\ Moves(Worker)
  BY RunStartJobMoves DEF RunStartJob, At
<1>3. /\ op[Worker].job \in DOMAIN mem.jobs /\ mem.insts[i] \in InstanceRow /\ i \in Instances
  BY <1>1, <1>2, JobInHand
<1>4. Writes(i, row)
  BY <1>1, WriteSteps
<1> DEFINE o == [kind |-> "job", at |-> "open", job |-> op[Worker].job, inst |-> i, row |-> Bumped(row)]
<1>5. op'[Worker] = o
  BY <1>1, ReplacedOp DEF RunStartJob
<1>6. o.kind = "job" /\ o.at = "open" /\ o.inst = i /\ o.row = Bumped(row)
  OBVIOUS
<1> HIDE DEF o
<1>7. /\ ~Saving(i) /\ ~Opening(i) /\ Worker \notin Closing(i) /\ Opening(i)' /\ ~Saving(i)'
      /\ Worker \notin Closing(i)' /\ ~HasRead(op'[Worker], i)
  BY <1>2, <1>5, <1>6 DEF Saving, Opening, Closing, HasRead
<1>8. Owed(i)
  BY <1>1, <1>2, <1>4, <1>7, WriteDooms
<1>9. mem.insts[i].status = "pending" /\ mem.insts[i] # NoRow
  <2>1. Status(op[Worker])
    BY DEF StatusInv
  <2> QED
    BY <1>1, <1>2, <1>4, <2>1 DEF Status, JobOf, Writes
<1>10. mem.insts[i].active = <<>> /\ \A t \in Tasks : mem.acts[i][t] = "none"
  BY <1>8, <1>9 DEF Owed, OwedRows
<1>11. row.active = <<>> /\ row.status = "running"
  BY <1>1, <1>3, <1>10 DEF InstanceRow
<1>12. ListActiveActivities(mem, i) = {}
  BY <1>10 DEF ListActiveActivities
<1>13. Exact(row.active, ListActiveActivities(mem, i))
  BY <1>11, <1>12 DEF Exact, Members
<1>14. HasJob(mem, i, "start")
  BY <1>1, <1>2, <1>3 DEF HasJob, JobOf
<1>15. Promised(i, "start")'
  BY <1>2, <1>14, HasJobGrows DEF Promised, Moves
<1>16. op'[Worker].row.active = row.active
  BY <1>4, <1>5, <1>6, BumpedRow DEF Writes
<1> QED
  BY <1>1, <1>2, <1>4, <1>5, <1>6, <1>7, <1>10, <1>11, <1>13, <1>15, <1>16, WriteOwed

\* The last write of a job on an instance none of whose tasks is being opened:
\* completeElement, with the row it has read, and tryCompleteProcess.
LEMMA LastWriteOwed ==
    ASSUME StateInv, EnqueueInv, StatusInv, Worker \in Actors, Moves(Worker),
           op[Worker].kind = "job", op[Worker].at \in {"read", "end"},
           op'[Worker].kind = "job", op'[Worker].at \notin {"open", "save", "read"},
           NEW i \in Instances, NEW row, Writes(i, row), mem.insts[i].status = "running",
           row.status \in {"running", "completed"},
           row.status = "completed" => ListActiveActivities(mem, i) = {},
           \/ HasRead(op[Worker], i) /\ row = op[Worker].row
           \/ row.active = <<>> /\ ListActiveActivities(mem, i) = {},
           Doomed(i) \/ Owed(i), ~Doomed(i)'
    PROVE  Owed(i)'
<1>1. /\ ~Saving(i) /\ ~Opening(i) /\ Worker \notin Closing(i) /\ ~Opening(i)' /\ ~Saving(i)'
      /\ Worker \notin Closing(i)' /\ ~HasRead(op'[Worker], i)
  BY DEF Saving, Opening, Closing, HasRead
<1>2. Closing(i) = {} /\ ~Doomed(i)
  <2>1. Closing(i) \subseteq {Worker} /\ ~Doomed(i)
    BY <1>1, WriteDooms
  <2> QED
    BY <1>1, <2>1
<1>3. Owed(i) /\ mem.insts[i] # NoRow
  BY <1>2 DEF Writes
<1>4. Exact(row.active, ListActiveActivities(mem, i))
  <2>1. Exact(mem.insts[i].active, ListActiveActivities(mem, i))
    BY <1>1, <1>2, <1>3 DEF Owed, OwedTasks
  <2>2. Exact(<<>>, {})
    BY DEF Exact, Members
  <2>3. CASE HasRead(op[Worker], i) /\ row = op[Worker].row
    <3>1. Current(op[Worker])
      BY <2>3 DEF Current, HasRead, Writes
    <3> QED
      BY <1>2, <1>3, <2>1, <2>3, <3>1 DEF Owed, OwedLists
  <2> QED
    BY <2>2, <2>3
<1>5. \A t : Promised(i, t) => Promised(i, t)'
  <2>1. \A t : ~Enqueues(op[Worker], i, t)
    BY DEF Enqueues
  <2> QED
    BY <2>1, OthersPromise
<1>6. Promised(i, "start")'
  BY <1>3, <1>5 DEF Owed, OwedRows, Promised
<1>7. \A t \in Tasks : mem.acts[i][t] = "completed" => Promised(i, t)'
  <2>1. \A t \in Tasks : mem.acts[i][t] = "completed" => Promised(i, t)
    BY <1>2, <1>3 DEF Owed, OwedTasks, Promised
  <2> QED
    BY <1>5, <2>1
<1>8. \A t \in Tasks : mem.acts[i][t] # "none"
  BY <1>1, <1>3 DEF Owed, OwedTasks
<1> QED
  BY <1>1, <1>4, <1>6, <1>7, <1>8, WriteOwed

\* CreateInstance: a pending instance whose start job is about to be enqueued.
LEMMA CreateInstanceOwed ==
    ASSUME StateInv, EnqueueInv, StatusInv, NEW c \in Actors, Moves(c), CreateInstance(c),
           NEW i, i = op[c].inst, Doomed(i) \/ Owed(i)
    PROVE  Owed(i)'
<1>1. /\ op[c].kind = "start" /\ op[c].at = "enter" /\ i \in Instances /\ op[c].row \in InstanceRow
      /\ mem'.insts = [mem.insts EXCEPT ![i] = op[c].row] /\ mem'.acts = mem.acts
      /\ op'[c].kind = "start" /\ op'[c].at = "enqueue" /\ op'[c].inst = i
  BY CreateRows
<1>2. mem.insts[i] = NoRow
  BY <1>1 DEF EnqueueInv, IdsUsed
<1>3. /\ \A d \in Actors \ {c} : op'[d] = op[d]
      /\ Worker \in Actors /\ mem \in Tables
  BY OthersStay
<1>4. \A d \in Actors : /\ ~(op[d].kind = "complete" /\ op[d].inst = i)
                        /\ ~(op[d].kind = "job" /\ op[d].at # "enter" /\ op[d].inst = i)
  BY <1>2 DEF StateInv, OpsTyped, Linked
<1>5. \A d \in Actors : /\ ~(op'[d].kind = "complete" /\ op'[d].inst = i)
                        /\ ~(op'[d].kind = "job" /\ op'[d].at # "enter" /\ op'[d].inst = i)
  BY <1>1, <1>3, <1>4
<1>6. ~Doomed(i)
  BY <1>3, <1>4 DEF Doomed, Closing, Saving, Opening
<1>7. \A t \in Tasks : mem.acts[i][t] = "none"
  BY <1>2, <1>6 DEF Owed, OwedRows
<1>8. /\ mem'.insts[i] = op[c].row /\ mem'.insts[i] # NoRow
      /\ mem'.insts[i].status = "pending" /\ mem'.insts[i].active = <<>>
  <2>1. Status(op[c])
    BY DEF StatusInv
  <2>2. mem'.insts[i] = op[c].row
    BY <1>1, <1>3 DEF Tables
  <2> QED
    BY <1>1, <2>1, <2>2, MemoryStoreAssumption DEF Status, MemoryStoreAssumption
<1>9. Enqueues(op'[c], i, "start")
  BY <1>1 DEF Enqueues, JobTask
<1>10. OwedRows(i)'
  BY <1>1, <1>7, <1>8, <1>9 DEF OwedRows
<1>11. OwedTasks(i)'
  BY <1>8 DEF OwedTasks
<1>12. OwedLists(i)'
  <2>1. Closing(i)' = {} /\ ~Opening(i)' /\ ~Saving(i)'
    BY <1>3, <1>5 DEF Closing, Saving, Opening
  <2> QED
    BY <1>5, <2>1 DEF OwedLists, HasRead
<1> QED
  BY <1>10, <1>11, <1>12 DEF Owed

\* CloseTask: with a stale row the transaction is doomed; otherwise it holds the
\* waiting list without the task, and the task's job is its to enqueue.
LEMMA CloseTaskOwed ==
    ASSUME StateInv, EnqueueInv, StatusInv, NEW c \in Actors, Moves(c), CloseTask(c),
           NEW i, i = op[c].inst, Doomed(i) \/ Owed(i), ~Doomed(i)'
    PROVE  Owed(i)'
<1>1. PICK t : t = op[c].task
  OBVIOUS
<1>2. /\ i \in Instances /\ t \in Tasks /\ mem.insts[i] \in InstanceRow /\ mem'.insts[i] \in InstanceRow
      /\ mem'.jobs = mem.jobs /\ mem'.insts[i].lock = mem.insts[i].lock
      /\ mem'.insts[i].status = mem.insts[i].status /\ mem \in Tables
      /\ mem'.insts[i] # NoRow /\ mem.insts[i] # NoRow
  BY <1>1, CloseTables, MemoryStoreAssumption DEF MemoryStoreAssumption, StateInv, TablesTyped
<1>3. /\ mem'.acts = [mem.acts EXCEPT ![i] = [mem.acts[i] EXCEPT ![t] = "completed"]]
      /\ op[c].kind = "complete" /\ op[c].at = "enter" /\ op'[c].kind = "complete"
  BY <1>1, CloseRows
<1>4. /\ op'[c].at = "route" /\ op'[c].inst = i /\ op'[c].task = t
      /\ op'[c].row.active = Removed(op[c].row.active, t)
      /\ op'[c].row.lock = op[c].row.lock
  BY <1>1, CloseOp
<1>5. /\ \A d \in Actors \ {c} : op'[d] = op[d]
      /\ Worker \in Actors
  BY OthersStay
<1>6. Closing(i)' = Closing(i) \cup {c} /\ c \notin Closing(i)
  <2>1. c \in Closing(i)' /\ c \notin Closing(i)
    BY <1>3, <1>4 DEF Closing
  <2>2. \A d \in Actors \ {c} : d \in Closing(i)' <=> d \in Closing(i)
    BY <1>5 DEF Closing
  <2>3. Closing(i) \subseteq Actors /\ Closing(i)' \subseteq Actors
    BY DEF Closing
  <2> QED
    BY <2>1, <2>2, <2>3
<1>7. Current(op[c]) /\ \A d \in Closing(i) : Current(op[d])
  <2>1. \A d \in Closing(i)' : Current(op[d])'
    BY DEF Doomed
  <2>2. Current(op[c])' <=> Current(op[c])
    BY <1>2, <1>4 DEF Current
  <2>3. \A d \in Closing(i) : Current(op[d])' <=> Current(op[d])
    BY <1>2, <1>5, <1>6 DEF Current, Closing
  <2> QED
    BY <1>6, <2>1, <2>2, <2>3
<1>8. /\ Saving(i)' <=> Saving(i)
      /\ Opening(i)' <=> Opening(i)
      /\ Saving(i) \/ Opening(i) => (Current(op[Worker])' <=> Current(op[Worker]))
  <2>1. c = Worker => ~Saving(i) /\ ~Opening(i) /\ ~Saving(i)' /\ ~Opening(i)'
    BY <1>3 DEF Saving, Opening
  <2>2. c # Worker => op'[Worker] = op[Worker]
    BY <1>5
  <2> QED
    BY <1>2, <2>1, <2>2 DEF Saving, Opening, Current
<1>9. /\ mem.acts[i][t] # "none" /\ mem.insts[i].status = "running"
  <2>1. Status(op[c])
    BY DEF StatusInv
  <2> QED
    BY <1>1, <1>3, <1>7, <2>1 DEF Status
<1>10. /\ mem'.acts[i][t] = "completed"
       /\ \A u \in Tasks \ {t} : mem'.acts[i][u] = mem.acts[i][u]
  BY <1>2, <1>3 DEF Tables
<1>11. Owed(i)
  <2>1. \A u \in Tasks : mem.acts[i][u] = "none" => mem'.acts[i][u] = "none"
    BY <1>9, <1>10
  <2>2. ~Doomed(i)
    BY <1>7, <1>8, <2>1 DEF Doomed
  <2> QED
    BY <2>2
<1>12. \A u : Promised(i, u) => Promised(i, u)'
  <2>1. \A u : ~Enqueues(op[c], i, u)
    BY <1>3 DEF Enqueues
  <2> QED
    BY <2>1, OthersPromise
<1>13. OwedRows(i)'
  <2>1. Promised(i, "start")'
    BY <1>2, <1>11, <1>12 DEF Owed, OwedRows, Promised
  <2> QED
    BY <1>2, <1>9, <2>1 DEF OwedRows, Promised
<1>14. OwedTasks(i)'
  <2>1. \A u \in Tasks : mem'.acts[i][u] = "none" => Opening(i)' \/ Saving(i)'
    BY <1>2, <1>8, <1>9, <1>10, <1>11 DEF Owed, OwedTasks
  <2>2. ASSUME NEW u \in Tasks, mem'.acts[i][u] = "completed"
        PROVE  Promised(i, u)' \/ \E d \in Closing(i)' : op'[d].task = u
    <3>1. CASE u = t
      BY <1>4, <1>6, <3>1
    <3>2. CASE u # t
      <4>1. Promised(i, u) \/ \E d \in Closing(i) : op[d].task = u
        BY <1>2, <1>9, <1>10, <1>11, <2>2, <3>2 DEF Owed, OwedTasks, Promised
      <4>2. \A d \in Closing(i) : d \in Closing(i)' /\ op'[d] = op[d]
        BY <1>5, <1>6 DEF Closing
      <4> QED
        BY <1>12, <4>1, <4>2
    <3> QED
      BY <3>1, <3>2
  <2> QED
    BY <1>6, <2>1, <2>2 DEF OwedTasks, Promised
<1>15. OwedLists(i)'
  <2>1. ASSUME NEW d \in Actors, Closing(i)' = {d}, ~Saving(i)'
        PROVE  Exact(op'[d].row.active, ListActiveActivities(mem', i))
    <3>1. d = c /\ Closing(i) = {} /\ ~Saving(i)
      BY <1>6, <1>8, <2>1
    <3>2. op[c].row.active = mem.insts[i].active
      <4>1. HasRead(op[c], i)
        BY <1>3 DEF HasRead
      <4> QED
        BY <1>7, <1>11, <3>1, <4>1 DEF Owed, OwedLists
    <3>3. Exact(mem.insts[i].active, ListActiveActivities(mem, i))
      BY <1>2, <1>9, <1>11, <3>1 DEF Owed, OwedTasks
    <3>4. ListActiveActivities(mem', i) = ListActiveActivities(mem, i) \ {t}
      BY <1>10 DEF ListActiveActivities
    <3>5. mem.insts[i].active \in Seq(Tasks)
      BY <1>2 DEF InstanceRow
    <3>6. Exact(Removed(mem.insts[i].active, t), ListActiveActivities(mem, i) \ {t})
      BY <1>2, <3>3, <3>5, ExactLists
    <3> QED
      BY <1>4, <3>1, <3>2, <3>4, <3>6
  <2>2. Closing(i)' # {}
    BY <1>6
  <2> QED
    BY <2>1, <2>2 DEF OwedLists
<1> QED
  BY <1>13, <1>14, <1>15 DEF Owed

\* OpenTask: with a stale row the job is doomed; otherwise it holds the waiting
\* list with the task.
LEMMA OpenTaskOwed ==
    ASSUME StateInv, EnqueueInv, StatusInv, Worker \in Actors, NEW t \in Tasks, OpenTask(Worker, t),
           NEW i, i = op[Worker].inst, Doomed(i) \/ Owed(i), ~Doomed(i)'
    PROVE  Owed(i)'
<1>1. /\ mem'.acts = [mem.acts EXCEPT ![i] = [mem.acts[i] EXCEPT ![t] = "active"]]
      /\ mem'.insts = mem.insts /\ mem'.jobs = mem.jobs /\ mem \in Tables
      /\ i \in Instances /\ op[Worker].kind = "job" /\ op[Worker].at = "open"
      /\ mem.insts[i] # NoRow /\ mem.insts[i] \in InstanceRow
  BY OpenRows, RunningJob DEF StateInv, TablesTyped
<1>2. /\ Moves(Worker) /\ op'[Worker].kind = "job" /\ op'[Worker].at = "save" /\ op'[Worker].inst = i
      /\ op'[Worker].row.active = Append(op[Worker].row.active, t)
      /\ op'[Worker].row.lock = op[Worker].row.lock
      /\ mem.acts[i][t] = "none"
  BY OpenTaskOp DEF RunningOps
<1>3. \A d \in Actors \ {Worker} : op'[d] = op[d]
  BY <1>2, OthersStay
<1>4. Opening(i) /\ Saving(i)' /\ ~Opening(i)' /\ ~Saving(i)
  BY <1>1, <1>2 DEF Opening, Saving
<1>5. Closing(i)' = Closing(i) /\ Worker \notin Closing(i)
  BY <1>1, <1>2, <1>3 DEF Closing
<1>6. Current(op[Worker]) /\ \A d \in Closing(i) : Current(op[d])
  <2>1. Current(op[Worker])' /\ \A d \in Closing(i) : Current(op[d])'
    BY <1>4, <1>5 DEF Doomed
  <2>2. \A d \in Closing(i) : op'[d] = op[d]
    BY <1>3, <1>5 DEF Closing
  <2> QED
    BY <1>1, <1>2, <2>1, <2>2 DEF Current
<1>7. Owed(i)
  BY <1>4, <1>6 DEF Doomed
<1>8. mem.insts[i].status = "running"
  <2>1. Status(op[Worker])
    BY DEF StatusInv
  <2> QED
    BY <1>1, <2>1 DEF Status
<1>9. /\ mem'.acts[i][t] = "active"
      /\ \A u \in Tasks \ {t} : mem'.acts[i][u] = mem.acts[i][u]
  BY <1>1 DEF Tables
<1>10. \A u : Promised(i, u) => Promised(i, u)'
  <2>1. \A u : ~Enqueues(op[Worker], i, u)
    BY <1>1 DEF Enqueues
  <2> QED
    BY <1>2, <2>1, OthersPromise
<1>11. OwedRows(i)'
  <2>1. Promised(i, "start")'
    BY <1>1, <1>7, <1>10 DEF Owed, OwedRows, Promised
  <2> QED
    BY <1>1, <1>8, <2>1 DEF OwedRows, Promised
<1>12. OwedTasks(i)'
  <2>1. ASSUME NEW u \in Tasks, mem'.acts[i][u] = "completed"
        PROVE  Promised(i, u)' \/ \E d \in Closing(i)' : op'[d].task = u
    <3>1. mem.acts[i][u] = "completed"
      BY <1>9, <2>1
    <3>2. Promised(i, u) \/ \E d \in Closing(i) : op[d].task = u
      BY <1>1, <1>7, <1>8, <3>1 DEF Owed, OwedTasks, Promised
    <3>3. \A d \in Closing(i) : op'[d] = op[d]
      BY <1>3, <1>5 DEF Closing
    <3> QED
      BY <1>5, <1>10, <3>2, <3>3
  <2> QED
    BY <1>4, <2>1 DEF OwedTasks, Promised
<1>13. OwedLists(i)'
  <2>1. ASSUME NEW d \in Actors, HasRead(op'[d], i), Current(op[d])', Closing(i)' = {}
        PROVE  op'[d].row.active = mem'.insts[i].active
    <3>1. op'[d] = op[d]
      BY <1>2, <1>3, <2>1 DEF HasRead
    <3>2. Current(op[d]) /\ HasRead(op[d], i)
      BY <1>1, <2>1, <3>1 DEF Current
    <3> QED
      BY <1>1, <1>5, <1>7, <2>1, <3>1, <3>2 DEF Owed, OwedLists
  <2>2. ASSUME Closing(i)' = {}
        PROVE  Exact(op'[Worker].row.active, ListActiveActivities(mem', i))
    <3>1. op[Worker].row.active = mem.insts[i].active
      BY <1>4, <1>5, <1>6, <1>7, <2>2 DEF Owed, OwedLists
    <3>2. Exact(mem.insts[i].active, ListActiveActivities(mem, i))
      BY <1>1, <1>4, <1>5, <1>7, <1>8, <2>2 DEF Owed, OwedTasks
    <3>3. ListActiveActivities(mem', i) = ListActiveActivities(mem, i) \cup {t}
      BY <1>9 DEF ListActiveActivities
    <3>4. t \notin ListActiveActivities(mem, i)
      BY <1>2 DEF ListActiveActivities
    <3>5. mem.insts[i].active \in Seq(Tasks)
      BY <1>1 DEF InstanceRow
    <3> QED
      BY <1>2, <3>1, <3>2, <3>3, <3>4, <3>5, ExactLists
  <2> QED
    BY <1>4, <2>1, <2>2 DEF OwedLists
<1> QED
  BY <1>11, <1>12, <1>13 DEF Owed

\* AllOpened: nothing is left to open.
LEMMA AllOpenedOwed ==
    ASSUME StateInv, Worker \in Actors, AllOpened(Worker),
           NEW i \in Instances, i = op[Worker].inst, Doomed(i) \/ Owed(i)
    PROVE  Doomed(i)' \/ Owed(i)'
<1>1. /\ op[Worker].kind = "job" /\ op[Worker].at = "open" /\ mem' = mem /\ Moves(Worker)
      /\ \A t \in Tasks : mem.acts[i][t] # "none"
  BY AllOpenedMoves DEF AllOpened, At, Unopened
<1>2. op'[Worker].kind = "job" /\ op'[Worker].at \in {"persist", "reply"}
  BY <1>1, CommittedOp DEF AllOpened
<1>3. \A d \in Actors \ {Worker} : op'[d] = op[d]
  BY <1>1, OthersStay
<1>4. Opening(i) /\ ~Saving(i)' /\ ~Opening(i)' /\ ~Saving(i)
  BY <1>1, <1>2 DEF Opening, Saving
<1>5. /\ Closing(i)' = Closing(i) /\ Worker \notin Closing(i)
      /\ \A d \in Closing(i) : op'[d] = op[d]
  BY <1>1, <1>2, <1>3 DEF Closing
<1>6. CASE Doomed(i)
  <2>1. PICK d \in Closing(i) : ~Current(op[d])
    BY <1>1, <1>4, <1>6 DEF Doomed
  <2>2. ~Current(op[d])'
    BY <1>1, <1>5, <2>1 DEF Current
  <2> QED
    BY <1>5, <2>1, <2>2 DEF Doomed
<1>7. CASE Owed(i)
  <2>1. \A u : Promised(i, u) => Promised(i, u)'
    <3>1. \A u : ~Enqueues(op[Worker], i, u)
      BY <1>1 DEF Enqueues
    <3> QED
      BY <1>1, <3>1, OthersPromise
  <2>2. OwedRows(i)'
    BY <1>1, <1>7, <2>1 DEF Owed, OwedRows, Promised
  <2>3. OwedTasks(i)'
    <3> SUFFICES ASSUME mem.insts[i] # NoRow, mem.insts[i].status # "pending"
                 PROVE  OwedTasks(i)'
      BY <1>1 DEF OwedTasks
    <3>1. \A u \in Tasks : mem.acts[i][u] = "completed" =>
            Promised(i, u) \/ \E d \in Closing(i) : op[d].task = u
      BY <1>7 DEF Owed, OwedTasks, Promised
    <3>2. \A u \in Tasks : mem'.acts[i][u] = "completed" =>
            Promised(i, u)' \/ \E d \in Closing(i)' : op'[d].task = u
      BY <1>1, <1>5, <2>1, <3>1
    <3>3. Closing(i) = {} => Exact(mem.insts[i].active, ListActiveActivities(mem, i))
      BY <1>4, <1>7 DEF Owed, OwedTasks
    <3> QED
      BY <1>1, <1>5, <3>2, <3>3 DEF OwedTasks, Promised
  <2>4. OwedLists(i)'
    <3>1. ASSUME NEW d \in Actors
          PROVE  /\ HasRead(op'[d], i)
                      /\ Current(op[d])' /\ Closing(i)' = {} => op'[d].row.active = mem'.insts[i].active
                 /\ Closing(i)' = {d} /\ ~Saving(i)' =>
                      Exact(op'[d].row.active, ListActiveActivities(mem', i))
      <4>1. CASE d = Worker
        BY <1>2, <1>5, <4>1 DEF HasRead
      <4>2. CASE d # Worker
        <5>1. op'[d] = op[d] /\ (Current(op[d])' <=> Current(op[d]))
          BY <1>1, <1>3, <4>2 DEF Current
        <5> QED
          BY <1>1, <1>4, <1>5, <1>7, <5>1 DEF Owed, OwedLists
      <4> QED
        BY <4>1, <4>2
    <3> QED
      BY <1>4, <3>1 DEF OwedLists
  <2> QED
    BY <2>2, <2>3, <2>4 DEF Owed
<1> QED
  BY <1>6, <1>7

\* Deployments, the requests that only read, and Claim.
LEMMA ReadersOwed ==
    ASSUME StateInv, HistoryTyped, NEW c \in Actors, Moves(c), NEW i \in Instances,
           \/ Deployment(c)
           \/ \E j \in Instances, k \in Keys : BeginStart(c, j, k)
           \/ \E j \in Instances, t \in Tasks : BeginComplete(c, j, t)
           \/ c = Worker /\ Claim,
           Doomed(i) \/ Owed(i)
    PROVE  Doomed(i)' \/ Owed(i)'
<1>1. CASE Deployment(c)
  <2>1. /\ mem'.insts = mem.insts /\ mem'.acts = mem.acts
        /\ op'[c].kind \in {"idle", "deploy", "delete"}
    BY <1>1, RowFrame
  <2>2. op[c].kind \in {"idle", "deploy", "delete"}
    BY <1>1 DEF Deployment, Deploy, ReadVersion, Delete, InsertVersion, writeProcessXML,
                deleteProcessXML, XMLFails, IsIdle, At
  <2>3. op[c].at # "enqueue"
    BY <2>2, TransactionFields
  <2> QED
    BY <2>1, <2>2, <2>3, QuietOwed DEF Aloof, HasRead
<1>2. CASE \E j \in Instances, k \in Keys : BeginStart(c, j, k)
  <2>1. PICK j \in Instances, k \in Keys : BeginStart(c, j, k)
    BY <1>2
  <2>2. op[c].kind = "idle" /\ mem' = mem
    BY <2>1 DEF BeginStart, IsIdle
  <2> DEFINE o == [kind |-> "start", at |-> "enter", inst |-> j,
                   row |-> [status |-> "pending", active |-> <<>>, lock |-> 0, def |-> GetProcess(mem, k)]]
  <2>3. op'[c].kind = "start"
    <3>1. op' = [op EXCEPT ![c] = o] /\ o.kind = "start"
      BY <2>1 DEF BeginStart, Begin
    <3> HIDE DEF o
    <3> QED
      BY <3>1, ReplacedOp
  <2>4. op[c].at # "enqueue"
    BY <2>2, TransactionFields
  <2> QED
    BY <2>2, <2>3, <2>4, QuietOwed DEF Aloof, HasRead
<1>3. CASE \E j \in Instances, t \in Tasks : BeginComplete(c, j, t)
  <2>1. PICK j \in Instances, t \in Tasks : BeginComplete(c, j, t)
    BY <1>3
  <2> DEFINE o == [kind |-> "complete", at |-> "enter", inst |-> j, task |-> t, row |-> mem.insts[j]]
  <2>2. op'[c] = o
    BY <2>1, ReplacedOp DEF BeginComplete, Begin
  <2>3. o.kind = "complete" /\ o.at = "enter" /\ o.inst = j /\ o.row = mem.insts[j]
    OBVIOUS
  <2>4. op[c].kind = "idle" /\ mem' = mem
    BY <2>1 DEF BeginComplete, IsIdle
  <2>5. op[c].at # "enqueue"
    BY <2>4, TransactionFields
  <2> HIDE DEF o
  <2>6. \A u \in Tasks \cup {"start"} : Promised(i, u) => Promised(i, u)'
    <3>1. \A u : ~Enqueues(op[c], i, u)
      BY <2>5 DEF Enqueues
    <3> QED
      BY <3>1, OthersPromise
  <2>7. Aloof(op[c], i) /\ Aloof(op'[c], i)
    BY <2>2, <2>3, <2>4 DEF Aloof
  <2>8. HasRead(op'[c], i) => op'[c].row.active = mem'.insts[i].active
    BY <2>2, <2>3, <2>4 DEF HasRead
  <2> QED
    BY <2>4, <2>6, <2>7, <2>8, FrameOwed
<1>4. CASE c = Worker /\ Claim
  <2>1. op[c].kind = "idle" /\ mem' = ClaimNextJob(mem) /\ PendingJobs(mem) # {} /\ mem \in Tables
    BY <1>4 DEF Claim, IsIdle, StateInv, TablesTyped
  <2>2. mem'.insts = mem.insts /\ mem'.acts = mem.acts
    <3>1. NextJob(mem) \in DOMAIN mem.jobs
      BY <2>1, NextJobFacts
    <3> QED
      BY <2>1, <3>1, SetJobTables DEF ClaimNextJob
  <2>3. op'[c].kind = "claim"
    BY <1>4, ClaimMoves DEF ClaimOps
  <2>4. op[c].at # "enqueue"
    BY <2>1, TransactionFields
  <2> QED
    BY <2>1, <2>2, <2>3, <2>4, QuietOwed DEF Aloof, HasRead
<1> QED
  BY <1>1, <1>2, <1>3, <1>4

\* The transactions of StartProcess and CompleteTask.
LEMMA RequestOwed ==
    ASSUME StateInv, EnqueueInv, StatusInv, NEW c \in Actors, Moves(c), NEW i \in Instances,
           CreateInstance(c) \/ CloseTask(c) \/ WriteInstance(c) \/ Enqueue(c),
           Doomed(i) \/ Owed(i)
    PROVE  Doomed(i)' \/ Owed(i)'
<1>0. mem \in Tables
  BY DEF StateInv, TablesTyped
<1>1. ASSUME ~Enqueue(c), op[c].inst # i, op[c].inst \in Instances
      PROVE  mem'.insts[i] = mem.insts[i] /\ mem'.acts[i] = mem.acts[i] /\ op'[c].inst = op[c].inst
  <2>1. PICK j : j = op[c].inst
    OBVIOUS
  <2>2. CASE CreateInstance(c)
    <3>1. /\ mem'.insts = [mem.insts EXCEPT ![j] = op[c].row] /\ mem'.acts = mem.acts
          /\ op'[c].inst = op[c].inst
      BY <2>1, <2>2, CreateRows
    <3> QED
      BY <1>0, <1>1, <2>1, <3>1 DEF Tables
  <2>3. CASE CloseTask(c)
    <3>1. /\ mem'.acts = [mem.acts EXCEPT ![j] = [mem.acts[j] EXCEPT ![op[c].task] = "completed"]]
          /\ op'[c].inst = op[c].inst
      BY <2>1, <2>3, CloseRows, CloseOp
    <3>2. mem'.insts[i] = mem.insts[i]
      BY <1>1, <2>3, CloseTables
    <3> QED
      BY <1>0, <1>1, <2>1, <3>1, <3>2 DEF Tables
  <2>4. CASE WriteInstance(c)
    <3>1. Writes(op[c].inst, op[c].row)
      BY <2>4, WriteSteps
    <3>2. SameRowsOf(i)
      BY <1>0, <1>1, <3>1, WritesRows
    <3>3. op'[c].inst = op[c].inst
      <4>1. op[c] \in CompleteOps /\ op'[c] = [op[c] EXCEPT !.at = "enqueue"]
        BY <2>4, OpKinds, GotoOp DEF WriteInstance, At, StateInv, OpsTyped
      <4> QED
        BY <4>1 DEF CompleteOps
    <3> QED
      BY <3>2, <3>3 DEF SameRowsOf
  <2> QED
    BY <1>1, <2>2, <2>3, <2>4
<1>2. CASE Enqueue(c)
  <2>1. /\ mem'.insts = mem.insts /\ mem'.acts = mem.acts
        /\ \A j, u : HasJob(mem', j, u) <=>
                       HasJob(mem, j, u) \/ (j = op[c].inst /\ u = JobTask(op[c]))
        /\ op[c].at = "enqueue"
    BY <1>2, EnqueueRows
  <2>2. op'[c].at \in {"persist", "reply"}
    BY <1>2, EnqueueMoves
  <2>3. ASSUME NEW u \in Tasks \cup {"start"}, Promised(i, u) PROVE Promised(i, u)'
    <3>1. CASE Enqueues(op[c], i, u)
      BY <2>1, <3>1 DEF Enqueues, Promised
    <3>2. CASE ~Enqueues(op[c], i, u)
      BY <2>3, <3>2, OthersPromise
    <3> QED
      BY <3>1, <3>2
  <2>4. Aloof(op[c], i) /\ Aloof(op'[c], i) /\ ~HasRead(op'[c], i)
    BY <2>1, <2>2 DEF Aloof, HasRead
  <2> QED
    BY <2>1, <2>2, <2>3, <2>4, FrameOwed
<1>3. CASE ~Enqueue(c) /\ op[c].inst # i
  <2>1. op[c].inst \in Instances
    BY <1>3, TransactionFields DEF CreateInstance, CloseTask, WriteInstance, At
  <2>2. mem'.insts[i] = mem.insts[i] /\ mem'.acts[i] = mem.acts[i] /\ op'[c].inst = op[c].inst
    BY <1>1, <1>3, <2>1
  <2> QED
    BY <1>3, <2>2, QuietOwed DEF Aloof, HasRead
<1>4. CASE ~Enqueue(c) /\ op[c].inst = i
  BY <1>4, CreateInstanceOwed, CloseTaskOwed, WriteInstanceOwed
<1> QED
  BY <1>2, <1>3, <1>4

\* The steps of a job.
LEMMA RunJobOwed ==
    ASSUME StateInv, HistoryTyped, EnqueueInv, StatusInv, Worker \in Actors, RunJob(Worker),
           Moves(Worker), NEW i \in Instances, i \notin log'.torn, Doomed(i) \/ Owed(i)
    PROVE  Doomed(i)' \/ Owed(i)'
<1>0. /\ mem \in Tables /\ op[Worker].kind \in {"job", "finish"} /\ op[Worker].at # "enqueue"
  <2>1. op[Worker].kind \in {"job", "finish"}
    BY DEF RunJob, RunStartJob, OpenTask, SaveInstance, AllOpened, RunContinueJob, NotRunning,
           completeElement, tryCompleteProcess, FinishJob, JobErrs, At
  <2> QED
    BY <2>1, TransactionFields DEF StateInv, TablesTyped
<1>1. op'[Worker].kind \in {"claim", "job", "finish"}
  BY WorkerFrame
<1>2. ASSUME mem'.insts[i] = mem.insts[i], mem'.acts[i] = mem.acts[i],
             Aloof(op[Worker], i), Aloof(op'[Worker], i), ~HasRead(op'[Worker], i)
      PROVE  Doomed(i)' \/ Owed(i)'
  BY <1>0, <1>1, <1>2, QuietOwed
<1>3. CASE RunStartJob(Worker)
  <2>1. PICK j, row :
          /\ j = JobOf(Worker).inst /\ Writes(j, row)
          /\ op' = [op EXCEPT ![Worker] = [kind |-> "job", at |-> "open", job |-> op[Worker].job,
                                           inst |-> j, row |-> Bumped(row)]]
          /\ op[Worker].kind = "job" /\ op[Worker].at = "enter"
    BY <1>3, WriteSteps DEF RunStartJob, At
  <2> DEFINE o == [kind |-> "job", at |-> "open", job |-> op[Worker].job, inst |-> j, row |-> Bumped(row)]
  <2>2. op'[Worker] = o
    BY <2>1, ReplacedOp
  <2>3. o.kind = "job" /\ o.at = "open" /\ o.inst = j
    OBVIOUS
  <2> HIDE DEF o
  <2>4. CASE i # j
    <3>1. SameRowsOf(i)
      BY <1>0, <2>1, <2>4, WritesRows
    <3> QED
      BY <1>2, <2>1, <2>2, <2>3, <2>4, <3>1 DEF SameRowsOf, Aloof, HasRead
  <2>5. CASE i = j
    BY <1>3, <2>1, <2>5, RunStartOwed
  <2> QED
    BY <2>4, <2>5
<1>11. CASE RunContinueJob(Worker)
  <2>1. PICK j : j = JobOf(Worker).inst
    OBVIOUS
  <2> DEFINE o == [kind |-> "job", at |-> "read", job |-> op[Worker].job, inst |-> j,
                   row |-> mem.insts[j]]
  <2>2. op'[Worker] = o
    <3>1. op' = [op EXCEPT ![Worker] = o]
      BY <1>11, <2>1 DEF RunContinueJob
    <3> HIDE DEF o
    <3> QED
      BY <3>1, ReplacedOp
  <2>3. o.kind = "job" /\ o.at = "read" /\ o.inst = j /\ o.row = mem.insts[j]
    OBVIOUS
  <2>4. op[Worker].kind = "job" /\ op[Worker].at = "enter" /\ mem' = mem
    BY <1>11 DEF RunContinueJob, At
  <2> HIDE DEF o
  <2>5. \A u \in Tasks \cup {"start"} : Promised(i, u) => Promised(i, u)'
    <3>1. \A u : ~Enqueues(op[Worker], i, u)
      BY <1>0 DEF Enqueues
    <3> QED
      BY <3>1, OthersPromise
  <2>6. /\ Aloof(op[Worker], i) /\ Aloof(op'[Worker], i)
        /\ HasRead(op'[Worker], i) => op'[Worker].row.active = mem'.insts[i].active
    BY <2>2, <2>3, <2>4 DEF Aloof, HasRead
  <2> QED
    BY <2>4, <2>5, <2>6, FrameOwed
<1>12. CASE completeElement(Worker)
  <2>1. PICK j, row : j = op[Worker].inst /\ row = op[Worker].row
    OBVIOUS
  <2>2. /\ Writes(j, row) /\ op[Worker].kind = "job" /\ op[Worker].at = "read"
        /\ op'[Worker].kind = "job" /\ op'[Worker].at = "end"
    BY <1>12, <2>1, WriteSteps, CompleteElementOp DEF completeElement, At, RunningOps
  <2>3. CASE i # j
    <3>1. SameRowsOf(i)
      BY <1>0, <2>2, <2>3, WritesRows
    <3> QED
      BY <1>2, <2>2, <3>1 DEF SameRowsOf, Aloof, HasRead
  <2>4. CASE i = j
    <3>1. mem.insts[i].status = "running" /\ row.status = "running"
      <4>1. Status(op[Worker])
        BY DEF StatusInv
      <4> QED
        BY <2>1, <2>2, <2>4, <4>1 DEF Status
    <3>2. HasRead(op[Worker], i)
      BY <2>1, <2>2, <2>4 DEF HasRead
    <3> QED
      BY <2>1, <2>2, <2>4, <3>1, <3>2, LastWriteOwed
  <2> QED
    BY <2>3, <2>4
<1>4. CASE \E t \in Tasks : OpenTask(Worker, t)
  <2>1. PICK t \in Tasks : OpenTask(Worker, t)
    BY <1>4
  <2>2. PICK j : j = op[Worker].inst
    OBVIOUS
  <2>3. CASE i # j
    <3>1. /\ mem'.acts = [mem.acts EXCEPT ![j] = [mem.acts[j] EXCEPT ![t] = "active"]]
          /\ mem'.insts = mem.insts /\ j \in Instances
      BY <2>1, <2>2, OpenRows
    <3>0. op'[Worker].inst = j
      BY <2>1, <2>2, OpenTaskOp
    <3>2. mem'.acts[i] = mem.acts[i]
      BY <1>0, <2>3, <3>1 DEF Tables
    <3> QED
      BY <1>2, <2>2, <2>3, <3>0, <3>1, <3>2 DEF Aloof, HasRead
  <2>4. CASE i = j
    BY <2>1, <2>2, <2>4, OpenTaskOwed
  <2> QED
    BY <2>3, <2>4
<1>5. CASE SaveInstance(Worker)
  <2>1. PICK j, row : j = op[Worker].inst /\ row = op[Worker].row
    OBVIOUS
  <2>2. Writes(j, row) /\ op'[Worker].inst = j
    BY <1>5, <2>1, WriteSteps, SaveInstanceOp
  <2>3. CASE i # j
    <3>1. SameRowsOf(i)
      BY <1>0, <2>2, <2>3, WritesRows
    <3> QED
      BY <1>2, <2>1, <2>2, <2>3, <3>1 DEF SameRowsOf, Aloof, HasRead
  <2>4. CASE i = j
    BY <1>5, <2>1, <2>4, SaveInstanceOwed
  <2> QED
    BY <2>3, <2>4
<1>6. CASE AllOpened(Worker)
  <2>1. CASE i # op[Worker].inst
    <3>1. mem' = mem /\ op'[Worker].at \in {"persist", "reply"}
      BY <1>6, CommittedOp DEF AllOpened, At
    <3> QED
      BY <1>2, <2>1, <3>1, <1>0 DEF Aloof, HasRead
  <2>2. CASE i = op[Worker].inst
    BY <1>6, <2>2, AllOpenedOwed
  <2> QED
    BY <2>1, <2>2
<1>7. CASE NotRunning(Worker)
  <2>1. mem' = mem /\ op[Worker].at = "enter"
    BY <1>7 DEF NotRunning, At
  <2> DEFINE o == [kind |-> "finish", at |-> "enter", job |-> op[Worker].job, ok |-> FALSE]
  <2>2. op'[Worker].kind = "finish"
    <3>1. op' = [op EXCEPT ![Worker] = o] /\ o.kind = "finish"
      BY <1>7 DEF NotRunning, Begin
    <3> HIDE DEF o
    <3> QED
      BY <3>1, ReplacedOp
  <2> QED
    BY <1>0, <1>2, <2>1, <2>2 DEF Aloof, HasRead
<1>8. CASE tryCompleteProcess(Worker)
  <2>1. /\ op[Worker].kind = "job" /\ op[Worker].at = "end"
        /\ op'[Worker].kind = "job" /\ op'[Worker].at \in {"persist", "reply"}
    BY <1>8, CommittedOp DEF tryCompleteProcess, At
  <2>2. PICK j, row : j = op[Worker].inst /\ row = [op[Worker].row EXCEPT !.status = "completed"]
    OBVIOUS
  <2>3. CASE ~Finishes(Worker)
    BY <1>2, <1>8, <2>1, <2>3 DEF tryCompleteProcess, Aloof, HasRead
  <2>4. CASE Finishes(Worker) /\ i # j
    <3>1. Writes(j, row)
      BY <1>8, <2>2, <2>4, WriteSteps
    <3>2. SameRowsOf(i)
      BY <1>0, <2>4, <3>1, WritesRows
    <3> QED
      BY <1>2, <2>1, <3>2 DEF SameRowsOf, Aloof, HasRead
  <2>5. CASE Finishes(Worker) /\ i = j
    <3>1. Writes(i, row)
      BY <1>8, <2>2, <2>5, WriteSteps
    <3>2. op[Worker].row \in InstanceRow
      BY <2>1, RunningJob
    <3>3. /\ row.status = "completed" /\ row.active = <<>>
          /\ ListActiveActivities(mem, i) = {}
      BY <2>2, <2>5, <3>2 DEF Finishes, InstanceRow
    <3>4. mem.insts[i].status = "running"
      <4>1. Status(op[Worker])
        BY DEF StatusInv
      <4> QED
        BY <2>1, <2>2, <2>5, <4>1 DEF Status
    <3> QED
      BY <2>1, <3>1, <3>3, <3>4, LastWriteOwed
  <2> QED
    BY <2>3, <2>4, <2>5
<1>9. CASE FinishJob(Worker)
  <2>1. op[Worker].kind = "finish" /\ op'[Worker].at \in {"persist", "reply"}
    BY <1>9, CommittedOp DEF FinishJob, At
  <2>2. PICK s \in {"done", "failed"} : mem' = SetJob(mem, op[Worker].job, s)
    BY <1>9, FinishJobMoves
  <2>3. op[Worker].job \in DOMAIN mem.jobs
    BY <1>9, FinishJobMoves
  <2>4. mem'.insts = mem.insts /\ mem'.acts = mem.acts
    BY <1>0, <2>2, <2>3, SetJobTables
  <2> QED
    BY <1>2, <2>1, <2>4 DEF Aloof, HasRead
<1>10. CASE JobErrs(Worker)
  <2>1. i # op[Worker].inst
    BY <1>10, TornLog DEF HistoryTyped, Log
  <2>2. op'[Worker].kind = "finish"
    BY <1>10, AfterErrorOp DEF JobErrs, FinishOps
  <2>3. mem'.insts[i] = mem.insts[i] /\ mem'.acts[i] = mem.acts[i]
    <3>1. PICK row : row = [op[Worker].row EXCEPT !.status = "failed"]
      OBVIOUS
    <3>2. mem' = mem \/ Writes(op[Worker].inst, row)
      BY <1>10, <3>1, WriteSteps
    <3> QED
      BY <1>0, <2>1, <3>2, WritesRows DEF SameRowsOf
  <2> QED
    BY <1>2, <2>1, <2>2, <2>3 DEF Aloof, HasRead
<1> QED
  BY <1>3, <1>4, <1>5, <1>6, <1>7, <1>8, <1>9, <1>10, <1>11, <1>12 DEF RunJob

\* The end of an operation: a transaction that fails takes its instance with it.
LEMMA EndingOwed ==
    ASSUME StateInv, HistoryTyped, NEW c \in Actors, Ending(c), Moves(c),
           NEW i \in Instances, i \notin log'.torn, Doomed(i) \/ Owed(i)
    PROVE  Doomed(i)' \/ Owed(i)'
<1>1. /\ mem' = mem /\ op'[c].kind \in {"idle", "job", "finish"} /\ op'[c].at \in {"idle", "enter"}
  BY EndingFrame
<1>2. CASE Conflict(c)
  <2>1. i # op[c].inst
    BY <1>2, TornLog DEF HistoryTyped, Log
  <2>2. op[c].at # "enqueue"
    BY <1>2 DEF Conflict
  <2> QED
    BY <1>1, <2>1, <2>2, QuietOwed DEF Aloof, HasRead
<1>3. CASE ~Conflict(c)
  <2>1. op[c].at \in {"persist", "reply"}
    BY <1>3 DEF Ending, persistLocked, PersistFails, Reply
  <2> QED
    BY <1>1, <2>1, QuietOwed DEF Aloof, HasRead
<1> QED
  BY <1>2, <1>3

\* An instance whose transaction has failed stays on record.
LEMMA TornLasts ==
    ASSUME StateInv, HistoryTyped, NEW c \in Actors, Acts(c)
    PROVE  log.torn \subseteq log'.torn
<1>0. log \in Log
  BY DEF HistoryTyped
<1>1. CASE c \in Clients /\ Deployment(c)
  <2>1. CASE \E k \in Keys, d \in Definitions : Deploy(c, k, d)
    BY <1>0, <2>1 DEF Deploy, StoreVersion, Log
  <2>2. CASE \E k \in Keys : Delete(c, k)
    BY <1>0, <2>2 DEF Delete, Log
  <2>3. CASE InsertVersion(c)
    BY <1>0, <2>3 DEF InsertVersion, Log
  <2>4. CASE \/ \E k \in Keys, d \in Definitions : ReadVersion(c, k, d)
             \/ writeProcessXML(c) \/ deleteProcessXML(c) \/ XMLFails(c)
    BY <2>4 DEF ReadVersion, writeProcessXML, deleteProcessXML, XMLFails
  <2> QED
    BY <1>1, <2>1, <2>2, <2>3, <2>4 DEF Deployment
<1>2. CASE c \in Clients /\ Request(c)
  <2>1. CASE \E i \in Instances, k \in Keys : BeginStart(c, i, k)
    BY <1>0, <2>1 DEF BeginStart, Log
  <2>2. CASE ~\E i \in Instances, k \in Keys : BeginStart(c, i, k)
    BY <1>2, <2>2 DEF Request, BeginComplete, CreateInstance, CloseTask, WriteInstance, Enqueue
  <2> QED
    BY <2>1, <2>2
<1>3. CASE c = Worker /\ (Claim \/ RunJob(c))
  <2>1. CASE JobErrs(c)
    BY <1>0, <2>1, TornLog DEF Log
  <2>2. CASE RunStartJob(c) \/ RunContinueJob(c) \/ NotRunning(c)
    <3>1. log' = Ran(c)
      BY <2>2 DEF RunStartJob, RunContinueJob, NotRunning
    <3> QED
      BY <1>0, <3>1 DEF Ran, Log
  <2>3. CASE \/ Claim \/ (\E t \in Tasks : OpenTask(c, t)) \/ SaveInstance(c) \/ AllOpened(c)
             \/ completeElement(c) \/ tryCompleteProcess(c) \/ FinishJob(c)
    BY <2>3 DEF Claim, OpenTask, SaveInstance, AllOpened, completeElement, tryCompleteProcess, FinishJob
  <2> QED
    BY <1>3, <2>1, <2>2, <2>3 DEF RunJob
<1>4. CASE Ending(c)
  <2>1. CASE Conflict(c)
    BY <1>0, <2>1, TornLog DEF Log
  <2>2. CASE persistLocked(c) \/ Reply(c)
    <3>1. log' = Replied(c)
      BY <2>2 DEF persistLocked, Reply
    <3>2. Replied(c).torn = log.torn
      BY <1>0 DEF Replied, Log
    <3> QED
      BY <3>1, <3>2
  <2>3. CASE PersistFails(c)
    BY <2>3 DEF PersistFails
  <2> QED
    BY <1>4, <2>1, <2>2, <2>3 DEF Ending
<1> QED
  BY <1>1, <1>2, <1>3, <1>4 DEF Acts

\* Under s.mu nobody owes anything when the file is written.
LEMMA PersistWhole ==
    ASSUME StateInv, PlaceInv, EnqueueInv, NEW c \in Actors, persistLocked(c),
           NEW i \in Instances, Doomed(i) \/ Owed(i)
    PROVE  AtRest(mem, i)
<1>1. op[c].at = "persist" /\ store = "file" /\ Worker \in Actors
  BY DEF persistLocked, PlaceInv, Backends, Backend, Actors
<1>2. \A d \in Actors : op[d].at \in {"idle", "enter", "persist"}
  BY <1>1 DEF PlaceInv, Mutex, Entered
<1>3. Closing(i) = {} /\ ~Saving(i) /\ ~Opening(i)
  BY <1>1, <1>2 DEF Closing, Saving, Opening
<1>4. \A d \in Actors, t \in Tasks \cup {"start"} : ~Enqueues(op[d], i, t)
  BY <1>2 DEF Enqueues
<1>5. ~Doomed(i)
  BY <1>3 DEF Doomed
<1> QED
  BY <1>3, <1>4, <1>5, NothingOwed

\* Tables without a row, and tables as they were loaded, are at rest.
LEMMA NewStoreRests ==
    ASSUME NEW i \in Instances
    PROVE  AtRest(NewStore, i)
BY DEF AtRest, NewStore, HasJob

\* What every transaction under way owes, step by step.
LEMMA WholeStep ==
    ASSUME StateInv, HistoryTyped, PlaceInv, EnqueueInv, StatusInv, WholeInv, [Next]_vars
    PROVE  WholeInv'
<1>0. Worker \in Actors
  BY DEF Actors
<1>1. ASSUME NEW c \in Actors, Acts(c) PROVE WholeInv'
  <2>1. Moves(c) /\ log.torn \subseteq log'.torn
    BY <1>1, ActsMoves, TornLasts
  <2> SUFFICES ASSUME NEW i \in Instances, i \notin log'.torn
               PROVE  (Doomed(i)' \/ Owed(i)') /\ (yaml' # NoRow => AtRest(yaml', i))
    BY DEF WholeInv
  <2>2. (Doomed(i) \/ Owed(i)) /\ (yaml # NoRow => AtRest(yaml, i))
    BY <2>1 DEF WholeInv
  <2>3. Doomed(i)' \/ Owed(i)'
    <3>1. CASE c \in Clients /\ Deployment(c)
      BY <2>1, <2>2, <3>1, ReadersOwed
    <3>2. CASE c \in Clients /\ Request(c)
      <4>1. CASE \/ \E j \in Instances, k \in Keys : BeginStart(c, j, k)
                 \/ \E j \in Instances, t \in Tasks : BeginComplete(c, j, t)
        BY <2>1, <2>2, <4>1, ReadersOwed
      <4>2. CASE CreateInstance(c) \/ CloseTask(c) \/ WriteInstance(c) \/ Enqueue(c)
        BY <2>1, <2>2, <4>2, RequestOwed
      <4> QED
        BY <3>2, <4>1, <4>2 DEF Request
    <3>3. CASE c = Worker /\ Claim
      BY <2>1, <2>2, <3>3, ReadersOwed
    <3>4. CASE c = Worker /\ RunJob(c)
      BY <2>1, <2>2, <3>4, RunJobOwed
    <3>5. CASE Ending(c)
      BY <2>1, <2>2, <3>5, EndingOwed
    <3> QED
      BY <1>1, <3>1, <3>2, <3>3, <3>4, <3>5 DEF Acts
  <2>4. yaml' # NoRow => AtRest(yaml', i)
    <3>1. yaml' = yaml \/ (persistLocked(c) /\ yaml' = mem)
      BY <1>1, FilesWritten DEF PlaceInv
    <3> QED
      BY <2>2, <3>1, PersistWhole
  <2> QED
    BY <2>3, <2>4
<1>2. ASSUME yaml' = yaml, log' = log, \A c \in Actors : op'[c] = Idle,
             \A i \in Instances \ log.torn : AtRest(mem', i)
      PROVE  WholeInv'
  <2> SUFFICES ASSUME NEW i \in Instances, i \notin log'.torn
               PROVE  Owed(i)' /\ (yaml' # NoRow => AtRest(yaml', i))
    BY DEF WholeInv
  <2>1. yaml' # NoRow => AtRest(yaml', i)
    BY <1>2 DEF WholeInv
  <2>2. AtRest(mem', i)
    BY <1>2
  <2>3. Owed(i)'
    <3>1. \A c \in Actors : op'[c].kind = "idle" /\ op'[c].at = "idle"
      BY <1>2, IdleOp
    <3>2. Closing(i)' = {} /\ ~Saving(i)' /\ ~Opening(i)'
      BY <1>0, <3>1 DEF Closing, Saving, Opening
    <3>3. OwedRows(i)'
      BY <2>2 DEF AtRest, OwedRows
    <3>4. OwedTasks(i)'
      BY <2>2, <3>2 DEF AtRest, OwedTasks
    <3>5. OwedLists(i)'
      BY <3>1, <3>2 DEF OwedLists, HasRead
    <3> QED
      BY <3>3, <3>4, <3>5 DEF Owed
  <2> QED
    BY <2>1, <2>3
<1>3. CASE Crash
  <2>1. /\ mem' = NewStore /\ yaml' = yaml /\ log' = log
        /\ \A c \in Actors : op'[c] = Idle
    BY <1>3 DEF Crash
  <2> QED
    BY <1>2, <2>1, NewStoreRests
<1>4. CASE Open
  <2>1. /\ server = "down" /\ UNCHANGED <<yaml, op, log>>
        /\ (~ParseFails /\ mem' = Loaded) \/ mem' = mem
    BY <1>4 DEF Open
  <2>2. \A c \in Actors : op'[c] = Idle /\ op[c] = Idle
    BY <2>1 DEF StateInv, OpsTyped
  <2>3. CASE mem' = mem
    BY <2>1, <2>3 DEF WholeInv, Doomed, Owed, OwedRows, OwedTasks, OwedLists, Closing, Saving,
                      Opening, Current, HasRead
  <2>4. CASE ~ParseFails /\ mem' = Loaded /\ yaml = NoRow
    BY <1>2, <2>1, <2>2, <2>4, LoadedTables, NewStoreRests
  <2>5. CASE ~ParseFails /\ mem' = Loaded /\ yaml # NoRow
    <3>1. mem'.insts = yaml.insts /\ mem'.acts = yaml.acts /\ mem'.jobs = yaml.jobs
      BY <2>5, LoadedTables
    <3>2. \A i \in Instances \ log.torn : AtRest(mem', i)
      <4> SUFFICES ASSUME NEW i \in Instances \ log.torn PROVE AtRest(mem', i)
        OBVIOUS
      <4>1. AtRest(yaml, i)
        BY <2>5 DEF WholeInv
      <4>2. /\ ListActiveActivities(mem', i) = ListActiveActivities(yaml, i)
            /\ \A t : HasJob(mem', i, t) <=> HasJob(yaml, i, t)
        BY <3>1 DEF ListActiveActivities, HasJob
      <4> QED
        BY <3>1, <4>1, <4>2 DEF AtRest
    <3> QED
      BY <1>2, <2>1, <2>2, <3>2
  <2> QED
    BY <2>1, <2>3, <2>4, <2>5
<1>5. CASE UNCHANGED vars
  BY <1>5 DEF vars, WholeInv, Doomed, Owed, OwedRows, OwedTasks, OwedLists, Closing, Saving,
              Opening, Current, HasRead
<1> QED
  BY <1>1, <1>3, <1>4, <1>5, NextSplit

\* Nothing is doomed or owed before the first request.
LEMMA InitWhole ==
    ASSUME Init
    PROVE  StatusInv /\ WholeInv
<1>1. mem = NewStore /\ yaml = NoRow /\ (\A c \in Actors : op[c] = Idle) /\ Worker \in Actors
  BY DEF Init, Actors
<1>2. StatusInv
  <2>1. \A c \in Actors : op[c].kind = "idle" /\ op[c].at = "idle"
    BY <1>1, IdleOp
  <2>2. \A c \in Actors : Status(op[c])
    BY <2>1 DEF Status
  <2>3. StartFirst(mem)
    BY <1>1 DEF StartFirst, NewStore
  <2> QED
    BY <1>1, <2>2, <2>3 DEF StatusInv
<1>3. WholeInv
  BY <1>1, NewStoreRests, RestOwesNothing DEF WholeInv
<1> QED
  BY <1>2, <1>3

\* Who is doomed is in flight, and so is who owes something.
LEMMA InvariantIsWhole ==
    ASSUME StateInv, EnqueueInv, WholeInv
    PROVE  WholeTransactions
<1>0. Worker \in Actors /\ mem \in Tables
  BY DEF Actors, StateInv, TablesTyped
<1> SUFFICES ASSUME NEW i \in Instances \ log.torn
             PROVE  /\ yaml # NoRow => Whole(yaml, i)
                    /\ ~InFlight(i) /\ server = "up" => Whole(mem, i)
  BY DEF WholeTransactions
<1>1. (Doomed(i) \/ Owed(i)) /\ (yaml # NoRow => AtRest(yaml, i))
  BY DEF WholeInv
<1>2. yaml # NoRow => Whole(yaml, i)
  BY <1>1, RestIsWhole DEF StateInv, TablesTyped
<1>3. ASSUME ~InFlight(i) PROVE Whole(mem, i)
  <2>1. ASSUME NEW c \in Actors, op[c].at \in {"route", "enqueue", "open", "save"}, op[c].inst = i
        PROVE  FALSE
    <3>1. op[c] \in Ops
      BY DEF StateInv, OpsTyped
    <3>2. op[c] \in StartOps \cup CompleteOps \cup RunningOps
      BY <2>1, <3>1, IdleOp DEF Ops, DeployOps, DeleteOps, ClaimOps, CalledOps, FinishOps
    <3>3. "inst" \in DOMAIN op[c]
      BY <3>2 DEF StartOps, CompleteOps, RunningOps
    <3> QED
      BY <1>3, <2>1, <3>3 DEF InFlight
  <2>2. Closing(i) = {} /\ ~Saving(i) /\ ~Opening(i)
    BY <1>0, <2>1 DEF Closing, Saving, Opening
  <2>3. \A c \in Actors, t \in Tasks \cup {"start"} : ~Enqueues(op[c], i, t)
    BY <2>1 DEF Enqueues
  <2>4. Owed(i)
    BY <1>1, <2>2 DEF Doomed
  <2>5. AtRest(mem, i)
    BY <2>2, <2>3, <2>4, NothingOwed
  <2> QED
    BY <1>0, <2>5, RestIsWhole
<1> QED
  BY <1>2, <1>3

\* Transactions are all or nothing, for every instance none of whose transactions
\* has failed.  Neither WithTx nor persistLocked undoes anything, so this rests on
\* s.mu and on the lock version: a transaction that finds a row written after it
\* read it fails, whatever it has done by then, and one that goes on has, in its
\* own hand, exactly what the rows still lack.
THEOREM TransactionsWhole == Spec => []WholeTransactions
<1>1. Init => StatusInv /\ WholeInv
  BY InitWhole
<1>2. StateInv /\ HistoryTyped /\ PlaceInv /\ EnqueueInv /\ RunInv /\ StatusInv /\ WholeInv
        /\ [Next]_vars => StatusInv' /\ WholeInv'
  BY StatusStep, WholeStep
<1>3. StateInv /\ EnqueueInv /\ WholeInv => WholeTransactions
  BY InvariantIsWhole
<1> QED
  BY <1>1, <1>2, <1>3, ProcInvariant, RunInvariant, PTL DEF Spec
=============================================================================
