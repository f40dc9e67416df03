# Verification of lowcode-bpmn

lowcode-bpmn is a workflow engine in Go: process definitions are deployed, instances of
them are started, and the engine moves tokens along the sequence flows until a person, an
adapter or a message is needed. This directory holds TLA+ modules that model its core, TLC
configurations that check them on small instances, and TLAPS proofs of what should hold for
every definition and every number of clients. Source paths are relative to the repository.

## 1. Inventory

| Part | State it keeps | Operations | Where |
|---|---|---|---|
| Definition, registry | elements, flows, scopes; indexes over them | Validate, BuildRegistry, ResolveReturnTarget | `internal/domain/definition` |
| Token traversal | instance row (status, `ActiveElements`, `InternalState` with join tokens and fired boundary events, `LockVersion`), activity rows, jobs | StartProcess, CompleteTask, activateElement, completeElement, tryCompleteProcess | `internal/engine/engine.go`, `tasks.go`, `extension.go` |
| Rejection, termination | the same rows | handleTaskReject, Terminate, terminateScope, cancelInstance | `internal/engine/reject.go` |
| Adapter activities, boundary events | the same rows | CompleteActivity, fireBoundaryEvent, TriggerBoundary | `internal/engine/activity_complete.go`, `boundary.go` |
| Approval | `Assignees`, `PendingAssignees`, `RequiredApprovals`, `ApprovalRecords` of an activity | applyApprovalStep, UpdateActivityAssignees, RemoveUserFromActiveTasks | `internal/engine/approval.go`, `assignees.go`, `assignee_sync.go` |
| Worker | job rows | ClaimNextJob, ProcessNextJob, CompleteJob, FailJob | `internal/engine/worker.go` |
| Triggers | none of their own | TriggerMessage, TriggerSignal, TriggerConditional, collaboration | `internal/engine/trigger*.go`, `collaboration_trigger.go` |
| Stores | all rows; the file store also `state.yaml` and one XML file per version | WithTx, reads, FOR UPDATE, versioned update, deployment, claims, Open | `internal/store/{gormstore,memory,filestore}` |
| Event transports | the broker's queue, what it has handed out, the consumer | Publish, Run, acknowledgement, Close | `pkg/event` |
| Plugin runtime | registered adapters | Handle, ApplyTriggerAction, the engine host | `internal/plugin`, `pkg/plugin/sdk` |
| BPMN XML codec | none | Marshal, Parse | `internal/bpmnxml` |
| Scripts, API, telemetry | none that outlives a call | | `internal/script`, `internal/api`, `internal/telemetry` |

The API and the event transports call the engine. The engine reads an instance and an
activity, decides, opens a transaction of the store and walks the flows inside it.
With `ASYNC_EXECUTION` starts and approvals only queue a job, and the worker does the walk.
The database rows are the only state that requests share; there is no lock in the process.

What is hard here:

- **ordering inside one walk**: an end event decides whether the instance is complete from
  the activities that exist at that moment;
- **work between a request and the worker**, which only a queued job represents;
- **rejections**, which re-open tasks while the tokens of sibling branches are elsewhere;
- **concurrent requests** with three different disciplines on the same rows: a versioned
  update, a row lock, and no transaction at all (`Terminate`);
- **failure**: an error rolls back the very write that records it;
- **changes of the assignees in the middle of a vote**, where an absent list and an empty
  list mean different things;
- **stores without undo**: the memory and file stores change their tables in place, hand out
  rows that share slices with the tables, and write files that may fail one by one;
- **definitions that travel**: the file store sends every definition through the XML codec
  at every start, and the codec does not keep everything;
- **events**: five brokers that settle an event before, after or without its handler, a
  check for duplicates that is not atomic with the start, shutdowns that cancel a handler.

What makes the parts correct: a final status is final, and says the truth about open work;
a running instance has something that can move it; a task is left once; a join fires when
and only when its flows have arrived; votes are counted once and as the mode asks; every
request returns; what a caller was told has been done survives failures and
restarts; an event that was accepted is handled, or its loss has a known cause. `PROJECT.json` lists the hazards at their lines, each with the
properties that would catch it.

## 2. Modules

| Module | Models |
|---|---|
| `ProcessDefinition` | the registry over a constant definition `Def`; `DefinitionAssumption` is what `Validate` guarantees |
| `TokenFlow` | one instance: the traversal, rejections, termination, boundary events, the worker, failure and crash |
| `InstanceLifecycle` | abstract: the status and the activities of an instance as clients see them |
| `MCTokenFlow` | seven definitions for TLC, and `BranchIdentityKept`, which is about one of them |
| `TokenFlowProofs`, `LifecycleProofs` | proofs about `TokenFlow`: the rows, and what clients see over the life of an instance |
| `ReturnPath`, `MCReturnPath` | the upstream walk that finds where a rejected task returns, and a reference for it |
| `InstanceLocking`, `MCInstanceLocking` | concurrent requests on the rows of one instance in the database store |
| `InstanceLockingProofs` | proofs about `InstanceLocking` for any number of clients |
| `Lists`, `ListProofs` | string slices as sequences, and the laws of taking strings out of one |
| `Approval`, `MCApproval` | the votes on one userTask and the changes of its assignees |
| `ApprovalProofs` | proofs about `Approval` for any users, lists and quotas |
| `MemoryStore` | the memory store's tables as a record, its methods as functions on it |
| `FileStore`, `MCFileStore` | the file store over `MemoryStore`, the memory store alone, and the database's deployments, under concurrent requests, failing files and stops |
| `FileStoreProofs` | proofs about `FileStore` for any clients, keys, tasks, failures, stops and XML codec |
| `XmlCodec` | Marshal and Parse of a definition, and `Validate` |
| `DefinitionExchange`, `MCDefinitionExchange` | a definition deployed, read as XML and deployed again |
| `DefinitionExchangeProofs` | proofs about `XmlCodec` and `DefinitionExchange` for any definition |
| `Triggers` | messages, signals and conditions that start instances, call by call |
| `EventStreams` | one stream between producer, broker and consumer, for each driver |
| `AtLeastOnceQueue` | abstract: what an at-least-once queue promises |
| `EventIntake`, `MCEventIntake` | `EventStreams`, the plugin runtime and `Triggers` composed in one server with an API |
| `EventIntakeProofs` | proofs about `EventIntake` for any events, adapters, callers and stops |

`MCFileStore` takes the definitions it deploys, and what a restart makes of them, from `XmlCodec`; `EventIntake` extends both
`Triggers` and `EventStreams`; `TokenFlow` and `EventStreams` each instantiate their abstract specification.

**TokenFlow.** `inst`, `acts` and `jobs` are the rows. The recursion
activateElement - completeElement - follow... - activateViaFlow is the sequence `stack`: its
head is the flow being entered, the rest is what the callers still have to visit, so one
`Traverse` step is one call of activateViaFlow or activateElement. `scope` is
`execState.scopeID`. `committed` is what other connections can read; it changes when the
transaction commits, and an error puts `inst` and `acts` back to it (`FailTraversal`:
`failInstance` writes `failed` through the transaction that its error rolls back). The
status `failed` therefore never appears, exactly as with the database store.
Variables are abstracted: a condition may be true or false each time it is reached, and a
comparison may fail. `MCTokenFlow` computes the return target of every element with
`ReturnPath`. `Lifecycle` instantiates `InstanceLifecycle` with the committed rows: however
many steps a transaction takes, other connections see one `Transact`, which ends the instance at most
once, never reopens an activity, and leaves nothing open behind `completed` or `cancelled`.
`Terminate` takes any `scopeId`, as the code does: a scope, the id of an element, or a string that names nothing, with which
nothing is cancelled and `tryCompleteProcess` is called all the same. It runs in no transaction, so `TerminateCutShort` stops it after some of its activity
rows, or between the instance row and `tryCompleteProcess`. The history variable `irregular` remembers both, and the properties that they
break (`WaitingListSound`, `NoStrandedInstance`, `CompletedMeansDone`) say so in their guards: they hold until such a call.

**InstanceLocking.** A request is a little program whose steps are its reads and writes of
the database. `instLock` and `actLock` are the row locks of open transactions; a versioned
update that finds another version aborts. `Terminate` writes without a transaction. What
the traversal adds is a choice in `Commit`: any new activities, and perhaps the end event.
A request without `lockVersion` is the general case: the client's version is only compared
with the row once more before the transaction. Boundary events are the interrupting ones; the others write no
row of their host.

**Approval.** One activity, one action per request. The optimistic lock of CompleteTask and
UpdateActivityAssignees makes each of them one step; `RemoveUserFromActiveTasks` is two,
because it computes its lists from a listing and applies them later. Slices are records
with a flag `nil`: `append([]string(nil), list...)` of an empty list is nil, and a nil
pending list means that everybody assigned is pending. A replacement leaves
`pendingAssignees` out (`Nil`), and the engine computes them, or sends a list of `PendingLists`, which is stored as it is; `excused`
remembers the assignees such a list left out without their approval.

**FileStore.** `mem` is the tables in memory, `yaml` and `xml` are the files; `op` is where each client and the worker are in
their operation, and one step is one method of the memory store or one file operation. With `store = "file"` an operation
waits for `s.mu` (`MayEnter`); with `"memory"` transactions interleave; `"database"` has
deployments only, whose read and insert are two statements (its transactions are `InstanceLocking`). No step
undoes anything: `Conflict`, `JobErrs`, `XMLFails` and `PersistFails` return the error and leave the tables as they are.
`removeString` compacts the list that the row of the table shares (`ShowCompacted`). `Crash` keeps the files, `Open`
loads them, definitions through `RoundTrip`, and is `broken` when one cannot be parsed. `log` is what callers were told. The requests are
those of an asynchronous engine, which are short: start, approval, and the two jobs. A continue job reads its instance (`RunContinueJob`) and writes
it in a later step (`completeElement`), with a conflict possible in between. `log.torn` holds the instances one of whose
transactions has failed; `WholeTransactions` is about the others, and section 3 says what happens to these.

**XmlCodec.** A definition keeps, for each element, the set of its fields that are not empty, grouped by how the codec treats them: attributes, extension elements
written once, extension elements whose type has a second field in the extension namespace, and fields the XML types lack.
A document keeps, for each extension element, its values in document order; Parse takes the last. Texts are empty or not; a
condition may also hold a `<`, which the encoder does not escape. What encoding/xml does with a repeated
element and with a bare `<` is external, taken from its decoding rules.

**Triggers.** A call goes through the points where the code reads or writes the store: list the processes, search for a running instance, start,
list the running instances, fire boundary events, list the partners, start them. An instance is a process, a business key and a status; after
its start it waits for a user or completes. `TriggerBoundary` names an instance and fails unless the host is active. `insts[n].seen` remembers what the search could have found.

**EventStreams.** `queue` is what the broker has still to hand out, `unsettled` what it has handed out and keeps (Kafka's uncommitted offsets,
RabbitMQ's unacknowledged delivery), `held` the event in the handler. `Failed` and `Acked` say what each driver does with the handler's result;
`Failed` has a second argument, whether Redis's push succeeded, because its error is discarded. `PublishUnconfirmed` is a publish that returns without the broker having
the event (Kafka, RabbitMQ, NATS), `ReplyLost` a BRPOP whose answer is lost; `hist.dropped` holds what was lost in these three ways. While the consumer is stopping
an event may still be fetched (`MayFetch`);
`consumerCancel`, `RunReturns`, `ConsumerFails`, `Exit` and `Restart` are the life of the consumer. Redis and the
in-process drivers have no `unsettled`: the event exists only in the handler. In `EventIntake` the handler is a call of `Triggers`
by the caller `Consumer`, and its context is cancelled with the consumer's.

Operators whose comment starts with `Mutant:` are not part of the model. Each is a
plausible mistake in the operator that follows it, and `PROJECT.json` names the property
that notices the mistake when the one takes the place of the other.

## 3. Runs

Passing:

| Run | Question |
|---|---|
| `flow_contract` | a scope, a three-way fork and join, boundary events, terminating rejections, `Terminate` with any `scopeId`, stops of the server at every step and inside `Terminate`: are the rows consistent, is every status honest, and does nothing but an irregular `Terminate` strand the instance? |
| `flow_gateways` | every routing rule, conditions that hold, fail or cannot be evaluated, two start events, two returning rejections: are the waiting list and the joins right, and do clients see the abstract life cycle? |
| `flow_async` | starts and approvals through the queue: does `completed` mean done unless a `Terminate` named no scope, do jobs finish, do pending instances start, and do clients see the abstract life cycle? |
| `lock_tasks` | three concurrent requests on userTasks with crashes: is a task left once, is a final status final and quiet, does every request return in spite of opposite lock orders? |
| `return_path` | every definition of four elements and three flows: is the target the nearest upstream userTask? |
| `approval_votes` | every order of votes in all modes with a fixed list |
| `approval_changes` | votes on `any` and `all` tasks mixed with removals and with replacements that send `pendingAssignees` or leave them out: is every vote counted once, is the quota met, and has everybody approved whom no request left out? |
| `file_store` | two clients and the worker on each store, any file operation failing, stops between any two steps: does what was acknowledged survive, are transactions whole, are deletions final, does a job run once? |
| `xml_codec` | every kind of element with every pair of fields, every event definition, collaborations and documents of clients, three trips: does what the engine routes by survive, do the losses end, and which definitions does the server refuse from its own XML? |
| `event_intake` | each driver with failing calls, publishes, hand-outs, pushes, acknowledgements and connections, shutdowns, crashes, API calls, users and deletions: which events may be lost or start an instance twice, and are the others handled in the end? |

Runs whose property is violated, each a disagreement between the code and a sentence of the
repository's documents (quoted in `PROJECT.json` under `findings`):

| Run | What the counterexample shows |
|---|---|
| `stranded` | after a rejection a leftover approval fires the join early, and the last approval is held there for ever |
| `lock_ext` | two completions of one extension activity both follow its flows |

Further disagreements that the same modules reproduce, without a run of their own:

- `CompletedMeansDone` with `Spec`, `Def <- AutoBranch`, `Async = FALSE`: a parallel branch that ends without a wait completes the
  instance before its sibling has been entered (`docs/ddd/execution.md:24`, `engine.go:691`);
- `PendingInstanceStarts` with `Def <- ScriptStart`, `Async = TRUE`: a script that fails at the start leaves the instance pending,
  because the status `failed` is rolled back with its transaction (`docs/ddd/runtime.md:26`, `engine.go:719`);
- `VotesInOrder` with `ElementConfigs <- OnlySequential`, `Resolutions <- Static`, `Replacements <- NoLists`, `Removable = {"a", "b", "c"}`:
  removing the head of a sequential task lets anybody of the list vote next (`docs/ddd/task-approval.md:34`, `assignees.go:85`);
- `CompletedMeansDone` with `Def <- TwoEnds`, `Async = TRUE`: the first of two continuation jobs
  completes the instance and the second is refused (`docs/ddd/execution.md:51`);
- `CompletedMeansDone` with `Def <- ForkJoin`, `Async = TRUE`, `MaxRejects = 0`: a scope terminated while the continuation of its only task is queued
  completes the instance, and the job is refused (`docs/ddd/execution.md:51`, `reject.go:194`);
- `CompletedMeansDone` without its guard, with `Def <- LongBranch`, `Async = TRUE`: while both continuations are queued, a `Terminate` whose `scopeId` names
  nothing completes the instance (`docs/ddd/execution.md:51`, `reject.go:153`);
- `NoStrandedInstance` without its guard, with `Def <- Contract`, `Crashes = TRUE`: a `Terminate` that stops before the instance row leaves a running instance with nothing
  open, and a waiting list of cancelled activities (`ARCHITECTURE.md:392`, `reject.go:197`);
- `WaitingListComplete` with `Def <- ForkJoin`, `MaxRejects = 2`: an element that is open twice
  disappears from `ActiveElements` when one of its activities is completed (`docs/ddd/runtime.md:24`);
- `BranchIdentityKept` with `Def <- LongBranch`: the second task of a parallel branch has no
  `BranchFlowID` (`docs/ddd/runtime.md:37`);
- `TerminalIsFinal` of `InstanceLocking` with `Ops = {"extend", "terminate"}`: a late extension
  completion turns a cancelled instance into a completed one (`docs/ddd/runtime.md:26`);
- `TerminateIsAtomic` with `Ops = {"complete", "terminate"}`: a termination that loses the version
  check has cancelled activities of an instance that goes on (`ARCHITECTURE.md:392`);
- `PendingAreRemaining` with `ElementConfigs <- OnlyAll` and replacements: somebody who has voted
  becomes pending again (`docs/ddd/runtime.md:39`);
- `EveryAssigneeApproved` with the constants of `approval_changes`: a replacement that sends `pendingAssignees` of its own lets an `all` task complete
  without the assignees it leaves out; after an empty list the first vote completes it (`docs/ddd/task-approval.md:30`, `assignees.go:66`);
- `SequenceCompleted` with `ElementConfigs <- NoList`, `Resolutions <- FromVariable`: a sequential task with
  a list from a variable is complete after one vote (`docs/ddd/task-approval.md:12`).

What the stores do that their documentation does not say (`docs/ddd/execution.md:57` "commit atomically"; `ARCHITECTURE.md:392`). Each is a behaviour of `FileStore`; the first
one is what `WholeTransactions` without `\ log.torn` reports:

- two approvals that read the same instance: the second closes its activity, fails with a version conflict, and in the memory and file stores
  the activity stays closed without a job, so its token is lost;
- a write of `state.yaml` that fails is reported to the caller, and persisted by the next write that succeeds; for a job this means
  `failed` although its effects stay, and a claim that could not be written leaves its job `running` for ever;
- a deployment whose `state.yaml` could not be written leaves its XML file, and the next start deploys it; a deletion that
  fails half way leaves XML files that come back under a later deployment of the same key;
- one definition that Parse refuses makes `Open` fail for the whole server.

What the codec loses, against `docs/ddd/extensions.md` ("round-trips the above"): `taskType`, `assignees`, `implementation`, `serviceUrl`, `serviceMethod`, `messageRef`, `decisionRef` and
`correlationKey` come back empty, because an empty element in the extension namespace follows each and overwrites it; `description`,
`requiredApprovals`, `laneRef`, data references and `eventSubProcess` are never written, nor is the condition of a message event, nor an event definition on an element that is not one of the four kinds of events; numbers in properties become
strings; a condition with `<` cannot be read back. With the file store all this happens to every definition at the next start.
`RefusedOnlyIfWiped` says exactly when the result is no longer deployable, `SettlesAfterOneTrip` that it does not get worse.

What the intake does, against `ARCHITECTURE.md:413` ("Idempotent webhooks | Automatic when `businessKey` / `correlationKey` resolves"):

- two concurrent deliveries, or with asynchronous execution two deliveries before the worker has run, start two instances: this
  is the window of `DuplicatesOnlyInWindow`; a partner of a collaboration is started without any check, so one message may start it twice;
- the plugin host drops the matches of TriggerMessage, so an event whose start failed is acknowledged;
- Redis ("at-least-once (best effort)", `redis/consumer.go:69`) loses the event in the handler at a crash, and at a graceful shutdown as well, because the push uses the cancelled context;
  when that push fails for any other reason its error is discarded, and the event is lost while the consumer runs on;
  an event that Kafka, RabbitMQ or NATS was sent and did not get is lost although the API has accepted it, because no driver waits for a confirmation;
  Kafka skips an event whose handler failed and the next commit passes over it; a consumer whose connection broke is not restarted while the API goes on accepting events;
- an event that no adapter takes, that starts a process that has been deleted, or that triggers a boundary event with an unreadable instance id or without an active host, circulates for ever with RabbitMQ and Redis.

The passing runs use definitions on which these cases cannot arise when they check the
property in question, and the others otherwise: `NoStrandedInstance`, for example, holds of
`Contract`, whose rejections terminate, and fails on `ForkJoin`, whose rejections return.

**Bounds.** `MaxRejects = 2` is the only bound of `TokenFlow`: with two rejections both
branches, or one branch twice, have been rejected, and more rejections repeat these
situations; everything else is finite because the definitions are. In `InstanceLocking`
three clients are enough for a request to interfere between two steps of one that interferes
with a third, and `t2` is the activity a commit may add. `MaxRecords = 4` in
`Approval` lets every user vote once; the element lists have three users, replacements
bring in a fourth, and the pending lists sent along (`Chosen`) are an empty one and one that is a part of some lists and names a stranger to another. `MCBudgets` of `FileStore` bounds two histories, one of three deployments and deletions with two failures and two stops, one of the whole life
of an instance with two tasks, one failure and one stop; two clients and the worker give every pair of concurrent transactions, and three versions
let a version be lost below and above another. `MaxTrips = 3` is one more than the two trips that `SettlesAfterOneTrip` compares; only one element varies, because the codec treats elements one by one, and pairs of
fields are enough because each field is treated by itself or decides with one other whether there are extension elements at all. `MCBudgets` of
`EventIntake` are seven scenarios over every driver, synchronous and asynchronous: three of seven events, two events with one failure (a call, a hand-out, a push or an acknowledgement), two with one
stop, one event with two stops, one beside an API call, one beside users and deletions, and the API by itself with one failure; the scenarios with API calls use RabbitMQ alone (`MCInit`),
because what an API caller meets does not depend on the broker. Any publish may go unconfirmed. During a shutdown an event that was cut off is not taken again before the restart (`Deliver`);
RabbitMQ could hand it out again and fail again any number of times until the process ends. Three flows in `MCReturnPath` give walks of depth three, cycles, joins and
two routes of different length.

**Fairness.** `FairSpec` of `TokenFlow` is weak fairness of the traversal (a goroutine that
is not stopped runs on) and of the worker loop (`Worker.Run` polls for ever). Requests are
not fair: nobody is obliged to approve. In `InstanceLocking` each request that has arrived
runs on, and the database resolves deadlocks; that two transactions that wait for each other
do not wait for ever is the database's guarantee, not the engine's. In `EventIntake` only `ConsumerStep` is fair: `Run` is one sequential loop that fetches, handles and settles as long as it
can; producers, users, the API and restarts owe nothing. `Delivered` assumes a consumer that from some time on keeps running, because nothing in the code restarts one,
and excludes events that can only fail. Crashes are never fair.
Deadlock checking is off everywhere: an instance that has ended, a closed vote and requests
that have all returned are proper ends, and so are a drained queue and a store without requests.

## 4. Proofs

`TokenFlowProofs` proves, from `DefinitionAssumption` and `TokenFlowAssumption` alone, for every definition,
synchronous or asynchronous, with or without crashes and for any number of rejections:

- `TypeCorrect`: `TypeOK` always;
- `WaitingListIsSound`: `ActiveElements` names only elements with an open activity, unless a `Terminate` has stopped between two of its writes;
- `JoinsFireAtOnce`: no join holds all its incoming flows;
- `CancelledIsQuiet`: a cancelled instance has no open activity;
- `FinalStatusIsFinal`: the committed status never leaves a final value.

The inductive invariant `IInv` says these things of the rows of the open transaction
and of the committed rows at once (`RowsOK`), because a rollback makes the second the first. It adds what
ties the parts together: the entries of the stack enter existing elements along flows that end there (else an
arrival need not be an incoming flow of its join); at rest the two copies of the rows are equal and the stack is empty; a transaction
runs on an instance whose committed status is not final; and there is at most one start job, the first job of the queue,
which is not yet run only while its instance is committed as `pending`. The last one is what makes `FinalStatusIsFinal` inductive: `runStartJob` sets
the status to `running` without looking at it. Each operation has a lemma of its own, and the operators on
rows (`Cancelled`, `Finished`, `clearJoinStateInScope`, `Routes`, ...) have theirs.

`LifecycleProofs` builds on `IInv`. Each of its theorems names the condition without which section 3 shows the code to fail:

- `FollowsLifecycle`: `Spec /\ []NothingToWaitFor => ImplementsLifecycle`, the refinement. The hypothesis says that a walk which has completed the
  instance meets nothing more to wait for; `AutoBranch` violates it. `LifeInv` adds that the rows of the transaction follow the committed ones (no activity
  is opened again), so that a commit is one `Transact` however many steps it took.
- `WaitingListIsComplete`: `Spec /\ []OneTokenEach => []WaitingListComplete`. `ActiveElements` is a set, so an element open twice
  disappears with its first activity; the hypothesis excludes that, counting at rest a queued continuation as a token.
- `BoundaryEventsFireOnce`, of definitions in which no flow, start, entry or return leads to a boundary event (`BoundariesOnlyFire`; `Validate` does not check it). `FireInv` counts: the
  firings of an event are remembered under visits of its host, and it has no more rows than firings. The firings remembered in `InternalState` never
  shrink, which is why a second visit may fire again and the same one may not.
- `NothingStranded`: `Spec /\ [](JoinsKeepNoLastToken /\ ContinuationsSucceed) => []UncutNotStranded /\ []NoStrandedInstance`, of definitions without dead ends (`NoDeadEnds`: every element
  but an end event has a flow or an entry; `Validate` does not check it) and of servers that do not crash with jobs in hand (`Async => ~Crashes`). The hypotheses are the ways in which
  the code loses the last token: a join that holds it (`stranded`), and a job of a running instance that fails or is lost, which nothing retries.
  `UncutNotStranded` adds the third way, a `Terminate` that stopped between two writes, and is otherwise unconditional: a `scopeId` that names no scope strands nothing. Everything else keeps `AliveInv`: a running instance has
  an entry of the walk, an open activity or a job, and so have the committed rows, to which a rollback returns. An end event or a terminated scope that does not complete the instance leaves
  something open, because the waiting list names nothing else (`IInv`).
- `JoinFreeNeverStranded`: without joins and jobs both hypotheses hold, so synchronous execution never strands an instance of a definition without joins and dead ends, wherever the server stops but inside a `Terminate`.
- `CompletedIsDone`: `CompletedMeansClosed` (nothing open, no token at a join) without exception, and `CompletedMeansDone` (no job either) but for irregular `Terminate`s, of every `Sequential` definition: one start event, no gateway and no boundary event that adds a token, no join; loops, choices, scopes, rejections of
  both kinds and interrupting boundary events are allowed. `SeqInv` says that there is one token at most, an entry of the walk, an open activity or a job, before and after any rollback, and none once the
  instance is completed. Forks are excluded because `tryCompleteProcess` does not see tokens in joins, on the stack or in the queue (`AutoBranch`, `TwoEnds`); with asynchronous execution so are
  scopes (`NoScopesAsync`), because a scope may be terminated while its only token is a queued job (section 3; the proof attempt found this case).
- `SequentialKeepsPromises`: `SeqInv` implies `NothingToWaitFor` and `OneTokenEach`, so these definitions follow the life cycle and have a complete waiting list unconditionally.

`InstanceLockingProofs` proves `TypeCorrect` and, for any number of clients and activities, `UserTaskLeftOnce`: the flows
out of a userTask are followed at most once. The invariant relates `exits` to the row: an activity that has been left is closed, a request
past its versioned update or its FOR UPDATE holds the instance row, at that point its version
is current, and a request whose version is current has read an activity that is still open - unless a
termination has cancelled it, which closes it as well. With no extension completions among the requests (`"extend" \notin Ops`;
with them the code is wrong, see `lock_ext`) it also proves `ClosedMeansQuiet` and `ClosedIsFinal`. They need `QuietInv`:
a request whose version is still current decided on a running instance, and what a `Terminate` with a current version has not
cancelled yet is exactly what is still open.

`ApprovalProofs`, from `ApprovalAssumption`: `TypeCorrect`, `NobodyVotesTwice` and `AllHaveApproved` hold under every change of
the assignees, with whatever `pendingAssignees` a request sends; the last one says that everybody assigned has approved or is `excused`, left out by such a list (without the exception the code is wrong, see
section 3). It holds because whoever is assigned to an open `all` task has approved, is excused or is pending, also in the
lists that `RemoveUserFromActiveTasks` has computed and not yet applied (`NobodyForgotten`). `QuotaReached` assumes `QuotaWithinList`, which the code checks of
the list in a definition but not of one taken from a variable; its invariant equates the number of approvals with the number of different approvers.
`SequenceApproved`, `SequenceOrdered`, `PendingHaveNotVoted` and `AlwaysInAnInbox` are about lists that do not change (`FixedLists`), as the run
`approval_votes`: section 3 shows what replacements, removals and lists from variables do to them. `FixedInv` says exactly who is pending: those who have not
voted, or the one whose turn it is with everybody before them and nobody after them having voted.

`FileStoreProofs`, from the assumptions on the constants, for all three stores and whatever `RoundTrip` makes of a definition:

- `TypeCorrect`, and with it that every row an operation holds is of the type of the table it writes it to (`StateInv`, `HistoryTyped`);
- `DeletionsLast` and the first half of `AcknowledgedLasts`, from `ProcInv`: during a deletion no version of the key is in the tables and after its files are
  gone none is on disk; during a deployment its version is in the tables, then on disk, and is not one that was acknowledged before. Both need that no
  other operation is inside the file store meanwhile (`Mutex`, from `s.mu`);
- the second half of `AcknowledgedLasts`, from `ApprovalInv`: a task is completed before its job exists, and has it before the caller is answered;
- `JobsRunOnce`. `RunInv`: what has run is claimed in memory and in the file, and the job in the worker's hand has not run and is claimed in the file before it does.
  This needs that a job is identified by its instance and task (`EnqueueInv`): instance ids are new, and of the approvals that read the same version of an
  instance only the first gets to enqueue;
- `TransactionsWhole`. `WholeInv` says of each instance that the file has it at rest and that in memory it is owed something or doomed. Owed: an activity that is not open
  yet belongs to a start job that is still opening them, a closed one without a job to a request that will enqueue it, and a waiting list that differs from
  the open activities is in the hand of the one transaction that may write it (a current row that was only read so far, `HasRead`, has the stored list). Doomed: a transaction that has closed or opened a task holds a row older than the stored
  one, so its next versioned write fails and the instance joins `log.torn`. A versioned write makes every other row in hand stale, so it either dooms
  somebody or nobody was between two writes. `s.mu` makes the file safe: at `persistLocked` nobody else is inside, so nothing is owed. `StatusInv` adds
  that an instance is `pending` exactly until its one start job runs, which is why that job finds nothing opened or closed before it. A list that names each open
  activity once stays one under the compaction of `removeString` (`ExactLists`).

`EventIntakeProofs`, of the whole composed server: `EventsKept` (`StreamInv`: an event in a handler is still unsettled if the driver settles, and
anything else unsettled has been through its handler; what is lost otherwise was dropped on the way to or from the broker), `ImplementsQueue`, the refinement of `AtLeastOnceQueue` operation by operation, and `WindowOnly`
(`WindowInv`: before TriggerMessage starts a process, every instance its search could have seen is over, and remains so).

`DefinitionExchangeProofs`, of every definition and every document Parse can make one of (`ExchangeAssumption` says of which types they are):
`LossesEnd`, `RoutingSurvives` and `RefusalsExplained`. The argument computes what one trip does, element by element (`ElementTrip`: `mapElement(elementToXML(el)) = Trip(el)`), shows that `Trip` is
idempotent, lifts both to definitions (`ReturnedForm`, `ImageSettles`), and shows that `Validate` accepts the result unless the instruction of an automated task was
wiped (`AcceptedAgain`). The invariant then only says that the latest definition is the original before the first trip and its image afterwards, and
that a refusal is the first trip's.

Each of these invariants was checked by TLC as an invariant of the component's runs before it was proved (`AliveInv` under its hypotheses on `Contract` and `ForkJoin` as well, `SeqInv` on sequential definitions with a loop, a scope, three boundary events and two rejections).
What the folds over lists return (`Outside`) is proved in `ListProofs` through the least index at which it would fail, because
the induction theorems of the library take an operator.

Only model-checked:

- the liveness properties `JobsFinish`, `PendingInstanceStarts`, `RequestsReturn` and `Delivered`, which need fairness;
- `ReturnsToNearest`: the walk and its reference are recursive, and to relate them is an induction over paths;
- `CompletedMeansDone` of definitions that fork (`LongBranch` in `flow_async`), and that no join keeps the last token of `Contract`: both lie in the shape of the graph, and to
  show that every token of a fork reaches its join is an induction over paths;
- `TerminateIsAtomic`, `BranchIdentityKept` and `EveryAssigneeApproved`, which fail (section 3), and so do the properties of `stranded` and `lock_ext`.

## 5. Not modelled

- The child instance of a callActivity: `TokenFlow` is one instance, and a second one with rows of its own inside the first one's transaction would multiply its states
  without a new kind of step. Multi-instance bodies, lanes and data objects do not steer the engine.
- The arithmetic of conditions (`EvalCondition`): a pure comparison of strings and floats, which TLC's integers do not have.
- Scripts and WASM adapters: a script returns variables or an error, which `TokenFlow` takes as a choice; interpreters, policies and the WASM host are I/O around a pure call.
- The plugin actions of the streams other than triggers: the same loop and dispatch over engine calls that `TokenFlow`, `Approval` and `InstanceLocking` model.
- HTTP decoding and status codes, authentication, listings and inbox queries, row conversion, migrations, telemetry, configuration: they change no state the properties are about.
- Several workers: every store takes a claim under one lock, so a second worker adds interleavings of jobs with requests, which `InstanceLocking` has in its clients.
- A BRPOP or LPush that the Redis client repeats after a lost answer: its second copy of an event is a duplicate like those of a redelivery.
- Whether a walk comes to an end: `Validate` accepts cycles of automated elements, on which it does not, and on other definitions it ends by their shape.
- The race of the memory driver's `Close` with a `Publish` on the closed channel: the process ends in either case.

## 6. Plan

Built: the definition, the traversal and its abstract life cycle, the locking, the approval, the stores, the codec, the triggers and the event streams.
Proved: what section 4 lists. What is left is proof, in this order:

1. `JoinsKeepNoLastToken` of definitions whose forks and joins are nested and whose rejections terminate, by weighing the tokens of each fork;
2. `CompletedMeansDone` of the same definitions when only their last join leads to an end event.
