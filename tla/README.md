# Formal model of the agentic control plane

TLA+ specifications of the control plane in `src/agentic_control_plane/`, the TLC
configurations that check them on small instances, and proofs that hold for every
instance. All paths below are relative to `src/agentic_control_plane/` unless they
start with `src/`.

## 1. The system

A message on a Kafka topic asks for a change to a repository. One worker thread
clones the repository, runs a LangGraph graph over the clone up to the next human
gate, and parks the run there. A decision message resumes it. When the graph ends the
worker delivers an approved change and publishes one outcome event. Everything
has to survive the process being killed at any point, because parked runs wait for
hours.

### Components

| Component | State | Operations | What makes it hard | What makes it correct |
|---|---|---|---|---|
| **Hand-off** (`consumer.poll_loop`, `Worker.submit`, `run_forever`, `restore_pending`, `inbox.py`) | offsets, consumer positions, paused partitions, bounded queue, rows of `work_inbox` | poll, parse, record + enqueue, refuse (seek + pause), resume, commit, take, forget, restore | two poll threads and a worker around one bounded queue; crashes and rebalances between INSERT, `put_nowait`, commit and DELETE; database failures | nothing committed is lost, nothing is left in memory only, no row is orphaned, partition order, backpressure is not a stall |
| **Run lifecycle** (`Worker.handle_*`, `_after_slice`, `_fail_run`, `_publish_outcome`, `sweep_stale_runs`, `runner.py`, `run_routing.py`, `run_targets.py`, `workspace.py`, `main._reconcile_workspaces`) | checkpoints, workspaces on disk, delivery targets, outcome events | start, resume, fail, deliver, report, sweep, reconcile | worker and sweep act on the same run; crashes between checkpoint and event; redelivered messages; two graph topologies read through one API; the routing table moves | a parked run keeps what it needs to go on; every trigger and decision is answered; a completed run was delivered and named; its report is final |
| **SDLC graph** (`graph.py`, `nodes/`, `tools.py`) | `GraphState`, the clone (HEAD, tracked, untracked, ignored files) | eleven nodes, five gates, retry / fallback / replan loop, commit, rollback | nodes re-executed after crashes while the disk keeps what they did; a late decision finds the checkpoint but no workspace; a fan-out that joins; loop bounds spread over five nodes | a failed run leaves the clone as it was; attempts are bounded; what is released was tested and approved |
| **Specialist graph** (`specialist_graph.py`, `specialist_invocation.py`, `publish.py`) | `SpecialistRunState`, output checkout, remote branch, pull request | design, generate, publish, two gates | publish works on the disk, the reviewer on a list cut to 200 names; crashes in clone, generate, publish; routes edited between nodes | nothing leaves without approval; what leaves is what the reviewer was asked about; what is reported published is there |
| **Audit trail** (`telemetry.py`, `Worker._record_audit`, `events.py`) | hash-chained file, chain head, one cursor per run, audit topic, producer | flush, forget, resume the chain, verify, publish | one file, many runs; failing and torn writes; sweep and worker share the cursors; restarts | the chain verifies; changes to it stay visible; no run is left out; the topic holds no more than the file |
| **Delivery** (`publish.py`, `_deliver_if_completed`) | remote branch, pull request | push, open pull request | partial failure | reported as it happened |
| **Events** (`events.py`) | lazily built producer, its buffer | outcome, audit, dead letter, flush | four threads build it lazily; it is slow or never comes; the buffer at shutdown | one producer; what an ended thread handed over is flushed |
| **Routing table, specialists** (`specialists.py`) | YAML, environment | load and check, match a route, probe the runtime | read again for every trigger and decision, while runs are parked; two spellings of one repository | every origin resolves to one defined specialist, whatever the order of the routes |
| **Supervision** (`main.py`, `heartbeat.py`) | threads, stop event, heartbeat file | start order, sweep loop, signals, drain, joins, flush, liveness probe | threads that die alone, a handler that never returns, waits with deadlines | it ends when told to; a stuck worker is noticed, a waiting one is not; a broken consumer is replaced |
| **Checkpointer** (`checkpointer.py`) | LangGraph's tables | read, write | external | one durable write per superstep |
| Guardrail patterns, test sandbox, prompts, metrics, logging, schemas, scripts, compose | none that interacts | | | |

### How they interact

    Kafka -> poll_loop -> inbox + queue -> Worker -> graph (SDLC or specialist)
                                             |          |-> checkpoint, workspace
                                             |-> audit sink -> file, audit topic
                                             |-> delivery -> remote repository
                                             '-> outcome event, forget target
    sweep thread  -> find_stale_runs -> outcome event, forget target, delete workspace
    start-up      -> reconcile workspaces -> restore_pending -> threads

The inbox hands the worker items in the order they were accepted, possibly more than
once (this is what `Handoff` shows and what `RunLifecycle` assumes). Which graph a run is
given is `RoutingTable`'s answer to its origin; `Supervision` starts, stops and restarts the
threads in which all this happens. The graphs turn
a slice into "parked", "ended" or "raised" (what `SdlcGraph` and `SpecialistGraph`
elaborate and `RunLifecycle` and `AuditTrail` assume).

## 2. Modules

| Module | Models |
|---|---|
| `Handoff` | the hand-off, one action per step between two points where a crash or another thread can come in |
| `HandoffProofs` | its proofs |
| `HandoffOrderProofs` | those about duplicates and order, over the invariant of `HandoffProofs` |
| `RoutingTable` | what a routing file loads as, and what an origin resolves to |
| `RoutingTableProofs` | its proofs |
| `RunLifecycle` | worker handlers, sweep thread, reconciliation, environment; extends `RoutingTable` |
| `RunLifecycleProofs` | its proofs |
| `GovernedChange` | the abstract promise: nothing is released without approval at the last gate, what was refused there is never released, a change that is not waiting for a decision gets to an end; one that was given up may be taken up again |
| `SdlcGraph` | one run through the SDLC graph; implements `GovernedChange` |
| `SdlcGraphProofs` | its proofs, the refinement's safety part included |
| `SpecialistGraph` | one run through the specialist graph; implements `GovernedChange` |
| `SpecialistGraphProofs` | its proofs, the refinement's safety part included |
| `AuditTrail` | sink, chain, cursors, audit topic, verification |
| `AuditTrailProofs` | its proofs |
| `Supervision` | the threads of a process, its shutdown and restart, the shared producer, the heartbeat |
| `SupervisionProofs` | its proofs |
| `MC...` | the sets used by the configurations of the same name |

### Correspondence with the code

* `Handoff`: `Poll`, `Reject`, `DeadLetter`, `Commit` and `SkipCommit` are the parts of
  `poll_loop`; `Record`, `Put` and `PutFull` are `submit`, cut where the row exists and
  the queue entry does not; `Take`, `Handle`, `Forget` are `run_forever`; `Restart` with
  `RestoredQueues` is `main` with `restore_pending`. A message is a partition and an
  offset. A rebalance and a crash share one bound because both reset positions.
* `RunLifecycle`: each handler is a chain of small steps (`wpc` is where the worker
  stands), because a crash or the sweep can come between any two of its calls. A
  checkpoint is what the runner can tell of it: none, at a node, at a gate, ended. An
  item is a run and the gate its decision was made for, so that a decision applied at
  another gate is visible. The routing table is a variable (`file`) that an operator edits
  between any two steps; `Start`, `Factory` and `Restart` read it as the code does, so one
  run can be of either graph and its table can be broken or point elsewhere when its
  decision arrives.
* `RoutingTable`: a file is absent, malformed, or a table. `Loads` is
  `load_routing_table` returning, `CheckReferentialIntegrity` its last step, `Resolve` and
  `IsExternal` are `resolve` and the `isinstance` test on its answer. Spellings are fold
  classes of `str.casefold`.
* `Supervision`: `pc` holds where each of the four threads stands in its loop, `pub` where
  it is inside `_get_producer`. A work item is counted only, and may hold the worker for
  ever. `Tick` is a second; the worker's `queue.get` waits no longer than that, so a tick
  cannot pass while an idle worker has a pass to make. `main`'s `finally` is the sequence
  `After`; each of its waits has a `timer`.
* `SdlcGraph`: one action per node and decision. A file is "base", "clean" or "bad" (a
  guardrail matches it). `interrupt()` is `Ask` followed by the node executed again with
  the decision. A crash undoes what the node did to the state and not what it did to the
  disk, so the node's partial effects on the disk are enumerated. `_fail_run` (`Raise`) and
  `sweep_stale_runs` (`Expire`) report the run and remove the workspace; the checkpoint stays,
  and `resume_run` with a late decision (`TakeUp`) goes on from it. The nodes then meet a
  directory that is missing (pytest and git cannot be started in it: `RaiseInMissingSpace`) or
  that a node made anew, without the clone's history and .gitignore (`space`).
* `SpecialistGraph`: one action per node and way it can end. What a specialist writes is
  abstracted to which of its invocations wrote it and to whether git ignores it. The files of the
  repository itself count only towards the length of the reviewer's list (`Listings`).
* `AuditTrail`: an event is a run and its number. The digest is a function without
  collisions. A slice of a run (`Slice`) is followed by the worker's `_record_audit`
  (`Flush`, `FlushFails`), `_publish_audit` (`GetProducer`, `Publish`, `Drop`) and
  `_publish_outcome` (`RetireRun`); the sweep's `Expire` may come in anywhere.

Definitions named `X_Something` with a comment "Mutant:" are forms of `X` that a bug
would give it; each property is violated when one of them takes the place of `X`.

## 3. Runs

| Run | Instance | Shows |
|---|---|---|
| `handoff_crash` | one consumer, 3 messages (one malformed), queue of 2, 2 crashes / rebalances / dying loops, 1 database fault | `NoLoss`, `QueuedIsDurable`, order per partition, and that every message is handled |
| `handoff_pollers` | two consumers, 2 messages each, queue of 1, 1 database fault | two threads race for the last slot: no row orphaned, nothing duplicated or stalled |
| `lifecycle_run` | one run with 2 gates, of either graph; any 3 of a crash, a redelivery, an expiry, a failing call, an edit of the routing table (none, one that routes the target out, one that does not load) | a parked run keeps workspace and target, a completed SDLC run was delivered once, the first event is named, completion is final, triggers, decisions and overdue SDLC runs are answered |
| `sdlc_graph` | one run in each scenario, one new and one ignored file, 2 retries, 1 crash; any number of raises, expiries and late decisions | `RollbackRestores`, `AttemptsBounded`, `ReleasedAsTested`, and the graph implements `GovernedChange` |
| `specialist_graph` | one run, every publish mode, 2 repositories, 3 crashes, 2 edits of the routes, a list of 5 names for up to 8 generated and 2 other files | `NothingLeavesUnapproved`, `PublishedAsReviewed`, `PublishedIsThere`, and the graph implements `GovernedChange` |
| `audit_trail` | 2 runs of 2 events, any 3 of crash, failing write or send, expiry, change by someone else | `ChainVerifies`, `TamperingIsSeen`, `CursorIsRecorded`, `TopicWithinFile`, `RunsAreAudited` |
| `supervision_process` | four threads, two of which publish, queue of 1, waits of 1 tick, 1 of a signal, a kill, a failing commit, a broken client | `StopEndsProcess`, `StuckWorkerIsSeen`, `IdleIsHealthy`, `BrokenTriggersRecover`, `OneProducer`, `FlushedAtExit` |

Runs that are expected to find a violation, each one statement of the
documentation that the code does not keep:

| Run | Statement | What happens |
|---|---|---|
| `lifecycle_wronggate` | ADR 0010: a second copy of a message "is a no-op against the checkpointer" | a decision replayed after a crash is applied to the next gate (`consumer.py:455`), and a change is delivered that nobody approved for release |
| `lifecycle_unreported` | system-design: every run "terminates in exactly one reported state, including on crash" | a crash between the terminal checkpoint and the event; the replayed decision is refused as already terminal (`consumer.py:467`) |
| `lifecycle_overdue` | system-design: a sweep "expires runs parked past the TTL" | `find_stale_runs` reads specialist checkpoints by the SDLC topology and never finds them (`runner.py:245`) |
| `sdlc_guardrails` | release_gate: the merge is blocked "whenever violations exist" | guardrails see the last attempt's files (`nodes/release_gate.py:29`), the commit takes all files on disk |
| `supervision_decisions` | `consumer.py:74`: a consumer that cannot poll "should fail loudly instead of looping quietly forever"; ADR 0004: restarting the process is the recovery | the decision loop raises on a daemon thread (`main.py:147`): the thread ends, the process and its heartbeat do not, and no decision is read again |

### Bounds, and why they are enough

* **Hand-off.** Three messages and a queue of two give every position of a refused
  message: before, inside and behind a batch. Two crashes let a restart be interrupted by
  the next. `Ids` is larger than what a behaviour can use up, so it never blocks a step.
  Crashes and two consumers together exceed what TLC can go through, so each has its run;
  the proofs cover the combination for safety.
* **Lifecycle.** Two gates are the least number at which a decision can meet the wrong
  one. One crash is enough for each of the divergences. One of each trouble, three at most
  together, lets every pair meet with a third in between; the items of a single run already
  make the worker, the sweep and the restart meet. The proofs cover several runs, whose
  items take turns in the worker, and every number of troubles.
* **SDLC graph.** Two files tell a committed file from an ignored one, and `Doc` is a
  third path that a node other than the coder writes. Two retries reach the retry limit,
  the fallback and the rollback behind it. The second crash adds nothing that the first
  one's choice of place does not (its partial effects are sets). How often a run is lost and
  taken up again needs no bound: losing it always leaves the same missing workspace. The run has
  half a million states.
* **Specialist graph.** Three crashes allow one each in clone, generate and publish. With one
  invocation the list is never full, with two it is shorter than the limit, just as long or
  cut, as the other files have it, and with more it is always cut.
* **Audit trail.** Two runs interleave, two events per run make partial writes partial.
  A run that raises does so once, and one change is made by someone else, since a
  second one may undo the first. Runs are alike, so they are symmetric.
* **Supervision.** One item in the queue tells a drained queue from one that is not. A
  deadline of one tick is reached by the clock and can be missed by what is waited for,
  which is all that a deadline does; so is an age of one. Two failures let a poll fail
  without the loop giving up. Two publishers, one of which main joins with success and one
  it may give up on, are enough for two constructions. One trouble, because each ends a
  process: what follows is a new one, and `trouble` counts over all of them.

### Fairness, and what justifies it

* `Handoff` (`FairSpec`): each thread's loop goes on (weak), a crashed process is
  restarted by its supervisor (weak, compose restarts the container), and a poll of an
  unpaused partition with messages eventually returns some. The last is strong fairness,
  since another partition's messages or a failing poll may come in between: the broker is
  assumed reachable again and again. A dead poll loop owes nothing, and
  `EveryMessageHandled` excepts its partitions.
* `RunLifecycle`: the worker, the sweep and the restart (weak). Producers, reviewers and
  faults owe nothing, so the liveness properties speak of messages that were sent.
* `SdlcGraph` and `SpecialistGraph`: weak fairness of everything the worker executes,
  answered gates included. For the SDLC graph a gate that is not answered expires (an
  alternative of the same action). Nobody owes the decision that takes a lost run up again, nor
  one to a run that was taken up and is parked again without a workspace, where the sweep does
  not find it (`Due`); both are "stopped" in `GovernedChange`, whose `Progress` leaves them out.
  A specialist run never expires, as `lifecycle_overdue`
  shows, so there the progress of `GovernedChange` does depend on the reviewer; its
  `Progress` leaves the waiting at the release gate out.
* `AuditTrail` has no liveness property: publishing is best effort.
* `Supervision`: every loop turns, a publish call returns (its wait is bounded) and time
  passes (weak). A handler, the construction of a producer and the broker owe nothing. The
  restart is fair only after an end that nobody asked for, which is what
  `restart: unless-stopped` says.

## 4. Proofs

TLAPS proves, for all values of the constants that the named assumptions admit:

| Theorem | Statement |
|---|---|
| `HandoffProofs!TypeCorrect` | `Spec => []TypeOK`, the bound of the queue included |
| `HandoffProofs!MessagesAreNotLost` | `Spec => []NoLoss` |
| `HandoffProofs!QueuedWorkIsDurable` | `Spec => []QueuedIsDurable` |
| `HandoffProofs!NoRowIsOrphaned` | `Spec => []RowsAccountedFor` |
| `HandoffOrderProofs!NothingIsDeliveredTwice` | `Spec => []NoDuplicateWork` |
| `HandoffOrderProofs!NothingOvertakes` | `Spec => TakenInOrder`, a property of steps |
| `RoutingTableProofs!IntegrityIsWhatItSays` | a table passes the check exactly when its default is builtin, every route names a defined specialist and no two routes name one repository |
| `RoutingTableProofs!ResolvesToDefined` | in a checked table every origin resolves to a specialist that it defines |
| `RoutingTableProofs!ResolveIgnoresOrder` | the order of the routes of a checked table does not matter |
| `RoutingTableProofs!ResolveIgnoresSpelling` | two checked tables with the same routes, up to their order and the spelling of the repositories, resolve every origin alike, however it is spelled |
| `RunLifecycleProofs!TypeCorrect` | `Spec => []TypeOK` |
| `RunLifecycleProofs!ParkedRunsKeepWorkspace` | `Spec => []ParkedHasWorkspace` |
| `RunLifecycleProofs!ParkedRunsKeepTarget` | `Spec => []ParkedHasTarget` |
| `RunLifecycleProofs!CompletedRunsAreDelivered` | `Spec => []CompletedIsDelivered` |
| `RunLifecycleProofs!FirstReportsAreNamed` | `Spec => []FirstOutcomeIsNamed` |
| `RunLifecycleProofs!CompletionIsFinal` | `Spec => CompletedIsFinal`, a property of steps |
| `SupervisionProofs!TypeCorrect` | `Spec => []TypeOK` |
| `SupervisionProofs!IdleReadsAsHealthy` | `Spec => []IdleIsHealthy` |
| `SupervisionProofs!OneProducerIsBuilt` | `Spec => []OneProducer` |
| `SupervisionProofs!EndedThreadsAreFlushed` | `Spec => []FlushedAtExit` |
| `SdlcGraphProofs!TypeCorrect` | `Spec => []TypeOK` |
| `SdlcGraphProofs!RollbackRestoresClone` | `Spec => []RollbackRestores` |
| `SdlcGraphProofs!AttemptsAreBounded` | `Spec => []AttemptsBounded` |
| `SdlcGraphProofs!ReleaseIsTested` | `Spec => []ReleasedAsTested` |
| `SdlcGraphProofs!KeepsGovernedChange` | `Spec => GC!Init /\ [][GC!Next]_(GC!vars)`: the safety part of the refinement |
| `SpecialistGraphProofs!TypeCorrect` | `Spec => []TypeOK` |
| `SpecialistGraphProofs!ReleaseNeedsApproval` | `Spec => []NothingLeavesUnapproved` |
| `SpecialistGraphProofs!ReviewCoversBranch` | `Spec => []PublishedAsReviewed` |
| `SpecialistGraphProofs!ReportedBranchExists` | `Spec => []PublishedIsThere` |
| `SpecialistGraphProofs!KeepsGovernedChange` | `Spec => GC!Init /\ [][GC!Next]_(GC!vars)`: the safety part of the refinement |
| `AuditTrailProofs!TypeCorrect` | `Spec => []TypeOK` |
| `AuditTrailProofs!UntouchedChainVerifies` | `Spec => []ChainVerifies` |
| `AuditTrailProofs!TamperingStaysVisible` | `Spec => []TamperingIsSeen` |
| `AuditTrailProofs!CursorStandsForRecords` | `Spec => []CursorIsRecorded` |
| `AuditTrailProofs!TopicHoldsNoMore` | `Spec => []TopicWithinFile` |
| `AuditTrailProofs!IdleMeansAudited` | `Spec => []RunsAreAudited` |

**Hand-off.** `NoLoss` ("a committed message was handled, dead-lettered or has a row") is
not inductive: the commit stores positions, so one has to know that everything before
the position of a poll loop at the end of its batch is accounted for. `HandoffInv` says
so (`CoveredUpToNext`: everything before `next` is handled, dead-lettered or recorded),
and what makes it stable: a row has one holder, two rows never share an id
(`OneRowOneHolder`), and a row being submitted is for the message its loop stands at
(`RowsMatchTheirMessages`), so that discarding a refused row takes nothing else away.
`RowsAccountedFor` needs one fact more, that a poll loop submits one row at a time
(`RowsInv`). Assumptions: `HandoffAssumption`.

`NoDuplicateWork` needs to know where the messages in memory stand (`OnceInv`): as long as
nothing replayed a message, what the queue and the worker hold was read before `next`, a
poll loop never stands beyond its own batch, and what it is submitting belongs to that batch. So the rewind to a
refused message takes back nothing that was accepted. `TakenInOrder` is about one step,
`Take`, but what it needs was established long before (`OrderInv`): the ids of the inbox
follow the order of a partition (`RowsInOrder`), because a row that is being submitted is
the newest of its partition (`SubmittedIsNewest`) - this is what lets `restore_pending`
rebuild the order from the ids after a crash; and what comes before a message that was
queued or read was taken, or is ahead of it (`QueueInOrder`, `ReadInOrder`).

**Routing table.** No behaviour, but operators: `IntegrityIsWhatItSays` restates the check,
which the code writes as a loop that compares a route with the earlier ones, without an
order; the other theorems follow, since at most one route matches an origin.
`ResolveIgnoresSpelling` needs that the check compares folded names, as `resolve` does: a check on
the names as written would load a table with two routes for one repository, and their order
would decide. The
configurations' tables satisfy `RoutingAssumption`.

**Run lifecycle.** `IInv` says what the code's order of calls achieves. The target is
recorded before the clone, the clone made before the first checkpoint, and both are
taken away only after a report; so what has a checkpoint and was not reported has both
(`TargetInv`, `WorkspaceInv`), in every step of the handler in between. The sweep works
on a list that may be out of date: it is enough that its runs have a checkpoint, and that
what it removes was reported (`SweepInv`). Pushing comes after the last checkpoint and
before the report (`DeliveryInv`), and an ended run is never at a step that leads to a
report (`WorkerInv`, `FinalInv`). A crash keeps all of it, because all of it is about
durable state. Workspaces, names and finality need `faults = 0`: a failing read at
reconciliation deletes a parked workspace, for instance. Assumptions:
`LifecycleAssumption`.

**Supervision.** The flush is sound because a thread publishes from inside its loop only
(`PublishesFrom`), so that one that main saw end adds nothing to the buffer, and because
what is in the buffer when the flush begins is what it waits for (`Marked`). A waiting
worker has touched the file at most a tick ago (`FreshWhenIdle`). Assumptions:
`SupervisionAssumption`.

**SDLC graph.** Which node may run next is spread over the routing functions; `OneNode`
says that it is one, or the two that run in parallel, and none exactly when the run is
over. An attempt is counted when the coder has made it, the retries and the fallback that
pay for it are counted two nodes later: `AttemptsPaidFor` says where in between the
balance stands at what. `RollbackRestores` needs that `before` is unset or the revision of the
clone, and that HEAD is where it was until the last gate (`NothingCommitted`): a commit whose
node crashed is then undone by the reset. `ReleasedAsTested` needs that nothing writes
code between the test run and the gate (`TestedIsThere`); the documentation node, which
runs in parallel to the tests or after them, writes `Doc` only. All three have to hold of runs
that lost their workspace and were taken up again: a directory that is no clone never gets its
code back unless the coder writes it, so between the tests and the gate it has what was
tested or none of it (`CodeGone`); and `git reset` to a revision of the clone fails in it, so
a rollback there safe-stops or raises. For the refinement, a decision at the last
gate is one that no node but the rollback follows, and that stays so however often the rollback
is given up and taken up: so a refused run is never released. Assumptions: `SdlcAssumption`. It says
that there is a code file and that `Doc` is none: `nodes/documentation.py:55` writes
`docs/CHANGE_<run>.md`, which is not what the tests run on.

**Specialist graph.** `IInv` adds to the three properties: nothing is decided or sent up
to the release gate (`NothingYet`), an invocation beyond the first was paid for by a crash
(`InvocationsPaidFor`, which bounds the attempts), behind `generate` a checkout has files
to commit and an origin and, while the route was not edited, it is the route's (`Placed`), and from
the moment the reviewer is asked the directory stays as it was then, and is what was listed
if the list was not full (`ShownIsThere`). What the reviewer can rely on is no more than that:
a list shorter than the limit names all that is pushed, and some ignored files besides; one of
200 names may name nothing that is pushed. A change
counts as "released" when `publish` committed it, whoever let it get there; so the
refinement says that only an approval does. It needs `NothingYet` and `Placed`: the
verdict is "none" in every state mapped to "working", and a run that did not get through
`publish` has committed nothing. Assumptions: `SpecialistAssumption`.

**Audit trail.** Two invariants over the types (`Types`, which adds that a record's number is
natural, so that a sink resumed on any file counts on from a number). `FileInv` is about the chain: as
long as no write failed or tore and nobody changed the file, it verifies *and* the sink's head is
where it ends (`HeadOfFile`), so that what is appended fits; once changed, the line at
which it breaks stays in front of what is appended, whose own links do not matter
(`WriteKeepsBreak`). That each of the changes breaks it is `TamperBreaks`: an altered event changes the digest,
because a digest is an `Append` and those are injective; a recomputed one no longer is the
`prev` of the next line; a line that moved up has the wrong number. `TornLines` says that
only a crash or a failed write leaves a line that is no record. `RecordInv` is about the
events: those behind a cursor, those about to be published and those on the topic are in
the file, and those of a checkpoint are unless the worker is about to write them
(`AuditedOrFlushing`). A forgotten cursor is 0 and claims nothing, which is why the sweep
may forget it under the worker. Assumptions: `AuditAssumption`. That SHA-256 has no
collisions is not among them but in the model: `Digest` is injective.

Every invariant and every property of steps that a run checks is proved.
Only model-checked: liveness (`EveryMessageHandled`, `TriggerAnswered`, `DecisionAnswered`,
`OverdueIsReported`, `StuckWorkerIsSeen`, `StopEndsProcess`, `BrokenTriggersRecover`), because the
proof system has no rules for fairness and ENABLED, and with it the progress part of
`GovernedChange` in both refinements. What a definition by recursion or a fold computes for
every input would need induction over data, which the available provers cannot
instantiate; no theorem depends on one.

## 5. Divergences between code and documentation that no run shows

Found while modelling, and kept out of the runs to keep these few:

* `consumer.py:360`: `restore_pending` stops when the queue is full; new work then
  overtakes the rows left behind, although `consumer.py:333` says recovered work is
  handled first. `stranded` in `Handoff` holds those rows, and `TakenInOrder` and
  `EveryMessageHandled` except them.
* `specialist_graph.py:237`: a clone of the output repository that a crash cut short has a
  `.git` directory and is reused; `specialist_graph.py:227` promises "a real checkout".
* `main.py:165`: `stop_event` is set before `_drain`, so no thread empties the queue that
  the drain waits for: `main.py:14` says that in-flight work is drained and `main.py:179`
  that queued work gets a chance to finish, but the drain looks at the queue alone and
  waits its thirty seconds for nothing. `docker stop` kills after ten of them, as the
  compose file sets no longer grace period. `main.py:190` calls what is left lost; since
  the inbox it is not (`NoLoss`).
* `checkpointer.py:120`: the context closes the checkpointer under a worker that outlives its
  join; the handler then raises, and `_fail_run` may report the run as failed and remove its
  workspace before the process is gone.
* `main.py:174`: what a thread that outlives its join publishes after the flush is lost;
  `FlushedAtExit` speaks of the others.
* `consumer.py:821`: `consumer.commit` is unguarded and its exception ends the loop, for
  decisions silently; ADR 0004 says the last unguarded call was closed.
* `consumer.py:507`: a run that raised is reported without its audit events being recorded;
  the README (`src/README.md:386`) promises a trail of every node execution.
* `run_routing.py:173`: a parked run whose target is routed to *another* external specialist is
  not refused; that one generates from the design of the first, which the comment there
  calls silently substituting one for the other.
* `consumer.py:473`: a table that does not load when a decision arrives is handled by `_fail_run`: the
  parked run is reported failed and loses its workspace, while for a trigger the comment at
  `consumer.py:424` says such a table "must not look like a failed run".
* `consumer.py:648`: the change of a completed run is discarded if its target cannot be read at that
  moment, and the run reported completed.
* `consumer.py:375`: a database error in `already_known` escapes to the worker loop, whose
  `finally` forgets the row; `workspace.py:181`: a failing `git config` is no `CloneError`
  and does the same. Both are actions of `RunLifecycle` (`faults`).
* `run_routing.py:152`: an unreadable checkpoint counts as an SDLC run: a decision is
  ignored, or a parked workspace deleted at start-up (the second disjunct of `Restart`).
* `events.py:80`: an outcome event or a dead letter is dropped if the producer takes more
  than a second to construct, and for the life of the process if it fails once; these drops
  are not counted, although `events.py:7` says failures are. `retries=3` without
  idempotence may also reorder a run's events, which the model of the buffer leaves out.
* Outcomes `routing_failed` and `routing_changed` are not in the documented list; a run may
  get two outcomes (`stale` and then a late decision's; `failed` and then a late
  decision's).
* `runner.py:219`: a late decision resumes an SDLC run that was reported stale or failed. Approved at
  its last gate it ends `completed`: `git_init_if_needed` (`tools.py:195`) makes the missing
  directory anew, the commit holds none of the code (`ReleasedAsTested`, second disjunct), and nothing is
  delivered, as the report forgot the target. `nodes/release_gate.py:9` says that an approval
  "commits code and docs together as one real commit". If it parks again before it has a
  workspace, it never expires: the sweep looks for runs among the workspaces
  (`consumer.py:515`), because "a parked run always has one".
* A rejection at the clarification, impact or plan gates is recorded and the run goes on;
  a rejected specialist run is reported `completed`.
* `specialist_graph.py:393`: the reviewer is shown the first 200 names in the directory, those of the
  repository's own files and of files that git ignores among them; what is behind them is
  pushed unseen. `docs/` and the gate's payload do not say that the list is cut.
  `PublishedAsReviewed` claims it complete only when it is shorter.
* `telemetry.py:233`: after a failed or torn write the chain stays broken at that point for
  good, a record appended to a torn line is lost although its cursor says it was
  written, and a restart writes the events of parked runs again.

## 6. Not modelled

* Contents of messages, prompts, plans, model output; the guardrail expressions; what
  pytest does. They are choices in the models.
* The YAML of the routing table (a file is accepted by the schema or not), and the probe of
  a specialist's runtime, which is part of an invocation's outcome.
* Checkpoint serialisation; LangGraph itself, kafka-python, PostgreSQL, git and GitHub are
  modelled as the code uses them.
* Metrics and logging, which no decision depends on; scripts, compose files, images.
* Outcome events and dead letters that the producer drops are dropped in `Supervision` and
  in `AuditTrail`; `RunLifecycle` and `Handoff` take a publish as delivered.
* The history of the output repository: that a half-cloned checkout has none is a
  divergence above and not a property.

## 7. Plan

1. Done: the seven component modules, the abstract promise, the proofs above.
2. Done: proofs about every component, both refinements of `GovernedChange` included.
3. A composition of `Handoff` and `RunLifecycle` through an abstract queue that delivers
   in order and at least once.

## 8. Running

    tlc -workers 2 -config MCHandoff_crash.cfg MCHandoff
    tlapm HandoffProofs.tla
    tlapm RunLifecycleProofs.tla

The longest run takes about two minutes on two cores; the proofs a few minutes each.
