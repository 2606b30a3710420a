----------------------------- MODULE RunLifecycle -----------------------------
(***************************************************************************)
(* The life of a run, from its trigger to its outcome event: the worker's  *)
(* handlers (consumer.Worker.handle_trigger, handle_decision), the runner  *)
(* they call, the checkpoint, the workspace and the delivery target a run  *)
(* leaves behind, the TTL sweep thread and the reconciliation at startup.  *)
(*                                                                         *)
(* A graph is abstracted to what the runner can tell of it: a checkpoint   *)
(* whose next is a plain node, a gate, or empty.  The two topologies are   *)
(* modelled in SdlcGraph and SpecialistGraph.  The work items come from    *)
(* the durable hand-off of module Handoff: an item is executed in the      *)
(* order it was accepted, is forgotten only after its handler returned,    *)
(* and may be delivered more than once.                                    *)
(*                                                                         *)
(* External (LangGraph): every superstep ends with a checkpoint; a resume  *)
(* value is consumed by the gate the run is parked at and discarded when   *)
(* the run is at a plain node; a node that raises leaves a checkpoint that *)
(* may or may not show pending work.                                       *)
(***************************************************************************)
EXTENDS RoutingTable, FiniteSets

CONSTANTS
  Runs,           \* the run ids
  Origin,         \* Origin[r]: the repository r's trigger names
  Files,          \* the routing tables the operators may put in place
  Gates,          \* the number of gates a run passes on its way to completion
  MaxCrashes,     \* BOUND: crashes of the process
  MaxDuplicates,  \* BOUND: messages delivered again, or for no run of ours
  MaxAges,        \* BOUND: times a parked run outlives PARKED_RUN_TTL
  MaxFaults,      \* BOUND: database and git calls that fail unexpectedly
  MaxReroutes,    \* BOUND: edits of the routing table
  MaxTrouble      \* BOUND: all of these together

ASSUME LifecycleAssumption ==
  /\ Gates \in Nat \ {0}
  /\ MaxCrashes \in Nat /\ MaxDuplicates \in Nat /\ MaxAges \in Nat
  /\ MaxFaults \in Nat /\ MaxReroutes \in Nat /\ MaxTrouble \in Nat
  /\ Origin \in [Runs -> Spellings]
  /\ \A file \in Files : file.doc \in {"absent", "malformed", "table"} /\ file.table \in Table

\* A work item: <<run, 0>> is its trigger, <<run, n>> the decision that a
\* reviewer of gate n made.
Items == Runs \X (0..Gates)

\* What an outcome event reports.  The last three are not in the list of
\* terminal states that ADR 0003 gives.
States == {"completed", "failed", "safe_stop", "clone_failed", "stale",
           "routing_failed", "routing_changed"}
\* named: the event carries the run's repository, not "unknown".
Outcome == [state : States, named : BOOLEAN]

VARIABLES
  \* Durable.
  at,        \* at[r]: the checkpoint's next: "none" (no checkpoint), "node",
             \* "gate", or "end" (empty)
  gate,      \* gate[r]: how many gates the run has reached
  kind,      \* kind[r]: the topology that wrote the checkpoint
  old,       \* old[r]: the checkpoint is older than the TTL
  targets,   \* the runs with a row in run_targets
  todo,      \* the accepted work items, oldest first
  \* The volume of workspaces; survives a restart.
  ws,
  \* Configuration.
  file,      \* the routing table, read again for every trigger and decision
  \* The worker thread: it is executing Head(todo) unless idle.
  wpc,
  verdict,   \* the outcome it is about to publish
  tidy,      \* it removes the workspace after publishing
  \* The sweep thread.
  spc,
  stale,     \* the rest of find_stale_runs' answer
  expiring,  \* the run it is expiring, if any
  up,        \* the process is running
  \* Observations.
  sent,      \* the items produced so far
  outcomes,  \* outcomes[r]: the outcome events published for r, in order
  delivered, \* delivered[r]: pushes of r's change by the worker
  decidedBy, \* decidedBy[r][g]: the gates whose decision was applied at gate g
  crashes, duplicates, ages, faults, reroutes

ckptVars   == <<at, gate, kind, old>>
workVars   == <<wpc, verdict, tidy>>
sweepVars  == <<spc, stale, expiring>>
boundVars  == <<crashes, duplicates, ages, faults, reroutes>>
vars == <<ckptVars, targets, todo, ws, file, workVars, sweepVars, up,
          sent, outcomes, delivered, decidedBy, boundVars>>

Init ==
  /\ at = [r \in Runs |-> "none"]
  /\ gate = [r \in Runs |-> 0]
  /\ kind = [r \in Runs |-> "sdlc"]
  /\ old = [r \in Runs |-> FALSE]
  /\ targets = {} /\ todo = << >> /\ ws = {} /\ file \in Files
  /\ wpc = "idle" /\ verdict = "failed" /\ tidy = FALSE
  /\ spc = "idle" /\ stale = {} /\ expiring = {}
  /\ up = TRUE
  /\ sent = {}
  /\ outcomes = [r \in Runs |-> << >>]
  /\ delivered = [r \in Runs |-> 0]
  /\ decidedBy = [r \in Runs |-> [g \in 1..Gates |-> {}]]
  /\ crashes = 0 /\ duplicates = 0 /\ ages = 0 /\ faults = 0 /\ reroutes = 0

-----------------------------------------------------------------------------
(* Helpers. *)

Job == Head(todo)
Run == Job[1]

\* run_routing.is_specialist_run
Specialised(r) == kind[r] = "specialist"

\* runner.is_resumable under the run's own topology: the checkpoint exists and
\* its next is not empty.
HasNext(r) == at[r] \in {"node", "gate"}

\* Mutant: the default, as it was before the fix main.py:73-87 tells of.  A
\* specialist checkpoint read by the SDLC topology shows an empty next.
Resumable_Sdlc(r) == ~Specialised(r) /\ HasNext(r)

\* repository_name(git_remote_url(workspace)): there is no origin without a workspace.
OriginOf(r) == IF r \in ws THEN Origin[r] ELSE NoOrigin

RoutedOut(r) == IsExternal(Loaded(file), OriginOf(r))

\* is_resumable as reconciliation asks it.  For a specialist run it may raise: the
\* table does not load, or routes elsewhere.  workspace.reconcile then keeps the
\* workspace.
Resumable(r) ==
  \/ Specialised(r) /\ ~(Loads(file) /\ RoutedOut(r))
  \/ HasNext(r)

\* Mutant: a run parked at a gate is taken for one in progress.
Stale_NotGates(r) == ~Specialised(r) /\ at[r] = "node" /\ old[r]

\* The sweep asks without naming a topology, so it reads every checkpoint by the
\* SDLC one: parked_since of a specialist run is None.
Stale(r) == ~Specialised(r) /\ HasNext(r) /\ old[r]

At(step) == up /\ wpc = step /\ todo # << >>

\* The worker reports state, and then removes the workspace if clean.
Reporting(state, clean) ==
  /\ wpc' = "publish" /\ verdict' = state /\ tidy' = clean

Goto(step) == wpc' = step /\ UNCHANGED <<verdict, tidy>>

Spare == crashes + duplicates + ages + faults + reroutes < MaxTrouble
Fault == Spare /\ faults < MaxFaults /\ faults' = faults + 1
NoFault == UNCHANGED faults

\* The variables no step of the worker changes.
WorkerFrame == UNCHANGED <<file, sweepVars, up, sent, crashes, duplicates, ages, reroutes>>

-----------------------------------------------------------------------------
(* handle_trigger *)

\* run_forever takes the next item and dispatches on its type.
Take ==
  /\ up /\ wpc = "idle" /\ todo # << >>
  /\ Goto(IF Job[2] = 0 THEN "known" ELSE "factory")
  /\ UNCHANGED <<ckptVars, targets, todo, ws, outcomes, delivered, decidedBy>>
  /\ NoFault /\ WorkerFrame

\* What runner.already_known decides.
AfterKnown == IF at[Run] # "none" THEN "done" ELSE "record"

Known ==
  /\ At("known")
  /\ \/ Goto(AfterKnown) /\ NoFault
     \* The read fails: nothing catches it before run_forever, which logs it.
     \/ Goto("done") /\ Fault
  /\ UNCHANGED <<ckptVars, targets, todo, ws, outcomes, delivered, decidedBy>>
  /\ WorkerFrame

RecordTarget ==
  /\ At("record")
  /\ \/ /\ targets' = targets \cup {Run}
        /\ Goto("clone") /\ NoFault
     \/ /\ Reporting("failed", FALSE) /\ Fault
        /\ UNCHANGED targets
  /\ UNCHANGED <<ckptVars, todo, ws, outcomes, delivered, decidedBy>>
  /\ WorkerFrame

\* clone_for_run.  _record_target after it only adds the commit to the row.
Clone ==
  /\ At("clone")
  /\ ws' = ws \cup {Run}
  /\ Goto("plan") /\ NoFault
  /\ UNCHANGED <<ckptVars, targets, todo, outcomes, delivered, decidedBy>>
  /\ WorkerFrame

\* git clone fails or times out: CloneError, and nothing is left on disk.
CloneFails ==
  /\ At("clone")
  /\ ws' = ws \ {Run}
  /\ Reporting("clone_failed", FALSE) /\ NoFault
  /\ UNCHANGED <<ckptVars, targets, todo, outcomes, delivered, decidedBy>>
  /\ WorkerFrame

\* Any other exception on the way (mkdir, removing the old tree, git config with
\* check=True) is not a CloneError: run_forever logs it and that is all.
CloneRaises ==
  /\ At("clone")
  /\ ws' \in {ws \cup {Run}, ws \ {Run}}
  /\ Goto("done") /\ Fault
  /\ UNCHANGED <<ckptVars, targets, todo, outcomes, delivered, decidedBy>>
  /\ WorkerFrame

\* plan_for_trigger picks the topology, and start_run writes the first checkpoint.
Start ==
  /\ At("plan") /\ Loads(file)
  /\ at' = [at EXCEPT ![Run] = "node"]
  /\ kind' = [kind EXCEPT ![Run] = IF RoutedOut(Run) THEN "specialist" ELSE "sdlc"]
  /\ old' = [old EXCEPT ![Run] = FALSE]
  /\ Goto("slice") /\ NoFault
  /\ UNCHANGED <<gate, targets, todo, ws, outcomes, delivered, decidedBy>>
  /\ WorkerFrame

\* The routing table does not load.  The workspace stays until the next restart.
RoutingFails ==
  /\ At("plan") /\ ~Loads(file)
  /\ Reporting("routing_failed", FALSE) /\ NoFault
  /\ UNCHANGED <<ckptVars, targets, todo, ws, outcomes, delivered, decidedBy>>
  /\ WorkerFrame

-----------------------------------------------------------------------------
(* handle_decision *)

\* A specialist run whose workspace is gone has no origin to route by, and so routes
\* to the default like a run that was routed away.  A run that another external
\* specialist is routed to meanwhile is not refused: that one goes on with it.
Refused(r) == Specialised(r) /\ ~RoutedOut(r)

\* graph_factory_for_existing_run.  An SDLC run has nothing to look up.
Factory ==
  /\ At("factory")
  /\ \/ /\ ~Specialised(Run) \/ (Loads(file) /\ ~Refused(Run))
        /\ Goto("resume") /\ NoFault
     \/ /\ Loads(file) /\ Refused(Run)
        /\ Reporting("routing_changed", FALSE) /\ NoFault
     \* The table does not load: _fail_run, as if the graph had raised.
     \/ /\ Specialised(Run) /\ ~Loads(file)
        /\ Reporting("failed", TRUE) /\ NoFault
     \* A read that fails is an empty checkpoint: under the SDLC topology the run looks
     \* terminal, and the decision is dropped.
     \/ /\ Specialised(Run)
        /\ Goto("done") /\ Fault
  /\ UNCHANGED <<ckptVars, targets, todo, ws, outcomes, delivered, decidedBy>>
  /\ WorkerFrame

\* Mutant: a run that has passed a gate counts as terminal.
AfterResume_PastFirst ==
  IF at[Run] \in {"none", "end"} \/ gate[Run] > 1 THEN "done" ELSE "slice"

\* runner.resume_run: UnknownRunError and RunAlreadyTerminalError are ignored.
AfterResume == IF HasNext(Run) THEN "slice" ELSE "done"

\* Mutant: a completed run is resumed again, and completes again.
Resume_NoGuard ==
  /\ At("resume")
  /\ IF at[Run] = "end" THEN wpc' = "deliver" /\ verdict' = "completed" /\ tidy' = TRUE
                       ELSE Goto(AfterResume)
  /\ NoFault
  /\ UNCHANGED <<ckptVars, targets, todo, ws, outcomes, delivered, decidedBy>>
  /\ WorkerFrame

Resume ==
  /\ At("resume")
  /\ \/ Goto(AfterResume) /\ NoFault
     \* get_state raises: the run is reported failed, though it is still parked.
     \/ Reporting("failed", TRUE) /\ Fault
  /\ UNCHANGED <<ckptVars, targets, todo, ws, outcomes, delivered, decidedBy>>
  /\ WorkerFrame

-----------------------------------------------------------------------------
(* The graph, one superstep at a time, and what follows a slice. *)

Checkpoint(next) ==
  /\ at' = [at EXCEPT ![Run] = next]
  /\ old' = [old EXCEPT ![Run] = FALSE]
  /\ UNCHANGED kind

\* The gate the run is parked at consumes the decision, whichever gate the
\* decision was made for.
PassGate ==
  /\ At("slice") /\ at[Run] = "gate"
  /\ Checkpoint("node")
  /\ decidedBy' = [decidedBy EXCEPT ![Run][gate[Run]] = @ \cup {Job[2]}]
  /\ Goto("slice") /\ NoFault
  /\ UNCHANGED <<gate, targets, todo, ws, outcomes, delivered>>
  /\ WorkerFrame

\* Mutant: the last gate sends the run back to a gate it never left.
Park_Again ==
  /\ At("slice") /\ at[Run] = "node" /\ gate[Run] <= Gates
  /\ Checkpoint("gate")
  /\ gate' = [gate EXCEPT ![Run] = @ + 1]
  /\ Goto("done") /\ NoFault
  /\ UNCHANGED <<targets, todo, ws, outcomes, delivered, decidedBy>>
  /\ WorkerFrame

\* The graph interrupts at its next gate; _after_slice records the audit events
\* and is done.
Park ==
  /\ At("slice") /\ at[Run] = "node" /\ gate[Run] < Gates
  /\ Checkpoint("gate")
  /\ gate' = [gate EXCEPT ![Run] = @ + 1]
  /\ Goto("done") /\ NoFault
  /\ UNCHANGED <<targets, todo, ws, outcomes, delivered, decidedBy>>
  /\ WorkerFrame

\* An SDLC run completes when it has passed every gate, a specialist run also when its
\* design is rejected, or has nowhere to be published.
MayComplete == IF Specialised(Run) THEN gate[Run] > 0 ELSE gate[Run] = Gates

\* The graph ends.
End ==
  /\ At("slice") /\ at[Run] = "node"
  /\ Checkpoint("end")
  /\ \E v \in {"failed", "safe_stop"} \cup (IF MayComplete THEN {"completed"} ELSE {}) :
        wpc' = "deliver" /\ verdict' = v /\ tidy' = TRUE
  /\ NoFault
  /\ UNCHANGED <<gate, targets, todo, ws, outcomes, delivered, decidedBy>>
  /\ WorkerFrame

\* Mutant: the exception reaches the worker loop, as ADR 0003 tells of.
NodeRaised_Escapes == Goto("done")

\* handle_trigger's and handle_decision's except: _fail_run.
NodeRaised == Reporting("failed", TRUE)

\* A node raises.  The checkpoint is the one before it, but LangGraph may show no
\* pending work on it.
NodeRaises ==
  /\ At("slice")
  /\ at' \in {at, [at EXCEPT ![Run] = "end"]}
  /\ NodeRaised /\ NoFault
  /\ UNCHANGED <<gate, kind, old, targets, todo, ws, outcomes, delivered, decidedBy>>
  /\ WorkerFrame

\* _deliver_if_completed: only a completed SDLC run with a target on record, and
\* there is something to push only if its workspace is there.
Deliverable == verdict = "completed" /\ ~Specialised(Run) /\ Run \in targets /\ Run \in ws

Deliver ==
  /\ At("deliver")
  /\ Goto("publish")
  /\ \/ /\ delivered' = [delivered EXCEPT ![Run] = IF Deliverable THEN @ + 1 ELSE @]
        /\ NoFault
     \* The target cannot be read, or the push fails; the run is completed all the same.
     \/ UNCHANGED delivered /\ Fault
  /\ UNCHANGED <<ckptVars, targets, todo, ws, outcomes, decidedBy>>
  /\ WorkerFrame

\* _publish_outcome: the target is read, which fails as if there were none, and the
\* event handed to the producer, ...
Report(r, state) ==
  \E named \in BOOLEAN :
    /\ outcomes' = [outcomes EXCEPT ![r] = Append(@, [state |-> state, named |-> named])]
    /\ IF named = (r \in targets) THEN NoFault ELSE r \in targets /\ Fault

Publish ==
  /\ At("publish")
  /\ Report(Run, verdict)
  /\ Goto("forget")
  /\ UNCHANGED <<ckptVars, targets, todo, ws, delivered, decidedBy>>
  /\ WorkerFrame

\* ... and the target forgotten, unless the DELETE fails.
Forget(rs) ==
  \/ targets' = targets \ rs /\ NoFault
  \/ UNCHANGED targets /\ Fault

ForgetTarget ==
  /\ At("forget")
  /\ Forget({Run})
  /\ Goto(IF tidy THEN "cleanup" ELSE "done")
  /\ UNCHANGED <<ckptVars, todo, ws, outcomes, delivered, decidedBy>>
  /\ WorkerFrame

Cleanup ==
  /\ At("cleanup")
  /\ ws' = ws \ {Run}
  /\ Goto("done") /\ NoFault
  /\ UNCHANGED <<ckptVars, targets, todo, outcomes, delivered, decidedBy>>
  /\ WorkerFrame

\* run_forever's finally: the item's row leaves the inbox.
Finish ==
  /\ At("done")
  /\ todo' = Tail(todo)
  /\ wpc' = "idle" /\ verdict' = "failed" /\ tidy' = FALSE /\ NoFault
  /\ UNCHANGED <<ckptVars, targets, ws, outcomes, delivered, decidedBy>>
  /\ WorkerFrame

WorkerStep ==
  \/ Take \/ Known \/ RecordTarget \/ Clone \/ CloneFails \/ CloneRaises
  \/ Start \/ RoutingFails \/ Factory \/ Resume
  \/ PassGate \/ Park \/ End \/ NodeRaises
  \/ Deliver \/ Publish \/ ForgetTarget \/ Cleanup \/ Finish

-----------------------------------------------------------------------------
(* sweep_stale_runs, on its own thread. *)

SweepFrame ==
  UNCHANGED <<ckptVars, todo, file, workVars, up, sent, delivered, decidedBy,
              crashes, duplicates, ages, reroutes>>

\* existing_run_ids and find_stale_runs: the answer is a list that the loop below
\* works through, whatever happens to the runs meanwhile.
Scan ==
  /\ up /\ spc = "idle"
  /\ stale' = {r \in ws : Stale(r)} /\ stale' # {}
  /\ spc' = "publish" /\ NoFault
  /\ UNCHANGED <<expiring, targets, ws, outcomes>>
  /\ SweepFrame

SweepPublish(r) ==
  /\ up /\ spc = "publish" /\ r \in stale
  /\ stale' = stale \ {r} /\ expiring' = {r}
  /\ Report(r, "stale")
  /\ spc' = "forget"
  /\ UNCHANGED <<targets, ws>>
  /\ SweepFrame

SweepForget ==
  /\ up /\ spc = "forget"
  /\ Forget(expiring)
  /\ spc' = "cleanup"
  /\ UNCHANGED <<stale, expiring, ws, outcomes>>
  /\ SweepFrame

SweepCleanup ==
  /\ up /\ spc = "cleanup"
  /\ ws' = ws \ expiring
  /\ expiring' = {}
  /\ spc' = (IF stale = {} THEN "idle" ELSE "publish") /\ NoFault
  /\ UNCHANGED <<stale, targets, outcomes>>
  /\ SweepFrame

SweepStep == Scan \/ (\E r \in Runs : SweepPublish(r)) \/ SweepForget \/ SweepCleanup

-----------------------------------------------------------------------------
(* The process and its environment. *)

\* Mutant: the targets live in the process, as before ADR 0026.
TargetsAfterCrash_InMemory == {}

\* What a crash leaves of the delivery targets: they are in PostgreSQL.
TargetsAfterCrash == targets

Crash ==
  /\ up /\ crashes < MaxCrashes /\ Spare
  /\ crashes' = crashes + 1
  /\ up' = FALSE
  /\ targets' = TargetsAfterCrash
  /\ wpc' = "idle" /\ verdict' = "failed" /\ tidy' = FALSE
  /\ spc' = "idle" /\ stale' = {} /\ expiring' = {}
  /\ UNCHANGED <<ckptVars, todo, ws, file, sent, outcomes, delivered, decidedBy,
                 duplicates, ages, faults, reroutes>>

\* main: reconcile the workspaces, restore the inbox, start the threads.  When the
\* read that identifies a specialist run fails, its checkpoint is read by the SDLC
\* topology after all, and its workspace is removed.
Restart ==
  /\ ~up /\ up' = TRUE
  /\ \/ ws' = {r \in ws : Resumable(r)} /\ NoFault
     \/ /\ Fault
        /\ \E r \in ws : Specialised(r) /\ ws' = {q \in ws \ {r} : Resumable(q)}
  /\ UNCHANGED <<ckptVars, targets, todo, file, workVars, sweepVars, sent, outcomes,
                 delivered, decidedBy, crashes, duplicates, ages, reroutes>>

EnvFrame == UNCHANGED <<targets, ws, workVars, sweepVars, up, outcomes, delivered,
                        decidedBy, crashes, faults>>

\* A producer publishes a trigger, a reviewer the decision on a gate they were
\* shown; each once.
Produce(item) ==
  /\ item \notin sent
  /\ item[2] > 0 => at[item[1]] = "gate" /\ gate[item[1]] = item[2]
  /\ sent' = sent \cup {item}
  /\ todo' = Append(todo, item)
  /\ UNCHANGED <<ckptVars, file, duplicates, ages, reroutes>>
  /\ EnvFrame

\* Kafka or the inbox delivers an item again, or a decision comes for a run this
\* deployment never started.
Duplicate(item) ==
  /\ duplicates < MaxDuplicates /\ Spare
  /\ item \in sent \/ (item[2] > 0 /\ at[item[1]] = "none")
  /\ duplicates' = duplicates + 1
  /\ todo' = Append(todo, item)
  /\ UNCHANGED <<ckptVars, file, sent, ages, reroutes>>
  /\ EnvFrame

\* The TTL passes since the checkpoint was written: the run waits for a decision,
\* or was left by a crash or a failure.  (A superstep is far shorter than the TTL.)
Age(r) ==
  /\ ages < MaxAges /\ Spare /\ HasNext(r) /\ ~old[r]
  /\ ~(At("slice") /\ Run = r)
  /\ ages' = ages + 1
  /\ old' = [old EXCEPT ![r] = TRUE]
  /\ UNCHANGED <<at, gate, kind, todo, file, sent, duplicates, reroutes>>
  /\ EnvFrame

\* An operator edits the routing table, well or badly.
Reroute ==
  /\ reroutes < MaxReroutes /\ Spare
  /\ reroutes' = reroutes + 1
  /\ file' \in Files \ {file}
  /\ UNCHANGED <<ckptVars, todo, sent, duplicates, ages>>
  /\ EnvFrame

\* Nothing left to do: every item handled, and the bounds on the rest spent.
Idle == up /\ wpc = "idle" /\ todo = << >> /\ spc = "idle" /\ UNCHANGED vars

Next ==
  \/ WorkerStep \/ SweepStep \/ Crash \/ Restart \/ Reroute \/ Idle
  \/ \E i \in Items : Produce(i) \/ Duplicate(i)
  \/ \E r \in Runs : Age(r)

\* The worker and the sweep are threads of a running process, which the container
\* restarts; producers, reviewers and failures owe nothing.
Fairness == WF_vars(WorkerStep) /\ WF_vars(SweepStep) /\ WF_vars(Restart)

Spec == Init /\ [][Next]_vars /\ Fairness

-----------------------------------------------------------------------------
(* Properties. *)

\* Every variable keeps its type; the worker's position, the verdict it carries
\* and the sweep's position are among those the code has.
TypeOK ==
  /\ at \in [Runs -> {"none", "node", "gate", "end"}]
  /\ gate \in [Runs -> 0..Gates]
  /\ kind \in [Runs -> {"sdlc", "specialist"}]
  /\ old \in [Runs -> BOOLEAN]
  /\ targets \subseteq Runs /\ ws \subseteq Runs /\ file \in Files
  /\ todo \in Seq(Items) /\ sent \subseteq Items
  /\ wpc \in {"idle", "known", "record", "clone", "plan", "factory", "resume", "slice",
              "deliver", "publish", "forget", "cleanup", "done"}
  /\ verdict \in States /\ tidy \in BOOLEAN
  /\ spc \in {"idle", "publish", "forget", "cleanup"}
  /\ stale \subseteq Runs /\ expiring \subseteq Runs
  /\ up \in BOOLEAN
  /\ outcomes \in [Runs -> Seq(Outcome)]
  /\ delivered \in [Runs -> Nat]
  /\ decidedBy \in [Runs -> [1..Gates -> SUBSET (0..Gates)]]
  /\ crashes \in 0..MaxCrashes /\ duplicates \in 0..MaxDuplicates
  /\ ages \in 0..MaxAges /\ faults \in 0..MaxFaults /\ reroutes \in 0..MaxReroutes

Reported(r) == outcomes[r] # << >>
Parked(r) == at[r] = "gate"

\* A run parked at a gate, of which nothing was reported yet, has its workspace: no
\* crash, redelivered trigger, reconciliation or edit of the routing table takes
\* it away.  (main._reconcile_workspaces, workspace.reconcile, clone_for_run.)
\* A checkpoint read that fails during reconciliation does.
ParkedHasWorkspace ==
  faults = 0 => \A r \in Runs : Parked(r) /\ ~Reported(r) => r \in ws

\* ... and, whatever fails, the record of where its change is to be delivered.
\* (run_targets.PostgresRunTargets, ADR 0026)
ParkedHasTarget == \A r \in Runs : Parked(r) /\ ~Reported(r) => r \in targets

\* An SDLC run whose first report is "completed" was pushed to the repository its
\* trigger named, unless a call failed: target and workspace outlive every process
\* between the clone and the last gate.  (consumer._deliver_if_completed)
CompletedIsDelivered ==
  \A r \in Runs :
    /\ ~Specialised(r) /\ faults = 0
    /\ Reported(r) /\ outcomes[r][1].state = "completed"
    => delivered[r] = 1

\* Nothing is reported of an SDLC run after it was reported completed, unless the
\* sweep had listed it before.  (resume_run, already_known)
CompletedIsFinal ==
  [][\A r \in Runs :
       /\ ~Specialised(r) /\ ages = 0 /\ faults = 0
       /\ \E i \in DOMAIN outcomes[r] : outcomes[r][i].state = "completed"
       => outcomes'[r] = outcomes[r]]_vars

\* The first event about a run names its repository, branch and commit, and not
\* "unknown": nothing forgets a target before it was reported, and no crash does.
\* (consumer._publish_outcome)
FirstOutcomeIsNamed ==
  faults = 0 => \A r \in Runs : Reported(r) => outcomes[r][1].named

\* Every trigger leads to a parked run or to an outcome event, unless the process
\* dies or a call fails where handle_trigger does not catch it.
\* (handle_trigger's early returns and _fail_run)
TriggerAnswered ==
  \A r \in Runs :
    <<r, 0>> \in sent ~> Parked(r) \/ Reported(r) \/ crashes > 0 \/ faults > 0

\* Every decision on a gate moves the run past that gate or leads to an outcome,
\* under the same conditions.  (handle_decision)
DecisionAnswered ==
  \A r \in Runs : \A g \in 1..Gates :
    <<r, g>> \in sent ~> Reported(r) \/ gate[r] > g \/ crashes > 0 \/ faults > 0

\* A run has work left and made no progress for longer than the TTL.
Overdue(r) == HasNext(r) /\ old[r]

\* An SDLC run that waits longer than the TTL, for a decision or because a crash or a
\* failure left it, is resumed or reported, crashes or not.  (sweep_stale_runs)
OverdueIsReported ==
  \A r \in Runs : ~Specialised(r) /\ Overdue(r) ~> ~Overdue(r) \/ Reported(r)

\* ... and so is a specialist run.  (Violated: the sweep reads its checkpoint by the
\* SDLC topology.)
EveryOverdueIsReported == \A r \in Runs : Overdue(r) ~> ~Overdue(r) \/ Reported(r)

\* A change is pushed only after a decision made for each of its gates was applied
\* at that gate.  (Violated: a decision carries no gate, and a decision that is
\* delivered twice is applied to whatever gate comes next.)
DeliveredWasReviewed ==
  \A r \in Runs : delivered[r] > 0 => \A g \in 1..Gates : g \in decidedBy[r][g]

\* A run whose graph has ended is reported.  (Violated: the process may die between
\* the last checkpoint and the event, and the replayed work finds a terminal run.)
EndedIsReported == \A r \in Runs : at[r] = "end" ~> Reported(r)
=============================================================================
