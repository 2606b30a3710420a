------------------------- MODULE RunLifecycleProofs -------------------------
(***************************************************************************)
(* Proofs about RunLifecycle, for any number of runs and gates, any set of *)
(* routing tables and any number of crashes, redeliveries, expiries,       *)
(* failing calls and edits: the types, what a parked run keeps, and what   *)
(* is reported and delivered of a run that completes.                      *)
(***************************************************************************)
EXTENDS RunLifecycle, TLAPS

USE LifecycleAssumption DEF LifecycleAssumption

Completed(r) == \E i \in DOMAIN outcomes[r] : outcomes[r][i].state = "completed"

\* Where the worker can be with its run.
WorkerInv ==
  /\ wpc # "idle" => up /\ todo # << >>
  /\ wpc \in {"record", "clone", "plan"} => at[Run] = "none"
  /\ wpc = "slice" => HasNext(Run)
  /\ wpc = "deliver" => at[Run] = "end"
  /\ wpc = "publish" /\ verdict = "completed" => at[Run] = "end"
  /\ wpc \in {"forget", "cleanup"} => Reported(Run)

\* What the sweep lists was started, what it removes was reported; and a run's
\* topology is that of a checkpoint.
SweepInv ==
  /\ \A r \in stale : at[r] # "none"
  /\ \A r \in expiring : Reported(r)
  /\ \A r \in Runs : Specialised(r) => at[r] # "none"

\* A target is recorded before the clone, and forgotten after the first report.
TargetInv ==
  /\ \A r \in Runs : at[r] # "none" /\ ~Reported(r) => r \in targets
  /\ wpc \in {"clone", "plan"} /\ ~Reported(Run) => Run \in targets
  /\ faults = 0 /\ wpc = "publish" /\ ~Reported(Run) => Run \in targets

\* So is a workspace, as long as no call fails.
WorkspaceInv ==
  faults = 0 =>
    /\ \A r \in Runs : HasNext(r) /\ ~Reported(r) => r \in ws
    /\ wpc \in {"plan", "deliver"} /\ ~Reported(Run) => Run \in ws

\* A change is pushed when its run has ended, and before it is reported completed.
DeliveryInv ==
  /\ \A r \in Runs : delivered[r] = 0 \/ (delivered[r] = 1 /\ at[r] = "end")
  /\ wpc = "deliver" => delivered[Run] = 0
  /\ faults = 0 /\ wpc = "publish" /\ verdict = "completed" /\ ~Specialised(Run)
       /\ ~Reported(Run) => delivered[Run] = 1

\* A completed run has ended, and the worker does not report it again.  Without an
\* expiry the sweep has nothing to do.
FinalInv ==
  /\ \A r \in Runs : Completed(r) => at[r] = "end"
  /\ faults = 0 /\ wpc \in {"deliver", "publish"} /\ ~Specialised(Run) => ~Completed(Run)
  /\ ages = 0 => stale = {} /\ \A r \in Runs : ~old[r]

\* The inductive invariant.
IInv ==
  /\ TypeOK
  /\ WorkerInv /\ SweepInv /\ TargetInv /\ WorkspaceInv /\ DeliveryInv /\ FinalInv
  /\ CompletedIsDelivered /\ FirstOutcomeIsNamed

-----------------------------------------------------------------------------
(* Facts about the helpers. *)

\* The item in hand is that of a run.
LEMMA JobType ==
  ASSUME TypeOK, todo # << >>
  PROVE  Job \in Items /\ Run \in Runs /\ Job[2] \in 0..Gates
<1>1. todo \in Seq(Items)
  BY DEF TypeOK
<1>2. Job \in Items
  BY <1>1 DEF Job
<1>. QED
  BY <1>2 DEF Run, Items

\* A message that arrives does not change it.
LEMMA RunStays ==
  ASSUME TypeOK, NEW item \in Items, todo' = Append(todo, item)
  PROVE  todo' \in Seq(Items) /\ todo' # << >> /\ (todo # << >> => Run' = Run)
<1>1. todo \in Seq(Items)
  BY DEF TypeOK
<1>2. todo' \in Seq(Items) /\ todo' # << >>
  BY <1>1
<1>3. todo # << >> => Head(todo') = Head(todo)
  BY <1>1
<1>. QED
  BY <1>2, <1>3 DEF Run, Job

\* What a report changes: the first one about a run stays the first, and without a
\* fault it is named if there is a target.
ReportEffect(r, state) ==
  /\ outcomes' \in [Runs -> Seq(Outcome)]
  /\ faults' \in 0..MaxFaults /\ faults' >= faults
  /\ Reported(r)'
  /\ \A q \in Runs : Reported(q) => Reported(q)' /\ outcomes'[q][1] = outcomes[q][1]
  /\ \A q \in Runs \ {r} : outcomes'[q] = outcomes[q]
  /\ ~Reported(r) => /\ outcomes'[r][1].state = state
                     /\ faults' = 0 => outcomes'[r][1].named = (r \in targets)
  /\ \A q \in Runs : Completed(q)' => Completed(q) \/ (q = r /\ state = "completed")

LEMMA ReportFacts ==
  ASSUME TypeOK, NEW r \in Runs, NEW state \in States, Report(r, state)
  PROVE  ReportEffect(r, state)
<1>1. PICK named \in BOOLEAN :
        /\ outcomes' = [outcomes EXCEPT ![r] = Append(@, [state |-> state, named |-> named])]
        /\ IF named = (r \in targets) THEN NoFault ELSE r \in targets /\ Fault
  BY DEF Report
<1> DEFINE o == [state |-> state, named |-> named]
<1>2. o \in Outcome /\ o.state = state /\ o.named = named
  BY DEF Outcome
<1>3. outcomes \in [Runs -> Seq(Outcome)] /\ faults \in 0..MaxFaults
  BY DEF TypeOK
<1>4. faults' \in 0..MaxFaults /\ faults' >= faults /\ (faults' = 0 => named = (r \in targets))
  BY <1>1, <1>3 DEF NoFault, Fault
<1>5. outcomes[r] \in Seq(Outcome)
  BY <1>3
<1>6. outcomes'[r] = Append(outcomes[r], o) /\ \A q \in Runs \ {r} : outcomes'[q] = outcomes[q]
  BY <1>1, <1>3
<1>. HIDE DEF o
<1>7. /\ outcomes'[r] \in Seq(Outcome) /\ outcomes'[r] # << >>
      /\ outcomes[r] # << >> => outcomes'[r][1] = outcomes[r][1]
      /\ outcomes[r] = << >> => outcomes'[r][1] = o
      /\ \A i \in DOMAIN outcomes'[r] : outcomes'[r][i] = o
                                       \/ (i \in DOMAIN outcomes[r] /\ outcomes'[r][i] = outcomes[r][i])
  BY <1>2, <1>5, <1>6
<1>8. outcomes' \in [Runs -> Seq(Outcome)]
  BY <1>1, <1>3, <1>6, <1>7
<1>9. \A q \in Runs : Completed(q)' => Completed(q) \/ (q = r /\ state = "completed")
  BY <1>2, <1>6, <1>7 DEF Completed
<1>. QED
  BY <1>2, <1>4, <1>6, <1>7, <1>8, <1>9 DEF ReportEffect, Reported

-----------------------------------------------------------------------------
(* The steps of the worker. *)

\* An item is taken.
LEMMA TakeInv == ASSUME IInv, Take PROVE IInv'
<1> USE DEF IInv, Take, ckptVars, sweepVars, WorkerFrame, At, Goto, Reporting, NoFault, Fault,
            States
<1>0. Run \in Runs /\ Job[2] \in 0..Gates /\ Run' = Run
  BY JobType DEF Run, Job
<1>1. TypeOK'
  BY <1>0 DEF TypeOK
<1>2. WorkerInv'
  BY <1>0 DEF WorkerInv
<1>3. SweepInv'
  BY <1>0 DEF SweepInv, Reported, Specialised
<1>4. TargetInv'
  BY <1>0 DEF TargetInv, Reported
<1>5. WorkspaceInv'
  BY <1>0 DEF WorkspaceInv, HasNext, Reported
<1>6. DeliveryInv'
  BY <1>0 DEF DeliveryInv
<1>7. FinalInv'
  BY <1>0 DEF FinalInv, Completed
<1>8. CompletedIsDelivered'
  BY <1>0 DEF CompletedIsDelivered, Reported, Specialised
<1>9. FirstOutcomeIsNamed'
  BY <1>0 DEF FirstOutcomeIsNamed, Reported
<1>. QED
  BY <1>1, <1>2, <1>3, <1>4, <1>5, <1>6, <1>7, <1>8, <1>9

\* A trigger goes on only if its run has no checkpoint.
LEMMA KnownInv == ASSUME IInv, Known PROVE IInv'
<1> USE DEF IInv, Known, AfterKnown, ckptVars, sweepVars, WorkerFrame, At, Goto, Reporting,
            NoFault, Fault, States
<1>0. Run \in Runs /\ Job[2] \in 0..Gates /\ Run' = Run
  BY JobType DEF Run, Job
<1>1. TypeOK'
  BY <1>0 DEF TypeOK
<1>2. WorkerInv'
  BY <1>0 DEF WorkerInv
<1>3. SweepInv'
  BY <1>0 DEF SweepInv, Reported, Specialised
<1>4. TargetInv'
  BY <1>0 DEF TargetInv, Reported
<1>5. WorkspaceInv'
  BY <1>0 DEF TypeOK, WorkspaceInv, HasNext, Reported
<1>6. DeliveryInv'
  BY <1>0 DEF DeliveryInv
<1>7. FinalInv'
  BY <1>0 DEF FinalInv, Completed
<1>8. CompletedIsDelivered'
  BY <1>0 DEF TypeOK, CompletedIsDelivered, Reported, Specialised
<1>9. FirstOutcomeIsNamed'
  BY <1>0 DEF TypeOK, FirstOutcomeIsNamed, Reported
<1>. QED
  BY <1>1, <1>2, <1>3, <1>4, <1>5, <1>6, <1>7, <1>8, <1>9

\* The target is recorded.
LEMMA RecordTargetInv == ASSUME IInv, RecordTarget PROVE IInv'
<1> USE DEF IInv, RecordTarget, ckptVars, sweepVars, WorkerFrame, At, Goto, Reporting,
            NoFault, Fault, States
<1>0. Run \in Runs /\ Job[2] \in 0..Gates /\ Run' = Run
  BY JobType DEF Run, Job
<1>1. TypeOK'
  <2>1. targets' \subseteq Runs /\ faults' \in 0..MaxFaults
    BY <1>0 DEF TypeOK
  <2>2. /\ wpc' \in {"idle", "known", "record", "clone", "plan", "factory", "resume", "slice",
                   "deliver", "publish", "forget", "cleanup", "done"}
        /\ verdict' \in States /\ tidy' \in BOOLEAN
    BY DEF TypeOK
  <2>. QED
    BY <2>1, <2>2 DEF TypeOK
<1>2. WorkerInv'
  BY <1>0 DEF WorkerInv
<1>3. SweepInv'
  BY <1>0 DEF SweepInv, Reported, Specialised
<1>4. TargetInv'
  BY <1>0 DEF TypeOK, TargetInv, Reported
<1>5. WorkspaceInv'
  BY <1>0 DEF TypeOK, WorkspaceInv, HasNext, Reported
<1>6. DeliveryInv'
  BY <1>0 DEF DeliveryInv
<1>7. FinalInv'
  BY <1>0 DEF WorkerInv, FinalInv, Completed
<1>8. CompletedIsDelivered'
  <2>1. /\ faults' = 0 => faults = 0
        /\ outcomes' = outcomes /\ kind' = kind /\ delivered' = delivered
    BY DEF TypeOK
  <2>. QED
    BY <2>1 DEF CompletedIsDelivered, Reported, Specialised
<1>9. FirstOutcomeIsNamed'
  BY <1>0 DEF TypeOK, FirstOutcomeIsNamed, Reported
<1>. QED
  BY <1>1, <1>2, <1>3, <1>4, <1>5, <1>6, <1>7, <1>8, <1>9

\* The workspace is there before the graph is chosen.
LEMMA CloneInv == ASSUME IInv, Clone PROVE IInv'
<1> USE DEF IInv, Clone, ckptVars, sweepVars, WorkerFrame, At, Goto, Reporting, NoFault,
            Fault, States
<1>0. Run \in Runs /\ Job[2] \in 0..Gates /\ Run' = Run
  BY JobType DEF Run, Job
<1>1. TypeOK'
  BY <1>0 DEF TypeOK
<1>2. WorkerInv'
  BY <1>0 DEF WorkerInv
<1>3. SweepInv'
  BY <1>0 DEF SweepInv, Reported, Specialised
<1>4. TargetInv'
  BY <1>0 DEF TargetInv, Reported
<1>5. WorkspaceInv'
  BY <1>0 DEF WorkspaceInv, HasNext, Reported
<1>6. DeliveryInv'
  BY <1>0 DEF DeliveryInv
<1>7. FinalInv'
  BY <1>0 DEF FinalInv, Completed
<1>8. CompletedIsDelivered'
  BY <1>0 DEF CompletedIsDelivered, Reported, Specialised
<1>9. FirstOutcomeIsNamed'
  BY <1>0 DEF FirstOutcomeIsNamed, Reported
<1>. QED
  BY <1>1, <1>2, <1>3, <1>4, <1>5, <1>6, <1>7, <1>8, <1>9

\* A failed clone has no checkpoint that could miss its workspace.
LEMMA CloneFailsInv == ASSUME IInv, CloneFails PROVE IInv'
<1> USE DEF IInv, CloneFails, ckptVars, sweepVars, WorkerFrame, At, Goto, Reporting, NoFault,
            Fault, States
<1>0. Run \in Runs /\ Job[2] \in 0..Gates /\ Run' = Run
  BY JobType DEF Run, Job
<1>1. TypeOK'
  BY <1>0 DEF TypeOK
<1>2. WorkerInv'
  BY <1>0 DEF WorkerInv
<1>3. SweepInv'
  BY <1>0 DEF SweepInv, Reported, Specialised
<1>4. TargetInv'
  BY <1>0 DEF TargetInv, Reported
<1>5. WorkspaceInv'
  BY <1>0 DEF WorkerInv, WorkspaceInv, HasNext, Reported
<1>6. DeliveryInv'
  BY <1>0 DEF DeliveryInv
<1>7. FinalInv'
  BY <1>0 DEF WorkerInv, FinalInv, Completed
<1>8. CompletedIsDelivered'
  BY <1>0 DEF CompletedIsDelivered, Reported, Specialised
<1>9. FirstOutcomeIsNamed'
  BY <1>0 DEF FirstOutcomeIsNamed, Reported
<1>. QED
  BY <1>1, <1>2, <1>3, <1>4, <1>5, <1>6, <1>7, <1>8, <1>9

\* Another failure of the clone ends the handler.
LEMMA CloneRaisesInv == ASSUME IInv, CloneRaises PROVE IInv'
<1> USE DEF IInv, CloneRaises, ckptVars, sweepVars, WorkerFrame, At, Goto, Reporting, NoFault,
            Fault, States
<1>0. Run \in Runs /\ Job[2] \in 0..Gates /\ Run' = Run
  BY JobType DEF Run, Job
<1>1. TypeOK'
  BY <1>0 DEF TypeOK
<1>2. WorkerInv'
  BY <1>0 DEF WorkerInv
<1>3. SweepInv'
  BY <1>0 DEF SweepInv, Reported, Specialised
<1>4. TargetInv'
  BY <1>0 DEF TargetInv, Reported
<1>5. WorkspaceInv'
  BY <1>0 DEF TypeOK, WorkspaceInv
<1>6. DeliveryInv'
  BY <1>0 DEF DeliveryInv
<1>7. FinalInv'
  BY <1>0 DEF FinalInv, Completed
<1>8. CompletedIsDelivered'
  BY <1>0 DEF TypeOK, CompletedIsDelivered
<1>9. FirstOutcomeIsNamed'
  BY <1>0 DEF TypeOK, FirstOutcomeIsNamed
<1>. QED
  BY <1>1, <1>2, <1>3, <1>4, <1>5, <1>6, <1>7, <1>8, <1>9

\* The first checkpoint of a run, which has target and workspace.
LEMMA StartInv == ASSUME IInv, Start PROVE IInv'
<1> USE DEF IInv, Start, ckptVars, sweepVars, WorkerFrame, At, Goto, Reporting, NoFault,
            Fault, States
<1>0. Run \in Runs /\ Job[2] \in 0..Gates /\ Run' = Run
  BY JobType DEF Run, Job
<1>1. TypeOK'
  BY <1>0 DEF TypeOK
<1>2. WorkerInv'
  BY <1>0 DEF TypeOK, WorkerInv, HasNext
<1>3. SweepInv'
  BY <1>0 DEF TypeOK, SweepInv, Reported, Specialised
<1>4. TargetInv'
  BY <1>0 DEF TargetInv, Reported
<1>5. WorkspaceInv'
  BY <1>0 DEF WorkspaceInv, HasNext, Reported
<1>6. DeliveryInv'
  BY <1>0 DEF WorkerInv, DeliveryInv
<1>7. FinalInv'
  BY <1>0 DEF WorkerInv, FinalInv, Completed
<1>8. CompletedIsDelivered'
  BY <1>0 DEF CompletedIsDelivered, WorkerInv, SweepInv, Reported, Specialised
<1>9. FirstOutcomeIsNamed'
  BY <1>0 DEF FirstOutcomeIsNamed, Reported
<1>. QED
  BY <1>1, <1>2, <1>3, <1>4, <1>5, <1>6, <1>7, <1>8, <1>9

\* A table that does not load.
LEMMA RoutingFailsInv == ASSUME IInv, RoutingFails PROVE IInv'
<1> USE DEF IInv, RoutingFails, ckptVars, sweepVars, WorkerFrame, At, Goto, Reporting,
            NoFault, Fault, States
<1>0. Run \in Runs /\ Job[2] \in 0..Gates /\ Run' = Run
  BY JobType DEF Run, Job
<1>1. TypeOK'
  BY <1>0 DEF TypeOK
<1>2. WorkerInv'
  BY <1>0 DEF WorkerInv
<1>3. SweepInv'
  BY <1>0 DEF SweepInv, Reported, Specialised
<1>4. TargetInv'
  BY <1>0 DEF TargetInv, Reported
<1>5. WorkspaceInv'
  BY <1>0 DEF WorkspaceInv, HasNext, Reported
<1>6. DeliveryInv'
  BY <1>0 DEF DeliveryInv
<1>7. FinalInv'
  BY <1>0 DEF WorkerInv, FinalInv, Completed
<1>8. CompletedIsDelivered'
  BY <1>0 DEF CompletedIsDelivered, Reported, Specialised
<1>9. FirstOutcomeIsNamed'
  BY <1>0 DEF FirstOutcomeIsNamed, Reported
<1>. QED
  BY <1>1, <1>2, <1>3, <1>4, <1>5, <1>6, <1>7, <1>8, <1>9

\* The graph of a run that has a checkpoint is looked up.
LEMMA FactoryInv == ASSUME IInv, Factory PROVE IInv'
<1> USE DEF IInv, Factory, Refused, ckptVars, sweepVars, WorkerFrame, At, Goto, Reporting,
            NoFault, Fault, States
<1>0. Run \in Runs /\ Job[2] \in 0..Gates /\ Run' = Run
  BY JobType DEF Run, Job
<1>1. TypeOK'
  <2>1. targets' \subseteq Runs /\ faults' \in 0..MaxFaults
    BY <1>0 DEF TypeOK
  <2>2. /\ wpc' \in {"idle", "known", "record", "clone", "plan", "factory", "resume", "slice",
                   "deliver", "publish", "forget", "cleanup", "done"}
        /\ verdict' \in States /\ tidy' \in BOOLEAN
    BY DEF TypeOK
  <2>. QED
    BY <2>1, <2>2 DEF TypeOK
<1>2. WorkerInv'
  BY <1>0 DEF WorkerInv
<1>3. SweepInv'
  BY <1>0 DEF SweepInv, Reported, Specialised
<1>4. TargetInv'
  BY <1>0 DEF TargetInv, Reported, SweepInv
<1>5. WorkspaceInv'
  BY <1>0 DEF TypeOK, WorkspaceInv, HasNext, Reported
<1>6. DeliveryInv'
  BY <1>0 DEF DeliveryInv
<1>7. FinalInv'
  BY <1>0 DEF FinalInv, Specialised, Completed
<1>8. CompletedIsDelivered'
  BY <1>0 DEF TypeOK, CompletedIsDelivered, Reported, Specialised
<1>9. FirstOutcomeIsNamed'
  BY <1>0 DEF TypeOK, FirstOutcomeIsNamed, Reported
<1>. QED
  BY <1>1, <1>2, <1>3, <1>4, <1>5, <1>6, <1>7, <1>8, <1>9

\* A run that has ended is not resumed.
LEMMA ResumeInv == ASSUME IInv, Resume PROVE IInv'
<1> USE DEF IInv, Resume, AfterResume, ckptVars, sweepVars, WorkerFrame, At, Goto, Reporting,
            NoFault, Fault, States
<1>0. Run \in Runs /\ Job[2] \in 0..Gates /\ Run' = Run
  BY JobType DEF Run, Job
<1>1. TypeOK'
  <2>1. targets' \subseteq Runs /\ faults' \in 0..MaxFaults
    BY <1>0 DEF TypeOK
  <2>2. /\ wpc' \in {"idle", "known", "record", "clone", "plan", "factory", "resume", "slice",
                   "deliver", "publish", "forget", "cleanup", "done"}
        /\ verdict' \in States /\ tidy' \in BOOLEAN
    BY DEF TypeOK
  <2>. QED
    BY <2>1, <2>2 DEF TypeOK
<1>2. WorkerInv'
  BY <1>0 DEF WorkerInv, HasNext
<1>3. SweepInv'
  BY <1>0 DEF SweepInv, Reported, Specialised
<1>4. TargetInv'
  BY <1>0 DEF TypeOK, TargetInv, Reported
<1>5. WorkspaceInv'
  BY <1>0 DEF TypeOK, WorkspaceInv, HasNext, Reported
<1>6. DeliveryInv'
  BY <1>0 DEF DeliveryInv
<1>7. FinalInv'
  BY <1>0 DEF TypeOK, FinalInv, Completed
<1>8. CompletedIsDelivered'
  BY <1>0 DEF TypeOK, CompletedIsDelivered, Reported, Specialised
<1>9. FirstOutcomeIsNamed'
  BY <1>0 DEF TypeOK, FirstOutcomeIsNamed, Reported
<1>. QED
  BY <1>1, <1>2, <1>3, <1>4, <1>5, <1>6, <1>7, <1>8, <1>9

\* A gate consumes the decision.
LEMMA PassGateInv == ASSUME IInv, PassGate PROVE IInv'
<1> USE DEF IInv, PassGate, Checkpoint, ckptVars, sweepVars, WorkerFrame, At, Goto, Reporting,
            NoFault, Fault, States
<1>0. Run \in Runs /\ Job[2] \in 0..Gates /\ Run' = Run
  BY JobType DEF Run, Job
<1>1. TypeOK'
  <2>1. /\ at' \in [Runs -> {"none", "node", "gate", "end"}]
        /\ old' \in [Runs -> BOOLEAN]
    BY <1>0 DEF TypeOK
  <2>2. decidedBy' \in [Runs -> [1..Gates -> SUBSET (0..Gates)]]
    <3>1. decidedBy[Run] \in [1..Gates -> SUBSET (0..Gates)]
      BY <1>0 DEF TypeOK
    <3>2. \A g \in 1..Gates : decidedBy[Run][g] \cup {Job[2]} \subseteq 0..Gates
      BY <1>0, <3>1
    <3>3. [decidedBy[Run] EXCEPT ![gate[Run]] = @ \cup {Job[2]}]
            \in [1..Gates -> SUBSET (0..Gates)]
      BY <3>1, <3>2
    <3>. QED
      BY <1>0, <3>3 DEF TypeOK
  <2>. QED
    BY <2>1, <2>2 DEF TypeOK
<1>2. WorkerInv'
  BY <1>0 DEF WorkerInv, HasNext
<1>3. SweepInv'
  BY <1>0 DEF SweepInv, Reported, Specialised
<1>4. TargetInv'
  BY <1>0 DEF TargetInv, Reported
<1>5. WorkspaceInv'
  BY <1>0 DEF WorkspaceInv, HasNext, Reported
<1>6. DeliveryInv'
  BY <1>0 DEF DeliveryInv
<1>7. FinalInv'
  BY <1>0 DEF FinalInv, Completed
<1>8. CompletedIsDelivered'
  BY <1>0 DEF CompletedIsDelivered, Reported, Specialised
<1>9. FirstOutcomeIsNamed'
  BY <1>0 DEF FirstOutcomeIsNamed, Reported
<1>. QED
  BY <1>1, <1>2, <1>3, <1>4, <1>5, <1>6, <1>7, <1>8, <1>9

\* The run parks at its next gate.
LEMMA ParkInv == ASSUME IInv, Park PROVE IInv'
<1> USE DEF IInv, Park, Checkpoint, ckptVars, sweepVars, WorkerFrame, At, Goto, Reporting,
            NoFault, Fault, States
<1>0. Run \in Runs /\ Job[2] \in 0..Gates /\ Run' = Run
  BY JobType DEF Run, Job
<1>1. TypeOK'
  BY <1>0 DEF TypeOK
<1>2. WorkerInv'
  BY <1>0 DEF WorkerInv
<1>3. SweepInv'
  BY <1>0 DEF SweepInv, Reported, Specialised
<1>4. TargetInv'
  BY <1>0 DEF TargetInv, Reported
<1>5. WorkspaceInv'
  BY <1>0 DEF WorkspaceInv, HasNext, Reported
<1>6. DeliveryInv'
  BY <1>0 DEF DeliveryInv
<1>7. FinalInv'
  BY <1>0 DEF FinalInv, Completed
<1>8. CompletedIsDelivered'
  BY <1>0 DEF CompletedIsDelivered, Reported, Specialised
<1>9. FirstOutcomeIsNamed'
  BY <1>0 DEF FirstOutcomeIsNamed, Reported
<1>. QED
  BY <1>1, <1>2, <1>3, <1>4, <1>5, <1>6, <1>7, <1>8, <1>9

\* The graph ends.
LEMMA EndInv == ASSUME IInv, End PROVE IInv'
<1> USE DEF IInv, End, Checkpoint, MayComplete, ckptVars, sweepVars, WorkerFrame, At, Goto,
            Reporting, NoFault, Fault, States
<1>0. Run \in Runs /\ Job[2] \in 0..Gates /\ Run' = Run
  BY JobType DEF Run, Job
<1>1. TypeOK'
  BY <1>0 DEF TypeOK
<1>2. WorkerInv'
  BY <1>0 DEF TypeOK, WorkerInv
<1>3. SweepInv'
  BY <1>0 DEF SweepInv, Reported, Specialised
<1>4. TargetInv'
  BY <1>0 DEF TargetInv, Reported
<1>5. WorkspaceInv'
  BY <1>0 DEF WorkspaceInv, HasNext, Reported
<1>6. DeliveryInv'
  BY <1>0 DEF DeliveryInv
<1>7. FinalInv'
  BY <1>0 DEF FinalInv, Completed
<1>8. CompletedIsDelivered'
  BY <1>0 DEF CompletedIsDelivered, Reported, Specialised
<1>9. FirstOutcomeIsNamed'
  BY <1>0 DEF FirstOutcomeIsNamed, Reported
<1>. QED
  BY <1>1, <1>2, <1>3, <1>4, <1>5, <1>6, <1>7, <1>8, <1>9

\* A node raises.
LEMMA NodeRaisesInv == ASSUME IInv, NodeRaises PROVE IInv'
<1> USE DEF IInv, NodeRaises, NodeRaised, ckptVars, sweepVars, WorkerFrame, At, Goto,
            Reporting, NoFault, Fault, States
<1>0. Run \in Runs /\ Job[2] \in 0..Gates /\ Run' = Run
  BY JobType DEF Run, Job
<1>1. TypeOK'
  BY <1>0 DEF TypeOK
<1>2. WorkerInv'
  BY <1>0 DEF WorkerInv
<1>3. SweepInv'
  BY <1>0 DEF TypeOK, SweepInv, Reported, Specialised
<1>4. TargetInv'
  BY <1>0 DEF TypeOK, WorkerInv, TargetInv, HasNext, Reported
<1>5. WorkspaceInv'
  BY <1>0 DEF TypeOK, WorkspaceInv, HasNext, Reported
<1>6. DeliveryInv'
  BY <1>0 DEF TypeOK, DeliveryInv
<1>7. FinalInv'
  <2>1. HasNext(Run) /\ outcomes' = outcomes /\ wpc' = "publish"
    BY DEF WorkerInv, HasNext
  <2>2. ~Completed(Run)
    BY <1>0, <2>1 DEF FinalInv, HasNext
  <2>3. \A r \in Runs : r # Run => at'[r] = at[r]
    BY <1>0 DEF TypeOK
  <2>. QED
    BY <1>0, <2>1, <2>2, <2>3 DEF FinalInv, Completed, Specialised
<1>8. CompletedIsDelivered'
  BY <1>0 DEF CompletedIsDelivered, Reported, Specialised
<1>9. FirstOutcomeIsNamed'
  BY <1>0 DEF FirstOutcomeIsNamed, Reported
<1>. QED
  BY <1>1, <1>2, <1>3, <1>4, <1>5, <1>6, <1>7, <1>8, <1>9

\* A completed run has its target and its workspace when it is delivered.
LEMMA DeliverInv == ASSUME IInv, Deliver PROVE IInv'
<1> USE DEF IInv, Deliver, Deliverable, ckptVars, sweepVars, WorkerFrame, At, Goto, Reporting,
            NoFault, Fault, States
<1>0. Run \in Runs /\ Job[2] \in 0..Gates /\ Run' = Run
  BY JobType DEF Run, Job
<1>1. TypeOK'
  BY <1>0, SMTT(30) DEF TypeOK
<1>2. WorkerInv'
  BY <1>0 DEF WorkerInv
<1>3. SweepInv'
  BY <1>0 DEF SweepInv, Reported, Specialised
<1>4. TargetInv'
  BY <1>0 DEF WorkerInv, TargetInv, Reported
<1>5. WorkspaceInv'
  BY <1>0 DEF TypeOK, WorkspaceInv, HasNext, Reported
<1>6. DeliveryInv'
  BY <1>0 DEF TypeOK, WorkerInv, DeliveryInv, Reported, Specialised, TargetInv, WorkspaceInv
<1>7. FinalInv'
  BY <1>0 DEF TypeOK, FinalInv, Specialised, Completed
<1>8. CompletedIsDelivered'
  BY <1>0 DEF TypeOK, CompletedIsDelivered, DeliveryInv, Reported, Specialised
<1>9. FirstOutcomeIsNamed'
  BY <1>0 DEF TypeOK, FirstOutcomeIsNamed, Reported
<1>. QED
  BY <1>1, <1>2, <1>3, <1>4, <1>5, <1>6, <1>7, <1>8, <1>9

\* The worker reports.
LEMMA PublishInv == ASSUME IInv, Publish PROVE IInv'
<1> USE DEF IInv, Publish, ckptVars, sweepVars, WorkerFrame, At, Goto, Reporting, NoFault,
            Fault, States
<1>0. Run \in Runs /\ Job[2] \in 0..Gates /\ Run' = Run /\ verdict \in States /\ Report(Run,
         verdict)
  BY JobType DEF Run, Job, TypeOK
<1>1. ReportEffect(Run, verdict)
  BY <1>0, ReportFacts
<1>2. TypeOK'
  BY <1>0, <1>1 DEF TypeOK, ReportEffect
<1>3. WorkerInv'
  BY <1>0, <1>1 DEF WorkerInv, ReportEffect
<1>4. SweepInv'
  BY <1>0, <1>1 DEF TypeOK, SweepInv, Specialised, ReportEffect
<1>5. TargetInv'
  BY <1>0, <1>1 DEF TargetInv, ReportEffect
<1>6. WorkspaceInv'
  BY <1>0, <1>1 DEF TypeOK, WorkspaceInv, HasNext, ReportEffect
<1>7. DeliveryInv'
  BY <1>0, <1>1 DEF DeliveryInv
<1>8. FinalInv'
  BY <1>0, <1>1 DEF WorkerInv, FinalInv, ReportEffect
<1>9. CompletedIsDelivered'
  <2> SUFFICES ASSUME NEW q \in Runs, ~Specialised(q)', faults' = 0, Reported(q)',
                      outcomes'[q][1].state = "completed"
               PROVE  delivered'[q] = 1
    BY DEF CompletedIsDelivered
  <2>1. faults = 0 /\ ~Specialised(q) /\ delivered' = delivered
    BY <1>1 DEF TypeOK, ReportEffect, Specialised
  <2>2. CASE q # Run \/ Reported(Run)
    <3>1. Reported(q) /\ outcomes'[q][1] = outcomes[q][1]
      BY <1>1, <2>2 DEF ReportEffect, Reported
    <3>. QED
      BY <2>1, <3>1 DEF CompletedIsDelivered
  <2>3. CASE q = Run /\ ~Reported(Run)
    <3>1. outcomes'[Run][1].state = verdict
      BY <1>1, <2>3 DEF ReportEffect
    <3>. QED
      BY <2>1, <2>3, <3>1 DEF DeliveryInv
  <2>. QED
    BY <2>2, <2>3
<1>10. FirstOutcomeIsNamed'
  <2> SUFFICES ASSUME faults' = 0, NEW q \in Runs, Reported(q)'
               PROVE  outcomes'[q][1].named
    BY DEF FirstOutcomeIsNamed
  <2>1. faults = 0
    BY <1>1 DEF TypeOK, ReportEffect
  <2>2. CASE q # Run \/ Reported(Run)
    <3>1. Reported(q) /\ outcomes'[q][1] = outcomes[q][1]
      BY <1>1, <2>2 DEF ReportEffect, Reported
    <3>. QED
      BY <2>1, <3>1 DEF FirstOutcomeIsNamed
  <2>3. CASE q = Run /\ ~Reported(Run)
    <3>1. Run \in targets
      BY <1>0, <2>1, <2>3 DEF TargetInv
    <3>2. outcomes'[Run][1].named = (Run \in targets)
      BY <1>1, <2>3 DEF ReportEffect
    <3>. QED
      BY <2>3, <3>1, <3>2
  <2>. QED
    BY <2>2, <2>3
<1>. QED
  BY <1>2, <1>3, <1>4, <1>5, <1>6, <1>7, <1>8, <1>9, <1>10

\* A target is forgotten after the report.
LEMMA ForgetTargetInv == ASSUME IInv, ForgetTarget PROVE IInv'
<1> USE DEF IInv, ForgetTarget, Forget, ckptVars, sweepVars, WorkerFrame, At, Goto, Reporting,
            NoFault, Fault, States
<1>0. Run \in Runs /\ Job[2] \in 0..Gates /\ Run' = Run
  BY JobType DEF Run, Job
<1>1. TypeOK'
  BY <1>0 DEF TypeOK
<1>2. WorkerInv'
  BY <1>0 DEF WorkerInv, Reported
<1>3. SweepInv'
  BY <1>0 DEF SweepInv, Reported, Specialised
<1>4. TargetInv'
  BY <1>0 DEF WorkerInv, TargetInv, Reported
<1>5. WorkspaceInv'
  BY <1>0 DEF TypeOK, WorkspaceInv, HasNext, Reported
<1>6. DeliveryInv'
  BY <1>0 DEF DeliveryInv
<1>7. FinalInv'
  BY <1>0 DEF FinalInv, Completed
<1>8. CompletedIsDelivered'
  BY <1>0 DEF TypeOK, CompletedIsDelivered, Reported, Specialised
<1>9. FirstOutcomeIsNamed'
  BY <1>0 DEF TypeOK, FirstOutcomeIsNamed, Reported
<1>. QED
  BY <1>1, <1>2, <1>3, <1>4, <1>5, <1>6, <1>7, <1>8, <1>9

\* A workspace is removed after the report.
LEMMA CleanupInv == ASSUME IInv, Cleanup PROVE IInv'
<1> USE DEF IInv, Cleanup, ckptVars, sweepVars, WorkerFrame, At, Goto, Reporting, NoFault,
            Fault, States
<1>0. Run \in Runs /\ Job[2] \in 0..Gates /\ Run' = Run
  BY JobType DEF Run, Job
<1>1. TypeOK'
  BY <1>0 DEF TypeOK
<1>2. WorkerInv'
  BY <1>0 DEF WorkerInv
<1>3. SweepInv'
  BY <1>0 DEF SweepInv, Reported, Specialised
<1>4. TargetInv'
  BY <1>0 DEF TargetInv, Reported
<1>5. WorkspaceInv'
  BY <1>0 DEF WorkerInv, WorkspaceInv, HasNext, Reported
<1>6. DeliveryInv'
  BY <1>0 DEF DeliveryInv
<1>7. FinalInv'
  BY <1>0 DEF FinalInv, Completed
<1>8. CompletedIsDelivered'
  BY <1>0 DEF CompletedIsDelivered, Reported, Specialised
<1>9. FirstOutcomeIsNamed'
  BY <1>0 DEF FirstOutcomeIsNamed, Reported
<1>. QED
  BY <1>1, <1>2, <1>3, <1>4, <1>5, <1>6, <1>7, <1>8, <1>9

\* The item is done.
LEMMA FinishInv == ASSUME IInv, Finish PROVE IInv'
<1> USE DEF IInv, Finish, ckptVars, sweepVars, WorkerFrame, At, Goto, Reporting, NoFault,
            Fault, States
<1>0. todo' \in Seq(Items)
  BY DEF TypeOK
<1>1. TypeOK'
  BY <1>0 DEF TypeOK
<1>2. WorkerInv'
  BY <1>0 DEF WorkerInv
<1>3. SweepInv'
  BY <1>0 DEF SweepInv, Reported, Specialised
<1>4. TargetInv'
  BY <1>0 DEF TargetInv, Reported
<1>5. WorkspaceInv'
  BY <1>0 DEF WorkspaceInv, HasNext, Reported
<1>6. DeliveryInv'
  BY <1>0 DEF DeliveryInv
<1>7. FinalInv'
  BY <1>0 DEF FinalInv, Completed
<1>8. CompletedIsDelivered'
  BY <1>0 DEF CompletedIsDelivered, Reported, Specialised
<1>9. FirstOutcomeIsNamed'
  BY <1>0 DEF FirstOutcomeIsNamed, Reported
<1>. QED
  BY <1>1, <1>2, <1>3, <1>4, <1>5, <1>6, <1>7, <1>8, <1>9

-----------------------------------------------------------------------------
(* The steps of the sweep. *)

\* The sweep lists runs that have a checkpoint.
LEMMA ScanInv == ASSUME IInv, Scan PROVE IInv'
<1> USE DEF IInv, Scan, Stale, HasNext, ckptVars, workVars, SweepFrame, NoFault, Fault, States
<1>0. Run' = Run /\ (wpc # "idle" => Run \in Runs)
  BY JobType DEF Run, Job, WorkerInv
<1>1. TypeOK'
  BY <1>0 DEF TypeOK
<1>2. WorkerInv'
  BY <1>0 DEF WorkerInv, Reported
<1>3. SweepInv'
  BY <1>0 DEF SweepInv, Reported, Specialised
<1>4. TargetInv'
  BY <1>0 DEF TargetInv, Reported
<1>5. WorkspaceInv'
  BY <1>0 DEF WorkspaceInv, Reported
<1>6. DeliveryInv'
  BY <1>0 DEF DeliveryInv, Reported, Specialised
<1>7. FinalInv'
  BY <1>0 DEF TypeOK, FinalInv, Specialised, Completed
<1>8. CompletedIsDelivered'
  BY <1>0 DEF CompletedIsDelivered, Reported, Specialised
<1>9. FirstOutcomeIsNamed'
  BY <1>0 DEF FirstOutcomeIsNamed, Reported
<1>. QED
  BY <1>1, <1>2, <1>3, <1>4, <1>5, <1>6, <1>7, <1>8, <1>9

\* A listed run is reported.
LEMMA SweepPublishInv == ASSUME IInv, NEW r \in Runs, SweepPublish(r) PROVE IInv'
<1> USE DEF IInv, SweepPublish, ckptVars, workVars, SweepFrame, NoFault, Fault, States
<1>0. Run' = Run /\ (wpc # "idle" => Run \in Runs)
  BY JobType DEF Run, Job, WorkerInv
<1>1. "stale" \in States /\ ReportEffect(r, "stale")
  BY ReportFacts
<1>2. TypeOK'
  BY <1>0, <1>1 DEF TypeOK, ReportEffect
<1>3. WorkerInv'
  BY <1>0, <1>1 DEF WorkerInv, HasNext, ReportEffect
<1>4. SweepInv'
  BY <1>0, <1>1 DEF SweepInv, Specialised, ReportEffect
<1>5. TargetInv'
  BY <1>0, <1>1 DEF TypeOK, TargetInv, ReportEffect
<1>6. WorkspaceInv'
  BY <1>0, <1>1 DEF TypeOK, WorkspaceInv, HasNext, ReportEffect
<1>7. DeliveryInv'
  BY <1>0, <1>1 DEF TypeOK, DeliveryInv, Specialised, ReportEffect
<1>8. FinalInv'
  <2>1. ages' = ages /\ old' = old /\ at' = at /\ kind' = kind /\ faults' >= faults
        /\ stale' = stale \ {r} /\ wpc' = wpc
    BY <1>1 DEF ReportEffect
  <2>2. \A q \in Runs : Completed(q)' => Completed(q)
    BY <1>1 DEF ReportEffect
  <2>3. faults' = 0 => faults = 0
    BY <2>1, <1>1 DEF TypeOK
  <2>. QED
    BY <1>0, <2>1, <2>2, <2>3 DEF FinalInv, Specialised
<1>9. CompletedIsDelivered'
  <2> SUFFICES ASSUME NEW q \in Runs, ~Specialised(q)', faults' = 0, Reported(q)',
                      outcomes'[q][1].state = "completed"
               PROVE  delivered'[q] = 1
    BY DEF CompletedIsDelivered
  <2>1. faults = 0 /\ ~Specialised(q) /\ delivered' = delivered
    BY <1>1 DEF TypeOK, ReportEffect, Specialised
  <2>2. CASE q # r \/ Reported(r)
    <3>1. Reported(q) /\ outcomes'[q][1] = outcomes[q][1]
      BY <1>1, <2>2 DEF ReportEffect, Reported
    <3>. QED
      BY <2>1, <3>1 DEF CompletedIsDelivered
  <2>3. CASE q = r /\ ~Reported(r)
    <3>1. outcomes'[r][1].state = "stale"
      BY <1>1, <2>3 DEF ReportEffect
    <3>. QED
      BY <2>1, <2>3, <3>1
  <2>. QED
    BY <2>2, <2>3
<1>10. FirstOutcomeIsNamed'
  <2> SUFFICES ASSUME faults' = 0, NEW q \in Runs, Reported(q)'
               PROVE  outcomes'[q][1].named
    BY DEF FirstOutcomeIsNamed
  <2>1. faults = 0
    BY <1>1 DEF TypeOK, ReportEffect
  <2>2. CASE q # r \/ Reported(r)
    <3>1. Reported(q) /\ outcomes'[q][1] = outcomes[q][1]
      BY <1>1, <2>2 DEF ReportEffect, Reported
    <3>. QED
      BY <2>1, <3>1 DEF FirstOutcomeIsNamed
  <2>3. CASE q = r /\ ~Reported(r)
    <3>1. r \in targets
      BY <1>0, <2>1, <2>3 DEF TargetInv, SweepInv
    <3>2. outcomes'[r][1].named = (r \in targets)
      BY <1>1, <2>3 DEF ReportEffect
    <3>. QED
      BY <2>3, <3>1, <3>2
  <2>. QED
    BY <2>2, <2>3
<1>. QED
  BY <1>2, <1>3, <1>4, <1>5, <1>6, <1>7, <1>8, <1>9, <1>10

\* The sweep forgets the target of a run that it reported.
LEMMA SweepForgetInv == ASSUME IInv, SweepForget PROVE IInv'
<1> USE DEF IInv, SweepForget, Forget, ckptVars, workVars, SweepFrame, NoFault, Fault, States
<1>0. Run' = Run /\ (wpc # "idle" => Run \in Runs)
  BY JobType DEF Run, Job, WorkerInv
<1>1. TypeOK'
  BY <1>0 DEF TypeOK
<1>2. WorkerInv'
  BY <1>0 DEF WorkerInv, HasNext, Reported
<1>3. SweepInv'
  BY <1>0 DEF SweepInv, Reported, Specialised
<1>4. TargetInv'
  BY <1>0 DEF TypeOK, TargetInv, Reported, SweepInv
<1>5. WorkspaceInv'
  BY <1>0 DEF TypeOK, WorkspaceInv, HasNext, Reported
<1>6. DeliveryInv'
  BY <1>0 DEF TypeOK, DeliveryInv, Reported, Specialised
<1>7. FinalInv'
  BY <1>0 DEF TypeOK, FinalInv, Specialised, Completed
<1>8. CompletedIsDelivered'
  BY <1>0 DEF TypeOK, CompletedIsDelivered, Reported, Specialised
<1>9. FirstOutcomeIsNamed'
  BY <1>0 DEF TypeOK, FirstOutcomeIsNamed, Reported
<1>. QED
  BY <1>1, <1>2, <1>3, <1>4, <1>5, <1>6, <1>7, <1>8, <1>9

\* The sweep removes the workspace of a run that it reported.
LEMMA SweepCleanupInv == ASSUME IInv, SweepCleanup PROVE IInv'
<1> USE DEF IInv, SweepCleanup, ckptVars, workVars, SweepFrame, NoFault, Fault, States
<1>0. Run' = Run /\ (wpc # "idle" => Run \in Runs)
  BY JobType DEF Run, Job, WorkerInv
<1>1. TypeOK'
  BY <1>0 DEF TypeOK
<1>2. WorkerInv'
  BY <1>0 DEF WorkerInv, HasNext, Reported
<1>3. SweepInv'
  BY <1>0 DEF SweepInv, Specialised
<1>4. TargetInv'
  BY <1>0 DEF TargetInv, Reported
<1>5. WorkspaceInv'
  BY <1>0 DEF WorkspaceInv, HasNext, Reported, SweepInv
<1>6. DeliveryInv'
  BY <1>0 DEF DeliveryInv, Reported, Specialised
<1>7. FinalInv'
  BY <1>0 DEF FinalInv, Specialised, Completed
<1>8. CompletedIsDelivered'
  BY <1>0 DEF CompletedIsDelivered, Reported, Specialised
<1>9. FirstOutcomeIsNamed'
  BY <1>0 DEF FirstOutcomeIsNamed, Reported
<1>. QED
  BY <1>1, <1>2, <1>3, <1>4, <1>5, <1>6, <1>7, <1>8, <1>9

-----------------------------------------------------------------------------
(* The process and its environment. *)

\* A crash leaves what is durable.
LEMMA CrashInv == ASSUME IInv, Crash PROVE IInv'
<1> USE DEF IInv, Crash, TargetsAfterCrash, ckptVars, workVars, SweepFrame, NoFault, Fault,
            States
<1>0. Run' = Run /\ (wpc # "idle" => Run \in Runs)
  BY JobType DEF Run, Job, WorkerInv
<1>1. TypeOK'
  <2>1. crashes' \in 0..MaxCrashes /\ targets' \subseteq Runs
    BY DEF TypeOK
  <2>2. up' \in BOOLEAN
    OBVIOUS
  <2>3. wpc' = "idle" /\ verdict' \in States /\ tidy' \in BOOLEAN /\ spc' = "idle"
        /\ stale' = {} /\ expiring' = {}
    OBVIOUS
  <2>. QED
    BY <2>1, <2>2, <2>3 DEF TypeOK
<1>2. WorkerInv'
  BY <1>0 DEF WorkerInv
<1>3. SweepInv'
  BY <1>0 DEF SweepInv, Specialised
<1>4. TargetInv'
  BY <1>0 DEF TargetInv, Reported
<1>5. WorkspaceInv'
  BY <1>0 DEF WorkspaceInv, HasNext, Reported
<1>6. DeliveryInv'
  BY <1>0 DEF DeliveryInv
<1>7. FinalInv'
  BY <1>0 DEF FinalInv, Completed
<1>8. CompletedIsDelivered'
  BY <1>0 DEF CompletedIsDelivered, Reported, Specialised
<1>9. FirstOutcomeIsNamed'
  BY <1>0 DEF FirstOutcomeIsNamed, Reported
<1>. QED
  BY <1>1, <1>2, <1>3, <1>4, <1>5, <1>6, <1>7, <1>8, <1>9

\* Reconciliation keeps what can go on.
LEMMA RestartInv == ASSUME IInv, Restart PROVE IInv'
<1> USE DEF IInv, Restart, Resumable, sweepVars, ckptVars, workVars, SweepFrame, NoFault,
            Fault, States
<1>0. Run' = Run /\ (wpc # "idle" => Run \in Runs)
  BY JobType DEF Run, Job, WorkerInv
<1>1. TypeOK'
  BY <1>0 DEF TypeOK
<1>2. WorkerInv'
  BY <1>0 DEF WorkerInv
<1>3. SweepInv'
  BY <1>0 DEF SweepInv, Reported, Specialised
<1>4. TargetInv'
  BY <1>0 DEF WorkerInv, TargetInv, Reported
<1>5. WorkspaceInv'
  BY <1>0 DEF TypeOK, WorkerInv, WorkspaceInv, HasNext, Reported
<1>6. DeliveryInv'
  BY <1>0 DEF WorkerInv, DeliveryInv
<1>7. FinalInv'
  BY <1>0 DEF WorkerInv, FinalInv, Completed
<1>8. CompletedIsDelivered'
  BY <1>0 DEF TypeOK, CompletedIsDelivered, Reported, Specialised
<1>9. FirstOutcomeIsNamed'
  BY <1>0 DEF TypeOK, FirstOutcomeIsNamed, Reported
<1>. QED
  BY <1>1, <1>2, <1>3, <1>4, <1>5, <1>6, <1>7, <1>8, <1>9

\* A message arrives.
LEMMA ProduceInv == ASSUME IInv, NEW item \in Items, Produce(item) PROVE IInv'
<1> USE DEF IInv, Produce, EnvFrame, sweepVars, ckptVars, workVars, SweepFrame, NoFault,
            Fault, States
<1>0. /\ todo' \in Seq(Items) /\ todo' # << >> /\ (wpc # "idle" => Run' = Run /\ Run \in Runs)
  BY JobType, RunStays DEF WorkerInv
<1>1. TypeOK'
  BY <1>0 DEF TypeOK
<1>2. WorkerInv'
  BY <1>0 DEF WorkerInv, HasNext, Reported
<1>3. SweepInv'
  BY <1>0 DEF SweepInv, Reported, Specialised
<1>4. TargetInv'
  BY <1>0 DEF TargetInv, Reported
<1>5. WorkspaceInv'
  BY <1>0 DEF WorkspaceInv, HasNext, Reported
<1>6. DeliveryInv'
  BY <1>0 DEF DeliveryInv, Reported, Specialised
<1>7. FinalInv'
  BY <1>0 DEF FinalInv, Specialised, Completed
<1>8. CompletedIsDelivered'
  BY <1>0 DEF CompletedIsDelivered, Reported, Specialised
<1>9. FirstOutcomeIsNamed'
  BY <1>0 DEF FirstOutcomeIsNamed, Reported
<1>. QED
  BY <1>1, <1>2, <1>3, <1>4, <1>5, <1>6, <1>7, <1>8, <1>9

\* A message arrives again.
LEMMA DuplicateInv == ASSUME IInv, NEW item \in Items, Duplicate(item) PROVE IInv'
<1> USE DEF IInv, Duplicate, EnvFrame, sweepVars, ckptVars, workVars, SweepFrame, NoFault,
            Fault, States
<1>0. /\ todo' \in Seq(Items) /\ todo' # << >> /\ (wpc # "idle" => Run' = Run /\ Run \in Runs)
  BY JobType, RunStays DEF WorkerInv
<1>1. TypeOK'
  BY <1>0 DEF TypeOK
<1>2. WorkerInv'
  BY <1>0 DEF WorkerInv, HasNext, Reported
<1>3. SweepInv'
  BY <1>0 DEF SweepInv, Reported, Specialised
<1>4. TargetInv'
  BY <1>0 DEF TargetInv, Reported
<1>5. WorkspaceInv'
  BY <1>0 DEF WorkspaceInv, HasNext, Reported
<1>6. DeliveryInv'
  BY <1>0 DEF DeliveryInv, Reported, Specialised
<1>7. FinalInv'
  BY <1>0 DEF FinalInv, Specialised, Completed
<1>8. CompletedIsDelivered'
  BY <1>0 DEF CompletedIsDelivered, Reported, Specialised
<1>9. FirstOutcomeIsNamed'
  BY <1>0 DEF FirstOutcomeIsNamed, Reported
<1>. QED
  BY <1>1, <1>2, <1>3, <1>4, <1>5, <1>6, <1>7, <1>8, <1>9

\* Time passes.
LEMMA AgeInv == ASSUME IInv, NEW r \in Runs, Age(r) PROVE IInv'
<1> USE DEF IInv, Age, EnvFrame, sweepVars, ckptVars, workVars, SweepFrame, NoFault, Fault,
            States
<1>0. Run' = Run /\ (wpc # "idle" => Run \in Runs)
  BY JobType DEF Run, Job, WorkerInv
<1>1. TypeOK'
  BY <1>0 DEF TypeOK
<1>2. WorkerInv'
  BY <1>0 DEF WorkerInv, HasNext, Reported
<1>3. SweepInv'
  BY <1>0 DEF SweepInv, Reported, Specialised
<1>4. TargetInv'
  BY <1>0 DEF TargetInv, Reported
<1>5. WorkspaceInv'
  BY <1>0 DEF WorkspaceInv, HasNext, Reported
<1>6. DeliveryInv'
  BY <1>0 DEF DeliveryInv, Reported, Specialised
<1>7. FinalInv'
  BY <1>0 DEF TypeOK, FinalInv, Specialised, Completed
<1>8. CompletedIsDelivered'
  BY <1>0 DEF CompletedIsDelivered, Reported, Specialised
<1>9. FirstOutcomeIsNamed'
  BY <1>0 DEF FirstOutcomeIsNamed, Reported
<1>. QED
  BY <1>1, <1>2, <1>3, <1>4, <1>5, <1>6, <1>7, <1>8, <1>9

\* The table is edited.
LEMMA RerouteInv == ASSUME IInv, Reroute PROVE IInv'
<1> USE DEF IInv, Reroute, EnvFrame, sweepVars, ckptVars, workVars, SweepFrame, NoFault,
            Fault, States
<1>0. Run' = Run /\ (wpc # "idle" => Run \in Runs)
  BY JobType DEF Run, Job, WorkerInv
<1>1. TypeOK'
  BY <1>0 DEF TypeOK
<1>2. WorkerInv'
  BY <1>0 DEF WorkerInv, HasNext, Reported
<1>3. SweepInv'
  BY <1>0 DEF SweepInv, Reported, Specialised
<1>4. TargetInv'
  BY <1>0 DEF TargetInv, Reported
<1>5. WorkspaceInv'
  BY <1>0 DEF WorkspaceInv, HasNext, Reported
<1>6. DeliveryInv'
  BY <1>0 DEF DeliveryInv, Reported, Specialised
<1>7. FinalInv'
  BY <1>0 DEF FinalInv, Specialised, Completed
<1>8. CompletedIsDelivered'
  BY <1>0 DEF CompletedIsDelivered, Reported, Specialised
<1>9. FirstOutcomeIsNamed'
  BY <1>0 DEF FirstOutcomeIsNamed, Reported
<1>. QED
  BY <1>1, <1>2, <1>3, <1>4, <1>5, <1>6, <1>7, <1>8, <1>9

-----------------------------------------------------------------------------
(* The theorems. *)

\* The initial state satisfies the invariant.
LEMMA InitInv == Init => IInv
<1> SUFFICES ASSUME Init PROVE IInv
  OBVIOUS
<1> USE DEF Init
<1>1. TypeOK
  <2>1. outcomes \in [Runs -> Seq(Outcome)] /\ todo \in Seq(Items) /\ verdict \in States
    BY DEF States
  <2>2. decidedBy \in [Runs -> [1..Gates -> SUBSET (0..Gates)]] /\ delivered \in [Runs -> Nat]
    OBVIOUS
  <2>3. tidy \in BOOLEAN /\ up \in BOOLEAN /\ old \in [Runs -> BOOLEAN]
    OBVIOUS
  <2>4. /\ crashes \in 0..MaxCrashes /\ duplicates \in 0..MaxDuplicates
        /\ ages \in 0..MaxAges /\ faults \in 0..MaxFaults /\ reroutes \in 0..MaxReroutes
    OBVIOUS
  <2>. QED
    BY <2>1, <2>2, <2>3, <2>4 DEF TypeOK
<1>2. \A r \in Runs : ~Reported(r) /\ ~Completed(r) /\ ~HasNext(r)
  BY DEF Reported, Completed, HasNext
<1>3. WorkerInv /\ SweepInv /\ TargetInv
  BY <1>2 DEF WorkerInv, SweepInv, TargetInv, Specialised
<1>4. WorkspaceInv /\ DeliveryInv /\ FinalInv
  BY <1>2 DEF WorkspaceInv, DeliveryInv, FinalInv
<1>5. CompletedIsDelivered /\ FirstOutcomeIsNamed
  BY <1>2 DEF CompletedIsDelivered, FirstOutcomeIsNamed
<1>. QED
  BY <1>1, <1>3, <1>4, <1>5 DEF IInv

\* The invariant is inductive.
LEMMA NextInv == IInv /\ [Next]_vars => IInv'
<1> SUFFICES ASSUME IInv, [Next]_vars PROVE IInv'
  OBVIOUS
<1>1. CASE WorkerStep
  <2>1. CASE \/ Take \/ Known \/ RecordTarget \/ Clone \/ CloneFails \/ CloneRaises \/ Start
             \/ RoutingFails \/ Factory \/ Resume
    BY <2>1, TakeInv, KnownInv, RecordTargetInv, CloneInv, CloneFailsInv, CloneRaisesInv,
       StartInv, RoutingFailsInv, FactoryInv, ResumeInv
  <2>2. CASE \/ PassGate \/ Park \/ End \/ NodeRaises \/ Deliver \/ Publish \/ ForgetTarget
             \/ Cleanup \/ Finish
    BY <2>2, PassGateInv, ParkInv, EndInv, NodeRaisesInv, DeliverInv, PublishInv,
       ForgetTargetInv, CleanupInv, FinishInv
  <2>. QED
    BY <1>1, <2>1, <2>2 DEF WorkerStep
<1>2. CASE SweepStep
  BY <1>2, ScanInv, SweepPublishInv, SweepForgetInv, SweepCleanupInv DEF SweepStep
<1>3. CASE Crash \/ Restart \/ Reroute
  BY <1>3, CrashInv, RestartInv, RerouteInv
<1>4. CASE \E i \in Items : Produce(i) \/ Duplicate(i)
  BY <1>4, ProduceInv, DuplicateInv
<1>5. CASE \E r \in Runs : Age(r)
  BY <1>5, AgeInv
<1>6. CASE UNCHANGED vars
  <2> USE <1>6 DEF vars, ckptVars, workVars, sweepVars, boundVars, IInv
  <2>0. Run' = Run
    BY DEF Run, Job
  <2>1. TypeOK'
    BY DEF TypeOK
  <2>2. WorkerInv' /\ SweepInv' /\ TargetInv'
    BY <2>0 DEF WorkerInv, SweepInv, TargetInv, HasNext, Reported, Specialised
  <2>3. WorkspaceInv' /\ DeliveryInv' /\ FinalInv'
    BY <2>0 DEF WorkspaceInv, DeliveryInv, FinalInv, HasNext, Reported, Specialised, Completed
  <2>4. CompletedIsDelivered' /\ FirstOutcomeIsNamed'
    BY DEF CompletedIsDelivered, FirstOutcomeIsNamed, Reported, Specialised
  <2>. QED
    BY <2>1, <2>2, <2>3, <2>4
<1>. QED
  BY <1>1, <1>2, <1>3, <1>4, <1>5, <1>6 DEF Next, Idle

\* The invariant holds in every reachable state.
THEOREM InductiveInvariant == Spec => []IInv
<1>1. Init => IInv
  BY InitInv
<1>2. IInv /\ [Next]_vars => IInv'
  BY NextInv
<1>. QED
  BY <1>1, <1>2, PTL DEF Spec

\* Every variable keeps its type: no run passes more gates than it has, and the worker is
\* never at a step that the code does not have.
THEOREM TypeCorrect == Spec => []TypeOK
<1>1. IInv => TypeOK
  BY DEF IInv
<1>. QED
  BY <1>1, InductiveInvariant, PTL

\* As long as no call fails, a parked run of which nothing was reported has its workspace,
\* through every crash, reconciliation, redelivery and edit of the routing table.
\* (main._reconcile_workspaces, workspace.reconcile, clone_for_run)
THEOREM ParkedRunsKeepWorkspace == Spec => []ParkedHasWorkspace
<1>1. IInv => ParkedHasWorkspace
  BY DEF IInv, WorkspaceInv, ParkedHasWorkspace, HasNext, Parked
<1>. QED
  BY <1>1, InductiveInvariant, PTL

\* Whatever fails, it has the record of where its change is to be delivered.
\* (run_targets.PostgresRunTargets, ADR 0026)
THEOREM ParkedRunsKeepTarget == Spec => []ParkedHasTarget
<1>1. IInv => ParkedHasTarget
  BY DEF IInv, TargetInv, ParkedHasTarget, Parked
<1>. QED
  BY <1>1, InductiveInvariant, PTL

\* As long as no call fails, an SDLC run whose first report is "completed" was delivered,
\* once, before.  (consumer._deliver_if_completed)
THEOREM CompletedRunsAreDelivered == Spec => []CompletedIsDelivered
<1>1. IInv => CompletedIsDelivered
  BY DEF IInv
<1>. QED
  BY <1>1, InductiveInvariant, PTL

\* As long as no call fails, the first event about a run names its repository.
\* (consumer._publish_outcome)
THEOREM FirstReportsAreNamed == Spec => []FirstOutcomeIsNamed
<1>1. IInv => FirstOutcomeIsNamed
  BY DEF IInv
<1>. QED
  BY <1>1, InductiveInvariant, PTL

\* Only the worker's and the sweep's reports change what was reported.
LEMMA OnlyReports ==
  ASSUME [Next]_vars, ~Publish, \A r \in Runs : ~SweepPublish(r)
  PROVE  outcomes' = outcomes
<1>1. CASE WorkerStep
  BY <1>1 DEF WorkerStep, Take, Known, RecordTarget, Clone, CloneFails, CloneRaises, Start,
     RoutingFails, Factory, Resume, PassGate, Park, End, NodeRaises, Deliver, ForgetTarget,
     Cleanup, Finish
<1>2. CASE SweepStep
  BY <1>2 DEF SweepStep, Scan, SweepForget, SweepCleanup
<1>3. CASE \/ Crash \/ Restart \/ Reroute \/ Idle \/ UNCHANGED vars
           \/ (\E i \in Items : Produce(i) \/ Duplicate(i)) \/ \E r \in Runs : Age(r)
  BY <1>3 DEF Crash, Restart, Reroute, Idle, Produce, Duplicate, Age, EnvFrame, vars
<1>. QED
  BY <1>1, <1>2, <1>3 DEF Next

\* As long as nothing expires and no call fails, nothing is reported of an SDLC run after
\* it was reported completed.  (resume_run, already_known)
THEOREM CompletionIsFinal == Spec => CompletedIsFinal
<1>1. ASSUME IInv, [Next]_vars, NEW r \in Runs, ~Specialised(r), ages = 0, faults = 0,
             \E i \in DOMAIN outcomes[r] : outcomes[r][i].state = "completed"
      PROVE  outcomes'[r] = outcomes[r]
  <2>1. Completed(r) /\ FinalInv /\ TypeOK /\ stale = {}
    BY <1>1 DEF Completed, IInv, FinalInv
  <2>2. CASE Publish
    <3>1. Run \in Runs /\ Run # r
      BY <1>1, <2>1, <2>2, JobType DEF Publish, At, FinalInv
    <3>2. ReportEffect(Run, verdict)
      BY <2>1, <2>2, <3>1, ReportFacts DEF Publish, TypeOK
    <3>. QED
      BY <3>1, <3>2 DEF ReportEffect
  <2>3. \A q \in Runs : ~SweepPublish(q)
    BY <2>1 DEF SweepPublish
  <2>. QED
    BY <1>1, <2>2, <2>3, OnlyReports
<1>2. IInv /\ [Next]_vars =>
        [\A r \in Runs :
           /\ ~Specialised(r) /\ ages = 0 /\ faults = 0
           /\ \E i \in DOMAIN outcomes[r] : outcomes[r][i].state = "completed"
           => outcomes'[r] = outcomes[r]]_vars
  BY <1>1
<1>. QED
  BY <1>2, InductiveInvariant, PTL DEF Spec, CompletedIsFinal
=============================================================================
