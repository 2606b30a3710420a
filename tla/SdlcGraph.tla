------------------------------ MODULE SdlcGraph ------------------------------
(***************************************************************************)
(* The SDLC graph (graph.py and nodes/): one run of it, one node at a time,*)
(* over the git workspace the run works in.                                *)
(*                                                                         *)
(* A file's content is abstracted to where it comes from: "base" (as in    *)
(* the clone, or absent there), "clean" or "bad" (written by the run; a    *)
(* guardrail pattern matches the bad ones), or "gone" (removed with the    *)
(* workspace).  Prompts, plans, summaries and audit events are left out:   *)
(* no route depends on them.                                               *)
(*                                                                         *)
(* A run that was reported failed or stale has lost its workspace, not its *)
(* checkpoint: a decision that comes late takes it up again where it was,  *)
(* in a directory that is missing or that the nodes make anew (TakeUp).    *)
(*                                                                         *)
(* External (LangGraph): a node that reaches interrupt() parks the run and *)
(* is executed again from its first line when the decision comes; a crash  *)
(* loses what the executing node did to the state, not what it did to the  *)
(* workspace; a redelivered decision takes the run up where it was, a      *)
(* redelivered trigger does not (module RunLifecycle).                     *)
(***************************************************************************)
EXTENDS Integers

CONSTANTS
  Files,        \* the paths the coder may write
  Tracked,      \* those of them that exist in the clone
  Ignored,      \* those of them that the target's .gitignore covers
  RetryLimit,   \* GraphState.retry_limit
  MaxCrashes    \* BOUND: crashes of the process

\* The document that the documentation node writes: docs/CHANGE_<run>.md.
Doc == "doc"

\* The coder may write something, but not the document of the run it works for.
ASSUME SdlcAssumption ==
  /\ Tracked \subseteq Files /\ Ignored \subseteq Files /\ Tracked \cap Ignored = {}
  /\ Files # {} /\ Doc \notin Files
  /\ RetryLimit \in Nat /\ MaxCrashes \in Nat

Nodes == {"requirement_clarifier", "codebase_reasoner", "architecture_design",
          "decomposer_planner", "replanner", "coder", "test_executor",
          "documentation", "sync", "release_gate", "rollback"}
Scenarios == {"greenfield", "brownfield", "ambiguous"}
GateTypes == {"clarification_approval", "codebase_impact_review", "plan_approval",
              "replanning_approval", "merge_release_approval"}
Decisions == {"approved", "rejected", "edited"}
Hints == {"", "proceed", "retry", "fallback_attempt", "rollback"}

Paths == Files \cup {Doc}
Contents == {"base", "clean", "bad", "gone"}

\* What is not known or does not exist yet, where a revision or an output may be.
Nothing == [p \in {} |-> "base"]
Base == [p \in Paths |-> "base"]
Gone == [p \in Paths |-> "gone"]

VARIABLES
  \* GraphState, as checkpointed.
  scenario,     \* scenario_type
  next,         \* the nodes to execute next
  asked,        \* the node in next is parked at its gate
  gates,        \* gates[g]: the recorded decision, "none" if there is none
  replanning,   \* replanning_triggered
  retries,      \* retry_count
  fallback,     \* fallback_triggered
  hint,         \* route_hint
  code,         \* coder.code_files
  before,       \* coder.commit_sha_before, as the tree of that commit
  attempts,     \* the length of coder_attempts
  status,       \* run_status
  safeStop,     \* safe_stop
  \* The workspace, which no checkpoint covers.
  tree,         \* the files on disk
  head,         \* the files in HEAD
  space,        \* "clone", "removed", or "plain": a directory made anew, without the
                \* clone's history and its .gitignore
  \* How it stopped other than by reaching END.
  lost,         \* "no", "raised" (a node raised), "dropped" (a crash in the first
                \* slice) or "expired" (PARKED_RUN_TTL)
  \* Observations.
  tested,       \* the code files on disk when the tests last passed
  overridden,   \* the reviewer set override_guardrails
  crashes

stateVars == <<scenario, gates, replanning, retries, fallback, hint, code, before,
               attempts, status, safeStop>>
spaceVars == <<tree, head, space>>
vars == <<stateVars, next, asked, spaceVars, lost, tested, overridden, crashes>>

Outputs == UNION {[D -> {"clean", "bad"}] : D \in SUBSET Files}

TypeOK ==
  /\ scenario \in Scenarios /\ next \subseteq Nodes /\ asked \in BOOLEAN
  /\ gates \in [GateTypes -> Decisions \cup {"none"}]
  /\ replanning \in BOOLEAN /\ fallback \in BOOLEAN /\ hint \in Hints
  /\ retries \in 0..RetryLimit /\ attempts \in Nat
  /\ code \in Outputs
  /\ before = Nothing \/ before \in [Paths -> Contents]
  /\ status \in {"running", "completed", "failed"} /\ safeStop \in BOOLEAN
  /\ tree \in [Paths -> Contents] /\ head \in [Paths -> Contents]
  /\ space \in {"clone", "removed", "plain"}
  /\ lost \in {"no", "raised", "dropped", "expired"}
  /\ tested = Nothing \/ tested \in [Files -> Contents]
  /\ overridden \in BOOLEAN /\ crashes \in 0..MaxCrashes

Init ==
  /\ scenario \in Scenarios
  /\ next = {"requirement_clarifier"} /\ asked = FALSE
  /\ gates = [g \in GateTypes |-> "none"]
  /\ replanning = FALSE /\ retries = 0 /\ fallback = FALSE /\ hint = ""
  /\ code = Nothing /\ before = Nothing /\ attempts = 0
  /\ status = "running" /\ safeStop = FALSE
  /\ tree = Base /\ head = Base /\ space = "clone"
  /\ lost = "no" /\ tested = Nothing /\ overridden = FALSE /\ crashes = 0

-----------------------------------------------------------------------------
(* Helpers. *)

At(n) == lost = "no" /\ n \in next

\* The gates that fire, and the nodes that ask them.
GateOf ==
  [n \in Nodes |->
     CASE n = "requirement_clarifier" /\ scenario = "greenfield" -> "clarification_approval"
       [] n = "codebase_reasoner" /\ scenario = "brownfield" -> "codebase_impact_review"
       [] n = "decomposer_planner" /\ scenario = "greenfield" -> "plan_approval"
       [] n = "replanner" -> "replanning_approval"
       [] n = "release_gate" -> "merge_release_approval"
       [] OTHER -> "none"]

\* Node n is done and the graph goes on with succ.
Leave(succ) == next' = succ /\ asked' = FALSE

\* The parallel branches both edge into sync, which waits for the second.
Join(n) ==
  /\ next' = IF next = {n} THEN {"sync"} ELSE next \ {n}
  /\ UNCHANGED asked

\* What node n does with the decision s at its gate: record it, whatever it says.
Record(n, s) ==
  /\ asked = (GateOf[n] # "none")
  /\ IF asked THEN gates' = [gates EXCEPT ![GateOf[n]] = s]
             ELSE s = "approved" /\ UNCHANGED gates

\* tools.write_code_files: the files of out are overwritten, all others stay.
Overlay(out) == [p \in Paths |-> IF p \in DOMAIN out THEN out[p] ELSE tree[p]]

\* A node that writes makes the directory if it has to (mkdir).
MadeSpace == IF space = "removed" THEN "plain" ELSE space

\* git_current_commit answers None when git fails or there is no commit.
Revisions == IF space = "clone" THEN {head, Nothing} ELSE {Nothing}

\* tools.git_commit_all: the whole tree, but git add passes over ignored files.  In a
\* directory without git it begins a history (git_init_if_needed), and the .gitignore
\* of the clone is gone.
Committed ==
  [p \in Paths |-> IF space = "clone" /\ p \in Ignored THEN head[p] ELSE tree[p]]

\* git reset --hard rewinds what is tracked, in HEAD or in the target.
Reset(rev) == [p \in Paths |-> IF p \in Tracked \/ head[p] # "base" THEN rev[p] ELSE tree[p]]

\* Mutant: git reset --hard alone.
Reverted_NoClean(rev) == Reset(rev)

\* tools.git_revert_to: and git clean -fd removes what is untracked and not ignored.
Reverted(rev) == [p \in Paths |-> IF p \in Ignored THEN tree[p] ELSE rev[p]]

\* tools.evaluate_guardrails: over the last output of the coder, not the workspace.
Violations == {f \in DOMAIN code : code[f] = "bad"}

OnlyCode(t) == [f \in Files |-> t[f]]

\* A reviewer has answered a gate of this run.
Answered == \E g \in GateTypes : gates[g] # "none"

-----------------------------------------------------------------------------
(* The nodes up to the coder. *)

\* A node with a gate reaches interrupt(): the run is parked.
Ask(n) ==
  /\ At(n) /\ GateOf[n] # "none" /\ ~asked
  /\ asked' = TRUE
  /\ UNCHANGED <<stateVars, next, spaceVars, lost, tested, overridden, crashes>>

AfterClarifier ==
  IF scenario = "greenfield" THEN "architecture_design" ELSE "codebase_reasoner"

RequirementClarifier(s) ==
  /\ At("requirement_clarifier")
  /\ Record("requirement_clarifier", s)
  /\ Leave({AfterClarifier})
  /\ UNCHANGED <<scenario, replanning, retries, fallback, hint, code, before, attempts,
                 status, safeStop, spaceVars, lost, tested, overridden, crashes>>

\* conflict: a file of the workspace is named like a configured marker.
CodebaseReasoner(s, conflict) ==
  /\ At("codebase_reasoner")
  /\ conflict => space # "removed"
  /\ Record("codebase_reasoner", s)
  /\ replanning' = (replanning \/ (scenario = "ambiguous" /\ conflict))
  /\ Leave({"architecture_design"})
  /\ UNCHANGED <<scenario, retries, fallback, hint, code, before, attempts,
                 status, safeStop, spaceVars, lost, tested, overridden, crashes>>

ArchitectureDesign ==
  /\ At("architecture_design")
  /\ Leave({"decomposer_planner"})
  /\ UNCHANGED <<stateVars, spaceVars, lost, tested, overridden, crashes>>

\* Mutant: a conflict always goes to the replanner, answered or not.
AfterPlanner_NoGateCheck ==
  IF scenario = "ambiguous" /\ replanning THEN "replanner" ELSE "coder"

AfterPlanner ==
  IF scenario = "ambiguous" /\ replanning /\ gates["replanning_approval"] = "none"
  THEN "replanner" ELSE "coder"

DecomposerPlanner(s) ==
  /\ At("decomposer_planner")
  /\ Record("decomposer_planner", s)
  /\ Leave({AfterPlanner})
  /\ UNCHANGED <<scenario, replanning, retries, fallback, hint, code, before, attempts,
                 status, safeStop, spaceVars, lost, tested, overridden, crashes>>

Replanner(s) ==
  /\ At("replanner")
  /\ Record("replanner", s)
  /\ Leave({"decomposer_planner"})
  /\ UNCHANGED <<scenario, replanning, retries, fallback, hint, code, before, attempts,
                 status, safeStop, spaceVars, lost, tested, overridden, crashes>>

-----------------------------------------------------------------------------
(* The attempts: coder, then test_executor and documentation in parallel. *)

\* The output is written over what earlier attempts left.
Coder(out) ==
  /\ At("coder")
  /\ before' \in Revisions
  /\ tree' = Overlay(out) /\ space' = MadeSpace /\ code' = out
  /\ attempts' = attempts + 1
  /\ Leave({"test_executor", "documentation"})
  /\ UNCHANGED <<scenario, gates, replanning, retries, fallback, hint, status, safeStop,
                 head, lost, tested, overridden, crashes>>

\* No fixture, no runtime, a timeout: the run is safe-stopped as it stands.
CoderFails ==
  /\ At("coder")
  /\ safeStop' = TRUE /\ status' = "failed"
  /\ code' = Nothing /\ before' = Nothing
  /\ Leave({})
  /\ UNCHANGED <<scenario, gates, replanning, retries, fallback, hint, attempts,
                 spaceVars, lost, tested, overridden, crashes>>

\* Mutant: one retry too many.
MayRetry_OffByOne == retries <= RetryLimit

MayRetry == retries < RetryLimit

\* Mutant: a failure of the fallback attempt starts another one.
AfterFailure_ForgetsFallback ==
  IF MayRetry THEN [hint |-> "retry", retries |-> retries + 1, fallback |-> fallback]
  ELSE [hint |-> "fallback_attempt", retries |-> retries, fallback |-> TRUE]

\* What a failed test run asks for: retries, then one fallback attempt, then rollback.
AfterFailure ==
  IF fallback THEN [hint |-> "rollback", retries |-> retries, fallback |-> TRUE]
  ELSE IF MayRetry THEN [hint |-> "retry", retries |-> retries + 1, fallback |-> FALSE]
  ELSE [hint |-> "fallback_attempt", retries |-> retries, fallback |-> TRUE]

\* pytest fails when it finds no test, so something has to be there.
TestPasses ==
  /\ At("test_executor") /\ space # "removed"
  /\ \E f \in Files : tree[f] # "gone"
  /\ hint' = "proceed" /\ tested' = OnlyCode(tree)
  /\ Join("test_executor")
  /\ UNCHANGED <<scenario, gates, replanning, retries, fallback, code, before, attempts,
                 status, safeStop, spaceVars, lost, overridden, crashes>>

TestFails ==
  /\ At("test_executor") /\ space # "removed"
  /\ hint' = AfterFailure.hint
  /\ retries' = AfterFailure.retries /\ fallback' = AfterFailure.fallback
  /\ Join("test_executor")
  /\ UNCHANGED <<scenario, gates, replanning, code, before, attempts,
                 status, safeStop, spaceVars, lost, tested, overridden, crashes>>

Documentation ==
  /\ At("documentation")
  /\ tree' = [tree EXCEPT ![Doc] = "clean"] /\ space' = MadeSpace
  /\ Join("documentation")
  /\ UNCHANGED <<stateVars, head, lost, tested, overridden, crashes>>

\* Mutant: the fallback attempt is routed like a pass.
AfterSync_FallbackPasses ==
  IF hint = "retry" THEN "coder"
  ELSE IF hint = "rollback" THEN "rollback" ELSE "release_gate"

AfterSync ==
  IF hint \in {"retry", "fallback_attempt"} THEN "coder"
  ELSE IF hint = "rollback" THEN "rollback" ELSE "release_gate"

Sync ==
  /\ At("sync")
  /\ Leave({AfterSync})
  /\ UNCHANGED <<stateVars, spaceVars, lost, tested, overridden, crashes>>

-----------------------------------------------------------------------------
(* The release gate and the rollback. *)

\* Violations block the merge unless the reviewer overrides them.
ReleaseStatus(s, override) == IF Violations # {} /\ ~override THEN "rejected" ELSE s

Releases(s) == s = "approved"

ReleaseGate(s, override) ==
  /\ At("release_gate") /\ asked
  /\ LET st == ReleaseStatus(s, override)
     IN /\ gates' = [gates EXCEPT !["merge_release_approval"] = st]
        /\ IF Releases(st) THEN /\ head' = Committed /\ space' = MadeSpace
                                /\ status' = "completed" /\ Leave({})
                           ELSE UNCHANGED <<head, space, status>> /\ Leave({"rollback"})
  /\ overridden' = override
  /\ UNCHANGED <<scenario, replanning, retries, fallback, hint, code, before, attempts,
                 safeStop, tree, lost, tested, crashes>>

RollbackEnds(safe) == status' = "failed" /\ safeStop' = safe /\ Leave({})

Rollback ==
  /\ At("rollback")
  /\ IF before = Nothing THEN RollbackEnds(TRUE) /\ UNCHANGED spaceVars
     ELSE /\ space = "clone" /\ UNCHANGED space
          /\ RollbackEnds(FALSE) /\ tree' = Reverted(before) /\ head' = before
  /\ UNCHANGED <<scenario, gates, replanning, retries, fallback, hint, code, before,
                 attempts, lost, tested, overridden, crashes>>

\* git reset fails, as it must where the history of the clone is gone, or git clean
\* after it.
RollbackFails ==
  /\ At("rollback") /\ before # Nothing /\ space # "removed"
  /\ \/ UNCHANGED spaceVars
     \/ space = "clone" /\ tree' = Reset(before) /\ head' = before /\ UNCHANGED space
  /\ RollbackEnds(TRUE)
  /\ UNCHANGED <<scenario, gates, replanning, retries, fallback, hint, code, before,
                 attempts, lost, tested, overridden, crashes>>

-----------------------------------------------------------------------------
(* What goes wrong around a node. *)

\* The worker reports the run and removes its workspace, whatever it holds.  The
\* checkpoint stays.
Lose(how) ==
  /\ lost' = how
  /\ tree' = Gone /\ head' = Gone /\ space' = "removed"
  /\ UNCHANGED <<stateVars, next, asked, tested, overridden, crashes>>

\* A node raises anything its own except does not name.
Raise ==
  /\ lost = "no" /\ next # {}
  /\ Lose("raised")

\* Neither pytest nor git can be started in a directory that is not there:
\* FileNotFoundError, which no node names.
RaiseInMissingSpace ==
  /\ space = "removed"
  /\ At("test_executor") \/ (At("rollback") /\ before # Nothing)
  /\ Lose("raised")

\* The sweep expires a run that waited too long for a decision; it looks for such runs
\* among the workspaces on disk.
Expire ==
  /\ lost = "no" /\ asked /\ space # "removed"
  /\ Lose("expired")

\* A decision comes after the run was reported failed or stale: the checkpoint is there
\* and has nodes to execute.  A decision comes only from a reviewer who was asked.
TakeUp ==
  /\ lost \in {"raised", "expired"}
  /\ asked \/ Answered
  /\ lost' = "no"
  /\ UNCHANGED <<stateVars, next, asked, spaceVars, tested, overridden, crashes>>

\* After a crash the redelivered decision takes the run up again; the redelivered
\* trigger is a known run, and nothing takes it up.
AfterCrash ==
  /\ crashes < MaxCrashes /\ crashes' = crashes + 1
  /\ lost' = IF Answered THEN "no" ELSE "dropped"
  /\ UNCHANGED <<stateVars, next, asked, tested, overridden>>

\* The process dies while the coder writes, having written some of out.
CrashInCoder(out) ==
  /\ At("coder")
  /\ tree' = Overlay(out) /\ space' = MadeSpace /\ UNCHANGED head
  /\ AfterCrash

\* The process dies between the commit and the checkpoint: the run is still
\* parked at its last gate.
CrashInReleaseGate(s, override) ==
  /\ At("release_gate") /\ asked
  /\ Releases(ReleaseStatus(s, override))
  /\ head' = Committed /\ space' = MadeSpace /\ UNCHANGED tree
  /\ crashes < MaxCrashes /\ crashes' = crashes + 1
  /\ UNCHANGED <<stateVars, next, asked, lost, tested, overridden>>

\* The process dies between git reset and git clean.
CrashInRollback ==
  /\ At("rollback") /\ before # Nothing /\ space = "clone"
  /\ tree' = Reset(before) /\ head' = before /\ UNCHANGED space
  /\ AfterCrash

\* Anywhere else what the node did is done again, or not at all.
CrashElsewhere ==
  /\ lost = "no" /\ next # {} /\ ~asked
  /\ UNCHANGED spaceVars
  /\ AfterCrash

Crash ==
  \/ \E out \in Outputs : CrashInCoder(out)
  \/ \E s \in Decisions, override \in BOOLEAN : CrashInReleaseGate(s, override)
  \/ CrashInRollback
  \/ CrashElsewhere

-----------------------------------------------------------------------------
Decide(s) ==
  \/ RequirementClarifier(s)
  \/ \E conflict \in BOOLEAN : CodebaseReasoner(s, conflict)
  \/ DecomposerPlanner(s)
  \/ Replanner(s)
  \/ \E override \in BOOLEAN : ReleaseGate(s, override)

\* Everything the worker executes, and the answers and the sweep.
Step ==
  \/ \E n \in Nodes : Ask(n)
  \/ \E s \in Decisions : Decide(s)
  \/ ArchitectureDesign
  \/ \E out \in Outputs : Coder(out)
  \/ CoderFails \/ TestPasses \/ TestFails \/ Documentation \/ Sync
  \/ Rollback \/ RollbackFails \/ RaiseInMissingSpace
  \/ Expire

\* A gate is answered or the run expires, but nothing is due from a reviewer whose
\* answer is already late.
Due == ~(asked /\ space = "removed") /\ Step

Done == next = {} \/ lost # "no"

\* A finished run stays finished, and a lost one lost unless it is taken up.
Finished == Done /\ UNCHANGED vars

Next == Step \/ Raise \/ TakeUp \/ Crash \/ Finished

Spec == Init /\ [][Next]_vars /\ WF_vars(Due)

-----------------------------------------------------------------------------
(* Properties. *)

\* Reported as given up, or parked where no sweep looks: only a decision moves the run.
Stopped == lost \in {"raised", "expired"} \/ (lost = "no" /\ asked /\ space = "removed")

Phase ==
  CASE Stopped -> "stopped"
    [] ~Stopped /\ status = "completed" -> "released"
    [] ~Stopped /\ status # "completed" /\ (lost = "dropped" \/ next = {}) -> "ended"
    [] ~Stopped /\ lost = "no" /\ next = {"release_gate"} /\ asked -> "review"
    [] ~Stopped /\ lost = "no" /\ next = {"rollback"}
         /\ gates["merge_release_approval"] # "none" -> "withdrawing"
    [] OTHER -> "working"

Verdict ==
  CASE gates["merge_release_approval"] = "none" -> "none"
    [] gates["merge_release_approval"] = "approved" -> "approved"
    [] OTHER -> "refused"

GC == INSTANCE GovernedChange WITH phase <- Phase, verdict <- Verdict

\* The graph implements the promise of GovernedChange: the run completes only by an
\* approval at merge_release_approval that the guardrails let through, a refused run
\* never completes, though it be given up in its rollback and taken up again by a late
\* decision (resume_run), and no loop of the graph (replanning, retries, fallback)
\* keeps a run from its end.
ImplementsGovernedChange == GC!Spec

\* A failed run that did not safe-stop has its workspace as the clone was, after
\* any number of attempts, crashes in them, and a commit that a crash kept from
\* being recorded; only what .gitignore covers stays (graph.py _rollback).
RollbackRestores ==
  next = {} /\ lost = "no" /\ status = "failed" /\ ~safeStop =>
    /\ head = Base
    /\ \A p \in Paths \ Ignored : tree[p] = "base"

\* The coder writes at most one first attempt, RetryLimit retries and one fallback
\* attempt, however the failures fall (test_executor, _route_after_sync).
AttemptsBounded == attempts <= RetryLimit + 2

\* The commit of a completed run holds the code that the tests passed on, even if a
\* crash made the gate commit twice; only what git does not commit may differ.  If the
\* workspace was removed after the tests and a late decision approved the run, the
\* commit holds none of the code: it never holds code that no test passed on.
ReleasedAsTested ==
  status = "completed" =>
    /\ tested # Nothing
    /\ \/ \A f \in Files \ Ignored : head[f] = tested[f]
       \/ \A f \in Files \ Ignored : head[f] = "gone"

\* No file that a guardrail matches is merged unless the reviewer set
\* override_guardrails (release_gate.py:3-10, docs/system-design.md:294-297).
GuardrailsBlock ==
  status = "completed" /\ (\E p \in Paths : head[p] = "bad") => overridden
=============================================================================
