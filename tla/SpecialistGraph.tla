--------------------------- MODULE SpecialistGraph ---------------------------
(***************************************************************************)
(* The specialist graph (specialist_graph.py): one run of it, over the     *)
(* output checkout the specialist generates into and the repository the    *)
(* approved change is pushed to.                                           *)
(*                                                                         *)
(* What a specialist writes is abstracted to which of its invocations      *)
(* wrote it, and to whether git add takes it: each invocation i leaves a   *)
(* file <<i, "kept">> and a file <<i, "ignored">> (build output, an entry  *)
(* of the .gitignore).  The files of the repository itself only count      *)
(* towards the length of the reviewer's list.  What a specialist reports   *)
(* is either accepted (specialist_invocation.invoke returns) or not (it    *)
(* raises).                                                                *)
(*                                                                         *)
(* External: LangGraph as in module SdlcGraph; git clone, whose            *)
(* destination a killed process leaves half-written; GitHub, which opens   *)
(* one pull request for a branch, of a repository that has the branch.     *)
(***************************************************************************)
EXTENDS Integers, FiniteSets

CONSTANTS
  Repos,        \* the repositories a route may name as output_repository
  MaxListed,    \* _MAX_LISTED_FILES
  MaxOthers,    \* BOUND: files of the repository itself in the checkout
  MaxCrashes,   \* BOUND: crashes of the process
  MaxReroutes   \* BOUND: edits of the route's output_repository

ASSUME SpecialistAssumption ==
  /\ Repos # {} /\ "none" \notin Repos
  /\ MaxListed \in Nat /\ MaxOthers \in Nat
  /\ MaxCrashes \in Nat /\ MaxReroutes \in Nat

Nodes == {"design", "design_review", "generate", "release_review", "publish", "end"}
DesignGate == "specialist_design_review"
ReleaseGate == "merge_release_approval"
Decisions == {"approved", "rejected", "edited"}
Modes == {"none", "branch", "pull_request"}

\* output_repository, "none" if the route names none.
Outputs == Repos \cup {"none"}
Attempts == 1..(MaxCrashes + 1)

\* What git add does with a file.
Kinds == {"kept", "ignored"}
Writes == Attempts \X Kinds

\* git_commit_all takes all of a directory but what git ignores in it.
Kept(dir) == {f \in dir : f[2] = "kept"}

VARIABLES
  \* SpecialistRunState, as checkpointed.
  next, asked,
  gates,      \* gates[g]: the recorded decision, "none" if there is none
  status,     \* run_status
  safeStop,   \* safe_stop
  outputRepo, \* output_repository, as generate recorded it
  published,  \* published
  \* Configuration.
  table,      \* the output_repository of the route as it is read on a resume
  mode,       \* PUBLISH_MODE
  \* Disk.
  artifact,   \* design.json is where the design phase reports it
  checkout,   \* the output path: "absent", "plain" (no .git), "partial" (a clone cut
              \* short) or "clone"
  origin,     \* the remote of that clone
  files,      \* the generated files in the output path
  head,       \* those that are committed there
  \* The remote side.
  remote,     \* the run's branch, as pushed: in which repository, and what
  pull,       \* a pull request is open for it
  \* Observations.
  attempts,   \* invocations of the generate phase
  shown,      \* what the reviewer was shown at the release gate
  lost,       \* "no", "raised" or "dropped" (a crash in the first slice)
  crashes, reroutes

stateVars  == <<gates, status, safeStop, outputRepo, published>>
diskVars   == <<artifact, checkout, origin, files, head>>
remoteVars == <<remote, pull>>
boundVars  == <<crashes, reroutes>>
vars == <<next, asked, stateVars, table, mode, diskVars, remoteVars, attempts, shown,
          lost, boundVars>>

Branches == [repo : Repos, files : SUBSET Writes]

\* The payload of the release gate, and what it was taken from: files is the list,
\* full that it has MaxListed names, outOf the directory at that time.
Showings == [repo : Outputs, files : SUBSET Writes, full : BOOLEAN, outOf : SUBSET Writes]

TypeOK ==
  /\ next \in Nodes /\ asked \in BOOLEAN
  /\ gates \in [{DesignGate, ReleaseGate} -> Decisions \cup {"none"}]
  /\ status \in {"running", "completed", "failed"}
  /\ safeStop \in BOOLEAN /\ published \in BOOLEAN
  /\ outputRepo \in Outputs /\ table \in Outputs /\ mode \in Modes
  /\ artifact \in BOOLEAN /\ checkout \in {"absent", "plain", "partial", "clone"}
  /\ origin \in Outputs /\ files \subseteq Writes /\ head \subseteq files
  /\ remote \subseteq Branches /\ Cardinality(remote) <= 1 /\ pull \in BOOLEAN
  /\ attempts \in Attempts \cup {0}
  /\ shown \in Showings
  /\ lost \in {"no", "raised", "dropped"}
  /\ crashes \in 0..MaxCrashes /\ reroutes \in 0..MaxReroutes

Init ==
  /\ next = "design" /\ asked = FALSE
  /\ gates = [g \in {DesignGate, ReleaseGate} |-> "none"]
  /\ status = "running" /\ safeStop = FALSE /\ outputRepo = "none" /\ published = FALSE
  /\ table \in Outputs /\ mode \in Modes
  /\ artifact = FALSE /\ checkout = "absent" /\ origin = "none" /\ files = {} /\ head = {}
  /\ remote = {} /\ pull = FALSE
  /\ attempts = 0
  /\ shown = [repo |-> "none", files |-> {}, full |-> FALSE, outOf |-> {}]
  /\ lost = "no" /\ crashes = 0 /\ reroutes = 0

-----------------------------------------------------------------------------
(* Helpers. *)

At(n) == lost = "no" /\ next = n

Leave(succ) == next' = succ /\ asked' = FALSE

\* _failure: every failure a node names ends the run the same way.
Failure == safeStop' = TRUE /\ status' = "failed" /\ Leave("end")

\* A gate other than by approval ends the run as completed.
Decided(g, s, succ) ==
  /\ gates' = [gates EXCEPT ![g] = s]
  /\ IF succ = "end" THEN status' = "completed" ELSE UNCHANGED status
  /\ Leave(succ)

\* _generated_file_names lists every file outside .git, whoever wrote it: the first
\* MaxListed of them by name, so that some of the others may take the place of some
\* of the generated ones.
Full(others) == Cardinality(files) + others >= MaxListed

\* Mutant: the reviewer sees what the last invocation reported.
Listings_Reported(others) == {{f \in files : f[1] = attempts}}

Listings(others) ==
  IF Cardinality(files) + others <= MaxListed THEN {files}
  ELSE {listed \in SUBSET files :
          MaxListed - others <= Cardinality(listed) /\ Cardinality(listed) <= MaxListed}

\* The interrupt of a gate.
AskAtGate(n) ==
  /\ At(n) /\ ~asked
  /\ asked' = TRUE
  /\ UNCHANGED <<next, stateVars, table, mode, diskVars, remoteVars, attempts, lost, boundVars>>

AskForDesign == AskAtGate("design_review") /\ UNCHANGED shown

AskForRelease ==
  /\ AskAtGate("release_review")
  /\ \E others \in 0..MaxOthers : \E listed \in Listings(others) :
       shown' = [repo |-> outputRepo, files |-> listed, full |-> Full(others), outOf |-> files]

-----------------------------------------------------------------------------
(* design, and its gate *)

\* The phase is accepted whether or not it wrote the file it is expected to.
Design(wrote) ==
  /\ At("design")
  /\ artifact' = wrote
  /\ Leave("design_review")
  /\ UNCHANGED <<stateVars, table, mode, checkout, origin, files, head, remoteVars,
                 attempts, shown, lost, boundVars>>

\* The runtime is missing, or the invocation raises.
DesignFails ==
  /\ At("design")
  /\ Failure
  /\ UNCHANGED <<gates, outputRepo, published, table, mode, diskVars, remoteVars,
                 attempts, shown, lost, boundVars>>

DesignReview(s) ==
  /\ At("design_review") /\ asked
  /\ Decided(DesignGate, s, IF s = "approved" THEN "generate" ELSE "end")
  /\ UNCHANGED <<safeStop, outputRepo, published, table, mode, diskVars, remoteVars,
                 attempts, shown, lost, boundVars>>

-----------------------------------------------------------------------------
(* generate *)

\* ensure_output_checkout reuses whatever has a .git directory.
Reuses == checkout \in {"partial", "clone"}

\* git clone refuses a directory with something in it.
MayClone == table # "none" /\ ~(checkout = "plain" /\ files # {})

\* The output path as the specialist finds it.
Ensured ==
  IF Reuses THEN [checkout |-> checkout, origin |-> origin, files |-> files]
  ELSE IF table # "none" THEN [checkout |-> "clone", origin |-> table, files |-> {}]
  ELSE [checkout |-> "plain", origin |-> "none", files |-> files]

CanEnsure == Reuses \/ MayClone \/ table = "none"

Ensure == checkout' = Ensured.checkout /\ origin' = Ensured.origin

\* Mutant: an invocation that failed is tried again at once.
Invoke_Twice ==
  /\ attempts' = attempts + 2
  /\ files' = Ensured.files \cup ({attempts + 1, attempts + 2} \X Kinds)

\* The specialist runs once more, and writes.
Invoke ==
  /\ attempts' = attempts + 1
  /\ files' = Ensured.files \cup ({attempts + 1} \X Kinds)

\* The runtime is missing, or the approved design is not where it should be.
GenerateNotReady ==
  /\ At("generate")
  /\ Failure
  /\ UNCHANGED <<gates, outputRepo, published, table, mode, diskVars, remoteVars,
                 attempts, shown, lost, boundVars>>

\* CloneError: nothing is left of the output path.
GenerateCannotClone ==
  /\ At("generate") /\ artifact /\ ~Reuses /\ table # "none"
  /\ checkout' = "absent" /\ origin' = "none" /\ files' = {}
  /\ Failure
  /\ UNCHANGED <<gates, outputRepo, published, table, mode, artifact, head, remoteVars,
                 attempts, shown, lost, boundVars>>

\* The specialist reports a failure, times out or answers something else: what it
\* wrote stays.
GenerateFails ==
  /\ At("generate") /\ artifact /\ CanEnsure
  /\ Ensure /\ Invoke
  /\ Failure
  /\ UNCHANGED <<gates, outputRepo, published, table, mode, artifact, head, remoteVars,
                 shown, lost, boundVars>>

\* Mutant: a generated change needs no review.
AfterGenerate_Unreviewed == IF table = "none" THEN "end" ELSE "publish"

AfterGenerate == IF table = "none" THEN "end" ELSE "release_review"

Generate ==
  /\ At("generate") /\ artifact /\ CanEnsure
  /\ Ensure /\ Invoke
  /\ outputRepo' = table
  /\ status' = IF table = "none" THEN "completed" ELSE status
  /\ Leave(AfterGenerate)
  /\ UNCHANGED <<gates, safeStop, published, table, mode, artifact, head, remoteVars,
                 shown, lost, boundVars>>

-----------------------------------------------------------------------------
(* The release gate, and publish *)

\* Mutant: the router looks at the design gate.
AfterReleaseReview_WrongGate(s) ==
  IF gates[DesignGate] = "approved" THEN "publish" ELSE "end"

AfterReleaseReview(s) == IF s = "approved" THEN "publish" ELSE "end"

ReleaseReview(s) ==
  /\ At("release_review") /\ asked
  /\ Decided(ReleaseGate, s, AfterReleaseReview(s))
  /\ UNCHANGED <<safeStop, outputRepo, published, table, mode, diskVars, remoteVars,
                 attempts, shown, lost, boundVars>>

\* publish._push_branch: HEAD to the run's own branch of the origin it was cloned from.
Pushed == {[repo |-> origin, files |-> Kept(files)]}

\* A pull request needs the branch in the repository the run names, and no earlier one.
MayOpen == outputRepo = origin /\ ~pull

\* publish_change: how far delivery comes, "none" if only the commit is made.
Deliveries ==
  CASE mode = "none" -> {"none"}
    [] mode = "branch" -> {"none", "pushed"}
    [] OTHER -> {"none", "pushed"} \cup (IF MayOpen THEN {"opened"} ELSE {})

\* The commit and what of the delivery comes about.
Deliver(d) ==
  /\ head' = Kept(files)
  /\ remote' = IF d = "none" THEN remote ELSE Pushed
  /\ pull' = (pull \/ d = "opened")

\* Mutant: a push that failed is reported as published.
IsPublished_Optimistic(d) == mode # "none"

\* PublishResult.published: the push, whatever became of the pull request.
IsPublished(d) == d \in {"pushed", "opened"}

Publish ==
  /\ At("publish")
  /\ \E d \in Deliveries : Deliver(d) /\ published' = IsPublished(d)
  /\ status' = "completed" /\ Leave("end")
  /\ UNCHANGED <<gates, safeStop, outputRepo, table, mode, artifact, checkout, origin,
                 files, attempts, shown, lost, boundVars>>

\* GitOperationError: nothing is committed.
PublishFails ==
  /\ At("publish")
  /\ Failure
  /\ UNCHANGED <<gates, outputRepo, published, table, mode, diskVars, remoteVars,
                 attempts, shown, lost, boundVars>>

-----------------------------------------------------------------------------
(* What goes wrong around a node, and the configuration. *)

\* A node raises what its own except does not name; git config after a clone is
\* such a call.
Raise ==
  /\ lost = "no" /\ next # "end"
  /\ lost' = "raised"
  /\ \/ UNCHANGED <<checkout, origin, files>>
     \/ next = "generate" /\ artifact /\ CanEnsure /\ Ensure /\ files' = Ensured.files
  /\ UNCHANGED <<next, asked, stateVars, table, mode, artifact, head, remoteVars,
                 attempts, shown, boundVars>>

\* A restart reads the routing table anew.
Restart ==
  /\ crashes < MaxCrashes /\ crashes' = crashes + 1
  /\ \/ UNCHANGED <<table, reroutes>>
     \/ /\ reroutes < MaxReroutes /\ reroutes' = reroutes + 1
        /\ table' \in Outputs \ {table}
  /\ lost' = IF gates[DesignGate] = "none" THEN "dropped" ELSE "no"
  /\ UNCHANGED <<next, asked, stateVars, mode, artifact, shown>>

\* The process dies during git clone.
CrashInClone ==
  /\ At("generate") /\ artifact /\ ~Reuses /\ MayClone
  /\ checkout' = "partial" /\ origin' = table /\ files' = {}
  /\ UNCHANGED <<head, remoteVars, attempts>>
  /\ Restart

\* The process dies while the specialist runs.
CrashInGenerate ==
  /\ At("generate") /\ artifact /\ CanEnsure
  /\ Ensure /\ Invoke
  /\ UNCHANGED <<head, remoteVars>>
  /\ Restart

\* The process dies between the commit, the push, the pull request and the checkpoint.
CrashInPublish ==
  /\ At("publish")
  /\ \E d \in Deliveries : Deliver(d)
  /\ UNCHANGED <<checkout, origin, files, attempts>>
  /\ Restart

\* Anywhere else what the node did is done again, or not at all.
CrashElsewhere ==
  /\ lost = "no" /\ next # "end" /\ ~asked
  /\ UNCHANGED <<checkout, origin, files, head, remoteVars, attempts>>
  /\ Restart

Crash == CrashInClone \/ CrashInGenerate \/ CrashInPublish \/ CrashElsewhere

\* The routing table is edited while the run is parked.
Reroute ==
  /\ lost = "no" /\ asked
  /\ reroutes < MaxReroutes /\ reroutes' = reroutes + 1
  /\ table' \in Outputs \ {table}
  /\ UNCHANGED <<next, asked, stateVars, mode, diskVars, remoteVars, attempts, shown,
                 lost, crashes>>

-----------------------------------------------------------------------------
\* Everything the worker executes, given that every gate is answered.
Step ==
  \/ AskForDesign \/ AskForRelease
  \/ \E wrote \in BOOLEAN : Design(wrote)
  \/ DesignFails
  \/ \E s \in Decisions : DesignReview(s) \/ ReleaseReview(s)
  \/ GenerateNotReady \/ GenerateCannotClone \/ GenerateFails \/ Generate
  \/ Publish \/ PublishFails

Done == next = "end" \/ lost # "no"

\* A finished run stays finished.
Finished == Done /\ UNCHANGED vars

Next == Step \/ Raise \/ Crash \/ Reroute \/ Finished

Spec == Init /\ [][Next]_vars /\ WF_vars(Step)

-----------------------------------------------------------------------------
(* Properties. *)

Approved == gates[ReleaseGate] = "approved"

\* The change landed: the run got through publish, whoever let it there.
Landed == status = "completed" /\ head # {}

Phase ==
  CASE lost # "no" -> "ended"
    [] lost = "no" /\ next = "end" -> IF Landed THEN "released" ELSE "ended"
    [] lost = "no" /\ next = "publish" -> "releasing"
    [] lost = "no" /\ next = "release_review" /\ asked -> "review"
    [] OTHER -> "working"

Verdict ==
  CASE gates[ReleaseGate] = "none" -> "none"
    [] Approved -> "approved"
    [] OTHER -> "refused"

GC == INSTANCE GovernedChange WITH phase <- Phase, verdict <- Verdict

\* The graph implements the promise of GovernedChange: it gets through publish only
\* by an approval at merge_release_approval, a refusal ends it, and it gets to an end
\* if its gates are answered.
ImplementsGovernedChange == GC!Spec

\* "Nothing commits before the release gate approves" (specialist_graph.py:33-37),
\* whatever crashes and repetitions there are: no commit and no push without an
\* approval.
NothingLeavesUnapproved == head # {} \/ remote # {} => Approved

\* What is pushed is the directory the reviewer was asked about, less what git
\* ignores, and where: the publish node works on the disk, not on the state the
\* reviewer approved.  The reviewer's list is all of it only if it is shorter than
\* MaxListed; a list of that length may name none of what is pushed.  (An edit of
\* the route between two executions of generate separates the repository named from
\* the one checked out.)
PublishedAsReviewed ==
  \A b \in remote :
    /\ b.files = Kept(shown.outOf)
    /\ ~shown.full => b.files = Kept(shown.files)
    /\ reroutes = 0 => b.repo = shown.repo

\* A run that reports its change published has its branch in a repository, with
\* the commit it made (publish.publish_change), on every path through failing
\* pushes, failing pull requests and repetitions.
PublishedIsThere ==
  published => \E b \in remote : b.repo = origin /\ b.files = head
=============================================================================
