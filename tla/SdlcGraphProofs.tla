---------------------------- MODULE SdlcGraphProofs ----------------------------
(***************************************************************************)
(* Proofs about SdlcGraph, for every set of files, retry limit and number  *)
(* of crashes: the types, that a rollback restores the clone, that the     *)
(* attempts are bounded, that what is released was tested, and that every  *)
(* step implements a step of GovernedChange.                               *)
(***************************************************************************)
EXTENDS SdlcGraph, TLAPS

USE SdlcAssumption DEF SdlcAssumption

\* The nodes before the first attempt, and those of an attempt.
Planning == {"requirement_clarifier", "codebase_reasoner", "architecture_design",
             "decomposer_planner", "replanner"}
Attempting == {"coder", "test_executor", "documentation", "sync"}

\* The nodes that may ask a reviewer.
Asking == {"requirement_clarifier", "codebase_reasoner", "decomposer_planner", "replanner",
           "release_gate"}

Merge == "merge_release_approval"

\* One node at a time, or the two parallel ones; none when the run is over, and then
\* nothing is asked and nothing was lost.
OneNode ==
  /\ next = {} \/ next = {"test_executor", "documentation"} \/ \E n \in Nodes : next = {n}
  /\ status # "running" <=> next = {}
  /\ asked => \E n \in Asking : next = {n}
  /\ lost # "no" => next # {}

\* Before the last gate nothing is committed in the clone or decided there; the revision
\* to go back to is that of the clone, though the clone itself may be gone.
NothingCommitted ==
  /\ before \in {Nothing, Base}
  /\ space = "clone" /\ next \cap (Planning \cup Attempting) # {} => head = Base
  /\ gates[Merge] # "none" => next \subseteq {"rollback"}

\* The test run has chosen the way on, and it is not back to the coder.
Chosen == next = {"documentation"} \/ next = {"sync"}
Proceeds == hint \notin {"retry", "fallback_attempt", "rollback"}

\* Every attempt after the first was paid for by a retry or by the fallback.
Paid == retries + (IF fallback THEN 1 ELSE 0)
AttemptsPaidFor ==
  /\ attempts <= Paid + 1
  /\ next \cap (Planning \cup {"coder"}) # {} => attempts <= Paid
  /\ Chosen /\ hint \in {"retry", "fallback_attempt"} => attempts <= Paid

\* The tests passed on what is on disk when the gate is reached, or all of that was
\* removed since.
CodeGone == \A f \in Files : tree[f] = "gone"
TestedIsThere ==
  next = {"release_gate"} \/ (Chosen /\ Proceeds) =>
    /\ tested # Nothing
    /\ tested = OnlyCode(tree) \/ CodeGone

\* The inductive invariant.
IInv ==
  /\ TypeOK
  /\ OneNode /\ NothingCommitted /\ AttemptsPaidFor /\ TestedIsThere
  /\ RollbackRestores /\ ReleasedAsTested

-----------------------------------------------------------------------------
(* Facts about the helpers. *)

\* An unknown revision is not a tree, and tests that ran are not tests that did not.
LEMMA NothingIsNoTree ==
  /\ Base \in [Paths -> Contents] /\ Base # Nothing
  /\ Gone \in [Paths -> Contents]
  /\ \A t \in [Paths -> Contents] : OnlyCode(t) \in [Files -> Contents]
  /\ \A t : OnlyCode(t) # Nothing
<1>1. Base \in [Paths -> Contents] /\ Gone \in [Paths -> Contents]
  BY DEF Base, Gone, Contents
<1>2. Base # Nothing
  <2>1. DOMAIN Base = Paths /\ Doc \in Paths
    BY DEF Base, Paths
  <2>2. DOMAIN Nothing = {}
    BY DEF Nothing
  <2>. QED
    BY <2>1, <2>2
<1>3. \A t \in [Paths -> Contents] : OnlyCode(t) \in [Files -> Contents]
  BY DEF OnlyCode, Paths
<1>4. ASSUME NEW t
      PROVE  OnlyCode(t) # Nothing
  <2>1. DOMAIN OnlyCode(t) = Files
    BY DEF OnlyCode
  <2>2. DOMAIN Nothing = {}
    BY DEF Nothing
  <2>. QED
    BY <2>1, <2>2
<1>. QED
  BY <1>1, <1>2, <1>3, <1>4

\* A coder that failed has an output, without files.
LEMMA NoOutput == Nothing \in Outputs
<1>1. Nothing \in [{} -> {"clean", "bad"}]
  BY DEF Nothing
<1>2. {} \in SUBSET Files
  OBVIOUS
<1>. QED
  BY <1>1, <1>2 DEF Outputs

\* An output says of some of the files whether they are clean.
LEMMA OutputType ==
  ASSUME NEW out \in Outputs
  PROVE  \A p \in DOMAIN out : p \in Files /\ out[p] \in {"clean", "bad"}
BY DEF Outputs

\* Whatever is written, committed or reverted is a tree again.
LEMMA TreeTypes ==
  ASSUME TypeOK
  PROVE  /\ \A out \in Outputs : Overlay(out) \in [Paths -> Contents]
         /\ Committed \in [Paths -> Contents]
         /\ \A rev \in [Paths -> Contents] : /\ Reset(rev) \in [Paths -> Contents]
                                             /\ Reverted(rev) \in [Paths -> Contents]
<1>1. ASSUME NEW out \in Outputs
      PROVE  Overlay(out) \in [Paths -> Contents]
  BY OutputType DEF TypeOK, Overlay, Contents
<1>2. Committed \in [Paths -> Contents]
  BY DEF TypeOK, Committed
<1>3. ASSUME NEW rev \in [Paths -> Contents]
      PROVE  Reset(rev) \in [Paths -> Contents] /\ Reverted(rev) \in [Paths -> Contents]
  BY DEF TypeOK, Reset, Reverted
<1>. QED
  BY <1>1, <1>2, <1>3

\* Only the release gate asks for the merge.
LEMMA GateTyped ==
  ASSUME NEW n \in Nodes
  PROVE  /\ GateOf[n] \in GateTypes \cup {"none"}
         /\ GateOf[n] = Merge => n = "release_gate"
         /\ GateOf[n] # "none" => n \in Asking
BY DEF GateOf, GateTypes, Nodes, Merge, Asking

\* A node of the plan or of an attempt is executed alone, but for the parallel two.
LEMMA AtNode ==
  ASSUME IInv, NEW n \in Nodes, At(n)
  PROVE  /\ lost = "no" /\ next # {} /\ status = "running"
         /\ n \notin {"test_executor", "documentation"} => next = {n}
         /\ n \in {"test_executor", "documentation"} =>
              next \in {{n}, {"test_executor", "documentation"}}
BY DEF IInv, TypeOK, OneNode, At, Nodes

\* What a decision before the last gate leaves behind.
LEMMA RecordFacts ==
  ASSUME IInv, NEW n \in Planning, NEW s \in Decisions, Record(n, s)
  PROVE  gates' \in [GateTypes -> Decisions \cup {"none"}] /\ gates'[Merge] = gates[Merge]
<1>1. n \in Nodes /\ n # "release_gate" /\ Merge \in GateTypes
  BY DEF Planning, Nodes, GateTypes, Merge
<1>2. GateOf[n] # Merge
  BY <1>1, GateTyped
<1>. QED
  BY <1>1, <1>2 DEF IInv, TypeOK, Record

-----------------------------------------------------------------------------
(* Init and every action keep the invariant. *)

LEMMA InitInv == Init => IInv
<1> SUFFICES ASSUME Init PROVE IInv
  OBVIOUS
<1>1. /\ scenario \in Scenarios /\ next = {"requirement_clarifier"}
      /\ gates = [g \in GateTypes |-> "none"] /\ hint = "" /\ status = "running" /\ lost = "no"
  BY Zenon DEF Init
<1>2. ~asked /\ ~fallback /\ retries = 0 /\ attempts = 0 /\ crashes = 0
  BY Zenon DEF Init
<1>3. code = Nothing /\ before = Nothing /\ tested = Nothing /\ tree = Base /\ head = Base
      /\ space = "clone"
  BY Zenon DEF Init
<1>4. TypeOK
  <2>1. gates \in [GateTypes -> Decisions \cup {"none"}] /\ next \subseteq Nodes /\ hint \in Hints
    BY <1>1 DEF Nodes, Hints
  <2>2. /\ asked \in BOOLEAN /\ replanning \in BOOLEAN /\ fallback \in BOOLEAN
        /\ safeStop \in BOOLEAN /\ overridden \in BOOLEAN
    BY Zenon DEF Init
  <2>3. retries \in 0..RetryLimit /\ attempts \in Nat /\ crashes \in 0..MaxCrashes
    BY <1>2
  <2>4. code \in Outputs /\ tree \in [Paths -> Contents] /\ head \in [Paths -> Contents]
    BY <1>3, NoOutput, NothingIsNoTree
  <2>. QED
    BY <1>1, <1>3, <2>1, <2>2, <2>3, <2>4 DEF TypeOK
<1>5. OneNode
  BY <1>1, <1>2 DEF OneNode, Nodes
<1>6. NothingCommitted
  BY <1>1, <1>3 DEF NothingCommitted, GateTypes, Merge
<1>7. AttemptsPaidFor /\ TestedIsThere
  <2>1. Paid = 0
    BY <1>2 DEF Paid
  <2>2. ~Chosen /\ next # {"release_gate"}
    BY <1>1 DEF Chosen
  <2>. QED
    BY <1>2, <2>1, <2>2 DEF AttemptsPaidFor, TestedIsThere
<1>8. RollbackRestores /\ ReleasedAsTested
  BY <1>1 DEF RollbackRestores, ReleasedAsTested
<1>. QED
  BY <1>4, <1>5, <1>6, <1>7, <1>8 DEF IInv

\* A node of the plan hands over to the next, or to the coder.
LEMMA PlanningInv ==
  ASSUME IInv, NEW n \in Planning, At(n), NEW m \in Planning \cup {"coder"}, Leave({m}),
         gates' \in [GateTypes -> Decisions \cup {"none"}], gates'[Merge] = gates[Merge],
         replanning' \in BOOLEAN,
         UNCHANGED <<scenario, retries, fallback, hint, code, before, attempts, status,
                     safeStop, spaceVars, lost, tested, overridden, crashes>>
  PROVE  IInv'
<1>1. n \in Nodes /\ m \in Nodes
  BY DEF Planning, Nodes
<1>2. next = {n} /\ next' = {m} /\ ~asked' /\ status = "running" /\ lost = "no"
  BY <1>1, AtNode DEF Planning, Leave
<1> USE DEF spaceVars
<1>3. TypeOK'
  BY <1>1, <1>2 DEF IInv, TypeOK, Leave
<1>4. OneNode'
  BY <1>1, <1>2 DEF OneNode
<1>5. NothingCommitted'
  BY <1>2 DEF IInv, NothingCommitted, Planning
<1>6. AttemptsPaidFor'
  BY <1>2 DEF IInv, AttemptsPaidFor, Paid, Chosen, Planning
<1>7. TestedIsThere'
  BY <1>2 DEF TestedIsThere, Chosen, Planning
<1>8. RollbackRestores' /\ ReleasedAsTested'
  BY <1>2 DEF RollbackRestores, ReleasedAsTested
<1>. QED
  BY <1>3, <1>4, <1>5, <1>6, <1>7, <1>8 DEF IInv

\* The node in next is put before a reviewer.
LEMMA AskInv == ASSUME IInv, NEW n \in Nodes, Ask(n) PROVE IInv'
<1> USE DEF Ask, stateVars, spaceVars
<1>1. asked' /\ n \in Asking /\ next = {n} /\ lost = "no"
  BY AtNode, GateTyped DEF Asking
<1>2. TypeOK' /\ OneNode'
  BY <1>1 DEF IInv, TypeOK, OneNode
<1>3. NothingCommitted' /\ AttemptsPaidFor'
  BY DEF IInv, NothingCommitted, AttemptsPaidFor, Paid, Chosen
<1>4. TestedIsThere' /\ RollbackRestores' /\ ReleasedAsTested'
  BY DEF IInv, TestedIsThere, CodeGone, Chosen, Proceeds, RollbackRestores, ReleasedAsTested
<1>. QED
  BY <1>2, <1>3, <1>4 DEF IInv

LEMMA DecideEarlyInv ==
  ASSUME IInv, NEW s \in Decisions, NEW conflict \in BOOLEAN,
         \/ RequirementClarifier(s) \/ CodebaseReasoner(s, conflict)
         \/ DecomposerPlanner(s) \/ Replanner(s)
  PROVE  IInv'
<1>1. CASE RequirementClarifier(s)
  <2>1. "requirement_clarifier" \in Planning /\ AfterClarifier \in Planning
    BY DEF Planning, AfterClarifier
  <2>2. replanning' \in BOOLEAN
    BY <1>1 DEF IInv, TypeOK, RequirementClarifier
  <2>. QED
    BY <1>1, <2>1, <2>2, RecordFacts, PlanningInv DEF RequirementClarifier
<1>2. CASE CodebaseReasoner(s, conflict)
  <2>1. "codebase_reasoner" \in Planning /\ "architecture_design" \in Planning
    BY DEF Planning
  <2>2. replanning' \in BOOLEAN
    BY <1>2 DEF IInv, TypeOK, CodebaseReasoner
  <2>. QED
    BY <1>2, <2>1, <2>2, RecordFacts, PlanningInv DEF CodebaseReasoner
<1>3. CASE DecomposerPlanner(s)
  <2>1. "decomposer_planner" \in Planning /\ AfterPlanner \in Planning \cup {"coder"}
    BY DEF Planning, AfterPlanner
  <2>2. replanning' \in BOOLEAN
    BY <1>3 DEF IInv, TypeOK, DecomposerPlanner
  <2>. QED
    BY <1>3, <2>1, <2>2, RecordFacts, PlanningInv DEF DecomposerPlanner
<1>4. CASE Replanner(s)
  <2>1. "replanner" \in Planning /\ "decomposer_planner" \in Planning
    BY DEF Planning
  <2>2. replanning' \in BOOLEAN
    BY <1>4 DEF IInv, TypeOK, Replanner
  <2>. QED
    BY <1>4, <2>1, <2>2, RecordFacts, PlanningInv DEF Replanner
<1>. QED
  BY <1>1, <1>2, <1>3, <1>4

LEMMA ArchitectureDesignInv == ASSUME IInv, ArchitectureDesign PROVE IInv'
<1>1. "architecture_design" \in Planning /\ "decomposer_planner" \in Planning
  BY DEF Planning
<1>2. gates' \in [GateTypes -> Decisions \cup {"none"}] /\ replanning' \in BOOLEAN
  BY DEF IInv, TypeOK, ArchitectureDesign, stateVars
<1>. QED
  BY <1>1, <1>2, PlanningInv DEF ArchitectureDesign, stateVars

\* An attempt overwrites the files of its output.
LEMMA CoderInv == ASSUME IInv, NEW out \in Outputs, Coder(out) PROVE IInv'
<1> USE DEF Coder, Leave
<1>1. next = {"coder"} /\ status = "running" /\ next' = {"test_executor", "documentation"}
  BY AtNode DEF Nodes
<1>2. /\ before' \in {Nothing, Base} /\ head' = head
      /\ space' \in {"clone", "plain"} /\ (space' = "clone" => head = Base)
  BY <1>1 DEF IInv, TypeOK, NothingCommitted, Attempting, Revisions, MadeSpace
<1>3. attempts \in Nat /\ attempts' = attempts + 1 /\ retries \in Nat /\ attempts <= Paid
  BY <1>1 DEF IInv, TypeOK, AttemptsPaidFor
<1>4. TypeOK'
  <2>1. tree' \in [Paths -> Contents]
    BY TreeTypes DEF IInv
  <2>2. next' \subseteq Nodes
    BY <1>1 DEF Nodes
  <2>3. before' = Nothing \/ before' \in [Paths -> Contents]
    BY <1>2, NothingIsNoTree
  <2>4. attempts' \in Nat
    BY <1>3
  <2>. QED
    BY <1>2, <2>1, <2>2, <2>3, <2>4 DEF IInv, TypeOK
<1>5. OneNode'
  BY <1>1 DEF OneNode
<1>6. NothingCommitted'
  BY <1>1, <1>2 DEF IInv, NothingCommitted
<1>7. AttemptsPaidFor'
  BY <1>1, <1>3 DEF AttemptsPaidFor, Paid, Chosen, Planning
<1>8. TestedIsThere'
  BY <1>1 DEF TestedIsThere, Chosen
<1>9. RollbackRestores' /\ ReleasedAsTested'
  BY <1>1 DEF RollbackRestores, ReleasedAsTested
<1>. QED
  BY <1>4, <1>5, <1>6, <1>7, <1>8, <1>9 DEF IInv

\* A coder without an output stops the run as it stands.
LEMMA CoderFailsInv == ASSUME IInv, CoderFails PROVE IInv'
<1> USE DEF CoderFails, Leave, spaceVars
<1>1. next = {"coder"} /\ next' = {} /\ ~asked' /\ lost' = "no"
  BY AtNode DEF Nodes
<1>2. TypeOK'
  BY NoOutput DEF IInv, TypeOK
<1>3. OneNode' /\ NothingCommitted'
  BY <1>1 DEF IInv, OneNode, NothingCommitted
<1>4. AttemptsPaidFor' /\ TestedIsThere'
  BY <1>1 DEF IInv, AttemptsPaidFor, Paid, TestedIsThere, Chosen
<1>5. RollbackRestores' /\ ReleasedAsTested'
  BY <1>1 DEF RollbackRestores, ReleasedAsTested
<1>. QED
  BY <1>2, <1>3, <1>4, <1>5 DEF IInv

\* The parallel node leaves; sync comes when both have.
LEMMA JoinFacts ==
  ASSUME IInv, NEW n \in {"test_executor", "documentation"}, At(n), Join(n)
  PROVE  /\ status = "running" /\ next # {} /\ next' # {} /\ next' \subseteq Nodes
         /\ asked' = FALSE /\ lost = "no"
         /\ next' \in {{"test_executor"}, {"documentation"}, {"sync"}}
         /\ n = "test_executor" => next' \in {{"documentation"}, {"sync"}}
         /\ n = "documentation" =>
              \/ next = {"documentation"} /\ next' = {"sync"}
              \/ next' = {"test_executor"}
<1>1. n \in Nodes
  BY DEF Nodes
<1>2. status = "running" /\ next \in {{n}, {"test_executor", "documentation"}}
  BY <1>1, AtNode
<1>3. asked = FALSE /\ lost = "no"
  BY DEF IInv, TypeOK, OneNode, Asking, At
<1>. QED
  BY <1>2, <1>3 DEF Join, Nodes

\* The tests pass: what they passed on is on disk.
LEMMA TestPassesInv == ASSUME IInv, TestPasses PROVE IInv'
<1> USE DEF TestPasses, spaceVars
<1>1. /\ status = "running" /\ next # {} /\ next' \in {{"documentation"}, {"sync"}}
      /\ next' \subseteq Nodes /\ asked' = FALSE /\ lost = "no"
  BY JoinFacts
<1>2. (space = "clone" => head = Base) /\ gates[Merge] = "none"
  BY DEF IInv, NothingCommitted, Attempting, At
<1>3. TypeOK'
  <2>1. tested' \in [Files -> Contents] /\ hint' \in Hints
    BY NothingIsNoTree DEF IInv, TypeOK, Hints
  <2>. QED
    BY <1>1, <2>1 DEF IInv, TypeOK
<1>4. OneNode'
  BY <1>1 DEF IInv, OneNode, Nodes
<1>5. NothingCommitted'
  BY <1>2 DEF IInv, NothingCommitted
<1>6. AttemptsPaidFor'
  <2>1. hint' = "proceed" /\ Paid' = Paid /\ attempts' = attempts
    BY DEF Paid
  <2>. QED
    BY <1>1, <2>1 DEF IInv, AttemptsPaidFor, Planning
<1>7. TestedIsThere'
  BY NothingIsNoTree DEF TestedIsThere, OnlyCode
<1>8. RollbackRestores' /\ ReleasedAsTested'
  BY <1>1 DEF RollbackRestores, ReleasedAsTested
<1>. QED
  BY <1>3, <1>4, <1>5, <1>6, <1>7, <1>8 DEF IInv

\* A failure pays for the attempt it asks for.
LEMMA AfterFailureFacts ==
  ASSUME TypeOK
  PROVE  LET f == AfterFailure IN
         /\ f.hint \in {"retry", "fallback_attempt", "rollback"}
         /\ f.retries \in 0..RetryLimit /\ f.fallback \in BOOLEAN
         /\ f.hint = "rollback" => f.retries = retries /\ f.fallback = fallback
         /\ f.hint # "rollback" => f.retries + (IF f.fallback THEN 1 ELSE 0) = Paid + 1
<1>0. retries \in 0..RetryLimit /\ fallback \in BOOLEAN
  BY DEF TypeOK
<1>1. CASE fallback
  <2>1. AfterFailure = [hint |-> "rollback", retries |-> retries, fallback |-> TRUE]
    BY <1>1 DEF AfterFailure
  <2>. QED
    BY <1>0, <1>1, <2>1
<1>2. CASE ~fallback /\ MayRetry
  <2>1. AfterFailure = [hint |-> "retry", retries |-> retries + 1, fallback |-> FALSE]
    BY <1>2 DEF AfterFailure
  <2>2. retries + 1 \in 0..RetryLimit
    BY <1>0, <1>2 DEF MayRetry
  <2>3. Paid = retries
    BY <1>0, <1>2 DEF Paid
  <2>. QED
    BY <2>1, <2>2, <2>3
<1>3. CASE ~fallback /\ ~MayRetry
  <2>1. AfterFailure = [hint |-> "fallback_attempt", retries |-> retries, fallback |-> TRUE]
    BY <1>3 DEF AfterFailure
  <2>2. Paid = retries
    BY <1>0, <1>3 DEF Paid
  <2>. QED
    BY <1>0, <2>1, <2>2
<1>. QED
  BY <1>1, <1>2, <1>3

LEMMA TestFailsInv == ASSUME IInv, TestFails PROVE IInv'
<1> USE DEF TestFails, spaceVars
<1>1. /\ status = "running" /\ next # {} /\ next' \in {{"documentation"}, {"sync"}}
      /\ next' \subseteq Nodes /\ asked' = FALSE /\ lost = "no"
  BY JoinFacts
<1>2. (space = "clone" => head = Base) /\ gates[Merge] = "none"
  BY DEF IInv, NothingCommitted, Attempting, At
<1>3. /\ hint' \in {"retry", "fallback_attempt", "rollback"}
      /\ retries' \in 0..RetryLimit /\ fallback' \in BOOLEAN
      /\ hint' = "rollback" => retries' = retries /\ fallback' = fallback
      /\ hint' # "rollback" => Paid' = Paid + 1
  BY AfterFailureFacts DEF IInv, Paid
<1>4. TypeOK'
  <2>1. hint' \in Hints
    BY <1>3 DEF Hints
  <2>. QED
    BY <1>1, <1>3, <2>1 DEF IInv, TypeOK
<1>5. OneNode'
  BY <1>1 DEF IInv, OneNode, Nodes
<1>6. NothingCommitted'
  BY <1>2 DEF IInv, NothingCommitted
<1>7. AttemptsPaidFor'
  <2>1. attempts \in Nat /\ attempts' = attempts /\ attempts <= Paid + 1 /\ Paid \in Nat
    BY DEF IInv, TypeOK, AttemptsPaidFor, Paid
  <2>2. CASE hint' = "rollback"
    <3>1. Paid' = Paid
      BY <1>3, <2>2 DEF Paid
    <3>. QED
      BY <1>1, <2>1, <2>2, <3>1 DEF AttemptsPaidFor, Planning
  <2>3. CASE hint' # "rollback"
    BY <1>1, <1>3, <2>1, <2>3 DEF AttemptsPaidFor, Planning
  <2>. QED
    BY <2>2, <2>3
<1>8. TestedIsThere'
  BY <1>1, <1>3 DEF TestedIsThere, Proceeds
<1>9. RollbackRestores' /\ ReleasedAsTested'
  BY <1>1 DEF RollbackRestores, ReleasedAsTested
<1>. QED
  BY <1>4, <1>5, <1>6, <1>7, <1>8, <1>9 DEF IInv

\* The document is written next to the files, whether the tests ran before or after.
LEMMA DocumentationInv == ASSUME IInv, Documentation PROVE IInv'
<1> USE DEF Documentation, stateVars
<1>1. /\ status = "running" /\ next # {} /\ next' # {} /\ next' \subseteq Nodes /\ asked' = FALSE
      /\ lost = "no"
      /\ \/ next = {"documentation"} /\ next' = {"sync"}
         \/ next' = {"test_executor"}
  BY JoinFacts
<1>2. (space = "clone" => head = Base) /\ gates[Merge] = "none"
  BY DEF IInv, NothingCommitted, Attempting, At
<1>3. /\ tree' \in [Paths -> Contents] /\ OnlyCode(tree') = OnlyCode(tree)
      /\ CodeGone => CodeGone'
  BY DEF IInv, TypeOK, Contents, Paths, OnlyCode, CodeGone
<1>a. space' \in {"clone", "plain"} /\ (space' = "clone" => space = "clone") /\ head' = head
  BY DEF IInv, TypeOK, MadeSpace
<1>4. TypeOK'
  BY <1>1, <1>3, <1>a DEF IInv, TypeOK
<1>5. OneNode'
  BY <1>1 DEF IInv, OneNode, Nodes
<1>6. NothingCommitted'
  BY <1>2, <1>a DEF IInv, NothingCommitted
<1>7. AttemptsPaidFor'
  BY <1>1 DEF IInv, AttemptsPaidFor, Paid, Chosen, Planning
<1>8. TestedIsThere'
  <2>1. tested' = tested /\ hint' = hint /\ OnlyCode(tree)' = OnlyCode(tree)
    BY <1>3 DEF OnlyCode
  <2>. QED
    BY <1>1, <1>3, <2>1 DEF IInv, TestedIsThere, Chosen, Proceeds
<1>9. RollbackRestores' /\ ReleasedAsTested'
  BY <1>1 DEF RollbackRestores, ReleasedAsTested
<1>. QED
  BY <1>4, <1>5, <1>6, <1>7, <1>8, <1>9 DEF IInv

\* Both branches are in: the test run's choice decides.
LEMMA SyncInv == ASSUME IInv, Sync PROVE IInv'
<1> USE DEF Sync, Leave, stateVars, spaceVars
<1>1. next = {"sync"} /\ status = "running" /\ next' = {AfterSync} /\ ~asked'
  BY AtNode DEF Nodes
<1>2. /\ AfterSync \in {"coder", "rollback", "release_gate"}
      /\ AfterSync = "coder" => hint \in {"retry", "fallback_attempt"}
      /\ AfterSync = "release_gate" => Proceeds
  BY DEF AfterSync, Proceeds
<1>3. TypeOK' /\ OneNode'
  <2>1. AfterSync \in Nodes
    BY <1>2 DEF Nodes
  <2>. QED
    BY <1>1, <2>1 DEF IInv, TypeOK, OneNode
<1>4. NothingCommitted'
  BY <1>1 DEF IInv, NothingCommitted, Attempting
<1>5. AttemptsPaidFor'
  BY <1>1, <1>2 DEF IInv, AttemptsPaidFor, Paid, Chosen, Planning
<1>6. TestedIsThere'
  BY <1>1, <1>2 DEF IInv, TestedIsThere, CodeGone, Chosen, OnlyCode
<1>7. RollbackRestores' /\ ReleasedAsTested'
  BY <1>1 DEF RollbackRestores, ReleasedAsTested
<1>. QED
  BY <1>3, <1>4, <1>5, <1>6, <1>7 DEF IInv

\* What is committed at the gate is what the tests passed on, or nothing of it.
LEMMA ReleaseGateInv ==
  ASSUME IInv, NEW s \in Decisions, NEW override \in BOOLEAN, ReleaseGate(s, override)
  PROVE  IInv'
<1> DEFINE st == ReleaseStatus(s, override)
<1>1. /\ next = {"release_gate"} /\ status = "running" /\ asked' = FALSE /\ lost = "no"
      /\ tested # Nothing /\ (tested = OnlyCode(tree) \/ CodeGone)
      /\ UNCHANGED <<scenario, replanning, retries, fallback, hint, code, before, attempts,
                     safeStop, tree, lost, tested, crashes>>
  BY AtNode DEF IInv, TestedIsThere, ReleaseGate, Leave, Nodes
<1>2. st \in Decisions /\ gates' = [gates EXCEPT ![Merge] = st] /\ overridden' = override
  BY DEF ReleaseGate, ReleaseStatus, Decisions, Merge
<1>3. gates' \in [GateTypes -> Decisions \cup {"none"}]
  BY <1>2 DEF IInv, TypeOK
<1> HIDE DEF st
<1>4. CASE Releases(st)
  <2>1. head' = Committed /\ status' = "completed" /\ next' = {}
    BY <1>4 DEF ReleaseGate, Leave, st
  <2>2. TypeOK'
    <3>1. space' \in {"clone", "removed", "plain"}
      BY <1>4 DEF IInv, TypeOK, ReleaseGate, MadeSpace, st
    <3>. QED
      BY <1>1, <1>2, <1>3, <2>1, <3>1, TreeTypes DEF IInv, TypeOK
  <2>3. OneNode' /\ NothingCommitted'
    BY <1>1, <2>1 DEF IInv, OneNode, NothingCommitted
  <2>4. AttemptsPaidFor' /\ TestedIsThere'
    BY <1>1, <2>1 DEF IInv, AttemptsPaidFor, Paid, TestedIsThere, Chosen
  <2>5. RollbackRestores'
    BY <2>1 DEF RollbackRestores
  <2>6. ReleasedAsTested'
    <3>1. \A f \in Files \ Ignored : head'[f] = tree[f]
      BY <2>1 DEF Committed, Paths
    <3>2. CASE tested = OnlyCode(tree)
      BY <1>1, <3>1, <3>2 DEF ReleasedAsTested, OnlyCode
    <3>3. CASE CodeGone
      BY <1>1, <3>1, <3>3 DEF ReleasedAsTested, CodeGone
    <3>. QED
      BY <1>1, <3>2, <3>3
  <2>. QED
    BY <2>2, <2>3, <2>4, <2>5, <2>6 DEF IInv
<1>5. CASE ~Releases(st)
  <2>1. head' = head /\ space' = space /\ status' = status /\ next' = {"rollback"}
    BY <1>5 DEF ReleaseGate, Leave, st
  <2>2. TypeOK'
    BY <1>1, <1>2, <1>3, <2>1 DEF IInv, TypeOK, Nodes
  <2>3. OneNode' /\ NothingCommitted'
    BY <1>1, <2>1 DEF IInv, OneNode, NothingCommitted, Nodes, Planning, Attempting
  <2>4. AttemptsPaidFor' /\ TestedIsThere'
    BY <1>1, <2>1 DEF IInv, AttemptsPaidFor, Paid, TestedIsThere, Chosen, Planning
  <2>5. RollbackRestores' /\ ReleasedAsTested'
    BY <1>1, <2>1 DEF RollbackRestores, ReleasedAsTested
  <2>. QED
    BY <2>2, <2>3, <2>4, <2>5 DEF IInv
<1>. QED
  BY <1>4, <1>5

\* The run ends in rollback, which restores the clone unless it safe-stops.
LEMMA RollbackInv == ASSUME IInv, Rollback \/ RollbackFails PROVE IInv'
<1>1. /\ next = {"rollback"} /\ status = "running" /\ lost = "no"
      /\ next' = {} /\ status' = "failed" /\ asked' = FALSE /\ safeStop' \in BOOLEAN
      /\ UNCHANGED <<scenario, gates, replanning, retries, fallback, hint, code, before,
                     attempts, lost, tested, overridden, crashes>>
  BY AtNode DEF Rollback, RollbackFails, RollbackEnds, Leave, Nodes
<1>2. before = Nothing \/ before = Base
  BY DEF IInv, NothingCommitted
<1>3. tree' \in [Paths -> Contents] /\ head' \in [Paths -> Contents] /\ space' = space
  <2>1. \/ UNCHANGED spaceVars
        \/ head' = Base /\ tree' \in {Reverted(Base), Reset(Base)} /\ space' = space
    BY <1>2 DEF Rollback, RollbackFails
  <2>2. tree \in [Paths -> Contents] /\ head \in [Paths -> Contents]
    BY DEF IInv, TypeOK
  <2>3. Base \in [Paths -> Contents] /\ Reverted(Base) \in [Paths -> Contents]
        /\ Reset(Base) \in [Paths -> Contents]
    BY TreeTypes, NothingIsNoTree DEF IInv
  <2>. QED
    BY <2>1, <2>2, <2>3 DEF spaceVars
<1>4. TypeOK'
  BY <1>1, <1>3 DEF IInv, TypeOK
<1>5. OneNode' /\ NothingCommitted'
  BY <1>1 DEF IInv, OneNode, NothingCommitted
<1>6. AttemptsPaidFor' /\ TestedIsThere'
  BY <1>1 DEF IInv, AttemptsPaidFor, Paid, TestedIsThere, Chosen
<1>7. RollbackRestores'
  <2>1. ASSUME ~safeStop'
        PROVE  head' = Base /\ \A p \in Paths \ Ignored : tree'[p] = "base"
    <3>1. Rollback /\ before # Nothing
      BY <2>1 DEF Rollback, RollbackFails, RollbackEnds
    <3>2. head' = Base /\ tree' = Reverted(Base)
      BY <1>2, <3>1 DEF Rollback
    <3>. QED
      BY <3>2 DEF Reverted, Base
  <2>. QED
    BY <2>1 DEF RollbackRestores
<1>8. ReleasedAsTested'
  BY <1>1 DEF ReleasedAsTested
<1>. QED
  BY <1>4, <1>5, <1>6, <1>7, <1>8 DEF IInv

\* Whatever interrupts a run, or takes it up: the state is that of the checkpoint, and the
\* workspace is removed, or touched by a coder, a commit or a rollback.
LEMMA InterruptedInv ==
  ASSUME IInv, next # {},
         UNCHANGED <<stateVars, next, asked, tested>>,
         overridden' \in BOOLEAN, crashes' \in 0..MaxCrashes,
         lost' \in {"no", "raised", "dropped", "expired"},
         tree' \in [Paths -> Contents], head' \in [Paths -> Contents],
         space' \in {"clone", "removed", "plain"},
         space' = "clone" => space = "clone",
         tree' \in {tree, Gone} \/ next \in {{"coder"}, {"rollback"}},
         space' = "clone" => head' = head \/ next \in {{"release_gate"}, {"rollback"}}
  PROVE  IInv'
<1> USE DEF stateVars
<1>1. TypeOK' /\ OneNode'
  BY DEF IInv, TypeOK, OneNode
<1>2. NothingCommitted'
  BY DEF IInv, NothingCommitted, Planning, Attempting
<1>3. AttemptsPaidFor'
  BY DEF IInv, AttemptsPaidFor, Paid, Chosen
<1>4. TestedIsThere'
  <2>1. tree' = Gone => CodeGone'
    BY DEF Gone, CodeGone, Paths
  <2>2. CASE next \in {{"coder"}, {"rollback"}}
    BY <2>2 DEF TestedIsThere, Chosen
  <2>3. CASE tree' \in {tree, Gone}
    BY <2>1, <2>3 DEF IInv, TestedIsThere, Chosen, Proceeds, OnlyCode, CodeGone
  <2>. QED
    BY <2>2, <2>3
<1>5. RollbackRestores'
  BY DEF RollbackRestores
<1>6. status # "completed"
  BY DEF IInv, OneNode
<1>7. ReleasedAsTested'
  BY <1>6 DEF ReleasedAsTested
<1>. QED
  BY <1>1, <1>2, <1>3, <1>4, <1>5, <1>7 DEF IInv

\* A node that raises, and a gate that nobody answers.
LEMMA LostInv ==
  ASSUME IInv, Expire \/ Raise \/ RaiseInMissingSpace
  PROVE  IInv'
<1>1. /\ next # {} /\ lost' \in {"raised", "expired"}
      /\ tree' = Gone /\ head' = Gone /\ space' = "removed"
      /\ UNCHANGED <<stateVars, next, asked, tested, overridden, crashes>>
  BY DEF IInv, OneNode, Expire, Raise, RaiseInMissingSpace, At, Lose
<1>2. tree' \in [Paths -> Contents] /\ head' \in [Paths -> Contents]
  BY <1>1, NothingIsNoTree
<1>3. overridden' \in BOOLEAN /\ crashes' \in 0..MaxCrashes
  BY <1>1 DEF IInv, TypeOK
<1>. QED
  BY <1>1, <1>2, <1>3, InterruptedInv

\* A run that was reported as given up has nodes to execute; a decision takes them up.
LEMMA TakeUpInv == ASSUME IInv, TakeUp PROVE IInv'
<1>1. /\ lost' = "no" /\ next # {}
      /\ UNCHANGED <<stateVars, next, asked, spaceVars, tested, overridden, crashes>>
  BY DEF IInv, OneNode, TakeUp
<1>. QED
  BY <1>1, InterruptedInv DEF IInv, TypeOK, spaceVars

\* A crash, wherever it is.
LEMMA CrashInv == ASSUME IInv, Crash PROVE IInv'
<1>1. /\ UNCHANGED <<stateVars, next, asked, tested, overridden>>
      /\ lost' \in {"no", "dropped"}
      /\ crashes' \in 0..MaxCrashes /\ overridden' \in BOOLEAN
  BY DEF IInv, TypeOK, Crash, CrashInCoder, CrashInReleaseGate, CrashInRollback, CrashElsewhere,
         AfterCrash, At
<1>2. before = Nothing \/ before = Base
  BY DEF IInv, NothingCommitted
<1>a. /\ MadeSpace \in {"clone", "removed", "plain"} /\ space \in {"clone", "removed", "plain"}
      /\ MadeSpace = "clone" => space = "clone"
  BY DEF IInv, TypeOK, MadeSpace
<1>3. CASE \E out \in Outputs : CrashInCoder(out)
  <2>1. next = {"coder"} /\ tree' \in [Paths -> Contents] /\ head' = head /\ space' = MadeSpace
    BY <1>3, AtNode, TreeTypes DEF IInv, CrashInCoder, Nodes
  <2>. QED
    BY <1>1, <1>a, <2>1, InterruptedInv DEF IInv, TypeOK
<1>4. CASE \E s \in Decisions, override \in BOOLEAN : CrashInReleaseGate(s, override)
  <2>1. /\ next = {"release_gate"} /\ head' \in [Paths -> Contents] /\ tree' = tree
        /\ space' = MadeSpace
    BY <1>4, AtNode, TreeTypes DEF IInv, CrashInReleaseGate, Nodes
  <2>. QED
    BY <1>1, <1>a, <2>1, InterruptedInv DEF IInv, TypeOK
<1>5. CASE CrashInRollback
  <2>1. next = {"rollback"} /\ head' = Base /\ tree' = Reset(Base) /\ space' = space
    BY <1>2, <1>5, AtNode DEF CrashInRollback, Nodes
  <2>. QED
    BY <1>1, <1>a, <2>1, InterruptedInv, TreeTypes, NothingIsNoTree DEF IInv
<1>6. CASE CrashElsewhere
  <2>1. next # {} /\ head' = head /\ tree' = tree /\ space' = space
    BY <1>6 DEF CrashElsewhere, spaceVars
  <2>. QED
    BY <1>1, <1>a, <2>1, InterruptedInv DEF IInv, TypeOK
<1>. QED
  BY <1>3, <1>4, <1>5, <1>6 DEF Crash

\* Nothing changes.
LEMMA StutterInv == ASSUME IInv, UNCHANGED vars PROVE IInv'
BY DEF IInv, TypeOK, OneNode, NothingCommitted, AttemptsPaidFor, Paid, TestedIsThere, Chosen, CodeGone,
       Proceeds, OnlyCode, RollbackRestores, ReleasedAsTested, vars, stateVars, spaceVars

LEMMA NextInv == ASSUME IInv, [Next]_vars PROVE IInv'
<1>1. CASE Step
  <2>1. CASE \E n \in Nodes : Ask(n)
    BY <2>1, AskInv
  <2>2. ASSUME NEW s \in Decisions, Decide(s)
        PROVE  IInv'
    BY <2>2, DecideEarlyInv, ReleaseGateInv DEF Decide
  <2>3. CASE \E out \in Outputs : Coder(out)
    BY <2>3, CoderInv
  <2>4. CASE ArchitectureDesign \/ CoderFails \/ TestPasses \/ TestFails \/ Documentation \/ Sync
    BY <2>4, ArchitectureDesignInv, CoderFailsInv, TestPassesInv, TestFailsInv, DocumentationInv,
       SyncInv
  <2>5. CASE Rollback \/ RollbackFails \/ RaiseInMissingSpace \/ Expire
    BY <2>5, RollbackInv, LostInv
  <2>. QED
    BY <1>1, <2>1, <2>2, <2>3, <2>4, <2>5 DEF Step
<1>2. CASE Raise \/ TakeUp
  BY <1>2, LostInv, TakeUpInv
<1>3. CASE Crash
  BY <1>3, CrashInv
<1>4. CASE Finished \/ UNCHANGED vars
  BY <1>4, StutterInv DEF Finished
<1>. QED
  BY <1>1, <1>2, <1>3, <1>4 DEF Next

LEMMA Invariance == Spec => []IInv
BY InitInv, NextInv, PTL DEF Spec

-----------------------------------------------------------------------------
(* The results. *)

\* Every variable keeps its type: the retries stay within their limit, and next holds
\* nothing that is not a node.
THEOREM TypeCorrect == Spec => []TypeOK
<1>1. IInv => TypeOK
  BY DEF IInv
<1>. QED
  BY <1>1, Invariance, PTL

\* A failed run that did not safe-stop left its workspace as the clone was, also when a
\* commit was made that no checkpoint tells of (_rollback, git_revert_to).
THEOREM RollbackRestoresClone == Spec => []RollbackRestores
<1>1. IInv => RollbackRestores
  BY DEF IInv
<1>. QED
  BY <1>1, Invariance, PTL

\* A first attempt, the retries, and one fallback: no more, however the failures fall
\* (test_executor, _route_after_sync).
THEOREM AttemptsAreBounded == Spec => []AttemptsBounded
<1>1. ASSUME IInv
      PROVE  AttemptsBounded
  <2>1. retries \in 0..RetryLimit /\ attempts \in Nat /\ attempts <= Paid + 1
    BY <1>1 DEF IInv, TypeOK, AttemptsPaidFor
  <2>2. Paid <= RetryLimit + 1
    BY <2>1 DEF Paid
  <2>. QED
    BY <2>1, <2>2 DEF AttemptsBounded, Paid
<1>. QED
  BY <1>1, Invariance, PTL

\* The commit of a completed run holds what the tests passed on, but for what git passes
\* over, or none of it when the workspace was removed since (release_gate, git_commit_all,
\* _fail_run, sweep_stale_runs).
THEOREM ReleaseIsTested == Spec => []ReleasedAsTested
<1>1. IInv => ReleasedAsTested
  BY DEF IInv
<1>. QED
  BY <1>1, Invariance, PTL

-----------------------------------------------------------------------------
(* The graph implements the safety part of GovernedChange. *)

\* Every run starts in the works, with nothing said of it.
LEMMA InitRefines == Init => GC!Init
<1> SUFFICES ASSUME Init PROVE GC!Init
  OBVIOUS
<1>1. lost = "no" /\ status = "running" /\ next = {"requirement_clarifier"} /\ ~asked
  BY Zenon DEF Init
<1>2. gates[Merge] = "none"
  BY DEF Init, GateTypes, Merge
<1>. QED
  BY <1>1, <1>2 DEF GC!Init, Phase, Stopped, Verdict, Merge

\* Where no gate waits, a run is in the works or refused.
LEMMA UnaskedPhases ==
  ASSUME IInv, lost = "no", next # {}, ~asked
  PROVE  /\ Phase \in {"working", "withdrawing"}
         /\ gates[Merge] = "none" => Phase = "working" /\ Verdict = "none"
         /\ gates[Merge] # "none" => Phase = "withdrawing" /\ Verdict # "none"
<1>1. status = "running" /\ ~Stopped
  BY DEF IInv, OneNode, Stopped
<1>2. CASE gates[Merge] = "none"
  BY <1>1, <1>2 DEF Phase, Verdict, Merge
<1>3. CASE gates[Merge] # "none"
  <2>1. next = {"rollback"}
    BY <1>3 DEF IInv, NothingCommitted
  <2>2. Phase = "withdrawing"
    BY <1>1, <1>3, <2>1 DEF Phase, Merge
  <2>3. Verdict # "none"
    BY <1>3 DEF Verdict, Merge
  <2>. QED
    BY <1>3, <2>2, <2>3
<1>. QED
  BY <1>2, <1>3

\* Where a gate waits, nothing was said of the run; it is stopped if its workspace is gone.
LEMMA AskedPhases ==
  ASSUME IInv, lost = "no", asked
  PROVE  /\ Verdict = "none" /\ status = "running" /\ next # {} /\ gates[Merge] = "none"
         /\ Phase = IF space = "removed" THEN "stopped"
                    ELSE IF next = {"release_gate"} THEN "review" ELSE "working"
<1>1. PICK n \in Asking : next = {n}
  BY DEF IInv, OneNode
<1>2. n # "rollback"
  BY DEF Asking
<1>3. status = "running" /\ gates[Merge] = "none"
  BY <1>1, <1>2 DEF IInv, OneNode, NothingCommitted
<1>4. Verdict = "none"
  BY <1>3 DEF Verdict, Merge
<1>5. CASE space = "removed"
  <2>1. Stopped
    BY <1>5 DEF Stopped
  <2>2. Phase = "stopped"
    BY <2>1 DEF Phase
  <2>. QED
    BY <1>1, <1>3, <1>4, <1>5, <2>2
<1>6. CASE space # "removed"
  <2>1. ~Stopped /\ next # {} /\ next # {"rollback"}
    BY <1>1, <1>2, <1>6 DEF Stopped
  <2>2. Phase = IF next = {"release_gate"} THEN "review" ELSE "working"
    BY <1>3, <2>1 DEF Phase, Merge
  <2>. QED
    BY <1>1, <1>3, <1>4, <1>6, <2>2
<1>. QED
  BY <1>5, <1>6

\* Every step is a step of the abstract change or leaves it as it is.
LEMMA StepRefines == IInv /\ [Next]_vars => [GC!Next]_(GC!vars)
<1> SUFFICES ASSUME IInv, [Next]_vars PROVE [GC!Next]_(GC!vars)
  OBVIOUS
<1>i. IInv'
  BY NextInv
<1>a. Phase' = Phase /\ Verdict' = Verdict => [GC!Next]_(GC!vars)
  BY DEF GC!vars
<1>v. gates'[Merge] = gates[Merge] => Verdict' = Verdict
  BY DEF Verdict, Merge
<1>o. lost = "no" /\ next # {} => Phase \in {"working", "review", "withdrawing", "stopped"}
  BY UnaskedPhases, AskedPhases
\* A node before the last gate is done.
<1>d. ASSUME NEW n \in Nodes \ {"release_gate", "rollback"}, At(n), next' # {}, ~asked',
             gates'[Merge] = gates[Merge], UNCHANGED lost
      PROVE  [GC!Next]_(GC!vars)
  <2>1. lost = "no" /\ lost' = "no" /\ next # {} /\ next # {"release_gate"}
    BY <1>d, AtNode
  <2>2. gates[Merge] = "none" /\ gates'[Merge] = "none"
    BY <1>d, <2>1 DEF IInv, NothingCommitted, At
  <2>3. Phase \in {"working", "stopped"} /\ Verdict = "none"
    BY <2>1, <2>2, UnaskedPhases, AskedPhases
  <2>4. Phase' = "working" /\ Verdict' = "none"
    <3>1. status' = "running" /\ ~Stopped'
      BY <1>i, <1>d, <2>1 DEF IInv, OneNode, Stopped
    <3>. QED
      BY <2>1, <2>2, <3>1, <1>d DEF Phase, Verdict, Merge
  <2>. QED
    BY <1>a, <2>3, <2>4 DEF GC!Next, GC!TakeUp
\* The run is reported as given up, or comes to its end unreleased.
<1>g. ASSUME lost = "no", next # {}, gates'[Merge] = gates[Merge], lost' \in {"raised", "expired"}
      PROVE  [GC!Next]_(GC!vars)
  <2>1. Phase' = "stopped" /\ Verdict' = Verdict
    BY <1>v, <1>g DEF Phase, Stopped
  <2>. QED
    BY <1>a, <1>o, <1>g, <2>1 DEF GC!Next, GC!GiveUp
<1>e. ASSUME lost = "no", next # {}, ~asked, gates'[Merge] = gates[Merge], Phase' = "ended"
      PROVE  [GC!Next]_(GC!vars)
  <2>1. Phase \in {"working", "withdrawing"} /\ Verdict' = Verdict
    BY <1>v, <1>e, UnaskedPhases
  <2>. QED
    BY <1>e, <2>1 DEF GC!Next, GC!GiveUp, GC!Withdraw
<1>1. CASE Step
  <2>1. ASSUME NEW n \in Nodes, Ask(n) PROVE [GC!Next]_(GC!vars)
    <3>1. /\ lost = "no" /\ next = {n} /\ n \in Asking /\ next # {}
          /\ ~asked /\ asked' /\ UNCHANGED <<next, gates, lost, space>>
      BY <2>1, AtNode, GateTyped DEF Ask, stateVars, spaceVars, Asking
    <3>2. gates[Merge] = "none"
      BY <3>1 DEF IInv, NothingCommitted, Asking
    <3>3. Phase = "working" /\ Verdict' = Verdict
      BY <1>v, <3>1, <3>2, UnaskedPhases
    <3>4. Phase' \in {"stopped", "review", "working"}
      <4>1. status' = "running"
        BY <1>i, <3>1 DEF IInv, OneNode
      <4>. QED
        BY <3>1, <3>2, <4>1 DEF Phase, Merge
    <3>. QED
      BY <1>a, <3>3, <3>4 DEF GC!Next, GC!Submit, GC!GiveUp
  <2>2. ASSUME NEW s \in Decisions, NEW override \in BOOLEAN, ReleaseGate(s, override)
        PROVE  [GC!Next]_(GC!vars)
    <3> DEFINE st == ReleaseStatus(s, override)
    <3>1. lost = "no" /\ next = {"release_gate"} /\ asked /\ lost' = lost /\ ~asked'
      BY <2>2, AtNode DEF ReleaseGate, Leave, Nodes
    <3>2. Phase \in {"review", "stopped"} /\ Verdict = "none" /\ status = "running"
      BY <3>1, AskedPhases
    <3>3. gates'[Merge] = st /\ st # "none" /\ ~Stopped'
      BY <2>2, <3>1 DEF ReleaseGate, ReleaseStatus, Decisions, IInv, TypeOK, GateTypes, Merge, Stopped
    <3>4. CASE Releases(st)
      <4>1. Verdict' = "approved"
        BY <3>3, <3>4 DEF Verdict, Merge, Releases
      <4>2. status' = "completed" /\ next' = {}
        BY <2>2, <3>4 DEF ReleaseGate, Leave
      <4>3. Phase' = "released"
        BY <3>1, <4>2 DEF Phase, Stopped
      <4>. QED
        BY <3>2, <4>1, <4>3 DEF GC!Next, GC!Approve, GC!Answerable
    <3>5. CASE ~Releases(st)
      <4>1. Verdict' = "refused"
        BY <3>3, <3>5 DEF Verdict, Merge, Releases
      <4>2. next' = {"rollback"} /\ status' = "running"
        BY <2>2, <3>2, <3>5 DEF ReleaseGate, Leave
      <4>3. Phase' = "withdrawing"
        BY <3>1, <3>3, <4>2 DEF Phase, Merge
      <4>. QED
        BY <3>2, <4>1, <4>3 DEF GC!Next, GC!Refuse, GC!Answerable
    <3>. QED
      BY <3>4, <3>5
  <2>3. ASSUME NEW s \in Decisions, NEW conflict \in BOOLEAN,
               \/ RequirementClarifier(s) \/ CodebaseReasoner(s, conflict)
               \/ DecomposerPlanner(s) \/ Replanner(s)
        PROVE  [GC!Next]_(GC!vars)
    <3>1. PICK n \in Planning : At(n) /\ Record(n, s)
      BY <2>3 DEF Planning, RequirementClarifier, CodebaseReasoner, DecomposerPlanner, Replanner
    <3>2. n \in Nodes \ {"release_gate", "rollback"} /\ gates'[Merge] = gates[Merge]
      BY <3>1, RecordFacts DEF Planning, Nodes
    <3>3. next' # {} /\ ~asked' /\ UNCHANGED lost
      BY <2>3 DEF RequirementClarifier, CodebaseReasoner, DecomposerPlanner, Replanner, Leave
    <3>. QED
      BY <1>d, <3>1, <3>2, <3>3
  <2>4. CASE ArchitectureDesign \/ Sync \/ \E out \in Outputs : Coder(out)
    <3>1. PICK n \in {"architecture_design", "sync", "coder"} : At(n)
      BY <2>4 DEF ArchitectureDesign, Sync, Coder
    <3>2. n \in Nodes \ {"release_gate", "rollback"}
      BY DEF Nodes
    <3>3. next' # {} /\ ~asked' /\ UNCHANGED <<gates, lost>>
      BY <2>4 DEF ArchitectureDesign, Sync, Coder, Leave, stateVars
    <3>. QED
      BY <1>d, <3>1, <3>2, <3>3
  <2>5. CASE TestPasses \/ TestFails \/ Documentation
    <3>1. PICK n \in {"test_executor", "documentation"} : At(n) /\ Join(n)
      BY <2>5 DEF TestPasses, TestFails, Documentation
    <3>2. n \in Nodes \ {"release_gate", "rollback"}
      BY DEF Nodes
    <3>3. next' # {} /\ ~asked'
      <4>1. ~asked
        BY <3>1 DEF IInv, OneNode, Asking, At
      <4>. QED
        BY <3>1, <4>1, JoinFacts
    <3>4. UNCHANGED <<gates, lost>>
      BY <2>5 DEF TestPasses, TestFails, Documentation, stateVars
    <3>. QED
      BY <1>d, <3>1, <3>2, <3>3, <3>4
  <2>6. CASE CoderFails \/ Rollback \/ RollbackFails
    <3>1. PICK n \in {"coder", "rollback"} : At(n)
      BY <2>6 DEF CoderFails, Rollback, RollbackFails
    <3>2. n \in Nodes
      BY DEF Nodes
    <3>3. lost = "no" /\ next # {} /\ ~asked
      BY <3>1, <3>2, AtNode DEF IInv, OneNode, Asking, At
    <3>4. next' = {} /\ status' = "failed" /\ ~asked' /\ UNCHANGED <<gates, lost>>
      BY <2>6 DEF CoderFails, Rollback, RollbackFails, RollbackEnds, Leave
    <3>5. Phase' = "ended"
      BY <3>3, <3>4 DEF Phase, Stopped
    <3>. QED
      BY <1>e, <3>3, <3>4, <3>5
  <2>7. CASE RaiseInMissingSpace \/ Expire
    BY <1>g, <2>7 DEF IInv, OneNode, Asking, RaiseInMissingSpace, Expire, Lose, At, stateVars
  <2>. QED
    BY <1>1, <2>1, <2>2, <2>3, <2>4, <2>5, <2>6, <2>7 DEF Step, Decide
<1>2. CASE Raise
  BY <1>2, <1>g DEF Raise, Lose, stateVars
<1>3. CASE TakeUp
  <2>1. /\ Stopped /\ next # {} /\ status = "running" /\ lost' = "no"
        /\ UNCHANGED <<next, asked, gates, space, status>>
    BY <1>3 DEF IInv, OneNode, TakeUp, Stopped, stateVars, spaceVars
  <2>2. Phase = "stopped" /\ Verdict' = Verdict
    BY <1>v, <2>1 DEF Phase
  <2>3. CASE asked
    <3>1. gates[Merge] = "none"
      BY <2>3 DEF IInv, OneNode, NothingCommitted, Asking
    <3>2. Verdict = "none"
      BY <3>1 DEF Verdict, Merge
    <3>3. Phase' \in {"stopped", "review", "working"}
      BY <2>1, <3>1 DEF Phase, Merge
    <3>. QED
      BY <1>a, <2>2, <3>2, <3>3 DEF GC!Next, GC!TakeUp
  <2>4. CASE ~asked
    <3>1. ~Stopped'
      BY <2>1, <2>4 DEF Stopped
    <3>2. CASE gates[Merge] = "none"
      <4>1. Phase' = "working" /\ Verdict = "none"
        BY <2>1, <2>4, <3>1, <3>2 DEF Phase, Verdict, Merge
      <4>. QED
        BY <2>2, <4>1 DEF GC!Next, GC!TakeUp
    <3>3. CASE gates[Merge] # "none"
      <4>1. next = {"rollback"}
        BY <2>1, <3>3 DEF IInv, NothingCommitted
      <4>2. Phase' = "withdrawing" /\ Verdict # "none"
        BY <2>1, <3>1, <3>3, <4>1 DEF Phase, Verdict, Merge
      <4>. QED
        BY <2>2, <4>2 DEF GC!Next, GC!TakeUp
    <3>. QED
      BY <3>2, <3>3
  <2>. QED
    BY <2>3, <2>4
<1>4. CASE Crash
  <2>1. lost = "no" /\ next # {} /\ UNCHANGED <<next, asked, gates, status>>
    BY <1>4 DEF Crash, CrashInCoder, CrashInReleaseGate, CrashInRollback, CrashElsewhere,
       AfterCrash, At, stateVars
  <2>2. Verdict' = Verdict
    BY <1>v, <2>1
  <2>3. CASE \E s \in Decisions, override \in BOOLEAN : CrashInReleaseGate(s, override)
    <3>1. lost' = "no" /\ asked /\ next = {"release_gate"} /\ space' = MadeSpace
      BY <2>1, <2>3, AtNode DEF CrashInReleaseGate, Nodes
    <3>2. Phase \in {"stopped", "review"} /\ Verdict = "none"
      BY <2>1, <3>1, AskedPhases
    <3>3. Phase' = "review"
      <4>1. space' # "removed" /\ ~Stopped'
        BY <2>1, <3>1 DEF MadeSpace, Stopped
      <4>. QED
        BY <2>1, <3>1, <3>2, <4>1, AskedPhases DEF Phase
    <3>. QED
      BY <1>a, <2>2, <3>2, <3>3 DEF GC!Next, GC!TakeUp
  <2>4. CASE ~asked /\ lost' \in {"no", "dropped"}
    <3>1. CASE lost' = "no"
      BY <1>a, <2>1, <2>2, <2>4, <3>1 DEF Phase, Stopped
    <3>2. CASE lost' = "dropped"
      <4>1. status = "running"
        BY <2>1 DEF IInv, OneNode
      <4>2. Phase' = "ended"
        BY <2>1, <2>4, <3>2, <4>1 DEF Phase, Stopped
      <4>. QED
        BY <1>e, <2>1, <2>4, <4>2
    <3>. QED
      BY <2>4, <3>1, <3>2
  <2>5. ASSUME ~ \E s \in Decisions, override \in BOOLEAN : CrashInReleaseGate(s, override)
        PROVE  ~asked /\ lost' \in {"no", "dropped"}
    BY <1>4, <2>5 DEF Crash, CrashInCoder, CrashInRollback, CrashElsewhere, AfterCrash, At,
       IInv, OneNode, Asking
  <2>. QED
    BY <2>3, <2>4, <2>5
<1>5. CASE UNCHANGED vars
  BY <1>a, <1>5 DEF vars, stateVars, spaceVars, Phase, Stopped, Verdict
<1>. QED
  BY <1>1, <1>2, <1>3, <1>4, <1>5 DEF Next, Finished

\* The graph keeps the safety part of GovernedChange: a run is released only by an
\* approval at merge_release_approval, at once or late, and one that was refused there is
\* never released, though it be given up and taken up again (resume_run, _fail_run).
THEOREM KeepsGovernedChange == Spec => GC!Init /\ [][GC!Next]_(GC!vars)
BY InitRefines, StepRefines, Invariance, PTL DEF Spec
=============================================================================
