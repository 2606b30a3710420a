------------------------- MODULE SpecialistGraphProofs -------------------------
(***************************************************************************)
(* Proofs about SpecialistGraph, for every set of repositories and any     *)
(* number of crashes and edits of the routing table: the types, that       *)
(* nothing is committed or pushed unapproved, that what is pushed is the   *)
(* directory the reviewer was asked about and, if the list was not full,   *)
(* what it named, that a change reported as published is there, and that   *)
(* every step implements a step of GovernedChange.                         *)
(***************************************************************************)
EXTENDS SpecialistGraph, FiniteSetTheorems, TLAPS

USE SpecialistAssumption DEF SpecialistAssumption

Early == {"design", "design_review", "generate"}
Late == {"release_review", "publish"}

\* Up to the release gate nothing is decided there, and nothing has left.
NothingYet ==
  next \in Early \cup {"release_review"} =>
    gates[ReleaseGate] = "none" /\ head = {} /\ remote = {} /\ ~published

\* An invocation that is repeated was interrupted by a crash.
InvocationsPaidFor ==
  /\ attempts <= crashes + 1
  /\ next \in Early => attempts <= crashes

\* A checkout has an origin, which is the route's unless the route was edited, and
\* there is something to commit in it.
Placed ==
  /\ Reuses => origin # "none"
  /\ next \in Late => origin # "none" /\ Kept(files) # {}
  /\ reroutes = 0 => /\ origin \in {"none", table}
                     /\ next \in Late => outputRepo = table

\* What is shown at the release gate stays on disk until the run is over, and is all
\* there is unless the list is full.
ShownIsThere ==
  next = "publish" \/ (next = "release_review" /\ asked) =>
    /\ shown.repo = outputRepo /\ shown.outOf = files
    /\ ~shown.full => shown.files = files

\* The type invariant in three parts.
StateTyped ==
  /\ next \in Nodes /\ asked \in BOOLEAN
  /\ gates \in [{DesignGate, ReleaseGate} -> Decisions \cup {"none"}]
  /\ status \in {"running", "completed", "failed"}
  /\ safeStop \in BOOLEAN /\ published \in BOOLEAN
  /\ outputRepo \in Outputs /\ table \in Outputs /\ mode \in Modes

DiskTyped ==
  /\ artifact \in BOOLEAN /\ checkout \in {"absent", "plain", "partial", "clone"}
  /\ origin \in Outputs /\ files \subseteq Writes /\ head \subseteq files
  /\ remote \subseteq Branches /\ Cardinality(remote) <= 1 /\ pull \in BOOLEAN

CountsTyped ==
  /\ attempts \in Attempts \cup {0}
  /\ shown \in Showings
  /\ lost \in {"no", "raised", "dropped"}
  /\ crashes \in 0..MaxCrashes /\ reroutes \in 0..MaxReroutes

\* The inductive invariant.
IInv ==
  /\ TypeOK
  /\ NothingYet /\ InvocationsPaidFor /\ Placed /\ ShownIsThere
  /\ next = "publish" => Approved /\ ~published
  /\ NothingLeavesUnapproved /\ PublishedAsReviewed /\ PublishedIsThere

-----------------------------------------------------------------------------
(* Facts about the helpers. *)

\* A restart costs one crash, and keeps the route unless it is an edit of it.
LEMMA RestartFacts ==
  ASSUME TypeOK, Restart
  PROVE  /\ crashes' = crashes + 1 /\ crashes \in Nat /\ crashes' \in 0..MaxCrashes
         /\ reroutes' \in 0..MaxReroutes /\ table' \in Outputs
         /\ reroutes' = 0 => reroutes = 0 /\ table' = table
         /\ lost' \in {"no", "raised", "dropped"}
         /\ UNCHANGED <<next, asked, stateVars, mode, artifact, shown>>
<1>1. crashes' = crashes + 1 /\ crashes \in Nat /\ crashes' \in 0..MaxCrashes
  <2>1. crashes \in 0..MaxCrashes /\ crashes < MaxCrashes /\ crashes' = crashes + 1
    BY DEF TypeOK, Restart
  <2>. QED
    BY <2>1
<1>2. /\ reroutes' \in 0..MaxReroutes /\ table' \in Outputs
      /\ reroutes' = 0 => reroutes = 0 /\ table' = table
  <2>1. reroutes \in 0..MaxReroutes /\ table \in Outputs
    BY DEF TypeOK
  <2>2. CASE UNCHANGED <<table, reroutes>>
    BY <2>1, <2>2
  <2>3. CASE /\ reroutes < MaxReroutes /\ reroutes' = reroutes + 1
             /\ table' \in Outputs \ {table}
    BY <2>1, <2>3
  <2>. QED
    BY <2>2, <2>3 DEF Restart
<1>3. /\ lost' \in {"no", "raised", "dropped"}
      /\ UNCHANGED <<next, asked, stateVars, mode, artifact, shown>>
  BY DEF Restart
<1>. QED
  BY <1>1, <1>2, <1>3

\* An invocation at generate stays within the bound, one ahead of the crashes.
LEMMA InvokeFacts ==
  ASSUME IInv, next = "generate", Invoke
  PROVE  /\ attempts' \in Attempts /\ attempts' <= crashes + 1
         /\ files' \subseteq Writes /\ Kept(files') # {}
<1>1. attempts \in Nat /\ crashes \in Nat /\ crashes <= MaxCrashes
  <2>1. attempts \in Attempts \cup {0} /\ crashes \in 0..MaxCrashes
    BY DEF IInv, TypeOK
  <2>. QED
    BY <2>1 DEF Attempts
<1>2. attempts <= crashes
  BY DEF IInv, InvocationsPaidFor, Early
<1>3. attempts' = attempts + 1 /\ files' = Ensured.files \cup ({attempts + 1} \X Kinds)
  BY DEF Invoke
<1>4. attempts + 1 \in Attempts
  BY <1>1, <1>2 DEF Attempts
<1>5. Ensured.files \subseteq Writes
  BY DEF IInv, TypeOK, Ensured
<1>6. files' \subseteq Writes
  BY <1>3, <1>4, <1>5 DEF Writes
<1>7. <<attempts + 1, "kept">> \in Kept(files')
  BY <1>3 DEF Kinds, Kept
<1>. QED
  BY <1>1, <1>2, <1>3, <1>4, <1>6, <1>7

\* A list of the files is a part of them, and all of them unless it is full.
LEMMA ListingFacts ==
  ASSUME TypeOK, NEW others \in 0..MaxOthers, NEW listed \in Listings(others)
  PROVE  /\ listed \subseteq files /\ Full(others) \in BOOLEAN
         /\ ~Full(others) => listed = files
<1>1. Cardinality(files) \in Nat
  <2>1. IsFiniteSet(Attempts) /\ IsFiniteSet(Kinds)
    <3>1. IsFiniteSet(Attempts)
      BY FS_Interval DEF Attempts
    <3>2. IsFiniteSet({"kept"}) /\ Kinds = {"kept"} \cup {"ignored"}
      BY FS_Singleton DEF Kinds
    <3>. QED
      BY <3>1, <3>2, FS_AddElement
  <2>2. IsFiniteSet(Writes)
    BY <2>1, FS_Product DEF Writes
  <2>3. IsFiniteSet(files)
    BY <2>2, FS_Subset DEF TypeOK
  <2>. QED
    BY <2>3, FS_CardinalityType
<1>. QED
  BY <1>1 DEF Listings, Full

\* The reviewer is asked about the directory as it is.
LEMMA AskForReleaseFacts ==
  ASSUME TypeOK, AskForRelease
  PROVE  /\ shown' \in Showings
         /\ shown'.repo = outputRepo /\ shown'.outOf = files
         /\ ~shown'.full => shown'.files = files
<1>1. PICK others \in 0..MaxOthers : \E listed \in Listings(others) :
        shown' = [repo |-> outputRepo, files |-> listed, full |-> Full(others), outOf |-> files]
  BY DEF AskForRelease
<1>2. PICK listed \in Listings(others) :
        shown' = [repo |-> outputRepo, files |-> listed, full |-> Full(others), outOf |-> files]
  BY <1>1
<1>3. /\ listed \subseteq files /\ Full(others) \in BOOLEAN
      /\ ~Full(others) => listed = files
  BY ListingFacts
<1>4. outputRepo \in Outputs /\ files \subseteq Writes
  BY DEF TypeOK
<1>. QED
  BY <1>2, <1>3, <1>4 DEF Showings

\* What publish_change does to the two sides.
LEMMA DeliverFacts ==
  ASSUME IInv, next = "publish", NEW d \in Deliveries, Deliver(d)
  PROVE  /\ head' = Kept(files) /\ Kept(files) \subseteq files /\ pull' \in BOOLEAN
         /\ remote' = remote \/ remote' = Pushed
         /\ IsPublished(d) \in BOOLEAN /\ (IsPublished(d) => remote' = Pushed)
         /\ Pushed = {[repo |-> origin, files |-> Kept(files)]}
         /\ Pushed \subseteq Branches /\ Cardinality(Pushed) = 1
<1>1. origin \in Repos
  BY DEF IInv, TypeOK, Placed, Late, Outputs
<1>2. Kept(files) \subseteq files /\ Kept(files) \in SUBSET Writes
  BY DEF IInv, TypeOK, Kept
<1>3. Pushed = {[repo |-> origin, files |-> Kept(files)]}
  BY DEF Pushed
<1>4. Pushed \subseteq Branches
  <2>1. [repo |-> origin, files |-> Kept(files)] \in Branches
    BY <1>1, <1>2 DEF Branches
  <2>. QED
    BY <2>1, <1>3
<1>5. Cardinality(Pushed) = 1
  BY <1>3, FS_Singleton
<1>6. IsPublished(d) \in BOOLEAN /\ (IsPublished(d) => d # "none")
  BY DEF IsPublished
<1>7. pull' \in BOOLEAN
  BY DEF Deliver
<1>8. head' = Kept(files) /\ remote' = (IF d = "none" THEN remote ELSE Pushed)
  BY DEF Deliver
<1>. QED
  BY <1>2, <1>3, <1>4, <1>5, <1>6, <1>7, <1>8

-----------------------------------------------------------------------------
(* Every action preserves the invariant. *)

\* Asking parks the run at its gate.
LEMMA AskForDesignInv ==
  ASSUME IInv, AskForDesign
  PROVE  IInv'
<1>1. TypeOK'
  BY DEF IInv, TypeOK, stateVars, diskVars, remoteVars, boundVars, AskAtGate, AskForDesign
<1>2. (NothingYet /\ InvocationsPaidFor /\ Placed /\ ShownIsThere)'
  BY DEF IInv, NothingYet, InvocationsPaidFor, Placed, ShownIsThere, Reuses, stateVars,
     diskVars, remoteVars, boundVars, At, AskAtGate, AskForDesign
<1>3. (next = "publish" => Approved /\ ~published)'
  BY DEF IInv, At, AskAtGate, AskForDesign
<1>4. (NothingLeavesUnapproved /\ PublishedAsReviewed /\ PublishedIsThere)'
  BY DEF IInv, NothingLeavesUnapproved, PublishedAsReviewed, PublishedIsThere,
     Approved, stateVars, diskVars, remoteVars, boundVars, AskAtGate, AskForDesign
<1>. QED
  BY <1>1, <1>2, <1>3, <1>4 DEF IInv

\* The release gate shows what is on disk when it asks, or the beginning of it.
LEMMA AskForReleaseInv ==
  ASSUME IInv, AskForRelease
  PROVE  IInv'
<1>0. /\ AskAtGate("release_review")
      /\ shown' \in Showings
      /\ shown'.repo = outputRepo /\ shown'.outOf = files
      /\ ~shown'.full => shown'.files = files
  BY AskForReleaseFacts DEF IInv, AskForRelease
<1>1. TypeOK'
  BY <1>0 DEF IInv, TypeOK, stateVars, diskVars, remoteVars, boundVars, AskAtGate
<1>2. (NothingYet /\ InvocationsPaidFor /\ Placed /\ ShownIsThere)'
  BY <1>0 DEF IInv, NothingYet, InvocationsPaidFor, Placed, ShownIsThere, Reuses,
     stateVars, diskVars, remoteVars, boundVars, At, AskAtGate
<1>3. (next = "publish" => Approved /\ ~published)'
  BY <1>0 DEF At, AskAtGate
<1>4. (NothingLeavesUnapproved /\ PublishedAsReviewed /\ PublishedIsThere)'
  BY <1>0 DEF IInv, NothingYet, NothingLeavesUnapproved, PublishedAsReviewed,
     PublishedIsThere, stateVars, diskVars, remoteVars, At, AskAtGate
<1>. QED
  BY <1>1, <1>2, <1>3, <1>4 DEF IInv

\* design writes its artifact, or fails softly without one.
LEMMA DesignInv ==
  ASSUME IInv, NEW wrote \in BOOLEAN, Design(wrote)
  PROVE  IInv'
<1>1. TypeOK'
  <2>1. StateTyped'
    BY DEF StateTyped, IInv, TypeOK, Nodes, stateVars, Leave, Design
  <2>2. DiskTyped'
    BY DEF DiskTyped, IInv, TypeOK, remoteVars, Design
  <2>3. CountsTyped'
    BY DEF CountsTyped, IInv, TypeOK, boundVars, Design
  <2>. QED
    BY <2>1, <2>2, <2>3 DEF TypeOK, StateTyped, DiskTyped, CountsTyped
<1>2. (NothingYet /\ InvocationsPaidFor /\ Placed /\ ShownIsThere)'
  BY DEF IInv, NothingYet, InvocationsPaidFor, Placed, ShownIsThere, Reuses, Early,
     Late, stateVars, remoteVars, boundVars, At, Leave, Design
<1>3. (next = "publish" => Approved /\ ~published)'
  BY DEF IInv, Leave, Design
<1>4. (NothingLeavesUnapproved /\ PublishedAsReviewed /\ PublishedIsThere)'
  BY DEF IInv, NothingLeavesUnapproved, PublishedAsReviewed, PublishedIsThere,
     Approved, stateVars, remoteVars, boundVars, Design
<1>. QED
  BY <1>1, <1>2, <1>3, <1>4 DEF IInv

\* A failed design ends the run before anything was generated.
LEMMA DesignFailsInv ==
  ASSUME IInv, DesignFails
  PROVE  IInv'
<1>1. TypeOK'
  BY DEF IInv, TypeOK, Nodes, Decisions, diskVars, remoteVars, boundVars, Leave,
     Failure, DesignFails
<1>2. (NothingYet /\ InvocationsPaidFor /\ Placed /\ ShownIsThere)'
  BY DEF IInv, NothingYet, InvocationsPaidFor, Placed, ShownIsThere, Reuses, Early,
     Late, diskVars, boundVars, Leave, Failure, DesignFails
<1>3. (next = "publish" => Approved /\ ~published)'
  BY DEF IInv, Leave, Failure, DesignFails
<1>4. (NothingLeavesUnapproved /\ PublishedAsReviewed /\ PublishedIsThere)'
  BY DEF IInv, NothingLeavesUnapproved, PublishedAsReviewed, PublishedIsThere,
     Approved, diskVars, remoteVars, boundVars, DesignFails
<1>. QED
  BY <1>1, <1>2, <1>3, <1>4 DEF IInv

\* The first gate decides nothing about the release.
LEMMA DesignReviewInv ==
  ASSUME IInv, NEW s \in Decisions, DesignReview(s)
  PROVE  IInv'
<1>1. TypeOK'
  <2>1. StateTyped'
    BY DEF StateTyped, IInv, TypeOK, Nodes, Leave, DesignReview, Decided
  <2>2. DiskTyped'
    BY DEF DiskTyped, IInv, TypeOK, diskVars, remoteVars, DesignReview
  <2>3. CountsTyped'
    BY DEF CountsTyped, IInv, TypeOK, boundVars, DesignReview
  <2>. QED
    BY <2>1, <2>2, <2>3 DEF TypeOK, StateTyped, DiskTyped, CountsTyped
<1>2. (NothingYet /\ InvocationsPaidFor /\ Placed /\ ShownIsThere)'
  BY DEF IInv, DesignGate, ReleaseGate, NothingYet, InvocationsPaidFor, Placed,
     ShownIsThere, Reuses, Early, Late, diskVars, remoteVars, boundVars, At, Leave,
     DesignReview, Decided
<1>3. (next = "publish" => Approved /\ ~published)'
  BY DEF IInv, Leave, DesignReview, Decided
<1>4. (NothingLeavesUnapproved /\ PublishedAsReviewed /\ PublishedIsThere)'
  BY DEF IInv, NothingYet, NothingLeavesUnapproved, PublishedAsReviewed,
     PublishedIsThere, Early, diskVars, remoteVars, At, DesignReview
<1>. QED
  BY <1>1, <1>2, <1>3, <1>4 DEF IInv

\* Only an approval leads from the release gate to publish.
LEMMA ReleaseReviewInv ==
  ASSUME IInv, NEW s \in Decisions, ReleaseReview(s)
  PROVE  IInv'
<1>1. TypeOK'
  <2>1. StateTyped'
    BY DEF StateTyped, IInv, TypeOK, Nodes, Leave, ReleaseReview, Decided,
       AfterReleaseReview
  <2>2. DiskTyped'
    BY DEF DiskTyped, IInv, TypeOK, diskVars, remoteVars, ReleaseReview
  <2>3. CountsTyped'
    BY DEF CountsTyped, IInv, TypeOK, boundVars, ReleaseReview
  <2>. QED
    BY <2>1, <2>2, <2>3 DEF TypeOK, StateTyped, DiskTyped, CountsTyped
<1>2. (NothingYet /\ InvocationsPaidFor /\ Placed /\ ShownIsThere)'
  BY DEF IInv, NothingYet, InvocationsPaidFor, Placed, ShownIsThere, Early, Late,
     diskVars, boundVars, At, Leave, ReleaseReview, Decided, AfterReleaseReview
<1>3. (next = "publish" => Approved /\ ~published)'
  BY DEF IInv, TypeOK, NothingYet, Approved, At, Leave, ReleaseReview, Decided,
     AfterReleaseReview
<1>4. (NothingLeavesUnapproved /\ PublishedAsReviewed /\ PublishedIsThere)'
  BY DEF IInv, NothingYet, NothingLeavesUnapproved, PublishedAsReviewed,
     PublishedIsThere, diskVars, remoteVars, At, ReleaseReview
<1>. QED
  BY <1>1, <1>2, <1>3, <1>4 DEF IInv

\* Without a design artifact generate touches nothing.
LEMMA GenerateNotReadyInv ==
  ASSUME IInv, GenerateNotReady
  PROVE  IInv'
<1>1. TypeOK'
  BY DEF IInv, TypeOK, Nodes, Decisions, diskVars, remoteVars, boundVars, Leave,
     Failure, GenerateNotReady
<1>2. (NothingYet /\ InvocationsPaidFor /\ Placed /\ ShownIsThere)'
  BY DEF IInv, NothingYet, InvocationsPaidFor, Placed, ShownIsThere, Reuses, Early,
     Late, diskVars, boundVars, Leave, Failure, GenerateNotReady
<1>3. (next = "publish" => Approved /\ ~published)'
  BY DEF IInv, Leave, Failure, GenerateNotReady
<1>4. (NothingLeavesUnapproved /\ PublishedAsReviewed /\ PublishedIsThere)'
  BY DEF IInv, NothingLeavesUnapproved, PublishedAsReviewed, PublishedIsThere,
     Approved, diskVars, remoteVars, boundVars, GenerateNotReady
<1>. QED
  BY <1>1, <1>2, <1>3, <1>4 DEF IInv

\* A refused clone leaves the disk without anything decided about it.
LEMMA GenerateCannotCloneInv ==
  ASSUME IInv, GenerateCannotClone
  PROVE  IInv'
<1>1. TypeOK'
  BY DEF IInv, TypeOK, Nodes, Outputs, NothingYet, Early, remoteVars, boundVars, At,
     Leave, Failure, GenerateCannotClone
<1>2. (NothingYet /\ InvocationsPaidFor /\ Placed /\ ShownIsThere)'
  BY DEF IInv, NothingYet, InvocationsPaidFor, Placed, ShownIsThere, Reuses, Early,
     Late, boundVars, Leave, Failure, GenerateCannotClone
<1>3. (next = "publish" => Approved /\ ~published)'
  BY DEF IInv, Leave, Failure, GenerateCannotClone
<1>4. (NothingLeavesUnapproved /\ PublishedAsReviewed /\ PublishedIsThere)'
  BY DEF IInv, NothingYet, NothingLeavesUnapproved, PublishedAsReviewed,
     PublishedIsThere, Early, remoteVars, At, GenerateCannotClone
<1>. QED
  BY <1>1, <1>2, <1>3, <1>4 DEF IInv

\* A failed invocation may leave files behind, and ends the run.
LEMMA GenerateFailsInv ==
  ASSUME IInv, GenerateFails
  PROVE  IInv'
<1>1. TypeOK'
  BY InvokeFacts DEF IInv, TypeOK, Nodes, NothingYet, Early, remoteVars, boundVars, At,
     Leave, Failure, GenerateFails, Ensure, Ensured
<1>2. (NothingYet /\ InvocationsPaidFor /\ Placed /\ ShownIsThere)'
  BY InvokeFacts DEF IInv, NothingYet, InvocationsPaidFor, Placed, ShownIsThere,
     Reuses, Early, Late, boundVars, At, Leave, Failure, GenerateFails, Ensure, Ensured
<1>3. (next = "publish" => Approved /\ ~published)'
  BY InvokeFacts DEF IInv, Leave, Failure, GenerateFails
<1>4. (NothingLeavesUnapproved /\ PublishedAsReviewed /\ PublishedIsThere)'
  BY InvokeFacts DEF IInv, NothingYet, NothingLeavesUnapproved, PublishedAsReviewed,
     PublishedIsThere, Early, remoteVars, At, GenerateFails
<1>. QED
  BY <1>1, <1>2, <1>3, <1>4 DEF IInv

\* A successful invocation leads to the release gate, or to the end without a route.
LEMMA GenerateInv ==
  ASSUME IInv, Generate
  PROVE  IInv'
<1>1. TypeOK'
  BY InvokeFacts DEF IInv, TypeOK, Nodes, NothingYet, Early, remoteVars, boundVars, At,
     Leave, Generate, Ensure, Ensured, AfterGenerate
<1>2. (NothingYet /\ InvocationsPaidFor /\ Placed /\ ShownIsThere)'
  BY InvokeFacts DEF IInv, NothingYet, InvocationsPaidFor, Placed, ShownIsThere,
     Reuses, Early, Late, remoteVars, boundVars, At, Leave, Generate, Ensure, Ensured,
     AfterGenerate
<1>3. (next = "publish" => Approved /\ ~published)'
  BY InvokeFacts DEF IInv, Leave, Generate, AfterGenerate
<1>4. (NothingLeavesUnapproved /\ PublishedAsReviewed /\ PublishedIsThere)'
  BY InvokeFacts DEF IInv, NothingYet, NothingLeavesUnapproved, PublishedAsReviewed,
     PublishedIsThere, Early, remoteVars, At, Generate
<1>. QED
  BY <1>1, <1>2, <1>3, <1>4 DEF IInv

\* publish delivers what was approved.
LEMMA PublishInv ==
  ASSUME IInv, Publish
  PROVE  IInv'
<1>0. PICK d \in Deliveries :
          /\ Deliver(d) /\ published' = IsPublished(d)
          /\ At("publish") /\ status' = "completed" /\ Leave("end")
          /\ UNCHANGED <<gates, safeStop, outputRepo, table, mode, artifact, checkout, origin,
                         files, attempts, shown, lost, boundVars>>
  BY DEF Publish
<1>1. TypeOK'
  <2>1. StateTyped'
    BY <1>0, DeliverFacts DEF StateTyped, IInv, TypeOK, Nodes, At, Leave
  <2>2. DiskTyped'
    BY <1>0, DeliverFacts DEF DiskTyped, IInv, TypeOK, At
  <2>3. CountsTyped'
    BY <1>0, DeliverFacts DEF CountsTyped, IInv, TypeOK, boundVars
  <2>. QED
    BY <2>1, <2>2, <2>3 DEF TypeOK, StateTyped, DiskTyped, CountsTyped
<1>2. (NothingYet /\ ShownIsThere)'
  BY <1>0, DeliverFacts DEF IInv, NothingYet, ShownIsThere, Early, Leave
<1>3. (InvocationsPaidFor /\ Placed)'
  BY <1>0, DeliverFacts DEF IInv, InvocationsPaidFor, Placed, Early, Late, boundVars,
     At, Leave
<1>4. (next = "publish" => Approved /\ ~published)'
  BY <1>0, DeliverFacts DEF IInv, Leave
<1>5. NothingLeavesUnapproved'
  BY <1>0, DeliverFacts DEF IInv, NothingLeavesUnapproved, Approved, At
<1>6. PublishedAsReviewed'
  BY <1>0, DeliverFacts DEF IInv, Placed, ShownIsThere, PublishedAsReviewed, Late,
     boundVars, At
<1>7. PublishedIsThere'
  <2>1. CASE IsPublished(d)
    <3>1. /\ remote' = {[repo |-> origin, files |-> Kept(files)]}
          /\ head' = Kept(files) /\ origin' = origin
      BY <1>0, <2>1, DeliverFacts DEF At
    <3>. QED
      BY <3>1 DEF PublishedIsThere
  <2>2. CASE ~IsPublished(d)
    BY <1>0, <2>2 DEF PublishedIsThere
  <2>. QED
    BY <2>1, <2>2
<1>. QED
  BY <1>1, <1>2, <1>3, <1>4, <1>5, <1>6, <1>7 DEF IInv

\* A commit that cannot be made pushes nothing.
LEMMA PublishFailsInv ==
  ASSUME IInv, PublishFails
  PROVE  IInv'
<1>1. TypeOK'
  BY DEF IInv, TypeOK, Nodes, Decisions, diskVars, remoteVars, boundVars, Leave,
     Failure, PublishFails
<1>2. (NothingYet /\ InvocationsPaidFor /\ Placed /\ ShownIsThere)'
  BY DEF IInv, NothingYet, InvocationsPaidFor, Placed, ShownIsThere, Early, Late,
     diskVars, boundVars, At, Leave, Failure, PublishFails
<1>3. (next = "publish" => Approved /\ ~published)'
  BY DEF IInv, Leave, Failure, PublishFails
<1>4. (NothingLeavesUnapproved /\ PublishedAsReviewed /\ PublishedIsThere)'
  BY DEF IInv, NothingLeavesUnapproved, PublishedAsReviewed, PublishedIsThere,
     Approved, remoteVars, boundVars, At, PublishFails
<1>. QED
  BY <1>1, <1>2, <1>3, <1>4 DEF IInv

\* An exception ends the run where it stands.
LEMMA RaiseInv ==
  ASSUME IInv, Raise
  PROVE  IInv'
<1>1. TypeOK'
  BY DEF IInv, TypeOK, NothingYet, Early, stateVars, remoteVars, boundVars, Raise,
     Ensure, Ensured
<1>2. (NothingYet /\ InvocationsPaidFor /\ Placed /\ ShownIsThere)'
  BY DEF IInv, NothingYet, InvocationsPaidFor, Placed, ShownIsThere, Reuses, Late,
     stateVars, remoteVars, boundVars, Raise, Ensure, Ensured
<1>3. (next = "publish" => Approved /\ ~published)'
  BY DEF IInv, Approved, stateVars, Raise
<1>4. (NothingLeavesUnapproved /\ PublishedAsReviewed /\ PublishedIsThere)'
  BY DEF IInv, NothingYet, NothingLeavesUnapproved, PublishedAsReviewed,
     PublishedIsThere, Approved, Early, stateVars, remoteVars, boundVars, Raise
<1>. QED
  BY <1>1, <1>2, <1>3, <1>4 DEF IInv

\* A crash within git clone leaves a partial checkout.
LEMMA CrashInCloneInv ==
  ASSUME IInv, CrashInClone
  PROVE  IInv'
<1>0. /\ At("generate") /\ MayClone /\ Restart
      /\ checkout' = "partial" /\ origin' = table /\ files' = {}
      /\ UNCHANGED <<head, remoteVars, attempts>>
  BY DEF CrashInClone
<1>1. TypeOK'
  BY <1>0, RestartFacts DEF IInv, TypeOK, NothingYet, Early, stateVars, remoteVars, At
<1>2. (NothingYet /\ ShownIsThere)'
  BY <1>0, RestartFacts DEF IInv, NothingYet, ShownIsThere, stateVars, remoteVars, At
<1>3. (InvocationsPaidFor /\ Placed)'
  BY <1>0, RestartFacts DEF IInv, TypeOK, Attempts, InvocationsPaidFor, Placed,
     Late, stateVars, MayClone, At
<1>4. (next = "publish" => Approved /\ ~published)'
  BY <1>0, RestartFacts DEF IInv, At
<1>5. NothingLeavesUnapproved'
  BY <1>0, RestartFacts DEF IInv, NothingLeavesUnapproved, Approved, stateVars,
     remoteVars
<1>6. PublishedAsReviewed'
  BY <1>0, RestartFacts DEF IInv, PublishedAsReviewed, remoteVars
<1>7. PublishedIsThere'
  BY <1>0, RestartFacts DEF IInv, NothingYet, PublishedIsThere, Early, stateVars, At
<1>. QED
  BY <1>1, <1>2, <1>3, <1>4, <1>5, <1>6, <1>7 DEF IInv

\* A crash after the invocation repeats it over the files of the one before.
LEMMA CrashInGenerateInv ==
  ASSUME IInv, CrashInGenerate
  PROVE  IInv'
<1>0. /\ At("generate") /\ Ensure /\ Invoke /\ Restart
      /\ UNCHANGED <<head, remoteVars>>
  BY DEF CrashInGenerate
<1>1. TypeOK'
  <2>1. StateTyped'
    BY <1>0, RestartFacts, InvokeFacts DEF StateTyped, IInv, TypeOK, stateVars
  <2>2. DiskTyped'
    BY <1>0, RestartFacts, InvokeFacts DEF DiskTyped, IInv, TypeOK, NothingYet, Early,
       remoteVars, At, Ensure, Ensured
  <2>3. CountsTyped'
    BY <1>0, RestartFacts, InvokeFacts DEF CountsTyped, IInv, TypeOK, At
  <2>. QED
    BY <2>1, <2>2, <2>3 DEF TypeOK, StateTyped, DiskTyped, CountsTyped
<1>2. (NothingYet /\ ShownIsThere)'
  BY <1>0, RestartFacts, InvokeFacts DEF IInv, NothingYet, ShownIsThere, stateVars,
     remoteVars, At
<1>3. (InvocationsPaidFor /\ Placed)'
  BY <1>0, RestartFacts, InvokeFacts DEF IInv, Attempts, InvocationsPaidFor, Placed,
     Reuses, Late, At, Ensure, Ensured
<1>4. (next = "publish" => Approved /\ ~published)'
  BY <1>0, RestartFacts, InvokeFacts DEF IInv, At
<1>5. NothingLeavesUnapproved'
  BY <1>0, RestartFacts, InvokeFacts DEF IInv, NothingLeavesUnapproved, Approved,
     stateVars, remoteVars
<1>6. PublishedAsReviewed'
  BY <1>0, RestartFacts, InvokeFacts DEF IInv, PublishedAsReviewed, remoteVars
<1>7. PublishedIsThere'
  BY <1>0, RestartFacts, InvokeFacts DEF IInv, NothingYet, PublishedIsThere, Early,
     stateVars, At
<1>. QED
  BY <1>1, <1>2, <1>3, <1>4, <1>5, <1>6, <1>7 DEF IInv

\* A crash within publish may come after the commit and the push.
LEMMA CrashInPublishInv ==
  ASSUME IInv, CrashInPublish
  PROVE  IInv'
<1>0. PICK d \in Deliveries :
          /\ Deliver(d) /\ At("publish") /\ Restart
          /\ UNCHANGED <<checkout, origin, files, attempts>>
  BY DEF CrashInPublish
<1>1. TypeOK'
  BY <1>0, DeliverFacts, RestartFacts DEF IInv, TypeOK, stateVars, At
<1>2. (NothingYet /\ ShownIsThere)'
  BY <1>0, DeliverFacts, RestartFacts DEF IInv, NothingYet, ShownIsThere, Early,
     stateVars, At
<1>3. (InvocationsPaidFor /\ Placed)'
  BY <1>0, DeliverFacts, RestartFacts DEF IInv, TypeOK, Attempts, InvocationsPaidFor,
     Placed, Late, stateVars, At
<1>4. (next = "publish" => Approved /\ ~published)'
  BY <1>0, DeliverFacts, RestartFacts DEF IInv, Approved, stateVars
<1>5. NothingLeavesUnapproved'
  BY <1>0, DeliverFacts, RestartFacts DEF IInv, NothingLeavesUnapproved, Approved,
     stateVars, At
<1>6. PublishedAsReviewed'
  BY <1>0, DeliverFacts, RestartFacts DEF IInv, Placed, ShownIsThere,
     PublishedAsReviewed, Late, At
<1>7. PublishedIsThere'
  BY <1>0, DeliverFacts, RestartFacts DEF IInv, PublishedIsThere, stateVars, At
<1>. QED
  BY <1>1, <1>2, <1>3, <1>4, <1>5, <1>6, <1>7 DEF IInv

\* A crash between two effects costs only the restart.
LEMMA CrashElsewhereInv ==
  ASSUME IInv, CrashElsewhere
  PROVE  IInv'
<1>1. TypeOK'
  BY RestartFacts DEF IInv, TypeOK, stateVars, remoteVars, CrashElsewhere
<1>2. (NothingYet /\ InvocationsPaidFor /\ Placed /\ ShownIsThere)'
  BY RestartFacts DEF IInv, TypeOK, Attempts, NothingYet, InvocationsPaidFor, Placed,
     ShownIsThere, Reuses, stateVars, remoteVars, CrashElsewhere
<1>3. (next = "publish" => Approved /\ ~published)'
  BY RestartFacts DEF IInv, Approved, stateVars, CrashElsewhere
<1>4. (NothingLeavesUnapproved /\ PublishedAsReviewed /\ PublishedIsThere)'
  BY RestartFacts DEF IInv, NothingLeavesUnapproved, PublishedAsReviewed,
     PublishedIsThere, Approved, stateVars, remoteVars, CrashElsewhere
<1>. QED
  BY <1>1, <1>2, <1>3, <1>4 DEF IInv

\* An edit of the routing table while the run is parked moves nothing on disk.
LEMMA RerouteInv ==
  ASSUME IInv, Reroute
  PROVE  IInv'
<1>1. TypeOK'
  BY DEF IInv, TypeOK, stateVars, diskVars, remoteVars, Reroute
<1>2. (NothingYet /\ InvocationsPaidFor /\ Placed /\ ShownIsThere)'
  BY DEF IInv, TypeOK, NothingYet, InvocationsPaidFor, Placed, ShownIsThere, Reuses,
     stateVars, diskVars, remoteVars, Reroute
<1>3. (next = "publish" => Approved /\ ~published)'
  BY DEF IInv, Approved, stateVars, Reroute
<1>4. (NothingLeavesUnapproved /\ PublishedAsReviewed /\ PublishedIsThere)'
  BY DEF IInv, TypeOK, NothingLeavesUnapproved, PublishedAsReviewed, PublishedIsThere,
     Approved, stateVars, diskVars, remoteVars, Reroute
<1>. QED
  BY <1>1, <1>2, <1>3, <1>4 DEF IInv

\* The initial state satisfies the invariant.
LEMMA InitInv == Init => IInv
<1> SUFFICES ASSUME Init PROVE IInv
  OBVIOUS
<1>1. Cardinality({}) = 0
  BY FS_EmptySet
<1>2. TypeOK
  <2>1. StateTyped
    BY DEF Init, StateTyped, Nodes, Decisions, Outputs, DesignGate, ReleaseGate
  <2>2. DiskTyped
    <3>1. Cardinality(remote) <= 1
      BY <1>1 DEF Init
    <3>. QED
      BY <3>1 DEF Init, DiskTyped, Outputs
  <2>3. CountsTyped
    BY DEF Init, CountsTyped, Outputs, Showings
  <2>. QED
    BY <2>1, <2>2, <2>3 DEF TypeOK, StateTyped, DiskTyped, CountsTyped
<1>3. NothingYet /\ InvocationsPaidFor /\ Placed /\ ShownIsThere
  BY DEF Init, NothingYet, InvocationsPaidFor, Placed, ShownIsThere, Reuses, Early, Late,
     DesignGate, ReleaseGate
<1>4. NothingLeavesUnapproved /\ PublishedAsReviewed /\ PublishedIsThere
  BY DEF Init, NothingLeavesUnapproved, PublishedAsReviewed, PublishedIsThere
<1>5. next # "publish"
  BY DEF Init
<1>. QED
  BY <1>2, <1>3, <1>4, <1>5 DEF IInv

\* Every step preserves the invariant.
LEMMA StepInv == IInv /\ [Next]_vars => IInv'
<1> SUFFICES ASSUME IInv, [Next]_vars PROVE IInv'
  OBVIOUS
<1>1. CASE Step
  BY <1>1, AskForDesignInv, AskForReleaseInv, DesignInv, DesignFailsInv, DesignReviewInv, ReleaseReviewInv,
     GenerateNotReadyInv, GenerateCannotCloneInv, GenerateFailsInv, GenerateInv, PublishInv,
     PublishFailsInv DEF Step
<1>2. CASE Raise
  BY <1>2, RaiseInv
<1>3. CASE Crash
  BY <1>3, CrashInCloneInv, CrashInGenerateInv, CrashInPublishInv, CrashElsewhereInv DEF Crash
<1>4. CASE Reroute
  BY <1>4, RerouteInv
<1>5. CASE UNCHANGED vars
  <2>1. TypeOK'
    BY <1>5 DEF IInv, TypeOK, vars, stateVars, diskVars, remoteVars, boundVars
  <2>2. (NothingYet /\ InvocationsPaidFor /\ Placed /\ ShownIsThere)'
    BY <1>5 DEF IInv, NothingYet, InvocationsPaidFor, Placed, ShownIsThere, Reuses, vars,
       stateVars, diskVars, remoteVars, boundVars
  <2>3. (/\ next = "publish" => Approved /\ ~published
         /\ NothingLeavesUnapproved /\ PublishedAsReviewed /\ PublishedIsThere)'
    BY <1>5 DEF IInv, Approved, NothingLeavesUnapproved, PublishedAsReviewed,
       PublishedIsThere, vars, stateVars, diskVars, remoteVars, boundVars
  <2>. QED
    BY <2>1, <2>2, <2>3 DEF IInv
<1>. QED
  BY <1>1, <1>2, <1>3, <1>4, <1>5 DEF Next, Finished

\* The invariant holds in every reachable state.
LEMMA Invariance == Spec => []IInv
BY InitInv, StepInv, PTL DEF Spec

-----------------------------------------------------------------------------
(* The results. *)

\* Every variable keeps its type, the bounds on crashes and edits included.
THEOREM TypeCorrect == Spec => []TypeOK
<1>1. IInv => TypeOK
  BY DEF IInv
<1>. QED
  BY <1>1, Invariance, PTL

\* Nothing is committed or pushed without an approval at merge_release_approval
\* (publish_node, _route_after_release_gate).
THEOREM ReleaseNeedsApproval == Spec => []NothingLeavesUnapproved
<1>1. IInv => NothingLeavesUnapproved
  BY DEF IInv
<1>. QED
  BY <1>1, Invariance, PTL

\* What is on the run's branch is the directory the reviewer was asked about, less what
\* git ignores, where the reviewer was told; it is what the list named if the list was
\* shorter than MaxListed (_generated_file_names, release_review_gate, publish_node).
THEOREM ReviewCoversBranch == Spec => []PublishedAsReviewed
<1>1. IInv => PublishedAsReviewed
  BY DEF IInv
<1>. QED
  BY <1>1, Invariance, PTL

\* A change reported as published is on the remote side (publish_change).
THEOREM ReportedBranchExists == Spec => []PublishedIsThere
<1>1. IInv => PublishedIsThere
  BY DEF IInv
<1>. QED
  BY <1>1, Invariance, PTL

-----------------------------------------------------------------------------
(* Refinement of GovernedChange. *)

\* The graph begins where the abstract change begins.
LEMMA InitRefines == Init => GC!Init
BY DEF Init, GC!Init, Phase, Landed, Verdict, Approved, DesignGate, ReleaseGate

\* Before the release gate the change is in the works, and nothing was said of it.
LEMMA WorkingUntilReview ==
  ASSUME IInv, lost = "no", next \in Early \/ (next = "release_review" /\ ~asked)
  PROVE  Phase = "working" /\ Verdict = "none"
<1>1. gates[ReleaseGate] = "none"
  BY DEF IInv, NothingYet, Early
<1>. QED
  BY <1>1 DEF Phase, Landed, Verdict, Approved, Early

\* A run that is parked at the release gate is under review.
LEMMA ReviewAtTheGate ==
  ASSUME IInv, lost = "no", next = "release_review", asked
  PROVE  Phase = "review" /\ Verdict = "none"
<1>1. gates[ReleaseGate] = "none"
  BY DEF IInv, NothingYet
<1>. QED
  BY <1>1 DEF Phase, Landed, Verdict, Approved

\* A run at publish was approved.
LEMMA ReleasingAtPublish ==
  ASSUME IInv, lost = "no", next = "publish"
  PROVE  Phase = "releasing" /\ Verdict = "approved"
<1>1. Approved
  BY DEF IInv
<1>. QED
  BY <1>1 DEF Phase, Landed, Verdict, Approved

\* A run that is not over is before, at or behind the release gate.
LEMMA OngoingPhases ==
  ASSUME IInv, lost = "no", next # "end"
  PROVE  Phase \in {"working", "review", "releasing"}
<1>1. next \in Early \cup Late /\ asked \in BOOLEAN
  BY DEF IInv, TypeOK, Nodes, Early, Late
<1>. QED
  BY <1>1, WorkingUntilReview, ReviewAtTheGate, ReleasingAtPublish DEF Late

\* Every step is a step of the abstract change or leaves it as it is.
LEMMA StepRefines == IInv /\ [Next]_vars => [GC!Next]_(GC!vars)
<1> SUFFICES ASSUME IInv, [Next]_vars PROVE [GC!Next]_(GC!vars)
  OBVIOUS
<1> DEFINE Stutter == Phase' = Phase /\ Verdict' = Verdict
           GivenUp == Phase' = "ended" /\ Verdict' = Verdict
<1> USE DEF At, Leave, Failure, stateVars, diskVars, remoteVars, boundVars
<1>a. Stutter => [GC!Next]_(GC!vars)
  BY DEF GC!vars
<1>b. lost = "no" /\ next # "end" /\ GivenUp => [GC!Next]_(GC!vars)
  BY OngoingPhases DEF GC!Next, GC!GiveUp
<1>c. ASSUME lost = "no", next # "end", lost' # "no", UNCHANGED gates PROVE GivenUp
  BY <1>c DEF Phase, Landed, Verdict, Approved
<1>d. ASSUME lost = "no", next \in Early \cup {"publish"}, Failure, UNCHANGED <<gates, lost>>
      PROVE  GivenUp
  BY <1>d DEF Phase, Landed, Verdict, Approved
<1>1. CASE Step
  <2>0. ASSUME AskForDesign PROVE [GC!Next]_(GC!vars)
    BY <1>a, <2>0 DEF AskForDesign, AskAtGate, Phase, Landed, Verdict, Approved
  <2>1. ASSUME AskForRelease PROVE [GC!Next]_(GC!vars)
    <3>1. Phase = "working" /\ Verdict = "none"
      BY <2>1, WorkingUntilReview DEF AskForRelease, AskAtGate
    <3>2. Phase' = "review" /\ Verdict' = "none"
      BY <2>1, <3>1 DEF AskForRelease, AskAtGate, Phase, Landed, Verdict, Approved
    <3>. QED
      BY <3>1, <3>2 DEF GC!Next, GC!Submit
  <2>2. ASSUME NEW wrote \in BOOLEAN, Design(wrote) PROVE [GC!Next]_(GC!vars)
    BY <1>a, <2>2 DEF Design, Phase, Landed, Verdict, Approved
  <2>3. ASSUME DesignFails \/ GenerateNotReady \/ GenerateCannotClone \/ GenerateFails
               \/ PublishFails
        PROVE  [GC!Next]_(GC!vars)
    BY <1>b, <1>d, <2>3 DEF DesignFails, GenerateNotReady, GenerateCannotClone,
       GenerateFails, PublishFails, Early
  <2>4. ASSUME NEW s \in Decisions, DesignReview(s) PROVE [GC!Next]_(GC!vars)
    <3>1. /\ Phase = "working" /\ Verdict = "none"
          /\ gates[ReleaseGate] = "none" /\ head' = {}
      BY <2>4, WorkingUntilReview DEF DesignReview, Early, IInv, NothingYet
    <3>2. gates'[ReleaseGate] = "none"
      BY <2>4, <3>1 DEF DesignReview, Decided, IInv, TypeOK, DesignGate, ReleaseGate
    <3>3. Phase' \in {"working", "ended"} /\ Verdict' = "none"
      BY <2>4, <3>1, <3>2 DEF DesignReview, Decided, Phase, Landed, Verdict, Approved
    <3>. QED
      BY <1>a, <1>b, <2>4, <3>1, <3>3 DEF DesignReview
  <2>5. ASSUME NEW s \in Decisions, ReleaseReview(s) PROVE [GC!Next]_(GC!vars)
    <3>1. Phase = "review" /\ Verdict = "none" /\ head' = {}
      BY <2>5, ReviewAtTheGate DEF ReleaseReview, IInv, NothingYet
    <3>2. gates'[ReleaseGate] = s
      BY <2>5 DEF ReleaseReview, Decided, IInv, TypeOK, ReleaseGate
    <3>3. \/ Verdict' = "approved" /\ Phase' = "releasing"
          \/ Verdict' = "refused" /\ Phase' = "ended"
      BY <2>5, <3>1, <3>2 DEF ReleaseReview, Decided, AfterReleaseReview, Phase, Landed,
         Verdict, Approved, Decisions
    <3>. QED
      BY <3>1, <3>3 DEF GC!Next, GC!Answerable, GC!Approve, GC!Refuse
  <2>6. ASSUME Generate PROVE [GC!Next]_(GC!vars)
    <3>1. /\ Phase = "working" /\ Verdict = "none"
          /\ gates[ReleaseGate] = "none" /\ head' = {}
      BY <2>6, WorkingUntilReview DEF Generate, Early, IInv, NothingYet
    <3>2. Phase' \in {"working", "ended"} /\ Verdict' = "none"
      BY <2>6, <3>1 DEF Generate, AfterGenerate, Phase, Landed, Verdict, Approved
    <3>. QED
      BY <1>a, <1>b, <2>6, <3>1, <3>2 DEF Generate
  <2>7. ASSUME Publish PROVE [GC!Next]_(GC!vars)
    <3>1. Phase = "releasing" /\ head' # {}
      BY <2>7, ReleasingAtPublish DEF Publish, Deliver, IInv, Placed, Late
    <3>2. Phase' = "released" /\ Verdict' = Verdict
      BY <2>7, <3>1 DEF Publish, Phase, Landed, Verdict, Approved
    <3>. QED
      BY <3>1, <3>2 DEF GC!Next, GC!Release
  <2>. QED
    BY <1>1, <2>0, <2>1, <2>2, <2>3, <2>4, <2>5, <2>6, <2>7 DEF Step
<1>2. CASE Raise
  BY <1>b, <1>c, <1>2 DEF Raise
<1>3. CASE Crash
  <2>1. lost = "no" /\ next # "end" /\ Restart
    BY <1>3 DEF Crash, CrashInClone, CrashInGenerate, CrashInPublish, CrashElsewhere
  <2>2. UNCHANGED <<next, asked, gates, status>>
    BY <2>1 DEF Restart
  <2>3. CASE lost' = "no"
    BY <1>a, <2>1, <2>2, <2>3 DEF Phase, Landed, Verdict, Approved
  <2>4. CASE lost' # "no"
    BY <1>b, <1>c, <2>1, <2>2, <2>4
  <2>. QED
    BY <2>3, <2>4
<1>4. CASE Reroute
  BY <1>a, <1>4 DEF Reroute, Phase, Landed, Verdict, Approved
<1>5. CASE UNCHANGED vars
  BY <1>a, <1>5 DEF vars, Phase, Landed, Verdict, Approved
<1>. QED
  BY <1>1, <1>2, <1>3, <1>4, <1>5 DEF Next, Finished

\* The graph keeps the safety part of GovernedChange: a run gets through publish only
\* by an approval at its release gate, and a refusal ends it.
THEOREM KeepsGovernedChange == Spec => GC!Init /\ [][GC!Next]_(GC!vars)
BY InitRefines, StepRefines, Invariance, PTL DEF Spec
=============================================================================
