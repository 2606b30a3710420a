---------------------------- MODULE HandoffProofs ----------------------------
(***************************************************************************)
(* Proofs about Handoff, for every set of poll loops and partitions, every *)
(* log, queue size and number of faults: the types, that no message is     *)
(* lost, that queued work is durable and that no row is orphaned.          *)
(***************************************************************************)
EXTENDS Handoff, FiniteSetTheorems, TLAPS

USE HandoffAssumption DEF HandoffAssumption

\* The inductive invariant.
IInv == TypeOK /\ HandoffInv

-----------------------------------------------------------------------------
(* Facts about the helpers. *)

\* A message is a partition and an offset in it.
LEMMA MessageParts ==
  ASSUME NEW m \in Messages
  PROVE  /\ m[1] \in Partitions /\ m[2] \in Offsets
         /\ m = <<m[1], m[2]>>
BY DEF Messages, Offsets

\* Deleting rows by id leaves a subset of the table, every row with another id.
LEMMA WithoutIsSubset ==
  ASSUME NEW rows, NEW ids
  PROVE  /\ Without(rows, ids) \subseteq rows
         /\ \A r \in rows : r.id \notin ids => r \in Without(rows, ids)
BY DEF Without

\* The initial state satisfies the invariant.
LEMMA InitInv == Init => IInv
<1> SUFFICES ASSUME Init PROVE IInv
  OBVIOUS
<1>1. TypeOK
  <2>1. queue \in Seq(Row) /\ Len(queue) <= QueueMax
    BY DEF Init
  <2>2. /\ committed \in [Partitions -> 0..LogLen]
        /\ position \in [Partitions -> 0..LogLen]
        /\ next \in [Partitions -> 0..LogLen]
    BY DEF Init
  <2>3. /\ pc \in [Pollers -> {"poll", "batch", "put", "dead"}]
        /\ part \in [Pollers -> SUBSET Partitions]
        /\ accepted \in [Pollers -> BOOLEAN]
        /\ failures \in [Pollers -> 0..MaxPollFailures]
    BY DEF Init
  <2>4. putting \in [Pollers -> SUBSET Row]
    BY DEF Init
  <2>5. replays \in 0..MaxReplays /\ dbFaults \in 0..MaxDbFaults
    BY DEF Init
  <2>. QED
    BY <2>1, <2>2, <2>3, <2>4, <2>5 DEF Init, TypeOK
<1>2. IsFiniteSet(inbox)
  BY FS_EmptySet DEF Init
<1>3. OneRowOneHolder /\ RowsMatchTheirMessages /\ CoveredUpToNext
  BY DEF Init, OneRowOneHolder, RowsMatchTheirMessages, CoveredUpToNext, Queued
<1>4. \A p \in Pollers : pc[p] # "dead" => failures[p] < MaxPollFailures
  BY DEF Init
<1>5. (handled => busy # {}) /\ (~up => busy = {} /\ \A p \in Pollers : putting[p] = {})
  BY DEF Init
<1>. QED
  BY <1>1, <1>2, <1>3, <1>4, <1>5 DEF IInv, HandoffInv

-----------------------------------------------------------------------------
(* The poll loop's steps. *)

LEMMA PollInv ==
  ASSUME IInv, NEW p \in Pollers, Poll(p)
  PROVE  IInv'
<1> USE DEF Poll, brokerVars, workVars, storeVars, obsVars, faultVars
<1>1. \A tp \in Partitions : position'[tp] >= position[tp] /\ position'[tp] \in 0..LogLen
  BY DEF Fetches, IInv, TypeOK
<1>2. TypeOK'
  BY <1>1 DEF IInv, TypeOK, Fetches, BatchStart, PausedAfterResume
<1>3. OneRowOneHolder'
  BY DEF IInv, HandoffInv, OneRowOneHolder, Queued
<1>4. RowsMatchTheirMessages'
  <2>1. RowsMatchTheirMessages
    BY DEF IInv, HandoffInv
  <2>2. \A q \in Pollers : \A r \in putting[q] : q # p /\ r.msg[1] \in Partitions
    BY <2>1, MessageParts DEF RowsMatchTheirMessages, IInv, TypeOK, Row
  <2>3. \A tp \in Partitions : Owner[tp] # p => next'[tp] = next[tp]
    BY DEF BatchStart, IInv, TypeOK
  <2>4. \A q \in Pollers : q # p => pc'[q] = pc[q]
    BY DEF IInv, TypeOK
  <2>. QED
    BY <2>1, <2>2, <2>3, <2>4 DEF RowsMatchTheirMessages
<1>5. CoveredUpToNext'
  <2> SUFFICES ASSUME NEW tp \in Partitions
               PROVE  /\ committed'[tp] <= next'[tp] /\ committed'[tp] <= position'[tp]
                      /\ pc'[Owner[tp]] = "poll" => position'[tp] <= next'[tp]
                      /\ \A o \in 0..next'[tp] - 1 :
                            <<tp, o>> \in done' \cup deadLetters' \cup InboxMsgs'
    BY DEF CoveredUpToNext
  <2>1. CASE Owner[tp] = p
    <3>1. next'[tp] = position[tp] /\ position[tp] <= next[tp]
      BY <2>1 DEF IInv, HandoffInv, CoveredUpToNext, BatchStart
    <3>2. pc'[p] = "poll" => position' = position
      BY DEF IInv, TypeOK
    <3>3. CoveredUpToNext /\ position[tp] \in Nat /\ next[tp] \in Nat /\ committed[tp] \in Nat
      BY DEF IInv, HandoffInv, TypeOK
    <3>4. \A o \in 0..next'[tp] - 1 : o \in 0..next[tp] - 1
      BY <3>1, <3>3
    <3>5. \A o \in 0..next'[tp] - 1 : <<tp, o>> \in done \cup deadLetters \cup InboxMsgs
      BY <3>3, <3>4 DEF CoveredUpToNext
    <3>6. committed[tp] <= position[tp] /\ committed'[tp] <= next'[tp]
      BY <3>1, <3>3 DEF CoveredUpToNext
    <3>7. committed'[tp] <= position'[tp]
      BY <1>1, <3>3, <3>6
    <3>8. pc'[Owner[tp]] = "poll" => position'[tp] <= next'[tp]
      BY <2>1, <3>1, <3>2, <3>3
    <3>9. done' \cup deadLetters' \cup InboxMsgs' = done \cup deadLetters \cup InboxMsgs
      BY DEF InboxMsgs
    <3>. QED
      BY <3>5, <3>6, <3>7, <3>8, <3>9
  <2>2. CASE Owner[tp] # p
    <3>1. next'[tp] = next[tp] /\ position'[tp] = position[tp] /\ pc'[Owner[tp]] = pc[Owner[tp]]
      BY <2>2 DEF BatchStart, Fetches, PartitionsOf, IInv, TypeOK
    <3>. QED
      BY <3>1 DEF IInv, HandoffInv, CoveredUpToNext, InboxMsgs
  <2>. QED
    BY <2>1, <2>2
<1>6. \A q \in Pollers : pc'[q] # "dead" => failures'[q] < MaxPollFailures
  BY DEF IInv, HandoffInv, TypeOK
<1>. QED
  BY <1>2, <1>3, <1>4, <1>5, <1>6 DEF IInv, HandoffInv

LEMMA PollFailsInv ==
  ASSUME IInv, NEW p \in Pollers, PollFails(p)
  PROVE  IInv'
<1> USE DEF PollFails, brokerVars, workVars, storeVars, obsVars
<1>1. TypeOK'
  <2>1. failures' \in [Pollers -> 0..MaxPollFailures]
    BY DEF IInv, HandoffInv, TypeOK
  <2>2. /\ pc' \in [Pollers -> {"poll", "batch", "put", "dead"}]
    BY DEF IInv, TypeOK
  <2>3. replays' \in 0..MaxReplays
    BY DEF IInv, TypeOK
  <2>. QED
    BY <2>1, <2>2, <2>3 DEF IInv, TypeOK, PausedAfterResume
<1>2. OneRowOneHolder'
  BY DEF IInv, HandoffInv, OneRowOneHolder, Queued
<1>3. RowsMatchTheirMessages'
  BY SMTT(30) DEF IInv, HandoffInv, RowsMatchTheirMessages, TypeOK
<1>4. CoveredUpToNext'
  BY DEF IInv, HandoffInv, CoveredUpToNext, TypeOK, InboxMsgs
<1>5. \A q \in Pollers : pc'[q] # "dead" => failures'[q] < MaxPollFailures
  BY DEF IInv, HandoffInv, TypeOK
<1>. QED
  BY <1>1, <1>2, <1>3, <1>4, <1>5 DEF IInv, HandoffInv

LEMMA RebalanceInv ==
  ASSUME IInv, NEW p \in Pollers, Rebalance(p)
  PROVE  IInv'
<1> USE DEF Rebalance, brokerVars, workVars, storeVars, obsVars
<1>1. TypeOK'
  BY DEF IInv, HandoffInv, TypeOK
<1>2. OneRowOneHolder'
  BY DEF IInv, HandoffInv, OneRowOneHolder, Queued
<1>3. RowsMatchTheirMessages'
  BY DEF IInv, HandoffInv, RowsMatchTheirMessages
<1>4. CoveredUpToNext'
  <2> SUFFICES ASSUME NEW tp \in Partitions
               PROVE  /\ committed[tp] <= next[tp] /\ committed[tp] <= position'[tp]
                      /\ pc[Owner[tp]] = "poll" => position'[tp] <= next[tp]
                      /\ \A o \in 0..next[tp] - 1 :
                            <<tp, o>> \in done \cup deadLetters \cup InboxMsgs
    BY DEF CoveredUpToNext, InboxMsgs
  <2>1. committed[tp] \in Nat /\ position'[tp] \in {committed[tp], position[tp]}
    BY DEF IInv, TypeOK
  <2>2. CoveredUpToNext
    BY DEF IInv, HandoffInv
  <2>. QED
    BY <2>1, <2>2 DEF CoveredUpToNext
<1>5. IsFiniteSet(inbox)' /\ \A q \in Pollers : pc'[q] # "dead" => failures'[q] < MaxPollFailures
  BY DEF IInv, HandoffInv
<1>. QED
  BY <1>1, <1>2, <1>3, <1>4, <1>5 DEF IInv, HandoffInv

\* What is left of CoveredUpToNext to show for a step that moves no commit and
\* only adds to what is handled, dead-lettered or recorded.
LEMMA CoverFrame ==
  ASSUME IInv, committed' = committed,
         done \subseteq done', deadLetters \subseteq deadLetters',
         InboxMsgs \subseteq InboxMsgs',
         NEW tp \in Partitions, next'[tp] = next[tp], position'[tp] = position[tp],
         pc'[Owner[tp]] = "poll" => pc[Owner[tp]] = "poll" \/ position[tp] = next[tp]
  PROVE  /\ committed'[tp] <= next'[tp] /\ committed'[tp] <= position'[tp]
         /\ pc'[Owner[tp]] = "poll" => position'[tp] <= next'[tp]
         /\ \A o \in 0..next'[tp] - 1 :
               <<tp, o>> \in done' \cup deadLetters' \cup InboxMsgs'
<1>1. next[tp] \in Nat
  BY DEF IInv, TypeOK
<1>. QED
  BY <1>1 DEF IInv, HandoffInv, CoveredUpToNext

LEMMA DeadLetterInv ==
  ASSUME IInv, NEW p \in Pollers, NEW tp \in Partitions, DeadLetter(p, tp)
  PROVE  IInv'
<1> USE DEF DeadLetter, Reading, Remaining, Advance, Current, brokerVars, workVars, storeVars,
            faultVars
<1>0. /\ Owner[tp] = p /\ pc[p] = "batch" /\ next[tp] \in Nat /\ next[tp] < position[tp]
      /\ position[tp] \in 0..LogLen /\ committed[tp] <= next[tp]
      /\ next'[tp] = next[tp] + 1
      /\ \A q \in Partitions \ {tp} : next'[q] = next[q]
  BY DEF IInv, TypeOK, HandoffInv, CoveredUpToNext
<1>1. TypeOK'
  <2>1. next' \in [Partitions -> 0..LogLen]
    BY <1>0 DEF IInv, TypeOK
  <2>. QED
    BY <2>1 DEF IInv, TypeOK
<1>2. OneRowOneHolder'
  BY DEF IInv, HandoffInv, OneRowOneHolder, Queued
<1>3. RowsMatchTheirMessages'
  <2> SUFFICES ASSUME NEW q \in Pollers, NEW r \in putting[q]
               PROVE  /\ pc[q] = "put" /\ part'[q] = {r.msg[1]}
                      /\ Owner[r.msg[1]] = q /\ r.msg[2] = next'[r.msg[1]]
    BY DEF RowsMatchTheirMessages, IInv, HandoffInv
  <2>1. /\ pc[q] = "put" /\ part[q] = {r.msg[1]} /\ r.msg[1] \in Partitions
        /\ Owner[r.msg[1]] = q /\ r.msg[2] = next[r.msg[1]]
    BY MessageParts, SMTT(30) DEF IInv, HandoffInv, TypeOK, Row, RowsMatchTheirMessages
  <2>. QED
    BY <2>1, <1>0 DEF IInv, TypeOK
<1>4. CoveredUpToNext'
  <2>1. InboxMsgs \subseteq InboxMsgs' /\ Current(tp) \in deadLetters'
    BY DEF InboxMsgs
  <2>2. ASSUME NEW q \in Partitions \ {tp}
        PROVE  /\ committed'[q] <= next'[q] /\ committed'[q] <= position'[q]
               /\ pc'[Owner[q]] = "poll" => position'[q] <= next'[q]
               /\ \A o \in 0..next'[q] - 1 :
                     <<q, o>> \in done' \cup deadLetters' \cup InboxMsgs'
    BY <1>0, <2>1, CoverFrame
  <2>3. \A o \in 0..next'[tp] - 1 : o \in 0..next[tp] - 1 \/ o = next[tp]
    BY <1>0
  <2>4. \A o \in 0..next[tp] - 1 : <<tp, o>> \in done \cup deadLetters \cup InboxMsgs
    BY DEF IInv, HandoffInv, CoveredUpToNext
  <2>5. \A o \in 0..next'[tp] - 1 : <<tp, o>> \in done' \cup deadLetters' \cup InboxMsgs'
    BY <2>1, <2>3, <2>4
  <2>6. committed'[tp] <= next'[tp] /\ committed'[tp] <= position'[tp]
    BY <1>0 DEF IInv, HandoffInv, CoveredUpToNext, TypeOK
  <2>. QED
    BY <1>0, <2>2, <2>5, <2>6 DEF CoveredUpToNext
<1>5. IsFiniteSet(inbox)' /\ \A q \in Pollers : pc'[q] # "dead" => failures'[q] < MaxPollFailures
  BY DEF IInv, HandoffInv
<1>. QED
  BY <1>1, <1>2, <1>3, <1>4, <1>5 DEF IInv, HandoffInv

LEMMA RecordInv ==
  ASSUME IInv, NEW p \in Pollers, NEW tp \in Partitions, Record(p, tp)
  PROVE  IInv'
<1> USE DEF Record, Reading, Remaining, Current, brokerVars, workVars, obsVars, faultVars
<1>1. PICK id \in Ids :
        /\ \A r \in inbox : r.id < id
        /\ inbox' = inbox \cup {[id |-> id, msg |-> Current(tp)]}
        /\ putting' = [putting EXCEPT ![p] = {[id |-> id, msg |-> Current(tp)]}]
  BY DEF NewIds
<1> DEFINE new == [id |-> id, msg |-> Current(tp)]
<1>2. next[tp] \in Offsets /\ Owner[tp] = p /\ pc[p] = "batch"
  BY DEF IInv, TypeOK, Offsets
<1>3. new \in Row /\ new \notin inbox /\ new.msg = <<tp, next[tp]>>
  BY <1>1, <1>2 DEF Row, Messages, IInv, TypeOK
<1>4. putting[p] = {}
  BY <1>2 DEF IInv, HandoffInv, RowsMatchTheirMessages
<1>5. TypeOK'
  <2>1. inbox \subseteq Row /\ putting \in [Pollers -> SUBSET Row]
    BY DEF IInv, TypeOK
  <2>2. inbox' \subseteq Row
    BY <1>1, <1>3, <2>1
  <2>3. putting' \in [Pollers -> SUBSET Row]
    BY <1>1, <1>3, <2>1
  <2>. QED
    BY <2>2, <2>3, SMTT(30) DEF IInv, TypeOK
<1>6. OneRowOneHolder'
  <2>1. \A r, s \in inbox' : r.id = s.id => r = s
    <3>1. \A r, s \in inbox : r.id = s.id => r = s
      BY DEF IInv, HandoffInv, OneRowOneHolder
    <3>2. ASSUME NEW r \in inbox PROVE r.id # new.id
      <4>1. r.id \in Nat /\ id \in Nat /\ r.id < id
        BY <1>1 DEF IInv, TypeOK, Row
      <4>. QED
        BY <4>1
    <3>. QED
      BY <3>1, <3>2, <1>1
  <2>2. /\ Queued \cup busy \subseteq inbox
        /\ \A i, j \in DOMAIN queue : queue[i] = queue[j] => i = j
        /\ Queued \cap busy = {}
        /\ \A q \in Pollers : /\ putting[q] \subseteq inbox \ (Queued \cup busy)
                              /\ \A s \in Pollers \ {q} : putting[q] \cap putting[s] = {}
    BY DEF IInv, HandoffInv, OneRowOneHolder
  <2>3. /\ Queued' = Queued /\ busy' = busy /\ queue' = queue
        /\ putting'[p] = {new} /\ \A q \in Pollers \ {p} : putting'[q] = putting[q]
    BY <1>1 DEF Queued, IInv, TypeOK
  <2>4. \A q \in Pollers : putting'[q] \subseteq inbox' \ (Queued' \cup busy')
    BY <1>1, <1>3, <2>2, <2>3
  <2>5. \A q \in Pollers : \A s \in Pollers \ {q} : putting'[q] \cap putting'[s] = {}
    BY <1>3, <2>2, <2>3
  <2>. QED
    BY <1>1, <2>1, <2>2, <2>3, <2>4, <2>5 DEF OneRowOneHolder
<1>7. RowsMatchTheirMessages'
  <2>1. ASSUME NEW q \in Pollers, NEW r \in putting'[q]
        PROVE  /\ pc'[q] = "put" /\ part'[q] = {r.msg[1]}
               /\ Owner[r.msg[1]] = q /\ r.msg[2] = next'[r.msg[1]]
    <3>1. CASE q = p
      BY <1>1, <1>2, <3>1 DEF IInv, TypeOK
    <3>2. CASE q # p
      BY <1>1, <3>2 DEF IInv, TypeOK, HandoffInv, RowsMatchTheirMessages
    <3>. QED
      BY <3>1, <3>2
  <2>. QED
    BY <2>1 DEF IInv, HandoffInv, RowsMatchTheirMessages
<1>8. CoveredUpToNext'
  <2>1. InboxMsgs \subseteq InboxMsgs'
    BY <1>1 DEF InboxMsgs
  <2>2. \A q \in Partitions : pc'[Owner[q]] = "poll" => pc[Owner[q]] = "poll"
    BY DEF IInv, TypeOK
  <2>. QED
    BY <2>1, <2>2, CoverFrame DEF CoveredUpToNext
<1>9. IsFiniteSet(inbox')
  BY <1>1, FS_AddElement DEF IInv, HandoffInv
<1>10. \A q \in Pollers : pc'[q] # "dead" => failures'[q] < MaxPollFailures
  BY <1>2 DEF IInv, HandoffInv, TypeOK
<1>. QED
  BY <1>5, <1>6, <1>7, <1>8, <1>9, <1>10 DEF IInv, HandoffInv

\* A refusal: the rewound partition is still covered, and commits nothing.
LEMMA RejectCovered ==
  ASSUME IInv, NEW p \in Pollers, NEW tp \in Partitions, Owner[tp] = p, Reject(p, tp),
         next' = next, committed' = committed,
         \A q \in Pollers : pc'[q] = "poll" => pc[q] = "poll",
         \A q \in Partitions : \A o \in 0..next[q] - 1 :
            <<q, o>> \in done' \cup deadLetters' \cup InboxMsgs'
  PROVE  CoveredUpToNext'
<1>1. ASSUME NEW q \in Partitions
      PROVE  /\ committed[q] <= next[q] /\ committed[q] <= position'[q]
             /\ pc'[Owner[q]] = "poll" => position'[q] <= next[q]
  <2>1. next[q] \in Nat /\ position'[q] \in {next[q], position[q]}
    BY DEF Reject, IInv, TypeOK
  <2>2. /\ committed[q] <= next[q] /\ committed[q] <= position[q]
        /\ pc[Owner[q]] = "poll" => position[q] <= next[q]
    BY DEF IInv, HandoffInv, CoveredUpToNext
  <2>. QED
    BY <2>1, <2>2
<1>. QED
  BY <1>1 DEF CoveredUpToNext

\* A DELETE removes no row but those given; it may fail.
LEMMA DiscardRows ==
  ASSUME IInv, NEW rows \in SUBSET inbox, Discard(rows)
  PROVE  /\ inbox' \subseteq inbox /\ IsFiniteSet(inbox')
         /\ inbox \ rows \subseteq inbox'
         /\ leaked' \subseteq Ids /\ dbFaults' \in 0..MaxDbFaults
<1> DEFINE ids == {r.id : r \in rows}
<1>0. inbox \subseteq Row /\ leaked \subseteq Ids /\ dbFaults \in 0..MaxDbFaults /\ IsFiniteSet(inbox)
  BY DEF IInv, TypeOK, HandoffInv
<1>1. ids \subseteq Ids
  BY <1>0 DEF Row
<1>2. \A r \in inbox \ rows : r.id \notin ids
  BY DEF IInv, HandoffInv, OneRowOneHolder
<1>3. CASE inbox' = Without(inbox, ids) /\ UNCHANGED <<leaked, dbFaults>>
  <2>1. inbox' \subseteq inbox /\ inbox \ rows \subseteq inbox'
    BY <1>2, <1>3, WithoutIsSubset
  <2>. QED
    BY <1>0, <1>3, <2>1, FS_Subset
<1>4. CASE dbFaults < MaxDbFaults /\ dbFaults' = dbFaults + 1 /\ leaked' = leaked \cup ids
           /\ UNCHANGED inbox
  <2>1. inbox' = inbox
    BY <1>4
  <2>2. leaked' \subseteq Ids
    BY <1>0, <1>1, <1>4
  <2>3. dbFaults' \in 0..MaxDbFaults
    BY <1>0, <1>4
  <2>. QED
    BY <1>0, <2>1, <2>2, <2>3
<1>. QED
  BY <1>3, <1>4 DEF Discard

LEMMA RecordFailsInv ==
  ASSUME IInv, NEW p \in Pollers, NEW tp \in Partitions, RecordFails(p, tp)
  PROVE  IInv'
<1> USE DEF RecordFails, Reading, brokerVars, workVars, storeVars, obsVars
<1>1. Owner[tp] = p /\ pc[p] = "batch"
  OBVIOUS
<1>2. TypeOK'
  <2>1. position' \in [Partitions -> 0..LogLen]
    BY DEF Reject, IInv, TypeOK
  <2>2. /\ paused' \subseteq Partitions
        /\ part' \in [Pollers -> SUBSET Partitions]
    BY DEF Reject, IInv, TypeOK
  <2>3. accepted' \in [Pollers -> BOOLEAN]
    BY DEF Reject, IInv, TypeOK
  <2>4. dbFaults' \in 0..MaxDbFaults
    BY DEF IInv, TypeOK
  <2>. QED
    BY <2>1, <2>2, <2>3, <2>4 DEF IInv, TypeOK
<1>3. OneRowOneHolder'
  BY DEF IInv, HandoffInv, OneRowOneHolder, Queued
<1>4. RowsMatchTheirMessages'
  BY <1>1, SMTT(30) DEF Reject, IInv, HandoffInv, TypeOK, RowsMatchTheirMessages
<1>5. CoveredUpToNext'
  <2>1. \A q \in Partitions : \A o \in 0..next[q] - 1 :
           <<q, o>> \in done' \cup deadLetters' \cup InboxMsgs'
    BY DEF IInv, HandoffInv, CoveredUpToNext, InboxMsgs
  <2>. QED
    BY <1>1, <2>1, RejectCovered
<1>6. IsFiniteSet(inbox)' /\ \A q \in Pollers : pc'[q] # "dead" => failures'[q] < MaxPollFailures
  BY DEF IInv, HandoffInv
<1>. QED
  BY <1>2, <1>3, <1>4, <1>5, <1>6 DEF IInv, HandoffInv

LEMMA PutInv ==
  ASSUME IInv, NEW p \in Pollers, NEW tp \in Partitions, Put(p, tp)
  PROVE  IInv'
<1> USE DEF Put, Advance, brokerVars, storeVars, obsVars, faultVars
<1>1. PICK r \in putting[p] : queue' = Append(queue, r)
  OBVIOUS
<1>2. /\ r \in Row /\ r \in inbox \ (Queued \cup busy)
      /\ queue \in Seq(Row) /\ Len(queue) < QueueMax
  BY DEF IInv, TypeOK, HandoffInv, OneRowOneHolder
<1>3. Owner[tp] = p /\ r.msg = <<tp, next[tp]>> /\ next[tp] \in Offsets
  <2>1. r.msg \in Messages /\ part[p] = {r.msg[1]} /\ Owner[r.msg[1]] = p
        /\ r.msg[2] = next[r.msg[1]] /\ part[p] = {tp}
    BY <1>2 DEF IInv, HandoffInv, RowsMatchTheirMessages, Row
  <2>. QED
    BY <2>1, MessageParts
<1>4. /\ next' = [next EXCEPT ![tp] = @ + 1] /\ next'[tp] = next[tp] + 1
      /\ next[tp] \in Nat /\ next[tp] + 1 \in 0..LogLen
      /\ \A q \in Partitions \ {tp} : next'[q] = next[q]
  BY <1>3 DEF Offsets, IInv, TypeOK
<1>5. /\ queue' \in Seq(Row) /\ Len(queue') = Len(queue) + 1
      /\ DOMAIN queue' = 1..Len(queue) + 1
      /\ \A i \in DOMAIN queue : queue'[i] = queue[i]
      /\ queue'[Len(queue) + 1] = r
  BY <1>1, <1>2
<1>6. Queued' = Queued \cup {r}
  <2>1. DOMAIN queue = 1..Len(queue) /\ Len(queue) \in Nat
    BY <1>2
  <2>2. DOMAIN queue' = DOMAIN queue \cup {Len(queue) + 1}
    BY <1>5, <2>1
  <2>. QED
    BY <1>5, <2>1, <2>2 DEF Queued
<1>7. TypeOK'
  <2>1. next' \in [Partitions -> 0..LogLen]
    BY <1>4 DEF IInv, TypeOK
  <2>2. Len(queue') <= QueueMax
    BY <1>2, <1>5
  <2>3. part' \in [Pollers -> SUBSET Partitions]
    BY DEF IInv, TypeOK
  <2>. QED
    BY <1>5, <2>1, <2>2, <2>3 DEF IInv, TypeOK
<1>8. OneRowOneHolder'
  <2>0. OneRowOneHolder
    BY DEF IInv, HandoffInv
  <2>1. /\ \A x, y \in inbox' : x.id = y.id => x = y
        /\ (Queued \cup busy)' \subseteq inbox'
        /\ (Queued \cap busy)' = {}
    BY <1>2, <1>6, <2>0 DEF OneRowOneHolder
  <2>2. \A i, j \in DOMAIN queue' : queue'[i] = queue'[j] => i = j
    <3>1. \A i \in DOMAIN queue : queue[i] # r
      BY <1>2 DEF Queued
    <3>2. DOMAIN queue' = DOMAIN queue \cup {Len(queue) + 1}
      BY <1>2, <1>5
    <3>. QED
      BY <1>5, <2>0, <3>1, <3>2 DEF OneRowOneHolder
  <2>3. /\ putting'[p] = {} /\ \A q \in Pollers \ {p} : putting'[q] = putting[q]
    BY DEF IInv, TypeOK
  <2>4. \A q \in Pollers \ {p} : r \notin putting[q]
    BY <1>1, <2>0 DEF OneRowOneHolder
  <2>5. \A q \in Pollers : /\ putting'[q] \subseteq inbox' \ (Queued' \cup busy')
                          /\ \A x \in Pollers \ {q} : putting'[q] \cap putting'[x] = {}
    BY <1>6, <2>0, <2>3, <2>4 DEF OneRowOneHolder
  <2>. QED
    BY <2>1, <2>2, <2>5 DEF OneRowOneHolder
<1>9. RowsMatchTheirMessages'
  <2>1. ASSUME NEW q \in Pollers, NEW x \in putting'[q]
        PROVE  /\ pc'[q] = "put" /\ part'[q] = {x.msg[1]}
               /\ Owner[x.msg[1]] = q /\ x.msg[2] = next'[x.msg[1]]
    <3>1. q # p /\ x \in putting[q]
      BY DEF IInv, TypeOK
    <3>2. /\ pc[q] = "put" /\ part[q] = {x.msg[1]} /\ x.msg[1] \in Partitions
          /\ Owner[x.msg[1]] = q /\ x.msg[2] = next[x.msg[1]]
      BY <3>1, MessageParts, SMTT(30) DEF IInv, HandoffInv, TypeOK, Row, RowsMatchTheirMessages
    <3>. QED
      BY <1>3, <1>4, <3>1, <3>2 DEF IInv, TypeOK
  <2>. QED
    BY <2>1 DEF IInv, HandoffInv, RowsMatchTheirMessages
<1>10. CoveredUpToNext'
  <2>1. InboxMsgs' = InboxMsgs /\ <<tp, next[tp]>> \in InboxMsgs
    BY <1>2, <1>3 DEF InboxMsgs
  <2>2. ASSUME NEW q \in Partitions \ {tp}
        PROVE  /\ committed'[q] <= next'[q] /\ committed'[q] <= position'[q]
               /\ pc'[Owner[q]] = "poll" => position'[q] <= next'[q]
               /\ \A o \in 0..next'[q] - 1 :
                     <<q, o>> \in done' \cup deadLetters' \cup InboxMsgs'
    <3>1. pc'[Owner[q]] = "poll" => pc[Owner[q]] = "poll"
      BY DEF IInv, TypeOK
    <3>. QED
      BY <1>4, <2>1, <3>1, CoverFrame
  <2>3. \A o \in 0..next'[tp] - 1 : o \in 0..next[tp] - 1 \/ o = next[tp]
    BY <1>4
  <2>4. \A o \in 0..next[tp] - 1 : <<tp, o>> \in done \cup deadLetters \cup InboxMsgs
    BY DEF IInv, HandoffInv, CoveredUpToNext
  <2>5. \A o \in 0..next'[tp] - 1 : <<tp, o>> \in done' \cup deadLetters' \cup InboxMsgs'
    BY <2>1, <2>3, <2>4
  <2>6. committed'[tp] <= next'[tp] /\ committed'[tp] <= position'[tp]
    BY <1>4 DEF IInv, HandoffInv, CoveredUpToNext, TypeOK
  <2>7. pc'[Owner[tp]] # "poll"
    BY <1>3 DEF IInv, TypeOK
  <2>. QED
    BY <2>2, <2>5, <2>6, <2>7 DEF CoveredUpToNext
<1>11. IsFiniteSet(inbox)' /\ \A q \in Pollers : pc'[q] # "dead" => failures'[q] < MaxPollFailures
  BY DEF IInv, HandoffInv, TypeOK
<1>. QED
  BY <1>7, <1>8, <1>9, <1>10, <1>11 DEF IInv, HandoffInv

LEMMA PutFullInv ==
  ASSUME IInv, NEW p \in Pollers, NEW tp \in Partitions, PutFull(p, tp)
  PROVE  IInv'
<1> USE DEF PutFull, brokerVars, workVars
<1>0. OneRowOneHolder /\ RowsMatchTheirMessages /\ CoveredUpToNext
  BY DEF IInv, HandoffInv
<1>1. putting[p] \in SUBSET inbox
  BY <1>0 DEF OneRowOneHolder
<1>2. /\ inbox' \subseteq inbox /\ IsFiniteSet(inbox')
      /\ inbox \ putting[p] \subseteq inbox'
      /\ leaked' \subseteq Ids /\ dbFaults' \in 0..MaxDbFaults
  BY <1>1, DiscardRows
<1>3. \A r \in putting[p] : r.msg = <<tp, next[tp]>> /\ Owner[tp] = p
  <2> SUFFICES ASSUME NEW r \in putting[p]
               PROVE  r.msg = <<tp, next[tp]>> /\ Owner[tp] = p
    OBVIOUS
  <2>1. r.msg \in Messages /\ part[p] = {r.msg[1]} /\ Owner[r.msg[1]] = p
        /\ r.msg[2] = next[r.msg[1]] /\ part[p] = {tp}
    <3>1. r \in Row
      BY DEF IInv, TypeOK
    <3>2. r.msg \in Messages
      BY <3>1 DEF Row
    <3>3. part[p] = {tp}
      OBVIOUS
    <3>. QED
      BY <1>0, <3>2, <3>3 DEF RowsMatchTheirMessages
  <2>. QED
    BY <2>1, MessageParts
<1>4. TypeOK'
  <2>1. position' \in [Partitions -> 0..LogLen]
    BY DEF Reject, IInv, TypeOK
  <2>2. /\ paused' \subseteq Partitions
        /\ part' \in [Pollers -> SUBSET Partitions]
        /\ accepted' \in [Pollers -> BOOLEAN]
    BY DEF Reject, IInv, TypeOK
  <2>. QED
    BY <1>2, <2>1, <2>2 DEF IInv, TypeOK
<1>5. OneRowOneHolder'
  <2>1. Queued' = Queued /\ busy' = busy /\ queue' = queue
    BY DEF Queued
  <2>2. /\ putting'[p] = {} /\ \A q \in Pollers \ {p} : putting'[q] = putting[q]
    BY DEF IInv, TypeOK
  <2>3. Queued \cup busy \subseteq inbox'
    BY <1>0, <1>2 DEF OneRowOneHolder
  <2>4. \A q \in Pollers : putting'[q] \subseteq inbox' \ (Queued \cup busy)
    BY <1>0, <1>2, <2>2 DEF OneRowOneHolder
  <2>5. \A q \in Pollers : \A x \in Pollers \ {q} : putting'[q] \cap putting'[x] = {}
    BY <1>0, <2>2 DEF OneRowOneHolder
  <2>. QED
    BY <1>0, <1>2, <2>1, <2>3, <2>4, <2>5 DEF OneRowOneHolder
<1>6. RowsMatchTheirMessages'
  <2>1. ASSUME NEW q \in Pollers, NEW x \in putting'[q]
        PROVE  /\ pc'[q] = "put" /\ part'[q] = {x.msg[1]}
               /\ Owner[x.msg[1]] = q /\ x.msg[2] = next'[x.msg[1]]
    <3>1. q # p /\ x \in putting[q]
      BY DEF IInv, TypeOK
    <3>. QED
      BY <1>0, <3>1 DEF Reject, IInv, TypeOK, RowsMatchTheirMessages
  <2>. QED
    BY <1>0, <2>1 DEF RowsMatchTheirMessages
<1>7. CoveredUpToNext'
  <2>1. ASSUME NEW q \in Partitions, NEW o \in 0..next[q] - 1
        PROVE  <<q, o>> \in done' \cup deadLetters' \cup InboxMsgs'
    <3>1. <<q, o>> \in done \cup deadLetters \cup InboxMsgs
      BY <1>0 DEF CoveredUpToNext
    <3>2. ASSUME NEW r \in inbox, r.msg = <<q, o>> PROVE r \in inbox'
      <4>1. next[q] \in Nat /\ o # next[q]
        BY DEF IInv, TypeOK
      <4>. QED
        BY <1>2, <1>3, <3>2, <4>1
    <3>. QED
      BY <3>1, <3>2 DEF InboxMsgs
  <2>2. Owner[tp] = p \/ putting[p] = {}
    BY <1>3
  <2>3. \A q \in Pollers : pc'[q] = "poll" => pc[q] = "poll"
    BY DEF IInv, TypeOK
  <2>4. Reject(p, tp) /\ next' = next /\ committed' = committed
    OBVIOUS
  <2>5. ASSUME NEW q \in Partitions
        PROVE  /\ committed[q] <= next[q] /\ committed[q] <= position'[q]
               /\ pc'[Owner[q]] = "poll" => position'[q] <= next[q]
    <3>1. next[q] \in Nat /\ position'[q] \in {next[q], position[q]}
      BY <2>4 DEF Reject, IInv, TypeOK
    <3>. QED
      BY <1>0, <2>3, <3>1 DEF CoveredUpToNext
  <2>. QED
    BY <2>1, <2>4, <2>5 DEF CoveredUpToNext
<1>8. \A q \in Pollers : pc'[q] # "dead" => failures'[q] < MaxPollFailures
  BY DEF IInv, HandoffInv, TypeOK
<1>. QED
  BY <1>2, <1>4, <1>5, <1>6, <1>7, <1>8 DEF IInv, HandoffInv

LEMMA CommitInv ==
  ASSUME IInv, NEW p \in Pollers, Commit(p)
  PROVE  IInv'
<1> USE DEF Commit, BatchDone, workVars, storeVars, obsVars, faultVars
<1>1. TypeOK'
  BY DEF IInv, TypeOK
<1>2. OneRowOneHolder'
  BY DEF IInv, HandoffInv, OneRowOneHolder, Queued
<1>3. RowsMatchTheirMessages'
  BY DEF IInv, HandoffInv, TypeOK, RowsMatchTheirMessages
<1>4. CoveredUpToNext'
  <2> SUFFICES ASSUME NEW tp \in Partitions
               PROVE  /\ committed'[tp] <= next[tp] /\ committed'[tp] <= position[tp]
                      /\ pc'[Owner[tp]] = "poll" => position[tp] <= next[tp]
                      /\ \A o \in 0..next[tp] - 1 :
                            <<tp, o>> \in done \cup deadLetters \cup InboxMsgs
    BY DEF CoveredUpToNext, InboxMsgs
  <2>1. /\ CoveredUpToNext /\ next[tp] \in Nat /\ position[tp] \in Nat
    BY DEF IInv, HandoffInv, TypeOK
  <2>2. CASE Owner[tp] = p
    <3>1. position[tp] <= next[tp] /\ committed'[tp] = position[tp]
      BY <2>1, <2>2 DEF PartitionsOf, Remaining
    <3>. QED
      BY <2>1, <3>1 DEF CoveredUpToNext
  <2>3. CASE Owner[tp] # p
    <3>1. committed'[tp] = committed[tp] /\ pc'[Owner[tp]] = pc[Owner[tp]]
      BY <2>3 DEF IInv, TypeOK
    <3>. QED
      BY <2>1, <3>1 DEF CoveredUpToNext
  <2>. QED
    BY <2>2, <2>3
<1>5. IsFiniteSet(inbox)' /\ \A q \in Pollers : pc'[q] # "dead" => failures'[q] < MaxPollFailures
  BY DEF IInv, HandoffInv, TypeOK
<1>. QED
  BY <1>1, <1>2, <1>3, <1>4, <1>5 DEF IInv, HandoffInv

\* The two ends of a batch that commit nothing.
LEMMA NoCommitInv ==
  ASSUME IInv, NEW p \in Pollers, CommitFails(p) \/ SkipCommit(p)
  PROVE  IInv'
<1> USE DEF CommitFails, SkipCommit, BatchDone, brokerVars, workVars, storeVars, obsVars, faultVars
<1>1. TypeOK'
  <2>1. pc' \in [Pollers -> {"poll", "batch", "put", "dead"}]
    BY DEF IInv, TypeOK
  <2>2. replays' \in 0..MaxReplays
    BY DEF IInv, TypeOK
  <2>3. UNCHANGED <<committed, position, next, part, paused, accepted, failures, putting,
                    queue, busy, handled, up, inbox, done, deadLetters, leaked, stranded, dbFaults>>
    OBVIOUS
  <2>. QED
    BY <2>1, <2>2, <2>3 DEF IInv, TypeOK
<1>2. OneRowOneHolder'
  BY DEF IInv, HandoffInv, OneRowOneHolder, Queued
<1>3. RowsMatchTheirMessages'
  BY SMTT(30) DEF IInv, HandoffInv, TypeOK, RowsMatchTheirMessages
<1>4. CoveredUpToNext'
  <2>1. InboxMsgs' = InboxMsgs
    BY DEF InboxMsgs
  <2>2. ASSUME NEW tp \in Partitions
        PROVE  pc'[Owner[tp]] = "poll" => pc[Owner[tp]] = "poll" \/ position[tp] <= next[tp]
    <3>1. position[tp] \in Nat /\ next[tp] \in Nat
      BY DEF IInv, TypeOK
    <3>2. CASE Owner[tp] = p
      BY <3>1, <3>2 DEF PartitionsOf, Remaining
    <3>3. CASE Owner[tp] # p
      BY <3>3 DEF IInv, TypeOK
    <3>. QED
      BY <3>2, <3>3
  <2>. QED
    BY <2>1, <2>2 DEF IInv, HandoffInv, CoveredUpToNext
<1>5. IsFiniteSet(inbox)' /\ \A q \in Pollers : pc'[q] # "dead" => failures'[q] < MaxPollFailures
  BY DEF IInv, HandoffInv, TypeOK
<1>. QED
  BY <1>1, <1>2, <1>3, <1>4, <1>5 DEF IInv, HandoffInv

-----------------------------------------------------------------------------
(* The worker's steps. *)

LEMMA TakeInv ==
  ASSUME IInv, Take
  PROVE  IInv'
<1> USE DEF Take, brokerVars, pollVars, storeVars, obsVars, faultVars
<1>0. OneRowOneHolder /\ RowsMatchTheirMessages /\ CoveredUpToNext
  BY DEF IInv, HandoffInv
<1>1. /\ queue \in Seq(Row) /\ queue # << >> /\ Len(queue) <= QueueMax /\ QueueMax \in Nat
      /\ Len(queue) \in Nat /\ DOMAIN queue = 1..Len(queue)
  BY DEF IInv, TypeOK
<1>2. /\ Tail(queue) \in Seq(Row) /\ Len(Tail(queue)) = Len(queue) - 1
      /\ DOMAIN Tail(queue) = 1..Len(queue) - 1
      /\ \A i \in 1..Len(queue) - 1 : Tail(queue)[i] = queue[i + 1]
      /\ Head(queue) = queue[1] /\ Head(queue) \in Row
      /\ 1 \in DOMAIN queue
  BY <1>1
<1>3. TypeOK'
  BY <1>1, <1>2 DEF IInv, TypeOK
<1>4. \A i \in DOMAIN queue' : i + 1 \in DOMAIN queue /\ i + 1 # 1 /\ queue'[i] = queue[i + 1]
  BY <1>1, <1>2
<1>5. Queued' \subseteq Queued \ {Head(queue)} /\ Head(queue) \in Queued
  <2>1. \A i \in DOMAIN queue' : queue'[i] \in Queued /\ queue'[i] # queue[1]
    BY <1>0, <1>2, <1>4 DEF Queued, OneRowOneHolder
  <2>. QED
    BY <1>2, <2>1 DEF Queued
<1>6. OneRowOneHolder'
  <2>1. (Queued \cup busy)' \subseteq Queued \cup busy
    BY <1>5
  <2>2. \A i, j \in DOMAIN queue' : queue'[i] = queue'[j] => i = j
    <3>1. \A i, j \in DOMAIN queue' : queue'[i] = queue'[j] => i + 1 = j + 1
      BY <1>0, <1>4 DEF OneRowOneHolder
    <3>2. \A i \in DOMAIN queue' : i \in Nat
      BY <1>1, <1>2
    <3>. QED
      BY <3>1, <3>2
  <2>3. (Queued \cap busy)' = {}
    BY <1>5
  <2>. QED
    BY <1>0, <2>1, <2>2, <2>3 DEF OneRowOneHolder
<1>7. RowsMatchTheirMessages'
  <2>1. ~handled
    <3>1. CASE handled
      BY <3>1 DEF IInv, HandoffInv
    <3>. QED
      BY <3>1
  <2>. QED
    BY <1>0, <2>1 DEF RowsMatchTheirMessages
<1>8. CoveredUpToNext'
  BY <1>0 DEF CoveredUpToNext, InboxMsgs
<1>. QED
  BY <1>3, <1>6, <1>7, <1>8 DEF IInv, HandoffInv

LEMMA HandleInv ==
  ASSUME IInv, Handle
  PROVE  IInv'
<1> USE DEF Handle, brokerVars, pollVars, storeVars, faultVars
<1>1. {r.msg : r \in busy} \subseteq Messages /\ done' = done \cup {r.msg : r \in busy}
  BY DEF IInv, TypeOK, Row
<1>2. TypeOK'
  BY <1>1 DEF IInv, TypeOK
<1>3. OneRowOneHolder'
  BY DEF IInv, HandoffInv, OneRowOneHolder, Queued
<1>4. RowsMatchTheirMessages'
  BY <1>1 DEF IInv, HandoffInv, RowsMatchTheirMessages
<1>5. CoveredUpToNext'
  BY <1>1 DEF IInv, HandoffInv, CoveredUpToNext, InboxMsgs
<1>. QED
  BY <1>2, <1>3, <1>4, <1>5 DEF IInv, HandoffInv

LEMMA ForgetInv ==
  ASSUME IInv, Forget
  PROVE  IInv'
<1> USE DEF Forget, brokerVars, pollVars
<1>0. OneRowOneHolder /\ RowsMatchTheirMessages /\ CoveredUpToNext
  BY DEF IInv, HandoffInv
<1>1. busy \in SUBSET inbox
  BY <1>0 DEF OneRowOneHolder
<1>2. /\ inbox' \subseteq inbox /\ IsFiniteSet(inbox')
      /\ inbox \ busy \subseteq inbox'
      /\ leaked' \subseteq Ids /\ dbFaults' \in 0..MaxDbFaults
  BY <1>1, DiscardRows
<1>3. TypeOK'
  BY <1>2 DEF IInv, TypeOK
<1>4. OneRowOneHolder'
  <2>1. Queued' = Queued /\ busy' = {} /\ queue' = queue /\ putting' = putting
    BY DEF Queued
  <2>2. Queued \subseteq inbox' /\ \A p \in Pollers : putting[p] \subseteq inbox' \ Queued
    BY <1>0, <1>2 DEF OneRowOneHolder
  <2>. QED
    BY <1>0, <1>2, <2>1, <2>2 DEF OneRowOneHolder
<1>5. RowsMatchTheirMessages'
  BY <1>0 DEF RowsMatchTheirMessages
<1>6. CoveredUpToNext'
  <2>1. ASSUME NEW r \in inbox, r \notin inbox' PROVE r.msg \in done
    BY <1>0, <1>2, <2>1 DEF RowsMatchTheirMessages
  <2>2. done \cup deadLetters \cup InboxMsgs \subseteq done' \cup deadLetters' \cup InboxMsgs'
    BY <2>1 DEF InboxMsgs
  <2>. QED
    BY <1>0, <2>2 DEF CoveredUpToNext
<1>. QED
  BY <1>2, <1>3, <1>4, <1>5, <1>6 DEF IInv, HandoffInv

-----------------------------------------------------------------------------
(* The process's steps. *)

\* A crash forgets everything but the offsets and the inbox, which is enough.
LEMMA LoseInv ==
  ASSUME IInv, Lose, replays' \in 0..MaxReplays
  PROVE  IInv'
<1> USE DEF Lose, brokerVars, storeVars
<1>1. TypeOK'
  <2>1. queue' \in Seq(Row) /\ Len(queue') <= QueueMax
    OBVIOUS
  <2>2. /\ position' \in [Partitions -> 0..LogLen]
        /\ next' \in [Partitions -> 0..LogLen]
    BY DEF IInv, TypeOK
  <2>3. /\ pc' \in [Pollers -> {"poll", "batch", "put", "dead"}]
        /\ part' \in [Pollers -> SUBSET Partitions]
        /\ accepted' \in [Pollers -> BOOLEAN]
        /\ failures' \in [Pollers -> 0..MaxPollFailures]
    OBVIOUS
  <2>4. putting' \in [Pollers -> SUBSET Row]
    OBVIOUS
  <2>. QED
    BY <2>1, <2>2, <2>3, <2>4 DEF IInv, TypeOK
<1>2. OneRowOneHolder'
  BY DEF IInv, HandoffInv, OneRowOneHolder, Queued
<1>3. RowsMatchTheirMessages'
  BY DEF RowsMatchTheirMessages
<1>4. CoveredUpToNext'
  <2>1. ASSUME NEW tp \in Partitions
        PROVE  /\ committed[tp] <= committed[tp]
               /\ \A o \in 0..committed[tp] - 1 : o \in 0..next[tp] - 1
    BY DEF IInv, TypeOK, HandoffInv, CoveredUpToNext
  <2>. QED
    BY <2>1 DEF IInv, HandoffInv, CoveredUpToNext, InboxMsgs
<1>. QED
  BY <1>1, <1>2, <1>3, <1>4 DEF IInv, HandoffInv

LEMMA RestartInv ==
  ASSUME IInv, Restart
  PROVE  IInv'
<1> USE DEF Restart, brokerVars, pollVars, storeVars, faultVars
<1>1. PICK q \in RestoredQueues : queue' = q /\ stranded' = {r \in inbox : \A i \in DOMAIN q : q[i] # r}
  OBVIOUS
<1> DEFINE n == Least(QueueMax, Cardinality(inbox))
<1>2. n \in Nat /\ n <= QueueMax
  <2>1. Cardinality(inbox) \in Nat
    BY FS_CardinalityType DEF IInv, HandoffInv
  <2>. QED
    BY <2>1 DEF Least
<1>3. /\ q \in [1..n -> inbox] /\ inbox \subseteq Row
      /\ \A i, j \in DOMAIN q : i < j => q[i].id < q[j].id
  BY DEF RestoredQueues, IInv, TypeOK
<1>4. q \in Seq(Row) /\ Len(q) = n
  BY <1>2, <1>3
<1>5. TypeOK'
  BY <1>1, <1>2, <1>3, <1>4 DEF IInv, TypeOK
<1>6. OneRowOneHolder'
  <2>1. busy = {} /\ \A p \in Pollers : putting[p] = {}
    BY DEF IInv, HandoffInv
  <2>2. \A i, j \in DOMAIN queue' : queue'[i] = queue'[j] => i = j
    <3> SUFFICES ASSUME NEW i \in DOMAIN q, NEW j \in DOMAIN q, q[i] = q[j]
                 PROVE  i = j
      BY <1>1
    <3>1. q[i].id \in Nat /\ i \in Nat /\ j \in Nat
      <4>1. i \in 1..n /\ j \in 1..n
        BY <1>3
      <4>2. q[i] \in Row
        BY <1>3, <4>1
      <4>3. q[i].id \in Ids
        BY <4>2 DEF Row
      <4>4. i \in Nat /\ j \in Nat
        BY <4>1
      <4>5. Ids \subseteq Nat
        OBVIOUS
      <4>. QED
        BY <4>3, <4>4, <4>5
    <3>2. ~(i < j) /\ ~(j < i)
      BY <1>3, <3>1
    <3>. QED
      BY <3>1, <3>2
  <2>3. Queued' \subseteq inbox
    BY <1>1, <1>3 DEF Queued
  <2>. QED
    BY <2>1, <2>2, <2>3 DEF IInv, HandoffInv, OneRowOneHolder
<1>7. RowsMatchTheirMessages' /\ CoveredUpToNext'
  BY DEF IInv, HandoffInv, RowsMatchTheirMessages, CoveredUpToNext, InboxMsgs
<1>. QED
  BY <1>5, <1>6, <1>7 DEF IInv, HandoffInv

-----------------------------------------------------------------------------
(* The theorems. *)

\* The invariant is inductive: every step of every thread, and every crash and
\* restart, preserves it.
LEMMA NextInv == IInv /\ [Next]_vars => IInv'
<1> SUFFICES ASSUME IInv, [Next]_vars PROVE IInv'
  OBVIOUS
<1>1. ASSUME NEW p \in Pollers, PollerStep(p) PROVE IInv'
  <2>1. ASSUME NEW tp \in Partitions,
               \/ DeadLetter(p, tp) \/ Record(p, tp) \/ RecordFails(p, tp)
               \/ Put(p, tp) \/ PutFull(p, tp)
        PROVE  IInv'
    BY <2>1, DeadLetterInv, RecordInv, RecordFailsInv, PutInv, PutFullInv
  <2>. QED
    BY <1>1, <2>1, PollInv, PollFailsInv, RebalanceInv, CommitInv, NoCommitInv DEF PollerStep
<1>2. CASE Take \/ Handle \/ Forget
  BY <1>2, TakeInv, HandleInv, ForgetInv
<1>3. CASE Crash \/ MainExits
  <2>1. Lose /\ replays' \in 0..MaxReplays
    BY <1>3 DEF Crash, MainExits, IInv, TypeOK
  <2>. QED
    BY <2>1, LoseInv
<1>4. CASE Restart
  BY <1>4, RestartInv
<1>5. CASE UNCHANGED vars
  <2>1. TypeOK'
    BY <1>5 DEF vars, brokerVars, pollVars, workVars, storeVars, obsVars, faultVars, IInv, TypeOK
  <2>2. OneRowOneHolder'
    BY <1>5 DEF vars, pollVars, workVars, storeVars, IInv, HandoffInv, OneRowOneHolder, Queued
  <2>3. RowsMatchTheirMessages'
    BY <1>5 DEF vars, pollVars, workVars, obsVars, IInv, HandoffInv, RowsMatchTheirMessages
  <2>4. CoveredUpToNext'
    BY <1>5 DEF vars, brokerVars, pollVars, storeVars, obsVars, IInv, HandoffInv,
                CoveredUpToNext, InboxMsgs
  <2>. QED
    BY <1>5, <2>1, <2>2, <2>3, <2>4 DEF vars, pollVars, workVars, storeVars, IInv, HandoffInv
<1>. QED
  BY <1>1, <1>2, <1>3, <1>4, <1>5 DEF Next

THEOREM InductiveInvariant == Spec => []IInv
BY InitInv, NextInv, PTL DEF Spec

\* Every variable keeps its type; in particular the work queue never exceeds its
\* maximum, restore_pending at startup included.
THEOREM TypeCorrect == Spec => []TypeOK
BY InductiveInvariant, PTL DEF IInv

\* No message the broker considers delivered is lost: it is handled, dead-lettered
\* or in the durable inbox, whatever crashes, rebalances and fails when.
THEOREM MessagesAreNotLost == Spec => []NoLoss
<1>1. IInv => NoLoss
  <2> SUFFICES ASSUME IInv, NEW tp \in Partitions, NEW o \in 0..committed[tp] - 1
               PROVE  <<tp, o>> \in done \cup deadLetters \cup InboxMsgs
    BY DEF NoLoss
  <2>1. o \in 0..next[tp] - 1
    BY DEF IInv, HandoffInv, CoveredUpToNext, TypeOK
  <2>. QED
    BY <2>1 DEF IInv, HandoffInv, CoveredUpToNext
<1>. QED
  BY <1>1, InductiveInvariant, PTL

\* Queued work, and work being executed, has its row in the inbox until it is handled.
THEOREM QueuedWorkIsDurable == Spec => []QueuedIsDurable
<1>1. IInv => QueuedIsDurable
  BY DEF IInv, HandoffInv, OneRowOneHolder, QueuedIsDurable
<1>. QED
  BY <1>1, InductiveInvariant, PTL

-----------------------------------------------------------------------------
(* Where the rows are. *)

\* RowsAccountedFor needs to know that one row at most is being submitted.
RowsInv ==
  /\ RowsAccountedFor
  /\ \A p \in Pollers : \A r, s \in putting[p] : r = s

\* A row that is queued, executed or stranded stays accounted for when the queue only
\* grows, and so does one that some poll loop still submits.
LEMMA RowsFrame ==
  ASSUME RowsInv, up' = up, inbox' \subseteq inbox, stranded' = stranded, leaked \subseteq leaked',
         Queued \cup busy \subseteq Queued' \cup busy', putting' = putting
  PROVE  RowsInv'
BY DEF RowsInv, RowsAccountedFor

\* A recorded row is the one that its poll loop submits.
LEMMA RecordRows ==
  ASSUME IInv, RowsInv, NEW p \in Pollers, NEW tp \in Partitions, Record(p, tp)
  PROVE  RowsInv'
<1> USE DEF Record, Reading, workVars, obsVars
<1>1. PICK id \in NewIds :
        /\ inbox' = inbox \cup {[id |-> id, msg |-> Current(tp)]}
        /\ putting' = [putting EXCEPT ![p] = {[id |-> id, msg |-> Current(tp)]}]
  OBVIOUS
<1>2. putting[p] = {}
  BY DEF IInv, HandoffInv, RowsMatchTheirMessages
<1>3. putting'[p] = {[id |-> id, msg |-> Current(tp)]}
      /\ \A q \in Pollers \ {p} : putting'[q] = putting[q]
  BY <1>1 DEF IInv, TypeOK
<1>4. Queued' = Queued
  BY DEF Queued
<1>. QED
  BY <1>1, <1>2, <1>3, <1>4 DEF RowsInv, RowsAccountedFor

\* A submitted row is queued, ...
LEMMA PutRows ==
  ASSUME IInv, RowsInv, NEW p \in Pollers, NEW tp \in Partitions, Put(p, tp)
  PROVE  RowsInv'
<1> USE DEF Put, storeVars, obsVars
<1>1. PICK r \in putting[p] : queue' = Append(queue, r)
  OBVIOUS
<1>2. putting[p] \subseteq {r}
  BY DEF RowsInv
<1>3. Queued \cup {r} \subseteq Queued'
  <2>1. queue \in Seq(Row) /\ r \in Row
    BY DEF IInv, TypeOK
  <2>2. /\ DOMAIN queue = 1..Len(queue) /\ DOMAIN queue' = 1..Len(queue) + 1 /\ Len(queue) \in Nat
        /\ \A i \in 1..Len(queue) : queue'[i] = queue[i]
        /\ queue'[Len(queue) + 1] = r
    BY <1>1, <2>1
  <2>. QED
    BY <2>2 DEF Queued
<1>4. putting'[p] = {} /\ \A q \in Pollers \ {p} : putting'[q] = putting[q]
  BY DEF IInv, TypeOK
<1>. QED
  BY <1>2, <1>3, <1>4 DEF RowsInv, RowsAccountedFor

\* ... or discarded.
LEMMA PutFullRows ==
  ASSUME IInv, RowsInv, NEW p \in Pollers, NEW tp \in Partitions, PutFull(p, tp)
  PROVE  RowsInv'
<1> USE DEF PutFull, workVars
<1>1. \A r \in inbox' : r \in inbox /\ (r \in putting[p] => r.id \in leaked')
  BY DEF Discard, Without
<1>2. leaked \subseteq leaked'
  BY DEF Discard
<1>3. putting'[p] = {} /\ \A q \in Pollers \ {p} : putting'[q] = putting[q]
  BY DEF IInv, TypeOK
<1>4. Queued' = Queued
  BY DEF Queued
<1>. QED
  BY <1>1, <1>2, <1>3, <1>4 DEF RowsInv, RowsAccountedFor

\* The worker moves a row from the queue to busy, and discards it from there.
LEMMA WorkerRows ==
  ASSUME IInv, RowsInv, Take \/ Forget
  PROVE  RowsInv'
<1>1. CASE Take
  <2> USE <1>1 DEF Take, pollVars, storeVars, obsVars
  <2>1. /\ queue \in Seq(Row) /\ queue # << >> /\ DOMAIN queue = 1..Len(queue) /\ Len(queue) \in Nat
    BY DEF IInv, TypeOK
  <2>2. /\ DOMAIN queue' = 1..Len(queue) - 1
        /\ \A i \in 1..Len(queue) - 1 : queue'[i] = queue[i + 1]
        /\ Head(queue) = queue[1]
    BY <2>1
  <2>3. ASSUME NEW i \in DOMAIN queue PROVE queue[i] \in Queued' \cup busy'
    <3>1. CASE i = 1
      BY <3>1, <2>2
    <3>2. CASE i # 1
      <4>1. i - 1 \in DOMAIN queue' /\ queue'[i - 1] = queue[i]
        BY <3>2, <2>1, <2>2
      <4>. QED
        BY <4>1 DEF Queued
    <3>. QED
      BY <3>1, <3>2
  <2>4. Queued \cup busy \subseteq Queued' \cup busy'
    BY <2>3 DEF Queued
  <2>. QED
    BY <2>4, RowsFrame
<1>2. CASE Forget
  <2> USE <1>2 DEF Forget, pollVars
  <2>1. \A r \in inbox' : r \in inbox /\ (r \in busy => r.id \in leaked')
    BY DEF Discard, Without
  <2>2. leaked \subseteq leaked' /\ Queued' = Queued
    BY DEF Discard, Queued
  <2>. QED
    BY <2>1, <2>2 DEF RowsInv, RowsAccountedFor
<1>. QED
  BY <1>1, <1>2

\* Every step keeps the rows accounted for.
LEMMA RowsStep == IInv /\ RowsInv /\ [Next]_vars => RowsInv'
<1> SUFFICES ASSUME IInv, RowsInv, [Next]_vars PROVE RowsInv'
  OBVIOUS
<1> DEFINE Frame == UNCHANGED <<up, inbox, stranded, leaked, queue, busy, putting>>
<1>0. Frame => RowsInv'
  <2>. HAVE Frame
  <2>1. Queued' = Queued
    BY DEF Queued
  <2>. QED
    BY <2>1, RowsFrame
<1>1. ASSUME NEW p \in Pollers, PollerStep(p) PROVE RowsInv'
  <2>1. ASSUME NEW tp \in Partitions, DeadLetter(p, tp) \/ RecordFails(p, tp) PROVE RowsInv'
    <3>1. Frame
      BY <2>1 DEF DeadLetter, RecordFails, Reject, workVars, storeVars, obsVars
    <3>. QED
      BY <3>1, <1>0
  <2>2. CASE \/ Poll(p) \/ PollFails(p) \/ Rebalance(p) \/ Commit(p) \/ CommitFails(p)
             \/ SkipCommit(p)
    <3>1. Frame
      BY <2>2 DEF Poll, PollFails, Rebalance, Commit, CommitFails, SkipCommit, workVars,
                  storeVars, obsVars
    <3>. QED
      BY <3>1, <1>0
  <2>. QED
    BY <1>1, <2>1, <2>2, RecordRows, PutRows, PutFullRows DEF PollerStep
<1>2. CASE Take \/ Forget
  BY <1>2, WorkerRows
<1>3. CASE Handle \/ UNCHANGED vars
  <2>1. Frame
    BY <1>3 DEF Handle, vars, pollVars, workVars, storeVars, obsVars
  <2>. QED
    BY <2>1, <1>0
<1>4. CASE Crash \/ MainExits
  BY <1>4 DEF Crash, MainExits, Lose, RowsInv, RowsAccountedFor
<1>5. CASE Restart
  <2>1. \A r \in inbox' : r \in Queued' \cup stranded'
    BY <1>5 DEF Restart, Queued, storeVars
  <2>2. putting' = putting
    BY <1>5 DEF Restart, pollVars
  <2>. QED
    BY <2>1, <2>2 DEF RowsInv, RowsAccountedFor
<1>. QED
  BY <1>1, <1>2, <1>3, <1>4, <1>5 DEF Next

\* No row is orphaned: every one is queued, executed or submitted, or known to be left
\* behind by a failed DELETE or by restore_pending.  (submit, _forget, ADR 0010)
THEOREM NoRowIsOrphaned == Spec => []RowsAccountedFor
<1>1. Init => RowsInv
  BY DEF Init, RowsInv, RowsAccountedFor
<1>2. IInv /\ RowsInv /\ [Next]_vars => RowsInv'
  BY RowsStep
<1>3. RowsInv => RowsAccountedFor
  BY DEF RowsInv
<1>. QED
  BY <1>1, <1>2, <1>3, InductiveInvariant, PTL DEF Spec
=============================================================================
