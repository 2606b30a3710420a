-------------------------- MODULE HandoffOrderProofs --------------------------
(***************************************************************************)
(* More proofs about Handoff, over the invariant of HandoffProofs: without *)
(* a crash or a rebalance nothing is delivered twice, and the worker takes *)
(* the messages of a partition in the partition's order, whatever was      *)
(* refused, redelivered or recovered on the way.                           *)
(***************************************************************************)
EXTENDS HandoffProofs

USE HandoffAssumption DEF HandoffAssumption

\* Without a replay no batch overtakes its own end, and what the worker has or waits
\* for was read before next.
OnceInv ==
  replays = 0 =>
    /\ up /\ \A p \in Pollers : pc[p] # "dead" /\ (pc[p] = "put" => putting[p] # {})
    /\ \A tp \in Partitions : next[tp] <= position[tp]
    /\ \A r \in Queued \cup busy : r.msg[2] < next[r.msg[1]]
    /\ \A r \in Queued, s \in busy : r.msg # s.msg
    /\ \A p \in Pollers : \A r \in putting[p] : Remaining(r.msg[1])
    /\ NoDuplicateWork

\* What the worker need not be given any more, or is not given in this life of the
\* process.
Passed(m) == m \in done \cup deadLetters \cup {s.msg : s \in stranded}

\* The ids of the inbox follow the order of a partition's messages.
RowsInOrder ==
  \A r \in inbox : \A o \in 0..r.msg[2] - 1 :
     \/ <<r.msg[1], o>> \in done \cup deadLetters
     \/ \E s \in inbox : s.id < r.id /\ s.msg = <<r.msg[1], o>>

\* A row that is being submitted is the newest of its partition.
SubmittedIsNewest ==
  \A p \in Pollers : \A s \in putting[p] : \A r \in inbox :
     r.msg[1] = s.msg[1] => r = s \/ r.id < s.id

\* What comes before a queued message of its partition is before it in the queue, or
\* was with the worker already.
QueueInOrder ==
  up => \A i \in DOMAIN queue : \A o \in 0..queue[i].msg[2] - 1 :
          \/ Passed(<<queue[i].msg[1], o>>)
          \/ \E s \in busy : s.msg = <<queue[i].msg[1], o>>
          \/ \E j \in DOMAIN queue : j < i /\ queue[j].msg = <<queue[i].msg[1], o>>

\* So is what was read already.
ReadInOrder ==
  up => \A tp \in Partitions : \A o \in 0..next[tp] - 1 :
          \/ Passed(<<tp, o>>)
          \/ \E s \in busy \cup Queued : s.msg = <<tp, o>>

OrderInv == RowsInOrder /\ SubmittedIsNewest /\ QueueInOrder /\ ReadInOrder

-----------------------------------------------------------------------------
(* What the steps that move a row do to the queue. *)

\* A submitted row is that of the message read last, and goes to the end.
LEMMA PutFacts ==
  ASSUME IInv, NEW p \in Pollers, NEW tp \in Partitions, Put(p, tp)
  PROVE  \E r \in Row :
           /\ r.msg = <<tp, next[tp]>>
           /\ Len(queue) \in Nat /\ DOMAIN queue = 1..Len(queue)
           /\ DOMAIN queue' = 1..Len(queue) + 1
           /\ \A i \in DOMAIN queue : queue'[i] = queue[i]
           /\ queue'[Len(queue) + 1] = r /\ Queued' = Queued \cup {r}
<1> USE DEF Put
<1>1. PICK r \in putting[p] : queue' = Append(queue, r)
  OBVIOUS
<1>2. r \in Row /\ queue \in Seq(Row)
  BY DEF IInv, TypeOK
<1>3. r.msg = <<tp, next[tp]>>
  <2>1. r.msg \in Messages /\ part[p] = {r.msg[1]} /\ r.msg[2] = next[r.msg[1]] /\ part[p] = {tp}
    BY <1>2 DEF IInv, HandoffInv, RowsMatchTheirMessages, Row
  <2>. QED
    BY <2>1, MessageParts
<1>4. /\ Len(queue) \in Nat /\ DOMAIN queue = 1..Len(queue)
      /\ DOMAIN queue' = 1..Len(queue) + 1
      /\ \A i \in DOMAIN queue : queue'[i] = queue[i]
      /\ queue'[Len(queue) + 1] = r
  BY <1>1, <1>2
<1>5. Queued' = Queued \cup {r}
  <2>1. DOMAIN queue' = DOMAIN queue \cup {Len(queue) + 1}
    BY <1>4
  <2>. QED
    BY <1>4, <2>1 DEF Queued
<1>. QED
  BY <1>2, <1>3, <1>4, <1>5

\* The poll loop goes on to the next message of the partition, within its batch.
LEMMA AdvanceFacts ==
  ASSUME IInv, NEW p \in Pollers, NEW tp \in Partitions, Advance(p, tp)
  PROVE  /\ next[tp] \in Nat /\ next'[tp] = next[tp] + 1
         /\ \A q \in Partitions : /\ next[q] \in Nat /\ next'[q] \in Nat
                                  /\ q # tp => next'[q] = next[q]
BY DEF IInv, TypeOK, Advance

\* The worker takes the head; the others move up.
LEMMA TakeFacts ==
  ASSUME IInv, Take
  PROVE  /\ Len(queue) \in Nat \ {0} /\ DOMAIN queue = 1..Len(queue)
         /\ DOMAIN queue' = 1..Len(queue) - 1
         /\ \A i \in DOMAIN queue' : i + 1 \in DOMAIN queue /\ queue'[i] = queue[i + 1]
         /\ busy = {} /\ busy' = {queue[1]}
         /\ Queued' \subseteq Queued /\ Queued \subseteq Queued' \cup busy'
<1>1. queue \in Seq(Row) /\ queue # << >> /\ busy = {}
  BY DEF Take, IInv, TypeOK
<1>2. /\ Len(queue) \in Nat \ {0} /\ DOMAIN queue = 1..Len(queue)
      /\ DOMAIN queue' = 1..Len(queue) - 1
      /\ \A i \in 1..Len(queue) - 1 : queue'[i] = queue[i + 1]
      /\ busy' = {queue[1]}
  BY <1>1 DEF Take
<1>3. \A i \in DOMAIN queue' : i + 1 \in DOMAIN queue /\ queue'[i] = queue[i + 1]
  BY <1>2
<1>4. Queued' \subseteq Queued
  BY <1>3 DEF Queued
<1>5. ASSUME NEW i \in DOMAIN queue PROVE queue[i] \in Queued' \cup busy'
  <2>1. CASE i = 1
    BY <2>1, <1>2
  <2>2. CASE i # 1
    <3>1. i - 1 \in DOMAIN queue' /\ queue'[i - 1] = queue[i]
      BY <1>2, <2>2
    <3>. QED
      BY <3>1 DEF Queued
  <2>. QED
    BY <2>1, <2>2
<1>. QED
  BY <1>1, <1>2, <1>3, <1>4, <1>5 DEF Queued

\* The message of a row is in a partition, at a natural offset.
LEMMA RowParts ==
  ASSUME NEW r \in Row
  PROVE  /\ r.id \in Nat /\ r.msg \in Messages
         /\ r.msg[1] \in Partitions /\ r.msg[2] \in 0..LogLen - 1 /\ r.msg[2] \in Nat
         /\ r.msg = <<r.msg[1], r.msg[2]>>
<1>1. r.msg \in Messages /\ r.id \in Ids
  BY DEF Row
<1>. QED
  BY <1>1, MessageParts DEF Offsets

\* Rows that are queued, executed or being submitted are rows.
LEMMA HeldRows ==
  ASSUME IInv
  PROVE  /\ Queued \subseteq Row /\ busy \subseteq Row /\ inbox \subseteq Row
         /\ \A p \in Pollers : putting[p] \subseteq Row
         /\ \A tp \in Partitions : next[tp] \in Nat /\ position[tp] \in Nat
BY DEF IInv, TypeOK, Queued

-----------------------------------------------------------------------------
(* Nothing is delivered twice. *)

\* The other poll loops' submissions are not concerned by a step of p.
LEMMA SubmissionsFrame ==
  ASSUME IInv, OnceInv, replays = 0, NEW p \in Pollers,
         \A q \in Pollers \ {p} : putting'[q] = putting[q],
         \A tp \in Partitions : Owner[tp] # p => next'[tp] = next[tp] /\ position'[tp] = position[tp],
         \A r \in putting'[p] : Remaining(r.msg[1])'
  PROVE  \A q \in Pollers : \A r \in putting'[q] : Remaining(r.msg[1])'
<1> SUFFICES ASSUME NEW q \in Pollers \ {p}, NEW r \in putting[q]
             PROVE  Remaining(r.msg[1])'
  OBVIOUS
<1>1. r.msg[1] \in Partitions
  BY HeldRows, RowParts
<1>2. Owner[r.msg[1]] = q
  BY DEF IInv, HandoffInv, RowsMatchTheirMessages
<1>3. Remaining(r.msg[1])
  BY DEF OnceInv
<1>. QED
  BY <1>1, <1>2, <1>3 DEF Remaining

\* Reading on, within the batch, repeats nothing.
LEMMA OnceFrame ==
  ASSUME IInv, OnceInv, replays = 0, up' = up, UNCHANGED <<queue, busy, done>>,
         NEW p \in Pollers, pc'[p] # "dead", pc'[p] = "put" => putting'[p] # {},
         \A q \in Pollers \ {p} : pc'[q] = pc[q],
         \A q \in Pollers \ {p} : putting'[q] = putting[q],
         \A tp \in Partitions : Owner[tp] # p => next'[tp] = next[tp] /\ position'[tp] = position[tp],
         \A r \in putting'[p] : Remaining(r.msg[1])',
         \A tp \in Partitions : /\ next'[tp] \in Nat
                                /\ next[tp] <= next'[tp] /\ next'[tp] <= position'[tp]
  PROVE  OnceInv'
<1>1. Queued' = Queued
  BY DEF Queued
<1>2. \A r \in Queued \cup busy : r.msg[2] < next'[r.msg[1]]
  <2> SUFFICES ASSUME NEW r \in Queued \cup busy PROVE r.msg[2] < next'[r.msg[1]]
    OBVIOUS
  <2>1. r.msg[1] \in Partitions /\ r.msg[2] \in Nat
    BY HeldRows, RowParts
  <2>2. r.msg[2] < next[r.msg[1]]
    BY DEF OnceInv
  <2>. QED
    BY <2>1, <2>2, HeldRows
<1>3. ASSUME NEW tp \in Partitions, NEW o \in next'[tp]..LogLen - 1
      PROVE  <<tp, o>> \notin done
  <2>1. next[tp] \in Nat /\ next'[tp] \in Nat /\ next[tp] <= next'[tp]
    BY HeldRows
  <2>2. o \in next[tp]..LogLen - 1
    BY <2>1
  <2>. QED
    BY <2>2 DEF OnceInv, NoDuplicateWork
<1>4. \A q \in Pollers : \A r \in putting'[q] : Remaining(r.msg[1])'
  BY SubmissionsFrame
<1>5. up' /\ \A q \in Pollers : pc'[q] # "dead" /\ (pc'[q] = "put" => putting'[q] # {})
  BY DEF OnceInv
<1>. QED
  BY <1>1, <1>2, <1>3, <1>4, <1>5 DEF OnceInv, NoDuplicateWork

\* A submitted message was not read before.
LEMMA OncePut ==
  ASSUME IInv, OnceInv, replays = 0, NEW p \in Pollers, NEW tp \in Partitions, Put(p, tp)
  PROVE  OnceInv'
<1> USE DEF Put, storeVars, obsVars
<1>1. PICK r \in Row :
        /\ r.msg = <<tp, next[tp]>>
        /\ Len(queue) \in Nat /\ DOMAIN queue = 1..Len(queue)
        /\ DOMAIN queue' = 1..Len(queue) + 1
        /\ \A i \in DOMAIN queue : queue'[i] = queue[i]
        /\ queue'[Len(queue) + 1] = r /\ Queued' = Queued \cup {r}
  BY PutFacts
<1>2. /\ next[tp] \in Nat /\ next'[tp] = next[tp] + 1
      /\ \A q \in Partitions : /\ next[q] \in Nat /\ next'[q] \in Nat
                               /\ q # tp => next'[q] = next[q]
  BY AdvanceFacts
<1>3. \A s \in Queued \cup busy : /\ s.msg[1] \in Partitions /\ s.msg[2] \in Nat
                                  /\ s.msg[2] < next[s.msg[1]]
  BY HeldRows, RowParts DEF OnceInv
<1>4. Owner[tp] = p /\ Remaining(tp)
  <2>1. PICK s \in putting[p] : TRUE
    OBVIOUS
  <2>2. part[p] = {s.msg[1]} /\ Owner[s.msg[1]] = p
    BY DEF IInv, HandoffInv, RowsMatchTheirMessages
  <2>3. s.msg[1] = tp
    BY <2>2
  <2>. QED
    BY <2>2, <2>3 DEF OnceInv
<1>5. \A s \in Queued \cup busy : s.msg # r.msg
  BY <1>1, <1>3
<1>6. r.msg \notin done
  <2>1. next[tp] \in next[tp]..LogLen - 1
    BY <1>1, <1>2, RowParts
  <2>. QED
    BY <1>1, <2>1 DEF OnceInv, NoDuplicateWork
<1>7. \A s \in Queued' \cup busy : s.msg[2] < next'[s.msg[1]]
  <2>1. ASSUME NEW s \in Queued \cup busy PROVE s.msg[2] < next'[s.msg[1]]
    <3> DEFINE q == s.msg[1]
    <3>1. q \in Partitions /\ s.msg[2] \in Nat /\ s.msg[2] < next[q]
      BY <1>3
    <3>2. next[q] \in Nat /\ next'[q] \in Nat /\ next[q] <= next'[q]
      BY <1>2, <3>1
    <3>. QED
      BY <3>1, <3>2
  <2>2. r.msg[2] < next'[r.msg[1]]
    BY <1>1, <1>2
  <2>. QED
    BY <1>1, <2>1, <2>2
<1>8. \A q \in Partitions : next'[q] <= position[q]
  BY <1>2, <1>4, HeldRows DEF OnceInv, Remaining
<1>9. \A q \in Pollers : \A s \in putting'[q] : Remaining(s.msg[1])'
  <2>1. putting'[p] = {} /\ \A q \in Pollers \ {p} : putting'[q] = putting[q]
    BY DEF IInv, TypeOK
  <2>. QED
    BY <1>2, <1>4, <2>1, SubmissionsFrame
<1>10. NoDuplicateWork'
  <2>1. \A i, j \in DOMAIN queue' : queue'[i].msg = queue'[j].msg => i = j
    <3>1. \A i, j \in DOMAIN queue : queue[i].msg = queue[j].msg => i = j
      BY DEF OnceInv, NoDuplicateWork
    <3>2. \A i \in DOMAIN queue : queue[i].msg # r.msg
      BY <1>5 DEF Queued
    <3>3. DOMAIN queue' = DOMAIN queue \cup {Len(queue) + 1}
      BY <1>1
    <3>. QED
      BY <1>1, <3>1, <3>2, <3>3
  <2>2. \A i \in DOMAIN queue' : queue'[i].msg \notin done
    <3>1. DOMAIN queue' = DOMAIN queue \cup {Len(queue) + 1}
      BY <1>1
    <3>. QED
      BY <1>1, <1>6, <3>1 DEF OnceInv, NoDuplicateWork
  <2>3. ASSUME NEW q \in Partitions, NEW o \in next'[q]..LogLen - 1
        PROVE  <<q, o>> \notin done
    <3>1. o \in next[q]..LogLen - 1
      BY <1>2
    <3>. QED
      BY <3>1 DEF OnceInv, NoDuplicateWork
  <2>. QED
    BY <2>1, <2>2, <2>3 DEF NoDuplicateWork
<1>11. up /\ \A q \in Pollers : pc'[q] # "dead" /\ (pc'[q] = "put" => putting'[q] # {})
  BY DEF OnceInv, IInv, TypeOK
<1>12. \A s \in Queued', t \in busy : s.msg # t.msg
  BY <1>1, <1>5 DEF OnceInv
<1>. QED
  BY <1>7, <1>8, <1>9, <1>10, <1>11, <1>12 DEF OnceInv

\* The worker takes the head, handles it and forgets it.
LEMMA OnceWorker ==
  ASSUME IInv, OnceInv, replays = 0, Take \/ Handle \/ Forget
  PROVE  OnceInv'
<1> USE DEF brokerVars, pollVars, storeVars, faultVars
<1>1. CASE Take
  <2>1. /\ Len(queue) \in Nat \ {0} /\ DOMAIN queue = 1..Len(queue)
        /\ DOMAIN queue' = 1..Len(queue) - 1
        /\ \A i \in DOMAIN queue' : i + 1 \in DOMAIN queue /\ queue'[i] = queue[i + 1]
        /\ busy = {} /\ busy' = {queue[1]}
        /\ Queued' \subseteq Queued /\ Queued \subseteq Queued' \cup busy'
    BY <1>1, TakeFacts
  <2>2. \A i, j \in DOMAIN queue : queue[i].msg = queue[j].msg => i = j
    BY DEF OnceInv, NoDuplicateWork
  <2>3. NoDuplicateWork'
    <3>1. \A i, j \in DOMAIN queue' : queue'[i].msg = queue'[j].msg => i = j
      <4>1. \A i, j \in DOMAIN queue' : queue'[i].msg = queue'[j].msg => i + 1 = j + 1
        BY <2>1, <2>2
      <4>2. \A i \in DOMAIN queue' : i \in Nat
        BY <2>1
      <4>. QED
        BY <4>1, <4>2
    <3>. QED
      BY <1>1, <2>1, <3>1 DEF Take, obsVars, OnceInv, NoDuplicateWork
  <2>4. 1 \in DOMAIN queue /\ queue[1] \in Queued
    BY <2>1 DEF Queued
  <2>5. \A r \in Queued', s \in busy' : r.msg # s.msg
    <3>1. \A i \in DOMAIN queue' : queue'[i].msg # queue[1].msg
      <4> SUFFICES ASSUME NEW i \in DOMAIN queue', queue'[i].msg = queue[1].msg PROVE FALSE
        OBVIOUS
      <4>1. i + 1 = 1
        BY <2>1, <2>2, <2>4
      <4>. QED
        BY <2>1, <4>1
    <3>. QED
      BY <2>1, <3>1 DEF Queued
  <2>6. \A r \in Queued' \cup busy' : r.msg[2] < next[r.msg[1]]
    BY <2>1, <2>4 DEF OnceInv
  <2>. QED
    BY <1>1, <2>3, <2>5, <2>6 DEF Take, OnceInv, Remaining
<1>2. CASE Handle
  <2>1. Queued' = Queued /\ done' = done \cup {r.msg : r \in busy}
    BY <1>2 DEF Handle, Queued
  <2>2. \A i \in DOMAIN queue : queue[i].msg \notin done'
    BY <2>1 DEF OnceInv, NoDuplicateWork, Queued
  <2>3. ASSUME NEW tp \in Partitions, NEW o \in next[tp]..LogLen - 1, NEW r \in busy
        PROVE  r.msg # <<tp, o>>
    <3>1. r.msg[1] \in Partitions /\ r.msg[2] \in Nat /\ r.msg[2] < next[r.msg[1]]
      BY HeldRows, RowParts DEF OnceInv
    <3>. QED
      BY <3>1, HeldRows
  <2>4. NoDuplicateWork'
    BY <1>2, <2>1, <2>2, <2>3 DEF Handle, OnceInv, NoDuplicateWork
  <2>. QED
    BY <1>2, <2>1, <2>4 DEF Handle, OnceInv, Remaining
<1>3. CASE Forget
  <2>1. Queued' = Queued /\ busy' = {}
    BY <1>3 DEF Forget, Queued
  <2>2. NoDuplicateWork'
    BY <1>3 DEF Forget, OnceInv, NoDuplicateWork
  <2>. QED
    BY <1>3, <2>1, <2>2 DEF Forget, OnceInv, Remaining
<1>. QED
  BY <1>1, <1>2, <1>3

\* A poll goes on where the last batch ended.
LEMMA OncePoll ==
  ASSUME IInv, OnceInv, replays = 0, NEW p \in Pollers, Poll(p)
  PROVE  OnceInv'
<1> USE DEF Poll, brokerVars, workVars, storeVars, obsVars, faultVars
<1>1. \A tp \in Partitions : /\ position[tp] \in Nat /\ position'[tp] \in Nat
                             /\ position'[tp] >= position[tp]
  BY DEF Fetches, IInv, TypeOK
<1>2. next' = next
  <2>1. ASSUME NEW tp \in Partitions, Owner[tp] = p PROVE position[tp] = next[tp]
    <3>1. position[tp] <= next[tp]
      BY <2>1 DEF IInv, HandoffInv, CoveredUpToNext
    <3>2. next[tp] <= position[tp]
      BY DEF OnceInv
    <3>. QED
      BY <3>1, <3>2, HeldRows
  <2>2. next \in [Partitions -> 0..LogLen]
    BY DEF IInv, TypeOK
  <2>. QED
    BY <2>1, <2>2 DEF BatchStart
<1>3. \A tp \in Partitions : Owner[tp] # p => position'[tp] = position[tp]
  BY DEF Fetches, PartitionsOf
<1>4. pc'[p] \notin {"dead", "put"} /\ \A q \in Pollers \ {p} : pc'[q] = pc[q]
  BY DEF IInv, TypeOK
<1>5. putting[p] = {}
  BY DEF IInv, HandoffInv, RowsMatchTheirMessages
<1>6. \A tp \in Partitions : /\ next'[tp] \in Nat
                             /\ next[tp] <= next'[tp] /\ next'[tp] <= position'[tp]
  BY <1>1, <1>2, HeldRows DEF OnceInv
<1>. QED
  BY <1>2, <1>3, <1>4, <1>5, <1>6, OnceFrame

\* A refusal rewinds to the message that was refused, no further.
LEMMA OnceReject ==
  ASSUME IInv, OnceInv, replays = 0, NEW p \in Pollers, NEW tp \in Partitions,
         RecordFails(p, tp) \/ PutFull(p, tp)
  PROVE  OnceInv'
<1>1. Owner[tp] = p
  <2>1. CASE RecordFails(p, tp)
    BY <2>1 DEF RecordFails, Reading
  <2>2. CASE PutFull(p, tp)
    <3>1. PICK r \in putting[p] : TRUE
      BY <2>2 DEF PutFull, OnceInv
    <3>2. part[p] = {r.msg[1]} /\ Owner[r.msg[1]] = p /\ part[p] = {tp}
      BY <2>2 DEF PutFull, IInv, HandoffInv, RowsMatchTheirMessages
    <3>. QED
      BY <3>2
  <2>. QED
    BY <2>1, <2>2
<1>2. /\ UNCHANGED <<up, queue, busy, done, next>>
      /\ position' = [position EXCEPT ![tp] = next[tp]]
  BY DEF RecordFails, PutFull, Reject, workVars, obsVars
<1>3. /\ pc'[p] \notin {"dead", "put"} /\ \A q \in Pollers \ {p} : pc'[q] = pc[q]
      /\ putting'[p] = {} /\ \A q \in Pollers \ {p} : putting'[q] = putting[q]
  <2>1. CASE RecordFails(p, tp)
    BY <2>1 DEF RecordFails, Reading, IInv, TypeOK, HandoffInv, RowsMatchTheirMessages
  <2>2. CASE PutFull(p, tp)
    BY <2>2 DEF PutFull, IInv, TypeOK
  <2>. QED
    BY <2>1, <2>2
<1>4. ASSUME NEW q \in Partitions
      PROVE  /\ Owner[q] # p => position'[q] = position[q]
             /\ next'[q] \in Nat /\ next[q] <= next'[q] /\ next'[q] <= position'[q]
  <2>1. position \in [Partitions -> 0..LogLen]
    BY DEF IInv, TypeOK
  <2>2. position'[q] = IF q = tp THEN next[tp] ELSE position[q]
    BY <1>2, <2>1
  <2>. QED
    BY <1>1, <1>2, <2>2, HeldRows DEF OnceInv
<1>. QED
  BY <1>2, <1>3, <1>4, OnceFrame

\* Reading a message moves to the next, or leaves it for Put.
LEMMA OnceBatch ==
  ASSUME IInv, OnceInv, replays = 0, NEW p \in Pollers, NEW tp \in Partitions,
         DeadLetter(p, tp) \/ Record(p, tp)
  PROVE  OnceInv'
<1> USE DEF Reading, Remaining, brokerVars, workVars, faultVars
<1>1. CASE DeadLetter(p, tp)
  <2>1. /\ next[tp] \in Nat /\ next'[tp] = next[tp] + 1
        /\ \A q \in Partitions : /\ next[q] \in Nat /\ next'[q] \in Nat
                                 /\ q # tp => next'[q] = next[q]
    BY <1>1, AdvanceFacts DEF DeadLetter
  <2>2. Owner[tp] = p /\ next[tp] < position[tp] /\ pc[p] = "batch"
    BY <1>1 DEF DeadLetter
  <2>3. UNCHANGED <<up, queue, busy, done, pc, putting, position>>
    BY <1>1 DEF DeadLetter
  <2>4. putting[p] = {}
    BY <2>2 DEF IInv, HandoffInv, RowsMatchTheirMessages
  <2>5. \A q \in Partitions : /\ next'[q] \in Nat
                              /\ next[q] <= next'[q] /\ next'[q] <= position'[q]
    BY <2>1, <2>2, <2>3, HeldRows DEF OnceInv
  <2>. QED
    BY <2>1, <2>2, <2>3, <2>4, <2>5, OnceFrame
<1>2. CASE Record(p, tp)
  <2>1. Owner[tp] = p /\ Remaining(tp)
    BY <1>2 DEF Record
  <2>2. UNCHANGED <<up, queue, busy, done, next, position>>
    BY <1>2 DEF Record, obsVars
  <2>3. pc'[p] = "put" /\ \A q \in Pollers \ {p} : pc'[q] = pc[q]
    BY <1>2 DEF Record, IInv, TypeOK
  <2>4. /\ \A q \in Pollers \ {p} : putting'[q] = putting[q]
        /\ putting'[p] # {} /\ \A r \in putting'[p] : r.msg[1] = tp
    <3>1. PICK id \in Ids : putting' = [putting EXCEPT ![p] = {[id |-> id, msg |-> <<tp, next[tp]>>]}]
      BY <1>2 DEF Record, Current, NewIds
    <3> DEFINE new == [id |-> id, msg |-> <<tp, next[tp]>>]
    <3>2. putting'[p] = {new} /\ \A q \in Pollers \ {p} : putting'[q] = putting[q]
      BY <3>1 DEF IInv, TypeOK
    <3>3. new.msg[1] = tp
      OBVIOUS
    <3>. QED
      BY <3>2, <3>3
  <2>. QED
    BY <2>1, <2>2, <2>3, <2>4, OnceFrame, HeldRows DEF OnceInv
<1>. QED
  BY <1>1, <1>2

\* A batch that ends, committed or not, changes nothing the worker knows.
LEMMA OnceEnds ==
  ASSUME IInv, OnceInv, replays = 0, NEW p \in Pollers, Commit(p) \/ SkipCommit(p)
  PROVE  OnceInv'
<1>1. UNCHANGED <<up, queue, busy, done, next, position, putting>> /\ pc[p] = "batch"
  BY DEF Commit, SkipCommit, BatchDone, workVars, obsVars
<1>2. pc'[p] = "poll" /\ \A q \in Pollers \ {p} : pc'[q] = pc[q]
  BY DEF Commit, SkipCommit, IInv, TypeOK
<1>3. putting[p] = {}
  BY <1>1 DEF IInv, HandoffInv, RowsMatchTheirMessages
<1>4. \A q \in Partitions : /\ next'[q] \in Nat
                            /\ next[q] <= next'[q] /\ next'[q] <= position'[q]
  BY <1>1, HeldRows DEF OnceInv
<1>. QED
  BY <1>1, <1>2, <1>3, <1>4, OnceFrame

\* A poll that fails, short of the limit, changes nothing either.
LEMMA OncePollFails ==
  ASSUME IInv, OnceInv, replays = 0, NEW p \in Pollers, PollFails(p), replays' = 0
  PROVE  OnceInv'
<1> USE DEF PollFails
<1>1. UNCHANGED <<up, queue, busy, done, next, position, putting>> /\ pc[p] = "poll" /\ pc' = pc
  BY DEF workVars, obsVars
<1>2. putting[p] = {}
  BY <1>1 DEF IInv, HandoffInv, RowsMatchTheirMessages
<1>3. \A q \in Partitions : /\ next'[q] \in Nat
                            /\ next[q] <= next'[q] /\ next'[q] <= position'[q]
  BY <1>1, HeldRows DEF OnceInv
<1>. QED
  BY <1>1, <1>2, <1>3, OnceFrame

LEMMA OnceStep == IInv /\ OnceInv /\ [Next]_vars => OnceInv'
<1> SUFFICES ASSUME IInv, OnceInv, [Next]_vars, replays' = 0 PROVE OnceInv'
  BY DEF OnceInv
<1>0. replays \in Nat
  BY DEF IInv, TypeOK
<1>1. ASSUME NEW p \in Pollers, PollerStep(p) PROVE OnceInv'
  <2>1. replays = 0 /\ ~Rebalance(p) /\ ~CommitFails(p)
    <3>1. ~Rebalance(p) /\ ~CommitFails(p)
      BY <1>0 DEF Rebalance, CommitFails
    <3>2. CASE PollFails(p)
      BY <1>0, <3>1, <3>2 DEF PollFails
    <3>3. CASE ~PollFails(p)
      <4>1. replays' = replays
        BY <1>1, <3>1, <3>3 DEF PollerStep, Poll, DeadLetter, Record, RecordFails, Put, PutFull,
                                Commit, SkipCommit, faultVars
      <4>. QED
        BY <3>1, <4>1
    <3>. QED
      BY <3>2, <3>3
  <2>. QED
    BY <1>1, <2>1, OncePoll, OncePollFails, OnceBatch, OnceReject, OncePut, OnceEnds
       DEF PollerStep
<1>2. CASE Take \/ Handle \/ Forget
  <2>1. replays = 0
    BY <1>2 DEF Take, Handle, Forget, faultVars
  <2>. QED
    BY <1>2, <2>1, OnceWorker
<1>3. CASE Crash \/ MainExits \/ Restart
  <2>1. replays' = replays
    BY <1>0, <1>3 DEF Crash, MainExits, Restart, faultVars
  <2>2. up /\ pc[MainPoller] # "dead"
    BY <2>1 DEF OnceInv
  <2>3. ~Crash
    BY <1>0 DEF Crash
  <2>. QED
    BY <1>3, <2>2, <2>3 DEF MainExits, Restart
<1>4. CASE UNCHANGED vars
  BY <1>4 DEF vars, pollVars, workVars, obsVars, faultVars, OnceInv, NoDuplicateWork, Queued, Remaining
<1>. QED
  BY <1>1, <1>2, <1>3, <1>4 DEF Next

\* Without a crash, a rebalance or a dying poll loop nothing is delivered twice: a refusal
\* rewinds to exactly the message refused, and what is read again was not taken.
THEOREM NothingIsDeliveredTwice == Spec => []NoDuplicateWork
<1>1. Init => OnceInv
  <2> SUFFICES ASSUME Init PROVE OnceInv
    OBVIOUS
  <2>. QED
    BY DEF Init, OnceInv, NoDuplicateWork, Queued
<1>2. OnceInv /\ IInv => NoDuplicateWork
  BY DEF OnceInv, NoDuplicateWork
<1>. QED
  BY InitInv, NextInv, OnceStep, <1>1, <1>2, PTL DEF Spec

-----------------------------------------------------------------------------
(* The messages of a partition are taken in its order. *)

\* What has passed stays passed, within one life of the process.
LEMMA PassedGrows ==
  ASSUME NEW m, Passed(m),
         done \subseteq done', deadLetters \subseteq deadLetters', stranded \subseteq stranded'
  PROVE  Passed(m)'
BY DEF Passed

\* Steps that neither fill the queue nor read on leave what waits in order.
LEMMA QueueFrame ==
  ASSUME IInv, OrderInv, UNCHANGED <<queue, busy, stranded, up>>,
         done \subseteq done', deadLetters \subseteq deadLetters',
         \A tp \in Partitions : next'[tp] \in Nat /\ next'[tp] <= next[tp]
  PROVE  QueueInOrder' /\ ReadInOrder'
<1>0. Queued' = Queued /\ queue' = queue /\ busy' = busy /\ up' = up
  BY DEF Queued
<1>1. QueueInOrder'
  <2> SUFFICES ASSUME up', NEW i \in DOMAIN queue', NEW o \in 0..queue'[i].msg[2] - 1
               PROVE  \/ Passed(<<queue[i].msg[1], o>>)'
                      \/ \E s \in busy' : s.msg = <<queue'[i].msg[1], o>>
                      \/ \E j \in DOMAIN queue' : j < i /\ queue'[j].msg = <<queue'[i].msg[1], o>>
    BY DEF QueueInOrder
  <2>1. up /\ i \in DOMAIN queue /\ o \in 0..queue[i].msg[2] - 1
    BY <1>0
  <2>2. \/ Passed(<<queue[i].msg[1], o>>)
        \/ \E s \in busy : s.msg = <<queue[i].msg[1], o>>
        \/ \E j \in DOMAIN queue : j < i /\ queue[j].msg = <<queue[i].msg[1], o>>
    BY ONLY OrderInv, <2>1 DEF OrderInv, QueueInOrder
  <2>. QED
    BY <1>0, <2>2, PassedGrows
<1>2. ReadInOrder'
  <2> SUFFICES ASSUME up', NEW tp \in Partitions, NEW o \in 0..next'[tp] - 1
               PROVE  Passed(<<tp, o>>)' \/ \E s \in busy' \cup Queued' : s.msg = <<tp, o>>
    BY DEF ReadInOrder
  <2>1. o \in 0..next[tp] - 1
    BY HeldRows
  <2>2. Passed(<<tp, o>>) \/ \E s \in busy \cup Queued : s.msg = <<tp, o>>
    BY <2>1 DEF OrderInv, ReadInOrder
  <2>. QED
    BY <1>0, <2>2, PassedGrows
<1>. QED
  BY <1>1, <1>2

\* Steps that write no row, and delete none that another one is behind of, leave the
\* table's order alone.
LEMMA RowsStayInOrder ==
  ASSUME OrderInv, inbox' \subseteq inbox, done \subseteq done', deadLetters \subseteq deadLetters',
         \A p \in Pollers : putting'[p] \subseteq putting[p],
         \A s \in inbox : \/ s \in inbox'
                          \/ s.msg \in done'
                          \/ \A r \in inbox' : r.msg[1] = s.msg[1] => ~(s.id < r.id)
  PROVE  RowsInOrder' /\ SubmittedIsNewest'
<1>1. RowsInOrder'
  <2> SUFFICES ASSUME NEW r \in inbox', NEW o \in 0..r.msg[2] - 1
               PROVE  \/ <<r.msg[1], o>> \in done' \cup deadLetters'
                      \/ \E s \in inbox' : s.id < r.id /\ s.msg = <<r.msg[1], o>>
    BY DEF RowsInOrder
  <2>1. \/ <<r.msg[1], o>> \in done \cup deadLetters
        \/ \E s \in inbox : s.id < r.id /\ s.msg = <<r.msg[1], o>>
    BY DEF OrderInv, RowsInOrder
  <2>2. ASSUME NEW s \in inbox, s.id < r.id, s.msg = <<r.msg[1], o>>
        PROVE  s \in inbox' \/ s.msg \in done'
    <3>1. s.msg[1] = r.msg[1]
      BY <2>2
    <3>. QED
      BY <2>2, <3>1
  <2>. QED
    BY <2>1, <2>2
<1>2. SubmittedIsNewest'
  BY DEF OrderInv, SubmittedIsNewest
<1>. QED
  BY <1>1, <1>2

LEMMA OrderRecord ==
  ASSUME IInv, OrderInv, NEW p \in Pollers, NEW tp \in Partitions, Record(p, tp)
  PROVE  OrderInv'
<1> USE DEF Record, Reading, Current, workVars, obsVars
<1>1. PICK id \in Ids :
        /\ \A r \in inbox : r.id < id
        /\ inbox' = inbox \cup {[id |-> id, msg |-> Current(tp)]}
        /\ putting' = [putting EXCEPT ![p] = {[id |-> id, msg |-> Current(tp)]}]
  BY DEF NewIds
<1> DEFINE new == [id |-> id, msg |-> Current(tp)]
<1>2. new.id = id /\ new.msg[1] = tp /\ new.msg[2] = next[tp]
  OBVIOUS
<1>3. inbox' = inbox \cup {new} /\ \A r \in inbox : r.id < new.id
  BY <1>1
<1>4. putting'[p] = {new} /\ \A q \in Pollers \ {p} : putting'[q] = putting[q]
  BY <1>1 DEF IInv, TypeOK
<1> HIDE DEF new
<1>5. RowsInOrder'
  <2>1. ASSUME NEW r \in inbox, NEW o \in 0..r.msg[2] - 1
        PROVE  \/ <<r.msg[1], o>> \in done' \cup deadLetters'
               \/ \E s \in inbox' : s.id < r.id /\ s.msg = <<r.msg[1], o>>
    BY <1>3 DEF OrderInv, RowsInOrder
  <2>2. ASSUME NEW o \in 0..next[tp] - 1
        PROVE  \/ <<tp, o>> \in done' \cup deadLetters'
               \/ \E s \in inbox' : s.id < new.id /\ s.msg = <<tp, o>>
    <3>1. <<tp, o>> \in done \cup deadLetters \cup InboxMsgs
      BY DEF IInv, HandoffInv, CoveredUpToNext
    <3>. QED
      BY <1>3, <3>1 DEF InboxMsgs
  <2>. QED
    BY <1>2, <1>3, <2>1, <2>2 DEF RowsInOrder
<1>6. SubmittedIsNewest'
  <2>1. ASSUME NEW q \in Pollers \ {p}, NEW s \in putting[q]
        PROVE  s.msg[1] # tp
    BY <2>1 DEF IInv, HandoffInv, RowsMatchTheirMessages
  <2>2. ASSUME NEW q \in Pollers, NEW s \in putting'[q], NEW r \in inbox', r.msg[1] = s.msg[1]
        PROVE  r = s \/ r.id < s.id
    <3>1. CASE q = p
      BY <1>3, <1>4, <3>1
    <3>2. CASE q # p
      <4>1. s \in putting[q] /\ r # new
        BY <1>2, <1>4, <2>1, <2>2, <3>2
      <4>. QED
        BY <1>3, <2>2, <4>1 DEF OrderInv, SubmittedIsNewest
    <3>. QED
      BY <3>1, <3>2
  <2>. QED
    BY <2>2 DEF SubmittedIsNewest
<1>7. QueueInOrder' /\ ReadInOrder'
  BY HeldRows, QueueFrame
<1>. QED
  BY <1>5, <1>6, <1>7 DEF OrderInv

LEMMA OrderPut ==
  ASSUME IInv, OrderInv, NEW p \in Pollers, NEW tp \in Partitions, Put(p, tp)
  PROVE  OrderInv'
<1> USE DEF Put, storeVars, obsVars
<1>1. PICK r \in Row :
        /\ r.msg = <<tp, next[tp]>>
        /\ Len(queue) \in Nat /\ DOMAIN queue = 1..Len(queue)
        /\ DOMAIN queue' = 1..Len(queue) + 1
        /\ \A i \in DOMAIN queue : queue'[i] = queue[i]
        /\ queue'[Len(queue) + 1] = r /\ Queued' = Queued \cup {r}
  BY PutFacts
<1>2. /\ next[tp] \in Nat /\ next'[tp] = next[tp] + 1
      /\ \A q \in Partitions : /\ next[q] \in Nat /\ next'[q] \in Nat
                               /\ q # tp => next'[q] = next[q]
  BY AdvanceFacts
<1>3. RowsInOrder' /\ SubmittedIsNewest'
  <2>1. \A q \in Pollers : putting'[q] \subseteq putting[q]
    BY DEF IInv, TypeOK
  <2>. QED
    BY <2>1, RowsStayInOrder
<1>4. DOMAIN queue' = DOMAIN queue \cup {Len(queue) + 1} /\ \A i \in DOMAIN queue : i < Len(queue) + 1
  BY <1>1
<1>5. \A m : Passed(m)' <=> Passed(m)
  BY DEF Passed
<1>6. QueueInOrder'
  <2>1. ASSUME up, NEW i \in DOMAIN queue, NEW o \in 0..queue[i].msg[2] - 1
        PROVE  \/ Passed(<<queue[i].msg[1], o>>)
               \/ \E s \in busy : s.msg = <<queue[i].msg[1], o>>
               \/ \E j \in DOMAIN queue' : j < i /\ queue'[j].msg = <<queue[i].msg[1], o>>
    <3>1. \/ Passed(<<queue[i].msg[1], o>>)
          \/ \E s \in busy : s.msg = <<queue[i].msg[1], o>>
          \/ \E j \in DOMAIN queue : j < i /\ queue[j].msg = <<queue[i].msg[1], o>>
      BY <2>1 DEF OrderInv, QueueInOrder
    <3>2. \A j \in DOMAIN queue : j \in DOMAIN queue' /\ queue'[j] = queue[j]
      BY <1>1, <1>4
    <3>. QED
      BY <3>1, <3>2
  <2>2. ASSUME up, NEW o \in 0..next[tp] - 1
        PROVE  \/ Passed(<<tp, o>>)
               \/ \E s \in busy : s.msg = <<tp, o>>
               \/ \E j \in DOMAIN queue' : j < Len(queue) + 1 /\ queue'[j].msg = <<tp, o>>
    <3>1. Passed(<<tp, o>>) \/ \E s \in busy \cup Queued : s.msg = <<tp, o>>
      BY <2>2 DEF OrderInv, ReadInOrder
    <3>2. ASSUME NEW s \in Queued, s.msg = <<tp, o>>
          PROVE  \E j \in DOMAIN queue' : j < Len(queue) + 1 /\ queue'[j].msg = <<tp, o>>
      <4>1. PICK j \in DOMAIN queue : queue[j] = s
        BY DEF Queued
      <4>. QED
        BY <1>1, <1>4, <3>2, <4>1
    <3>. QED
      BY <3>1, <3>2
  <2>3. ASSUME up, NEW i \in DOMAIN queue', NEW o \in 0..queue'[i].msg[2] - 1
        PROVE  \/ Passed(<<queue'[i].msg[1], o>>)
               \/ \E s \in busy : s.msg = <<queue'[i].msg[1], o>>
               \/ \E j \in DOMAIN queue' : j < i /\ queue'[j].msg = <<queue'[i].msg[1], o>>
    <3>1. CASE i \in DOMAIN queue
      <4>1. queue'[i] = queue[i]
        BY <1>1, <3>1
      <4>. QED
        BY <2>1, <2>3, <3>1, <4>1
    <3>2. CASE i = Len(queue) + 1
      <4>1. queue'[i].msg[1] = tp /\ queue'[i].msg[2] = next[tp]
        BY <1>1, <3>2
      <4>. QED
        BY <2>2, <2>3, <3>2, <4>1
    <3>. QED
      BY <1>4, <3>1, <3>2
  <2>. QED
    BY <1>5, <2>3 DEF QueueInOrder
<1>7. ReadInOrder'
  <2> SUFFICES ASSUME up, NEW q \in Partitions, NEW o \in 0..next'[q] - 1
               PROVE  Passed(<<q, o>>)' \/ \E s \in busy \cup Queued' : s.msg = <<q, o>>
    BY DEF ReadInOrder
  <2>1. o \in 0..next[q] - 1 \/ (q = tp /\ o = next[tp])
    BY <1>2
  <2>2. CASE o \in 0..next[q] - 1
    BY <1>1, <1>5, <2>2 DEF OrderInv, ReadInOrder
  <2>3. CASE q = tp /\ o = next[tp]
    BY <1>1, <2>3
  <2>. QED
    BY <2>1, <2>2, <2>3
<1>. QED
  BY <1>3, <1>6, <1>7 DEF OrderInv

LEMMA OrderDeadLetter ==
  ASSUME IInv, OrderInv, NEW p \in Pollers, NEW tp \in Partitions, DeadLetter(p, tp)
  PROVE  OrderInv'
<1> USE DEF DeadLetter, Current, workVars, storeVars
<1>1. /\ next[tp] \in Nat /\ next'[tp] = next[tp] + 1
      /\ \A q \in Partitions : /\ next[q] \in Nat /\ next'[q] \in Nat
                               /\ q # tp => next'[q] = next[q]
  BY AdvanceFacts
<1>2. done' = done /\ deadLetters' = deadLetters \cup {<<tp, next[tp]>>}
  OBVIOUS
<1>3. RowsInOrder' /\ SubmittedIsNewest'
  BY <1>2, RowsStayInOrder
<1>4. QueueInOrder'
  BY <1>2, PassedGrows DEF OrderInv, QueueInOrder
<1>5. ReadInOrder'
  <2> SUFFICES ASSUME up, NEW q \in Partitions, NEW o \in 0..next'[q] - 1
               PROVE  Passed(<<q, o>>)' \/ \E s \in busy \cup Queued : s.msg = <<q, o>>
    BY DEF ReadInOrder, Queued
  <2>1. o \in 0..next[q] - 1 \/ (q = tp /\ o = next[tp])
    BY <1>1
  <2>2. CASE o \in 0..next[q] - 1
    <3>1. Passed(<<q, o>>) \/ \E s \in busy \cup Queued : s.msg = <<q, o>>
      BY <2>2 DEF OrderInv, ReadInOrder
    <3>. QED
      BY <1>2, <3>1, PassedGrows
  <2>3. CASE q = tp /\ o = next[tp]
    BY <1>2, <2>3 DEF Passed
  <2>. QED
    BY <2>1, <2>2, <2>3
<1>. QED
  BY <1>3, <1>4, <1>5 DEF OrderInv

\* The full queue takes back the newest row, which no other is behind of.
LEMMA OrderPutFull ==
  ASSUME IInv, OrderInv, NEW p \in Pollers, NEW tp \in Partitions, PutFull(p, tp)
  PROVE  OrderInv'
<1> USE DEF PutFull, workVars
<1>1. putting[p] \in SUBSET inbox
  BY DEF IInv, HandoffInv, OneRowOneHolder
<1>2. inbox' \subseteq inbox /\ inbox \ putting[p] \subseteq inbox'
  BY <1>1, DiscardRows
<1>3. \A q \in Pollers : putting'[q] \subseteq putting[q]
  BY DEF IInv, TypeOK
<1>4. ASSUME NEW s \in inbox, s \notin inbox', NEW r \in inbox', r.msg[1] = s.msg[1]
      PROVE  ~(s.id < r.id)
  <2>1. s \in putting[p] /\ r \in inbox /\ r.id \in Nat /\ s.id \in Nat
    BY <1>2, <1>4, HeldRows, RowParts
  <2>2. r = s \/ r.id < s.id
    BY <1>4, <2>1 DEF OrderInv, SubmittedIsNewest
  <2>. QED
    BY <2>1, <2>2
<1>5. RowsInOrder' /\ SubmittedIsNewest'
  BY <1>2, <1>3, <1>4, RowsStayInOrder
<1>6. QueueInOrder' /\ ReadInOrder'
  BY HeldRows, QueueFrame
<1>. QED
  BY <1>5, <1>6 DEF OrderInv

\* A poll goes on no further than what was read, and the other steps of a poll loop
\* leave the rows and the queue alone.
LEMMA OrderPollLoop ==
  ASSUME IInv, OrderInv, NEW p \in Pollers,
         \/ Poll(p) \/ PollFails(p) \/ Rebalance(p)
         \/ \E tp \in Partitions : RecordFails(p, tp)
         \/ Commit(p) \/ CommitFails(p) \/ SkipCommit(p)
  PROVE  OrderInv'
<1>1. UNCHANGED <<queue, busy, handled, up, inbox, done, deadLetters, leaked, stranded, putting>>
  BY DEF Poll, PollFails, Rebalance, RecordFails, Commit, CommitFails, SkipCommit,
         workVars, storeVars, obsVars
<1>2. ASSUME NEW tp \in Partitions
      PROVE  next'[tp] \in Nat /\ next'[tp] <= next[tp]
  <2>1. CASE Poll(p)
    <3>1. next'[tp] = (IF Owner[tp] = p THEN position[tp] ELSE next[tp])
      BY <2>1 DEF Poll, BatchStart
    <3>2. Owner[tp] = p => position[tp] <= next[tp]
      BY <2>1 DEF Poll, IInv, HandoffInv, CoveredUpToNext
    <3>. QED
      BY <3>1, <3>2, HeldRows
  <2>2. CASE ~Poll(p)
    <3>1. next' = next
      BY <2>2 DEF PollFails, Rebalance, RecordFails, Commit, CommitFails, SkipCommit
    <3>. QED
      BY <3>1, HeldRows
  <2>. QED
    BY <2>1, <2>2
<1>3. RowsInOrder' /\ SubmittedIsNewest'
  BY <1>1, RowsStayInOrder
<1>4. QueueInOrder' /\ ReadInOrder'
  BY <1>1, <1>2, QueueFrame
<1>. QED
  BY <1>3, <1>4 DEF OrderInv

\* The worker takes the head: what was before the others still is, or is with it.
LEMMA OrderTake ==
  ASSUME IInv, OrderInv, Take
  PROVE  OrderInv'
<1> USE DEF Take, pollVars, storeVars, obsVars
<1>1. /\ Len(queue) \in Nat \ {0} /\ DOMAIN queue = 1..Len(queue)
      /\ DOMAIN queue' = 1..Len(queue) - 1
      /\ \A i \in DOMAIN queue' : i + 1 \in DOMAIN queue /\ queue'[i] = queue[i + 1]
      /\ busy = {} /\ busy' = {queue[1]}
      /\ Queued' \subseteq Queued /\ Queued \subseteq Queued' \cup busy'
  BY TakeFacts
<1>2. \A m : Passed(m)' <=> Passed(m)
  BY DEF Passed
<1>3. RowsInOrder' /\ SubmittedIsNewest'
  BY RowsStayInOrder
<1>4. QueueInOrder'
  <2> SUFFICES ASSUME up, NEW i \in DOMAIN queue', NEW o \in 0..queue'[i].msg[2] - 1
               PROVE  \/ Passed(<<queue'[i].msg[1], o>>)
                      \/ \E s \in busy' : s.msg = <<queue'[i].msg[1], o>>
                      \/ \E j \in DOMAIN queue' : j < i /\ queue'[j].msg = <<queue'[i].msg[1], o>>
    BY <1>2 DEF QueueInOrder
  <2>1. i + 1 \in DOMAIN queue /\ queue'[i] = queue[i + 1]
    BY <1>1
  <2>2. \/ Passed(<<queue[i + 1].msg[1], o>>)
        \/ \E s \in busy : s.msg = <<queue[i + 1].msg[1], o>>
        \/ \E j \in DOMAIN queue : j < i + 1 /\ queue[j].msg = <<queue[i + 1].msg[1], o>>
    BY <2>1 DEF OrderInv, QueueInOrder
  <2>3. ASSUME NEW j \in DOMAIN queue, j < i + 1, queue[j].msg = <<queue'[i].msg[1], o>>
        PROVE  \/ \E s \in busy' : s.msg = <<queue'[i].msg[1], o>>
               \/ \E k \in DOMAIN queue' : k < i /\ queue'[k].msg = <<queue'[i].msg[1], o>>
    <3>1. CASE j = 1
      BY <1>1, <2>3, <3>1
    <3>2. CASE j # 1
      <4>1. j - 1 \in DOMAIN queue' /\ j - 1 < i /\ (j - 1) + 1 = j
        BY <1>1, <2>3, <3>2
      <4>2. queue'[j - 1] = queue[j]
        BY <1>1, <4>1
      <4>. QED
        BY <2>3, <4>1, <4>2
    <3>. QED
      BY <3>1, <3>2
  <2>. QED
    BY <1>1, <2>1, <2>2, <2>3
<1>5. ReadInOrder'
  BY <1>1, <1>2 DEF OrderInv, ReadInOrder
<1>. QED
  BY <1>3, <1>4, <1>5 DEF OrderInv

\* The row that is forgotten is that of a handled message.
LEMMA OrderForget ==
  ASSUME IInv, OrderInv, Forget
  PROVE  OrderInv'
<1> USE DEF Forget, pollVars
<1>1. /\ busy \in SUBSET inbox /\ {s.msg : s \in busy} \subseteq done
      /\ done' = done /\ deadLetters' = deadLetters /\ stranded' = stranded /\ busy' = {}
  BY DEF IInv, HandoffInv, OneRowOneHolder, RowsMatchTheirMessages
<1>2. inbox' \subseteq inbox /\ inbox \ busy \subseteq inbox'
  BY <1>1, DiscardRows
<1>3. RowsInOrder' /\ SubmittedIsNewest'
  BY <1>1, <1>2, RowsStayInOrder
<1>4. \A m : Passed(m)' <=> Passed(m)
  BY DEF Passed
<1>5. \A s \in busy : Passed(s.msg)
  BY <1>1 DEF Passed
<1>6. QueueInOrder'
  BY <1>4, <1>5 DEF OrderInv, QueueInOrder
<1>7. ReadInOrder'
  <2>1. Queued' = Queued
    BY DEF Queued
  <2>. QED
    BY <2>1, <1>1, <1>4, <1>5 DEF OrderInv, ReadInOrder
<1>. QED
  BY <1>3, <1>6, <1>7 DEF OrderInv

LEMMA OrderHandle ==
  ASSUME IInv, OrderInv, Handle
  PROVE  OrderInv'
<1> USE DEF Handle, pollVars, storeVars
<1>1. RowsInOrder' /\ SubmittedIsNewest'
  BY RowsStayInOrder
<1>2. QueueInOrder' /\ ReadInOrder'
  BY HeldRows, QueueFrame
<1>. QED
  BY <1>1, <1>2 DEF OrderInv

\* A process that has ended has no queue; its rows are still in order.
LEMMA OrderLose ==
  ASSUME IInv, OrderInv, Lose
  PROVE  OrderInv'
<1> USE DEF Lose, storeVars
<1>1. RowsInOrder' /\ SubmittedIsNewest'
  BY RowsStayInOrder
<1>2. QueueInOrder' /\ ReadInOrder'
  BY DEF QueueInOrder, ReadInOrder
<1>. QED
  BY <1>1, <1>2 DEF OrderInv

\* restore_pending reads the rows oldest first, so those it leaves are the newest.
LEMMA OrderRestart ==
  ASSUME IInv, OrderInv, Restart
  PROVE  OrderInv'
<1> USE DEF Restart, pollVars, storeVars
<1>1. PICK q \in RestoredQueues :
        queue' = q /\ stranded' = {r \in inbox : \A i \in DOMAIN q : q[i] # r}
  OBVIOUS
<1>2. /\ \A i \in DOMAIN q : q[i] \in inbox /\ i \in Int
      /\ \A i, j \in DOMAIN q : i < j => q[i].id < q[j].id
      /\ \A i \in DOMAIN q, r \in inbox : r.id < q[i].id => \E j \in DOMAIN q : q[j] = r
  BY DEF RestoredQueues
<1>3. RowsInOrder' /\ SubmittedIsNewest'
  BY RowsStayInOrder
<1>4. QueueInOrder'
  <2> SUFFICES ASSUME NEW i \in DOMAIN q, NEW o \in 0..q[i].msg[2] - 1
               PROVE  \/ Passed(<<q[i].msg[1], o>>)'
                      \/ \E j \in DOMAIN q : j < i /\ q[j].msg = <<q[i].msg[1], o>>
    BY <1>1 DEF QueueInOrder
  <2>1. \/ <<q[i].msg[1], o>> \in done \cup deadLetters
        \/ \E s \in inbox : s.id < q[i].id /\ s.msg = <<q[i].msg[1], o>>
    BY <1>2 DEF OrderInv, RowsInOrder
  <2>2. ASSUME NEW s \in inbox, s.id < q[i].id, s.msg = <<q[i].msg[1], o>>
        PROVE  \E j \in DOMAIN q : j < i /\ q[j].msg = <<q[i].msg[1], o>>
    <3>1. PICK j \in DOMAIN q : q[j] = s
      BY <1>2, <2>2
    <3>2. q[j].id \in Nat /\ q[i].id \in Nat /\ q[j].id < q[i].id
      BY <1>2, <2>2, <3>1, HeldRows, RowParts
    <3>3. j # i /\ ~(i < j)
      BY <1>2, <3>2
    <3>. QED
      BY <1>2, <2>2, <3>1, <3>3
  <2>. QED
    BY <2>1, <2>2 DEF Passed
<1>5. ReadInOrder'
  <2> SUFFICES ASSUME NEW tp \in Partitions, NEW o \in 0..next[tp] - 1
               PROVE  Passed(<<tp, o>>)' \/ \E s \in Queued' : s.msg = <<tp, o>>
    BY DEF ReadInOrder
  <2>1. <<tp, o>> \in done \cup deadLetters \cup InboxMsgs
    BY DEF IInv, HandoffInv, CoveredUpToNext
  <2>2. inbox \subseteq Queued' \cup stranded'
    BY <1>1 DEF Queued
  <2>. QED
    BY <2>1, <2>2 DEF Passed, InboxMsgs
<1>. QED
  BY <1>3, <1>4, <1>5 DEF OrderInv

LEMMA OrderStep == IInv /\ OrderInv /\ [Next]_vars => OrderInv'
<1> SUFFICES ASSUME IInv, OrderInv, [Next]_vars PROVE OrderInv'
  OBVIOUS
<1>1. ASSUME NEW p \in Pollers, PollerStep(p) PROVE OrderInv'
  BY <1>1, OrderPollLoop, OrderDeadLetter, OrderRecord, OrderPut, OrderPutFull DEF PollerStep
<1>2. CASE Take \/ Handle \/ Forget
  BY <1>2, OrderTake, OrderHandle, OrderForget
<1>3. CASE Crash \/ MainExits \/ Restart
  BY <1>3, OrderLose, OrderRestart DEF Crash, MainExits
<1>4. CASE UNCHANGED vars
  <2> USE <1>4 DEF vars, pollVars, workVars, storeVars, obsVars
  <2>1. RowsInOrder' /\ SubmittedIsNewest'
    BY RowsStayInOrder
  <2>2. QueueInOrder' /\ ReadInOrder'
    BY HeldRows, QueueFrame
  <2>. QED
    BY <2>1, <2>2 DEF OrderInv
<1>. QED
  BY <1>1, <1>2, <1>3, <1>4 DEF Next

\* The worker first executes the messages of a partition in the partition's order: none
\* overtakes a refused, a redelivered or a recovered one, except one that
\* restore_pending left stranded.
THEOREM NothingOvertakes == Spec => TakenInOrder
<1>1. Init => OrderInv
  <2> SUFFICES ASSUME Init PROVE OrderInv
    OBVIOUS
  <2>. QED
    BY DEF Init, OrderInv, RowsInOrder, SubmittedIsNewest, QueueInOrder, ReadInOrder
<1>2. ASSUME IInv, OrderInv, [Next]_vars
      PROVE  [\A r \in busy' \ busy : \A o \in 0..r.msg[2] - 1 :
                 <<r.msg[1], o>> \in done \cup deadLetters \cup {s.msg : s \in stranded}]_vars
  <2>1. CASE Take
    <3>1. /\ up /\ Len(queue) \in Nat \ {0} /\ DOMAIN queue = 1..Len(queue)
          /\ busy = {} /\ busy' = {queue[1]}
      BY <2>1, TakeFacts DEF Take
    <3>2. ASSUME NEW i \in DOMAIN queue, i = 1, NEW o \in 0..queue[i].msg[2] - 1
          PROVE  Passed(<<queue[i].msg[1], o>>)
      <4>1. \/ Passed(<<queue[i].msg[1], o>>)
            \/ \E s \in busy : s.msg = <<queue[i].msg[1], o>>
            \/ \E j \in DOMAIN queue : j < i /\ queue[j].msg = <<queue[i].msg[1], o>>
        BY <1>2, <3>1 DEF OrderInv, QueueInOrder
      <4>2. \A j \in DOMAIN queue : ~(j < i)
        BY <3>1, <3>2
      <4>. QED
        BY <3>1, <4>1, <4>2
    <3>3. 1 \in DOMAIN queue
      BY <3>1
    <3>. QED
      BY <3>1, <3>2, <3>3 DEF Passed
  <2>2. CASE ~Take
    <3>1. busy' \subseteq busy
      BY <1>2, <2>2 DEF Next, PollerStep, Poll, PollFails, Rebalance, DeadLetter, Record,
         RecordFails, Put, PutFull, Commit, CommitFails, SkipCommit, Handle, Forget, Crash,
         MainExits, Lose, Restart, vars, workVars
    <3>. QED
      BY <3>1
  <2>. QED
    BY <2>1, <2>2
<1>. QED
  BY InitInv, NextInv, OrderStep, <1>1, <1>2, PTL DEF Spec, TakenInOrder
=============================================================================
