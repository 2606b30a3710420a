------------------------------- MODULE Handoff -------------------------------
(***************************************************************************)
(* The hand-off of Kafka messages to the worker: consumer.poll_loop (one   *)
(* instance per consumer thread), Worker.submit, Worker.run_forever,       *)
(* Worker.restore_pending and the durable inbox of inbox.py, with the      *)
(* crashes and the restart sequence of main.py around them.                *)
(*                                                                         *)
(* A partition's log is immutable and read by offset.  The messages of the *)
(* batch a poll loop is processing are those from next[tp] up to           *)
(* position[tp] - 1: poll() has advanced the consumer's position past the  *)
(* whole batch, and only a seek moves it back.                             *)
(*                                                                         *)
(* External (kafka-python and the broker, PostgreSQL): poll returns, for   *)
(* each partition that is not paused, some run of messages from the        *)
(* consumer's position; commit stores the positions; a rebalance (a topic  *)
(* newly matching the subscribed pattern causes one) resets every          *)
(* partition of the consumer to its committed offset and forgets pauses;   *)
(* any database call may fail.                                             *)
(***************************************************************************)
EXTENDS Integers, Sequences, FiniteSets

CONSTANTS
  Pollers,          \* the poll-loop threads: one per Kafka consumer
  MainPoller,       \* the poll loop that runs on the main thread (triggers)
  Partitions,       \* the topic partitions the consumers are assigned
  Owner,            \* the poll loop that consumes each partition
  LogLen,           \* BOUND: messages in each partition's log
  Poison,           \* the messages parse() rejects with InvalidMessage
  QueueMax,         \* WORK_QUEUE_MAXSIZE
  MaxPollFailures,  \* MAX_CONSECUTIVE_POLL_FAILURES
  Ids,              \* BOUND: the values the inbox's BIGSERIAL gives
  MaxReplays,       \* BOUND: crashes, dying poll loops and rebalances, together
  MaxDbFaults       \* BOUND: failing inbox writes

Offsets  == 0..LogLen - 1
Messages == Partitions \X Offsets
Row      == [id : Ids, msg : Messages]

\* WORK_QUEUE_RESUME_THRESHOLD
ResumeThreshold == QueueMax \div 2

ASSUME HandoffAssumption ==
  /\ MainPoller \in Pollers
  /\ Owner \in [Partitions -> Pollers]
  /\ LogLen \in Nat
  /\ Poison \subseteq Messages
  /\ QueueMax \in Nat \ {0}
  /\ MaxPollFailures \in Nat \ {0}
  /\ Ids \subseteq Nat
  /\ MaxReplays \in Nat
  /\ MaxDbFaults \in Nat

VARIABLES
  \* The broker.
  committed,  \* committed[tp]: the offset the consumer group resumes from
  \* One poll loop per poller; lost in a crash.
  pc,         \* "poll": top of the loop, "batch": in the for loops,
              \* "put": recorded, about to put_nowait, "dead": it raised
  position,   \* position[tp]: the next offset poll() will fetch
  next,       \* next[tp]: the next message of the batch to process
  part,       \* part[p]: the partition whose messages p is going through, if any
  paused,     \* the partitions paused by backpressure
  accepted,   \* accepted[p]: accepted_everything
  failures,   \* failures[p]: consecutive_failures
  putting,    \* putting[p]: the row recorded for the work being submitted, if any
  \* The worker; lost in a crash.
  queue,      \* the work queue: rows, oldest first
  busy,       \* the row whose work the worker has taken, if any
  handled,    \* the worker is past the handler of busy, about to forget its row
  up,         \* the process is running
  \* PostgreSQL.
  inbox,      \* the rows of work_inbox
  \* Observations.
  done,       \* the messages whose handler has run
  deadLetters,\* the messages forwarded to the DLQ
  leaked,     \* ids of rows whose DELETE failed
  stranded,   \* rows restore_pending left in the inbox, this start
  \* The faults spent.
  replays, dbFaults

brokerVars == <<committed>>
pollVars   == <<pc, position, next, part, paused, accepted, failures, putting>>
workVars   == <<queue, busy, handled>>
storeVars  == <<inbox>>
obsVars    == <<done, deadLetters, leaked, stranded>>
faultVars  == <<replays, dbFaults>>
vars == <<brokerVars, pollVars, workVars, up, storeVars, obsVars, faultVars>>

PartitionsOf(p) == {tp \in Partitions : Owner[tp] = p}

\* Whether p's batch still has messages in partition tp.
Remaining(tp) == next[tp] < position[tp]

\* The rows a DELETE of the given ids leaves behind.
Without(rows, ids) == {r \in rows : r.id \notin ids}

-----------------------------------------------------------------------------
Init ==
  /\ committed = [tp \in Partitions |-> 0]
  /\ pc = [p \in Pollers |-> "poll"]
  /\ position = [tp \in Partitions |-> 0]
  /\ next = [tp \in Partitions |-> 0]
  /\ part = [p \in Pollers |-> {}]
  /\ paused = {}
  /\ accepted = [p \in Pollers |-> TRUE]
  /\ failures = [p \in Pollers |-> 0]
  /\ putting = [p \in Pollers |-> {}]
  /\ queue = << >>
  /\ busy = {}
  /\ handled = FALSE
  /\ up = TRUE
  /\ inbox = {}
  /\ done = {}
  /\ deadLetters = {}
  /\ leaked = {}
  /\ stranded = {}
  /\ replays = 0
  /\ dbFaults = 0

-----------------------------------------------------------------------------
(* The poll loop. *)

\* Worker.has_capacity
HasCapacity == Len(queue) <= ResumeThreshold

\* Mutant: partitions are never resumed.
PausedAfterResume_Never(p) == paused

\* _resume_drained_partitions, called at the top of every iteration.
PausedAfterResume(p) == IF HasCapacity THEN paused \ PartitionsOf(p) ELSE paused

\* What poll() may return: a position no smaller than before for each of p's
\* partitions, unchanged for those that are paused.
Fetches(p) ==
  {f \in [Partitions -> 0..LogLen] :
     \A tp \in Partitions :
       /\ f[tp] >= position[tp]
       /\ tp \notin PartitionsOf(p) \/ tp \in PausedAfterResume(p) => f[tp] = position[tp]}

\* The batch of each of p's partitions begins where the consumer stood.
BatchStart(p) == [tp \in Partitions |-> IF Owner[tp] = p THEN position[tp] ELSE next[tp]]

\* Mutant: auto-commit, so the offsets go out with the fetch.
Poll_AutoCommit(p) ==
  /\ up /\ pc[p] = "poll"
  /\ paused' = PausedAfterResume(p)
  /\ position' \in Fetches(p)
  /\ next' = BatchStart(p)
  /\ committed' = [tp \in Partitions |-> IF Owner[tp] = p THEN position'[tp] ELSE committed[tp]]
  /\ pc' = [pc EXCEPT ![p] = IF position' = position THEN "poll" ELSE "batch"]
  /\ UNCHANGED <<part, accepted, failures, putting, workVars, up, storeVars, obsVars, faultVars>>

\* One iteration's poll(): resume what has drained, fetch, reset the failure
\* count.  An empty result goes back to the top of the loop, with no commit.
Poll(p) ==
  /\ up /\ pc[p] = "poll"
  /\ paused' = PausedAfterResume(p)
  /\ position' \in Fetches(p)
  /\ next' = BatchStart(p)
  /\ pc' = [pc EXCEPT ![p] = IF position' = position THEN "poll" ELSE "batch"]
  /\ accepted' = [accepted EXCEPT ![p] = TRUE]
  /\ failures' = [failures EXCEPT ![p] = 0]
  /\ UNCHANGED <<brokerVars, part, putting, workVars, up, storeVars, obsVars, faultVars>>

\* poll() raises: counted, retried after a pause, and at the limit re-raised,
\* which ends this thread's loop.
PollFails(p) ==
  /\ up /\ pc[p] = "poll"
  /\ paused' = PausedAfterResume(p)
  /\ failures' = [failures EXCEPT ![p] = @ + 1]
  /\ IF failures[p] + 1 >= MaxPollFailures
     THEN /\ replays < MaxReplays
          /\ replays' = replays + 1
          /\ pc' = [pc EXCEPT ![p] = "dead"]
     ELSE UNCHANGED <<pc, replays>>
  /\ UNCHANGED <<brokerVars, position, next, part, accepted, putting, workVars, up,
                 storeVars, obsVars, dbFaults>>

\* Inside poll(): the group rebalances, so the consumer's partitions start again
\* at their committed offsets, with nothing paused.
Rebalance(p) ==
  /\ up /\ pc[p] = "poll"
  /\ replays < MaxReplays
  /\ replays' = replays + 1
  /\ position' = [tp \in Partitions |-> IF Owner[tp] = p THEN committed[tp] ELSE position[tp]]
  /\ paused' = paused \ PartitionsOf(p)
  /\ UNCHANGED <<brokerVars, pc, next, part, accepted, failures, putting, workVars, up,
                 storeVars, obsVars, dbFaults>>

\* p is in the for loops and tp is the partition whose next message it reads: the
\* one it has begun, or any other of the batch when it has finished that one.
Reading(p, tp) ==
  /\ up /\ pc[p] = "batch"
  /\ Owner[tp] = p
  /\ Remaining(tp)
  /\ part[p] \subseteq {tp}

Current(tp) == <<tp, next[tp]>>

\* The message of tp has been dealt with: the inner loop goes on to the next.
Advance(p, tp) ==
  /\ next' = [next EXCEPT ![tp] = @ + 1]
  /\ part' = [part EXCEPT ![p] = IF next[tp] + 1 < position[tp] THEN {tp} ELSE {}]

\* Mutant: rewinds to the start of what is uncommitted, not to the refused message.
Reject_RewindsTooFar(p, tp) ==
  /\ position' = [position EXCEPT ![tp] = committed[tp]]
  /\ paused' = paused \cup {tp}
  /\ accepted' = [accepted EXCEPT ![p] = FALSE]
  /\ part' = [part EXCEPT ![p] = {}]

\* submit returned False: rewind to the message, pause its partition, leave the
\* inner loop, and remember not to commit.
Reject(p, tp) ==
  /\ position' = [position EXCEPT ![tp] = next[tp]]
  /\ paused' = paused \cup {tp}
  /\ accepted' = [accepted EXCEPT ![p] = FALSE]
  /\ part' = [part EXCEPT ![p] = {}]

\* parse() raises InvalidMessage: the message goes to the DLQ.
DeadLetter(p, tp) ==
  /\ Reading(p, tp)
  /\ Current(tp) \in Poison
  /\ deadLetters' = deadLetters \cup {Current(tp)}
  /\ Advance(p, tp)
  /\ UNCHANGED <<brokerVars, pc, position, paused, accepted, failures, putting, workVars,
                 up, storeVars, done, leaked, stranded, faultVars>>

\* The id of a new row: above the id of every row there is.  The sequence never
\* reuses a value, but ids are only compared with those of rows that exist, so the
\* least such id stands for whichever the sequence gives.
NewIds == {id \in Ids : /\ \A r \in inbox : r.id < id
                       /\ \A k \in Ids : k < id => \E r \in inbox : k <= r.id}

\* submit, first half: the work is written to the inbox.
Record(p, tp) ==
  /\ Reading(p, tp)
  /\ Current(tp) \notin Poison
  /\ \E id \in NewIds :
       /\ inbox' = inbox \cup {[id |-> id, msg |-> Current(tp)]}
       /\ putting' = [putting EXCEPT ![p] = {[id |-> id, msg |-> Current(tp)]}]
  /\ part' = [part EXCEPT ![p] = {tp}]
  /\ pc' = [pc EXCEPT ![p] = "put"]
  /\ UNCHANGED <<brokerVars, position, next, paused, accepted, failures, workVars, up,
                 obsVars, faultVars>>

\* submit, first half: the INSERT fails, so the work is refused.
RecordFails(p, tp) ==
  /\ Reading(p, tp)
  /\ Current(tp) \notin Poison
  /\ dbFaults < MaxDbFaults
  /\ dbFaults' = dbFaults + 1
  /\ Reject(p, tp)
  /\ UNCHANGED <<brokerVars, pc, next, failures, putting, workVars, up, storeVars,
                 obsVars, replays>>

\* submit, second half: put_nowait finds room.
Put(p, tp) ==
  /\ up /\ pc[p] = "put" /\ part[p] = {tp}
  /\ Len(queue) < QueueMax
  /\ \E r \in putting[p] : queue' = Append(queue, r)
  /\ putting' = [putting EXCEPT ![p] = {}]
  /\ pc' = [pc EXCEPT ![p] = "batch"]
  /\ Advance(p, tp)
  /\ UNCHANGED <<brokerVars, position, paused, accepted, failures, busy, handled, up,
                 storeVars, obsVars, faultVars>>

\* Mutant: the row is never deleted.
Discard_Never(rows) == UNCHANGED <<inbox, leaked, dbFaults>>

\* Inbox.discard of the given rows: never raises, and may leave them behind.
Discard(rows) ==
  LET ids == {r.id : r \in rows} IN
  \/ /\ inbox' = Without(inbox, ids)
     /\ UNCHANGED <<leaked, dbFaults>>
  \/ /\ dbFaults < MaxDbFaults
     /\ dbFaults' = dbFaults + 1
     /\ leaked' = leaked \cup ids
     /\ UNCHANGED inbox

\* submit, second half: put_nowait raises Full; the row is forgotten, the work
\* refused.
PutFull(p, tp) ==
  /\ up /\ pc[p] = "put" /\ part[p] = {tp}
  /\ Len(queue) >= QueueMax
  /\ Discard(putting[p])
  /\ putting' = [putting EXCEPT ![p] = {}]
  /\ pc' = [pc EXCEPT ![p] = "batch"]
  /\ Reject(p, tp)
  /\ UNCHANGED <<brokerVars, next, failures, workVars, up, done, deadLetters,
                 stranded, replays>>

BatchDone(p) ==
  /\ up /\ pc[p] = "batch"
  /\ \A tp \in PartitionsOf(p) : ~Remaining(tp)

\* End of the batch with everything accepted: commit every position.
Commit(p) ==
  /\ BatchDone(p)
  /\ accepted[p]
  /\ committed' = [tp \in Partitions |-> IF Owner[tp] = p THEN position[tp] ELSE committed[tp]]
  /\ pc' = [pc EXCEPT ![p] = "poll"]
  /\ UNCHANGED <<position, next, part, paused, accepted, failures, putting, workVars, up,
                 storeVars, obsVars, faultVars>>

\* commit() raises, and nothing in the loop catches it.
CommitFails(p) ==
  /\ BatchDone(p)
  /\ accepted[p]
  /\ replays < MaxReplays
  /\ replays' = replays + 1
  /\ pc' = [pc EXCEPT ![p] = "dead"]
  /\ UNCHANGED <<brokerVars, position, next, part, paused, accepted, failures, putting,
                 workVars, up, storeVars, obsVars, dbFaults>>

\* End of the batch with something refused: no commit at all.
SkipCommit(p) ==
  /\ BatchDone(p)
  /\ ~accepted[p]
  /\ pc' = [pc EXCEPT ![p] = "poll"]
  /\ UNCHANGED <<brokerVars, position, next, part, paused, accepted, failures, putting,
                 workVars, up, storeVars, obsVars, faultVars>>

-----------------------------------------------------------------------------
(* The worker thread, run_forever. *)

\* Mutant: the row is forgotten when the work is taken, not when it is finished.
Take_Forgets ==
  /\ up /\ busy = {} /\ queue # << >>
  /\ busy' = {Head(queue)}
  /\ queue' = Tail(queue)
  /\ inbox' = Without(inbox, {Head(queue).id})
  /\ UNCHANGED <<brokerVars, pollVars, handled, up, obsVars, faultVars>>

\* queue.get returns the oldest item.
Take ==
  /\ up /\ busy = {} /\ queue # << >>
  /\ busy' = {Head(queue)}
  /\ queue' = Tail(queue)
  /\ UNCHANGED <<brokerVars, pollVars, handled, up, storeVars, obsVars, faultVars>>

\* handle_trigger or handle_decision returns, or raises and is logged.
Handle ==
  /\ up /\ busy # {} /\ ~handled
  /\ handled' = TRUE
  /\ done' = done \cup {r.msg : r \in busy}
  /\ UNCHANGED <<brokerVars, pollVars, queue, busy, up, storeVars, deadLetters, leaked,
                 stranded, faultVars>>

\* The finally clause: _forget the row whatever the handler did.
Forget ==
  /\ up /\ busy # {} /\ handled
  /\ Discard(busy)
  /\ busy' = {}
  /\ handled' = FALSE
  /\ UNCHANGED <<brokerVars, pollVars, queue, up, done, deadLetters, stranded, replays>>

-----------------------------------------------------------------------------
(* The process. *)

\* Everything in memory is gone.
Lose ==
  /\ up' = FALSE
  /\ pc' = [p \in Pollers |-> "poll"]
  /\ position' = committed
  /\ next' = committed
  /\ part' = [p \in Pollers |-> {}]
  /\ paused' = {}
  /\ accepted' = [p \in Pollers |-> TRUE]
  /\ failures' = [p \in Pollers |-> 0]
  /\ putting' = [p \in Pollers |-> {}]
  /\ queue' = << >>
  /\ busy' = {}
  /\ handled' = FALSE
  /\ stranded' = {}
  /\ UNCHANGED <<brokerVars, storeVars, done, deadLetters, leaked, dbFaults>>

\* SIGKILL, or the end of a shutdown: main's finally clause waits, and what is
\* still queued or running is abandoned with the daemon threads.
Crash ==
  /\ up
  /\ replays < MaxReplays
  /\ replays' = replays + 1
  /\ Lose

\* The poll loop on the main thread has raised: main's finally clause runs and the
\* process ends.
MainExits ==
  /\ up /\ pc[MainPoller] = "dead"
  /\ UNCHANGED replays
  /\ Lose

Least(a, b) == IF a <= b THEN a ELSE b

\* Mutants: the rows are read newest first; the queue's limit is ignored.
RestoredQueues_Newest ==
  {q \in [1..Least(QueueMax, Cardinality(inbox)) -> inbox] :
     /\ \A i, j \in DOMAIN q : i < j => q[i].id > q[j].id
     /\ \A i \in DOMAIN q, r \in inbox : r.id > q[i].id => \E j \in DOMAIN q : q[j] = r}
RestoredQueues_Unbounded ==
  {q \in [1..Cardinality(inbox) -> inbox] : \A i, j \in DOMAIN q : i < j => q[i].id < q[j].id}

\* restore_pending reads the rows oldest first and stops when the queue is full: the
\* queue it builds.
RestoredQueues ==
  {q \in [1..Least(QueueMax, Cardinality(inbox)) -> inbox] :
     /\ \A i, j \in DOMAIN q : i < j => q[i].id < q[j].id
     /\ \A i \in DOMAIN q, r \in inbox : r.id < q[i].id => \E j \in DOMAIN q : q[j] = r}

\* The supervisor starts the process again; restore_pending runs before any thread.
Restart ==
  /\ ~up
  /\ up' = TRUE
  /\ \E q \in RestoredQueues :
       /\ queue' = q
       /\ stranded' = {r \in inbox : \A i \in DOMAIN q : q[i] # r}
  /\ leaked' = {}
  /\ UNCHANGED <<brokerVars, pollVars, busy, handled, storeVars, done, deadLetters, faultVars>>

-----------------------------------------------------------------------------
PollerStep(p) ==
  \/ Poll(p)
  \/ PollFails(p)
  \/ Rebalance(p)
  \/ \E tp \in Partitions :
       \/ DeadLetter(p, tp)
       \/ Record(p, tp)
       \/ RecordFails(p, tp)
       \/ Put(p, tp)
       \/ PutFull(p, tp)
  \/ Commit(p)
  \/ CommitFails(p)
  \/ SkipCommit(p)

Next ==
  \/ \E p \in Pollers : PollerStep(p)
  \/ Take
  \/ Handle
  \/ Forget
  \/ Crash
  \/ MainExits
  \/ Restart

Spec == Init /\ [][Next]_vars

\* Every thread keeps running: a poll of an unpaused partition that has messages
\* eventually returns some (the broker is reachable again and again), a batch is
\* worked through, and a handler returns.  The supervisor restarts a dead process.
PollReturnsSomething(p) == Poll(p) /\ pc'[p] = "batch"

Fairness ==
  /\ \A p \in Pollers :
       /\ SF_vars(PollReturnsSomething(p))
       /\ WF_vars(Commit(p) \/ SkipCommit(p))
       /\ WF_vars(\E tp \in Partitions : DeadLetter(p, tp) \/ Record(p, tp))
       /\ WF_vars(\E tp \in Partitions : Put(p, tp) \/ PutFull(p, tp))
  /\ WF_vars(Take) /\ WF_vars(Handle) /\ WF_vars(Forget)
  /\ WF_vars(MainExits) /\ WF_vars(Restart)

FairSpec == Spec /\ Fairness

-----------------------------------------------------------------------------
(* Properties. *)

InboxMsgs == {r.msg : r \in inbox}
Queued == {queue[i] : i \in DOMAIN queue}

TypeOK ==
  /\ committed \in [Partitions -> 0..LogLen]
  /\ pc \in [Pollers -> {"poll", "batch", "put", "dead"}]
  /\ position \in [Partitions -> 0..LogLen]
  /\ next \in [Partitions -> 0..LogLen]
  /\ part \in [Pollers -> SUBSET Partitions]
  /\ paused \subseteq Partitions
  /\ accepted \in [Pollers -> BOOLEAN]
  /\ failures \in [Pollers -> 0..MaxPollFailures]
  /\ putting \in [Pollers -> SUBSET Row]
  /\ queue \in Seq(Row) /\ Len(queue) <= QueueMax
  /\ busy \subseteq Row
  /\ handled \in BOOLEAN
  /\ up \in BOOLEAN
  /\ inbox \subseteq Row
  /\ done \subseteq Messages
  /\ deadLetters \subseteq Poison
  /\ leaked \subseteq Ids
  /\ stranded \subseteq Row
  /\ replays \in 0..MaxReplays
  /\ dbFaults \in 0..MaxDbFaults

\* A message the broker will not deliver again (its offset is committed) was
\* handled, dead-lettered, or waits in the inbox: recording before enqueueing and
\* committing after leaves no loss window (ADR 0010), whatever crashes when.
NoLoss ==
  \A tp \in Partitions : \A o \in 0..committed[tp] - 1 :
     <<tp, o>> \in done \cup deadLetters \cup InboxMsgs

\* There is no moment where work is queued, or being executed, but not durable
\* (Worker.submit's docstring): its own row is in the inbox until it is handled.
QueuedIsDurable ==
  /\ Queued \subseteq inbox
  /\ ~handled => busy \subseteq inbox

\* The inductive strengthening of NoLoss and QueuedIsDurable: rows have distinct ids
\* and one holder, a row being submitted is that of the poll loop's current message,
\* a row about to be forgotten is that of a handled message, and each poll loop's
\* messages are covered up to next, which no commit overtakes.
OneRowOneHolder ==
  /\ \A r, s \in inbox : r.id = s.id => r = s
  /\ Queued \cup busy \subseteq inbox
  /\ \A i, j \in DOMAIN queue : queue[i] = queue[j] => i = j
  /\ Queued \cap busy = {}
  /\ \A p \in Pollers : /\ putting[p] \subseteq inbox \ (Queued \cup busy)
                        /\ \A q \in Pollers \ {p} : putting[p] \cap putting[q] = {}

RowsMatchTheirMessages ==
  /\ \A p \in Pollers : \A r \in putting[p] :
       /\ pc[p] = "put" /\ part[p] = {r.msg[1]}
       /\ Owner[r.msg[1]] = p /\ r.msg[2] = next[r.msg[1]]
  /\ handled => {r.msg : r \in busy} \subseteq done

CoveredUpToNext ==
  \A tp \in Partitions :
    /\ committed[tp] <= next[tp] /\ committed[tp] <= position[tp]
    /\ pc[Owner[tp]] = "poll" => position[tp] <= next[tp]
    /\ \A o \in 0..next[tp] - 1 : <<tp, o>> \in done \cup deadLetters \cup InboxMsgs

HandoffInv ==
  /\ IsFiniteSet(inbox)
  /\ \A p \in Pollers : pc[p] # "dead" => failures[p] < MaxPollFailures
  /\ handled => busy # {}
  /\ ~up => busy = {} /\ \A p \in Pollers : putting[p] = {}
  /\ OneRowOneHolder
  /\ RowsMatchTheirMessages
  /\ CoveredUpToNext

\* A refusal undoes its own row and a finished item forgets its own (ADR 0010): every
\* row is queued, being executed or being submitted, unless its DELETE failed or
\* restore_pending could not fit it.
RowsAccountedFor ==
  up => \A r \in inbox :
          \/ r \in Queued \cup busy \cup stranded
          \/ \E p \in Pollers : r \in putting[p]
          \/ r.id \in leaked

\* Without a crash or a rebalance nothing is delivered twice: the rewind goes back to
\* exactly the message that was refused, and a commit covers exactly what was taken.
NoDuplicateWork ==
  replays = 0 =>
    /\ \A i, j \in DOMAIN queue : queue[i].msg = queue[j].msg => i = j
    /\ \A i \in DOMAIN queue : queue[i].msg \notin done
    /\ \A tp \in Partitions : \A o \in next[tp]..LogLen - 1 : <<tp, o>> \notin done

\* The worker first executes the messages of a partition in the partition's order:
\* nothing overtakes a refused, a redelivered or a recovered message - except one
\* that restore_pending left stranded.
TakenInOrder ==
  [][\A r \in busy' \ busy : \A o \in 0..r.msg[2] - 1 :
        <<r.msg[1], o>> \in done \cup deadLetters \cup {s.msg : s \in stranded}]_vars

\* Backpressure is not a stall: every message is eventually handled or dead-lettered,
\* the partitions paused on the way being resumed, unless its row is stranded or the
\* loop that reads it has died without taking the process with it.
EveryMessageHandled ==
  \A m \in Messages :
    <>[](\/ m \in done \cup deadLetters
         \/ m \in {s.msg : s \in stranded}
         \/ pc[Owner[m[1]]] = "dead")
=============================================================================
