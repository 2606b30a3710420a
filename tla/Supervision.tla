----------------------------- MODULE Supervision -----------------------------
(***************************************************************************)
(* The process around the worker: the threads main starts, how a signal or *)
(* a poll loop that gives up ends them (main, _drain), the producer they   *)
(* share (events.py), the heartbeat the worker leaves for the container's  *)
(* health check (heartbeat.py), and the container that starts the process  *)
(* anew.                                                                   *)
(*                                                                         *)
(* What the threads do is in the other modules; here a work item is        *)
(* counted, and may take for ever.  A tick is the time that an idle pass   *)
(* of a loop may take, a second; durations are counted in ticks.           *)
(***************************************************************************)
EXTENDS Naturals, Sequences

CONSTANTS
  Capacity,       \* WORK_QUEUE_MAXSIZE
  MaxAge,         \* HEARTBEAT_MAX_AGE_SECONDS
  DrainTime,      \* SHUTDOWN_DRAIN_SECONDS
  JoinTime,       \* the timeout of thread.join
  FlushTime,      \* the timeout of events.flush
  MaxFailures,    \* MAX_CONSECUTIVE_POLL_FAILURES
  Publishers,     \* BOUND: the threads that publish
  MaxTrouble      \* BOUND: signals, kills, and what befalls the Kafka clients

\* The threads in the order that main joins them, and the two poll loops: the trigger
\* loop is the main thread.
Joins == <<"worker", "sweep", "decisions">>
Loops == {"main", "decisions"}
Threads == {"main", "worker", "sweep", "decisions"}

ASSUME SupervisionAssumption ==
  /\ Capacity \in Nat \ {0} /\ MaxAge \in Nat \ {0} /\ MaxFailures \in Nat \ {0}
  /\ DrainTime \in Nat /\ JoinTime \in Nat /\ FlushTime \in Nat
  /\ Publishers \subseteq Threads /\ MaxTrouble \in Nat

VARIABLES
  up,        \* the process is running
  stop,      \* stop_event
  pc,        \* pc[t]: what thread t is at
  queued,    \* the length of the work queue
  broken,    \* broken[l]: no poll of l's Kafka client will succeed again
  fails,     \* fails[l]: consecutive_failures
  \* events.py: the producer that all threads share.
  producer,  \* "none", "building" (on its own thread), "ready" or "failed"
  built,     \* how often its construction was started
  pub,       \* pub[t]: where t is in _get_producer, "out" if it is not publishing
  buffer,    \* the threads of whose events some wait in the client's buffer
  age,       \* the age of the heartbeat file, up to MaxAge + 1
  \* main's finally.
  timer,     \* how long main has been in its present wait
  turn,      \* the thread it joins
  joined,    \* the threads that it saw end
  mark,      \* of the events that were in the buffer when it called flush, what is left
  cut,       \* the flush ran into its timeout
  told,      \* it was told to stop
  trouble    \* how much of this there was so far

loopVars == <<broken, fails>>
pubVars  == <<producer, built, pub, buffer>>
mainVars == <<timer, turn, joined, mark, cut, told>>
vars == <<up, stop, pc, queued, loopVars, pubVars, age, mainVars, trouble>>

\* A process that has just started its threads.
Started == [main |-> "poll", worker |-> "new", sweep |-> "sweep", decisions |-> "poll"]

Init ==
  /\ up = TRUE /\ stop = FALSE /\ pc = Started /\ queued \in 0..Capacity
  /\ broken = [l \in Loops |-> FALSE] /\ fails = [l \in Loops |-> 0]
  /\ producer = "none" /\ built = 0 /\ pub = [t \in Threads |-> "out"] /\ buffer = {}
  /\ age = MaxAge + 1 \* the file does not exist
  /\ timer = 0 /\ turn = 1 /\ joined = {} /\ mark = {} /\ cut = FALSE /\ told = FALSE
  /\ trouble = 0

Goto(t, step) == pc' = [pc EXCEPT ![t] = step]

\* Thread t is at step, and not inside a publish call.
At(t, step) == up /\ pc[t] = step /\ pub[t] = "out"

-----------------------------------------------------------------------------
(* Worker.run_forever *)

\* Mutant: every loop touches the file; it tells of the process, not of the worker.
AgeAfter_AnyLoop(t) == 0

\* The age of the file after a pass of t's loop.
AgeAfter(t) == IF t = "worker" THEN 0 ELSE age

\* Mutant: an idle pass does not touch.
Pass_OnlyWithWork ==
  /\ At("worker", "new") \/ At("worker", "idle")
  /\ IF stop THEN Goto("worker", "stopped") /\ UNCHANGED age
     ELSE Goto("worker", "get") /\ age' = IF queued > 0 THEN AgeAfter("worker") ELSE age
  /\ UNCHANGED <<up, stop, queued, loopVars, pubVars, mainVars, trouble>>

\* The top of the loop.
Pass ==
  /\ At("worker", "new") \/ At("worker", "idle")
  /\ IF stop THEN Goto("worker", "stopped") /\ UNCHANGED age
     ELSE Goto("worker", "get") /\ age' = AgeAfter("worker")
  /\ UNCHANGED <<up, stop, queued, loopVars, pubVars, mainVars, trouble>>

\* queue.get, which waits a second at most.
Get ==
  /\ At("worker", "get") \/ At("worker", "late")
  /\ IF queued > 0 THEN Goto("worker", "run") /\ queued' = queued - 1
                   ELSE Goto("worker", "idle") /\ UNCHANGED queued
  /\ UNCHANGED <<up, stop, loopVars, pubVars, age, mainVars, trouble>>

\* The handler returns or raises; the loop goes on either way.
Handled ==
  /\ At("worker", "run")
  /\ Goto("worker", "idle")
  /\ UNCHANGED <<up, stop, queued, loopVars, pubVars, age, mainVars, trouble>>

-----------------------------------------------------------------------------
(* The sweep and the poll loops *)

SweepLoop ==
  /\ \/ At("sweep", "sweep") /\ Goto("sweep", "wait")
     \/ At("sweep", "wait") /\ Goto("sweep", IF stop THEN "stopped" ELSE "sweep")
  /\ UNCHANGED <<up, stop, queued, loopVars, pubVars, age, mainVars, trouble>>

\* The top of poll_loop.  The main thread returns into main's finally, another one ends.
PollTop(l) ==
  /\ At(l, "poll")
  /\ Goto(l, IF ~stop THEN "fetch" ELSE IF l = "main" THEN "drain" ELSE "stopped")
  /\ UNCHANGED <<up, stop, queued, loopVars, pubVars, age, mainVars, trouble>>

\* poll returns nothing, or a message that the queue has room for.
Polled(l) ==
  /\ At(l, "fetch") /\ ~broken[l]
  /\ Goto(l, "poll") /\ age' = AgeAfter(l)
  /\ fails' = [fails EXCEPT ![l] = 0]
  /\ queued' \in {queued} \cup ({queued + 1} \cap 0..Capacity)
  /\ UNCHANGED <<up, stop, broken, pubVars, mainVars, trouble>>

\* Mutant: the failures are not counted.
FailsAfter_Ignored(l) == 0

FailsAfter(l) == fails[l] + 1

\* Mutant: what the loop raises is swallowed, and it goes on.
GiveUp_Swallowed(l) == Goto(l, "poll") /\ UNCHANGED stop

\* poll_loop raises: main's finally stops everything, while the decision loop's thread
\* just dies.
GiveUp(l) ==
  /\ Goto(l, IF l = "main" THEN "drain" ELSE "dead")
  /\ stop' = (stop \/ l = "main")

\* poll raises; after MAX_CONSECUTIVE_POLL_FAILURES so does poll_loop.
PollFails(l) ==
  /\ At(l, "fetch") /\ broken[l]
  /\ fails' = [fails EXCEPT ![l] = FailsAfter(l)]
  /\ IF FailsAfter(l) < MaxFailures THEN Goto(l, "poll") /\ UNCHANGED stop ELSE GiveUp(l)
  /\ UNCHANGED <<up, queued, broken, pubVars, age, mainVars, trouble>>

\* The commit after a batch raises, which nothing catches.
CommitFails(l) ==
  /\ At(l, "fetch") /\ ~broken[l] /\ trouble < MaxTrouble
  /\ trouble' = trouble + 1
  /\ GiveUp(l)
  /\ queued' \in {queued} \cup ({queued + 1} \cap 0..Capacity)
  /\ UNCHANGED <<up, loopVars, pubVars, age, mainVars>>

PollLoop(l) == PollTop(l) \/ Polled(l) \/ PollFails(l)

-----------------------------------------------------------------------------
(* events.py: publish_run_outcome, publish_audit_event, publish_to_dlq *)

\* A handler, the sweep, or a poll loop that has read a malformed message publishes.
Publish(t) ==
  /\ t \in Publishers
  /\ At(t, "run") \/ At(t, "sweep") \/ (t \in Loops /\ At(t, "fetch") /\ ~broken[t])
  /\ pub' = [pub EXCEPT ![t] = "check"]
  /\ UNCHANGED <<up, stop, pc, queued, loopVars, producer, built, buffer, age, mainVars,
                 trouble>>

\* The producer is used if it is there: the event waits in its buffer, or is refused and
\* counted as a failure.  Nothing counts an event that is dropped.
HandOver(t) ==
  /\ pub' = [pub EXCEPT ![t] = "out"]
  /\ buffer' \in {buffer} \cup (IF producer = "ready" THEN {buffer \cup {t}} ELSE {})
  /\ UNCHANGED <<producer, built>>

\* _get_producer's first lines.
Check(t) ==
  /\ up /\ pub[t] = "check"
  /\ IF producer \in {"ready", "failed"} THEN HandOver(t)
     ELSE pub' = [pub EXCEPT ![t] = "lock"] /\ UNCHANGED <<producer, built, buffer>>
  /\ UNCHANGED <<up, stop, pc, queued, loopVars, age, mainVars, trouble>>

\* Mutant: the thread is started without looking again under the lock.
Lock_NoSecondLook(t) ==
  /\ up /\ pub[t] = "lock"
  /\ producer' = (IF producer = "none" THEN "building" ELSE producer) /\ built' = built + 1
  /\ pub' = [pub EXCEPT ![t] = "join"]
  /\ UNCHANGED <<up, stop, pc, queued, loopVars, buffer, age, mainVars, trouble>>

\* with _producer_init_lock
Lock(t) ==
  /\ up /\ pub[t] = "lock"
  /\ IF producer = "none" THEN producer' = "building" /\ built' = built + 1
                          ELSE UNCHANGED <<producer, built>>
  /\ pub' = [pub EXCEPT ![t] = "join"]
  /\ UNCHANGED <<up, stop, pc, queued, loopVars, buffer, age, mainVars, trouble>>

\* The construction is over, or has taken more than a second.
Join(t) ==
  /\ up /\ pub[t] = "join"
  /\ HandOver(t)
  /\ UNCHANGED <<up, stop, pc, queued, loopVars, age, mainVars, trouble>>

PublishStep(t) == Check(t) \/ Lock(t) \/ Join(t)

ConstructProducer ==
  /\ up /\ producer = "building"
  /\ producer' \in {"ready", "failed"}
  /\ UNCHANGED <<up, stop, pc, queued, loopVars, built, pub, buffer, age, mainVars, trouble>>

\* The client's sender thread: the events reach the broker, or their errback counts them
\* as failures.
Send(t) ==
  /\ up /\ t \in buffer
  /\ buffer' = buffer \ {t} /\ mark' = mark \ {t}
  /\ UNCHANGED <<up, stop, pc, queued, loopVars, producer, built, pub, age, timer, turn,
                 joined, cut, told, trouble>>

-----------------------------------------------------------------------------
(* main's finally *)

\* Mutant: the events are flushed before the threads have ended.
After_FlushFirst == [drain |-> "flush", flush |-> "join", join |-> "close", close |-> "exit"]

\* The order of main's finally; at exit the checkpointer is closed.
After == [drain |-> "join", join |-> "close", close |-> "flush", flush |-> "exit"]

Leave(step) ==
  /\ Goto("main", After[step])
  /\ timer' = 0
  /\ mark' = IF After[step] = "flush" THEN buffer ELSE mark

\* Mutant: the drain has no deadline.
Drained_NoDeadline == queued = 0

Drained == queued = 0 \/ timer = DrainTime

\* _drain looks at the queue alone, which the worker does not empty once stop is set.
Drain ==
  /\ At("main", "drain") /\ Drained
  /\ Leave("drain")
  /\ UNCHANGED <<up, stop, queued, loopVars, pubVars, age, turn, joined, cut, told, trouble>>

JoinThread ==
  LET t == Joins[turn]
      ended == pc[t] \in {"stopped", "dead"}
  IN /\ At("main", "join")
     /\ ended \/ timer = JoinTime
     /\ joined' = IF ended THEN joined \cup {t} ELSE joined
     /\ IF turn < Len(Joins) THEN turn' = turn + 1 /\ timer' = 0 /\ UNCHANGED <<pc, mark>>
                             ELSE Leave("join") /\ UNCHANGED turn
     /\ UNCHANGED <<up, stop, queued, loopVars, pubVars, age, cut, told, trouble>>

\* The Kafka consumers are closed; what that raises is logged.
Close ==
  /\ At("main", "close")
  /\ Leave("close")
  /\ UNCHANGED <<up, stop, queued, loopVars, pubVars, age, turn, joined, cut, told, trouble>>

\* events.flush waits for what was handed over before it was called.
Flush ==
  /\ At("main", "flush")
  /\ mark = {} \/ timer = FlushTime
  /\ cut' = (mark # {})
  /\ Leave("flush")
  /\ UNCHANGED <<up, stop, queued, loopVars, pubVars, age, turn, joined, told, trouble>>

\* main returns or raises, and the daemon threads end wherever they are.
Exit ==
  /\ At("main", "exit")
  /\ up' = FALSE
  /\ UNCHANGED <<stop, pc, queued, loopVars, pubVars, age, mainVars, trouble>>

MainStep == PollLoop("main") \/ Drain \/ JoinThread \/ Close \/ Flush \/ Exit

-----------------------------------------------------------------------------
(* Time and the environment *)

Waits == [drain |-> DrainTime, join |-> JoinTime, flush |-> FlushTime]
Waiting == pc["main"] \in DOMAIN Waits

\* A second passes.  An idle worker does not sleep longer.
Tick ==
  /\ up /\ pc["worker"] \notin {"new", "idle", "late"}
  /\ age' = IF age > MaxAge THEN age ELSE age + 1
  /\ timer' = IF Waiting /\ timer < Waits[pc["main"]] THEN timer + 1 ELSE timer
  /\ pc' = IF pc["worker"] = "get" THEN [pc EXCEPT !["worker"] = "late"] ELSE pc
  /\ UNCHANGED <<up, stop, queued, loopVars, pubVars, turn, joined, mark, cut, told, trouble>>

\* SIGTERM or SIGINT: _handle_signal.
Signal ==
  /\ up /\ trouble < MaxTrouble
  /\ trouble' = trouble + 1
  /\ stop' = TRUE /\ told' = TRUE
  /\ UNCHANGED <<up, pc, queued, loopVars, pubVars, age, timer, turn, joined, mark, cut>>

\* SIGKILL, or the host fails.
Kill ==
  /\ up /\ trouble < MaxTrouble
  /\ trouble' = trouble + 1
  /\ up' = FALSE
  /\ UNCHANGED <<stop, pc, queued, loopVars, pubVars, age, mainVars>>

\* A Kafka client breaks for good (ADR 0004).
Break(l) ==
  /\ up /\ ~broken[l] /\ trouble < MaxTrouble
  /\ trouble' = trouble + 1
  /\ broken' = [broken EXCEPT ![l] = TRUE]
  /\ UNCHANGED <<up, stop, pc, queued, fails, pubVars, age, mainVars>>

\* A new process.  The inbox has the work that was queued and the item in progress.
\* The heartbeat file is still there.
Restart ==
  /\ ~up /\ up' = TRUE /\ stop' = FALSE /\ pc' = Started
  /\ queued' = IF pc["worker"] = "run" /\ queued < Capacity THEN queued + 1 ELSE queued
  /\ broken' = [l \in Loops |-> FALSE] /\ fails' = [l \in Loops |-> 0]
  /\ producer' = "none" /\ built' = 0
  /\ pub' = [t \in Threads |-> "out"] /\ buffer' = {}
  /\ timer' = 0 /\ turn' = 1 /\ joined' = {} /\ mark' = {} /\ cut' = FALSE /\ told' = FALSE
  /\ UNCHANGED <<age, trouble>>

WorkerLoop == Pass \/ Get

Next ==
  \/ MainStep \/ WorkerLoop \/ Handled \/ SweepLoop \/ PollLoop("decisions")
  \/ \E t \in Threads : Publish(t) \/ PublishStep(t) \/ Send(t)
  \/ ConstructProducer
  \/ Tick \/ Signal \/ Kill \/ Restart
  \/ \E l \in Loops : Break(l) \/ CommitFails(l)

\* The loops turn and time passes; a handler may take for ever, a construction or a
\* broker too.  "restart: unless-stopped" restarts what was not told to stop.
Fairness ==
  /\ WF_vars(MainStep) /\ WF_vars(WorkerLoop) /\ WF_vars(SweepLoop)
  /\ WF_vars(PollLoop("decisions"))
  /\ \A t \in Threads : WF_vars(PublishStep(t))
  /\ WF_vars(Tick)
  /\ WF_vars(Restart /\ ~told)

Spec == Init /\ [][Next]_vars /\ Fairness

-----------------------------------------------------------------------------
(* Properties. *)

\* Every variable keeps its type.
TypeOK ==
  /\ up \in BOOLEAN /\ stop \in BOOLEAN /\ told \in BOOLEAN /\ cut \in BOOLEAN
  /\ pc["main"] \in {"poll", "fetch", "drain", "join", "close", "flush", "exit"}
  /\ pc["worker"] \in {"new", "idle", "get", "late", "run", "stopped"}
  /\ pc["sweep"] \in {"sweep", "wait", "stopped"}
  /\ pc["decisions"] \in {"poll", "fetch", "stopped", "dead"}
  /\ queued \in 0..Capacity
  /\ broken \in [Loops -> BOOLEAN] /\ fails \in [Loops -> 0..MaxFailures]
  /\ producer \in {"none", "building", "ready", "failed"} /\ built \in Nat
  /\ pub \in [Threads -> {"out", "check", "lock", "join"}]
  /\ buffer \subseteq Threads /\ mark \subseteq buffer
  /\ age \in 0..MaxAge + 1 /\ timer \in Nat
  /\ turn \in DOMAIN Joins /\ joined \subseteq Threads

\* What the container's health check reads once the worker has made a pass.
Unhealthy == age > MaxAge /\ pc["worker"] # "new"

\* A worker that waits for work never reads as unhealthy, however long there is none:
\* only an item that holds the worker lets the heartbeat grow old.  (heartbeat.py,
\* run_forever, ADR 0013)
IdleIsHealthy == up /\ Unhealthy => pc["worker"] \notin {"get", "late"}

\* A worker that an item holds for ever is noticed, however well the other threads of
\* the process are.  (heartbeat.py, ADR 0013)
StuckWorkerIsSeen == up /\ pc["worker"] = "run" ~> ~up \/ pc["worker"] # "run" \/ Unhealthy

\* A process told to stop ends, with work queued, a stuck handler, an unreachable broker
\* and a dead thread: main waits for nothing without a limit.  (main's finally)
StopEndsProcess == up /\ stop ~> ~up

\* A trigger consumer that cannot poll is replaced, by a new process.  (poll_loop,
\* "restarting the process under the container's restart policy", ADR 0004)
BrokenTriggersRecover == broken["main"] ~> ~broken["main"] \/ told

\* ... and so is a decision consumer, or at least it is noticed.  (Violated: its loop
\* gives up on a thread of its own, which ends without the process, and without a trace
\* in the heartbeat.)
BrokenLoopsRecover == \A l \in Loops : broken[l] ~> ~broken[l] \/ told \/ Unhealthy

\* Threads that publish at the same time construct one producer.  (_get_producer)
OneProducer == built <= 1

\* When main has shut down, no event that it or a thread it saw end handed over is left
\* in the client's buffer, unless the flush ran out of time.  (main's finally)
FlushedAtExit ==
  pc["main"] = "exit" /\ ~cut => buffer \cap (joined \cup {"main"}) = {}
=============================================================================
