-------------------------- MODULE SupervisionProofs --------------------------
(***************************************************************************)
(* Proofs about Supervision, for every queue size, waiting time, set of    *)
(* publishing threads and number of failures: the types, that a waiting    *)
(* worker never reads as unhealthy, that one producer is built, and that   *)
(* the flush at the end leaves nothing behind.                             *)
(***************************************************************************)
EXTENDS Supervision, TLAPS

USE SupervisionAssumption DEF SupervisionAssumption

Steps == {"poll", "fetch", "drain", "join", "close", "flush", "exit", "new", "idle", "get",
          "late", "run", "sweep", "wait", "stopped", "dead"}

\* A loop that polls has not reached the limit of its failures.
Counted == \A l \in Loops : pc[l] \in {"poll", "fetch"} => fails[l] < MaxFailures

\* A thread publishes from three places of its loop.
PublishesFrom == \A t \in Threads : pub[t] # "out" => pc[t] \in {"run", "sweep", "fetch"}

\* A worker that waits for work has touched the file at most one tick ago.
FreshWhenIdle ==
  /\ pc["worker"] = "get" => age = 0
  /\ pc["worker"] = "late" => age <= 1

\* The producer's construction was started once if it was started.
BuiltOnce == built = IF producer = "none" THEN 0 ELSE 1

\* Threads that main saw end have ended, and what they left in the buffer is being flushed.
JoinedEnded == \A t \in joined : pc[t] \in {"stopped", "dead"}
Marked == pc["main"] = "flush" => buffer \cap (joined \cup {"main"}) \subseteq mark

\* The inductive invariant.
IInv ==
  /\ TypeOK
  /\ pc \in [Threads -> Steps]
  /\ Counted /\ PublishesFrom /\ FreshWhenIdle /\ BuiltOnce /\ JoinedEnded /\ Marked
  /\ FlushedAtExit

USE DEF IInv, Threads, Loops, Joins, At, Goto, loopVars, pubVars, mainVars

-----------------------------------------------------------------------------
\* The initial state satisfies the invariant.
LEMMA InitInv == Init => IInv
<1> SUFFICES ASSUME Init PROVE IInv
  OBVIOUS
<1> USE DEF Init, Started
<1>1. TypeOK /\ pc \in [Threads -> Steps]
  <2>1. up \in BOOLEAN /\ stop \in BOOLEAN /\ told \in BOOLEAN /\ cut \in BOOLEAN
    OBVIOUS
  <2>2. /\ queued \in 0..Capacity /\ age \in 0..MaxAge + 1
        /\ broken \in [Loops -> BOOLEAN] /\ fails \in [Loops -> 0..MaxFailures]
    OBVIOUS
  <2>3. pub \in [Threads -> {"out", "check", "lock", "join"}] /\ pc \in [Threads -> Steps]
    BY DEF Steps
  <2>. QED
    BY <2>1, <2>2, <2>3 DEF TypeOK
<1>2. Counted /\ PublishesFrom /\ FreshWhenIdle /\ BuiltOnce
  BY DEF Counted, PublishesFrom, FreshWhenIdle, BuiltOnce
<1>3. JoinedEnded /\ Marked /\ FlushedAtExit
  BY DEF JoinedEnded, Marked, FlushedAtExit
<1>. QED
  BY <1>1, <1>2, <1>3

-----------------------------------------------------------------------------
(* One lemma for each step *)

\* A pass of the worker touches the file before it waits.
LEMMA PassInv == ASSUME IInv, Pass PROVE IInv'
<1> USE DEF Pass, AgeAfter
<1>1. TypeOK' /\ pc' \in [Threads -> Steps]
  BY DEF TypeOK, Steps, Counted
<1>2. Counted' /\ PublishesFrom'
  BY DEF TypeOK, Counted, PublishesFrom
<1>3. FreshWhenIdle' /\ BuiltOnce'
  BY DEF TypeOK, FreshWhenIdle, BuiltOnce
<1>4. JoinedEnded' /\ Marked' /\ FlushedAtExit'
  BY DEF TypeOK, PublishesFrom, JoinedEnded, Marked, FlushedAtExit
<1>. QED
  BY <1>1, <1>2, <1>3, <1>4

\* The worker takes an item, or waits no longer.
LEMMA GetInv == ASSUME IInv, Get PROVE IInv'
<1> USE DEF Get
<1>1. TypeOK' /\ pc' \in [Threads -> Steps]
  BY DEF TypeOK, Steps, Counted
<1>2. Counted' /\ PublishesFrom'
  BY DEF TypeOK, Counted, PublishesFrom
<1>3. FreshWhenIdle' /\ BuiltOnce'
  BY DEF TypeOK, FreshWhenIdle, BuiltOnce
<1>4. JoinedEnded' /\ Marked' /\ FlushedAtExit'
  BY DEF TypeOK, PublishesFrom, JoinedEnded, Marked, FlushedAtExit
<1>. QED
  BY <1>1, <1>2, <1>3, <1>4

\* A handler returns.
LEMMA HandledInv == ASSUME IInv, Handled PROVE IInv'
<1> USE DEF Handled
<1>1. TypeOK' /\ pc' \in [Threads -> Steps]
  BY DEF TypeOK, Steps, Counted
<1>2. Counted' /\ PublishesFrom'
  BY DEF TypeOK, Counted, PublishesFrom
<1>3. FreshWhenIdle' /\ BuiltOnce'
  BY DEF TypeOK, FreshWhenIdle, BuiltOnce
<1>4. JoinedEnded' /\ Marked' /\ FlushedAtExit'
  BY DEF TypeOK, PublishesFrom, JoinedEnded, Marked, FlushedAtExit
<1>. QED
  BY <1>1, <1>2, <1>3, <1>4

\* The sweep goes on, or ends.
LEMMA SweepLoopInv == ASSUME IInv, SweepLoop PROVE IInv'
<1> USE DEF SweepLoop
<1>1. TypeOK' /\ pc' \in [Threads -> Steps]
  BY DEF TypeOK, Steps, Counted
<1>2. Counted' /\ PublishesFrom'
  BY DEF TypeOK, Counted, PublishesFrom
<1>3. FreshWhenIdle' /\ BuiltOnce'
  BY DEF TypeOK, FreshWhenIdle, BuiltOnce
<1>4. JoinedEnded' /\ Marked' /\ FlushedAtExit'
  BY DEF TypeOK, PublishesFrom, JoinedEnded, Marked, FlushedAtExit
<1>. QED
  BY <1>1, <1>2, <1>3, <1>4

\* A poll loop goes on, or ends.
LEMMA PollTopInv == ASSUME IInv, NEW l \in Loops, PollTop(l) PROVE IInv'
<1> USE DEF PollTop
<1>1. TypeOK' /\ pc' \in [Threads -> Steps]
  BY DEF TypeOK, Steps, Counted
<1>2. Counted' /\ PublishesFrom'
  BY DEF TypeOK, Counted, PublishesFrom
<1>3. FreshWhenIdle' /\ BuiltOnce'
  BY DEF TypeOK, FreshWhenIdle, BuiltOnce
<1>4. JoinedEnded' /\ Marked' /\ FlushedAtExit'
  BY DEF TypeOK, PublishesFrom, JoinedEnded, Marked, FlushedAtExit
<1>. QED
  BY <1>1, <1>2, <1>3, <1>4

\* A poll that succeeds resets the count of failures.
LEMMA PolledInv == ASSUME IInv, NEW l \in Loops, Polled(l) PROVE IInv'
<1> USE DEF Polled, AgeAfter
<1>1. TypeOK' /\ pc' \in [Threads -> Steps]
  BY DEF TypeOK, Steps, Counted
<1>2. Counted' /\ PublishesFrom'
  BY DEF TypeOK, Counted, PublishesFrom
<1>3. FreshWhenIdle' /\ BuiltOnce'
  BY DEF TypeOK, FreshWhenIdle, BuiltOnce
<1>4. JoinedEnded' /\ Marked' /\ FlushedAtExit'
  BY DEF TypeOK, PublishesFrom, JoinedEnded, Marked, FlushedAtExit
<1>. QED
  BY <1>1, <1>2, <1>3, <1>4

\* A poll that fails is counted; at the limit the loop is left.
LEMMA PollFailsInv == ASSUME IInv, NEW l \in Loops, PollFails(l) PROVE IInv'
<1> USE DEF PollFails, FailsAfter, GiveUp
<1>1. TypeOK' /\ pc' \in [Threads -> Steps]
  BY DEF TypeOK, Steps, Counted
<1>2. Counted' /\ PublishesFrom'
  BY DEF TypeOK, Counted, PublishesFrom
<1>3. FreshWhenIdle' /\ BuiltOnce'
  BY DEF TypeOK, FreshWhenIdle, BuiltOnce
<1>4. JoinedEnded' /\ Marked' /\ FlushedAtExit'
  BY DEF TypeOK, PublishesFrom, JoinedEnded, Marked, FlushedAtExit
<1>. QED
  BY <1>1, <1>2, <1>3, <1>4

\* A commit that raises ends the loop.
LEMMA CommitFailsInv == ASSUME IInv, NEW l \in Loops, CommitFails(l) PROVE IInv'
<1> USE DEF CommitFails, GiveUp
<1>1. TypeOK' /\ pc' \in [Threads -> Steps]
  BY DEF TypeOK, Steps, Counted
<1>2. Counted' /\ PublishesFrom'
  BY DEF TypeOK, Counted, PublishesFrom
<1>3. FreshWhenIdle' /\ BuiltOnce'
  BY DEF TypeOK, FreshWhenIdle, BuiltOnce
<1>4. JoinedEnded' /\ Marked' /\ FlushedAtExit'
  BY DEF TypeOK, PublishesFrom, JoinedEnded, Marked, FlushedAtExit
<1>. QED
  BY <1>1, <1>2, <1>3, <1>4

\* A thread begins to publish.
LEMMA PublishInv == ASSUME IInv, NEW t \in Threads, Publish(t) PROVE IInv'
<1> USE DEF Publish
<1>1. TypeOK' /\ pc' \in [Threads -> Steps]
  BY DEF TypeOK, Steps, Counted
<1>2. Counted' /\ PublishesFrom'
  BY DEF TypeOK, Counted, PublishesFrom
<1>3. FreshWhenIdle' /\ BuiltOnce'
  BY DEF TypeOK, FreshWhenIdle, BuiltOnce
<1>4. JoinedEnded' /\ Marked' /\ FlushedAtExit'
  BY DEF TypeOK, PublishesFrom, JoinedEnded, Marked, FlushedAtExit
<1>. QED
  BY <1>1, <1>2, <1>3, <1>4

\* A producer that is there is used.
LEMMA CheckInv == ASSUME IInv, NEW t \in Threads, Check(t) PROVE IInv'
<1> USE DEF Check, HandOver
<1>1. TypeOK' /\ pc' \in [Threads -> Steps]
  <2>1. pub' \in [Threads -> {"out", "check", "lock", "join"}]
    BY DEF TypeOK
  <2>2. mark' \subseteq buffer' /\ buffer' \subseteq Threads
    <3>1. mark \subseteq buffer /\ buffer \subseteq Threads
      BY DEF TypeOK
    <3>2. mark' = mark /\ (buffer' = buffer \/ buffer' = buffer \cup {t})
      OBVIOUS
    <3>. QED
      BY <3>1, <3>2
  <2>. QED
    BY <2>1, <2>2 DEF TypeOK, Steps
<1>2. Counted' /\ PublishesFrom'
  BY DEF TypeOK, Counted, PublishesFrom
<1>3. FreshWhenIdle' /\ BuiltOnce'
  BY DEF TypeOK, FreshWhenIdle, BuiltOnce
<1>4. JoinedEnded' /\ Marked' /\ FlushedAtExit'
  <2>1. t \notin joined /\ (pc["main"] \in {"flush", "exit"} => t # "main")
    BY DEF PublishesFrom, JoinedEnded
  <2>2. buffer' \subseteq buffer \cup {t}
    OBVIOUS
  <2>. QED
    BY <2>1, <2>2 DEF JoinedEnded, Marked, FlushedAtExit
<1>. QED
  BY <1>1, <1>2, <1>3, <1>4

\* Under the lock, the first thread starts the construction.
LEMMA LockInv == ASSUME IInv, NEW t \in Threads, Lock(t) PROVE IInv'
<1> USE DEF Lock
<1>1. TypeOK' /\ pc' \in [Threads -> Steps]
  BY DEF TypeOK, Steps, Counted
<1>2. Counted' /\ PublishesFrom'
  BY DEF TypeOK, Counted, PublishesFrom
<1>3. FreshWhenIdle' /\ BuiltOnce'
  BY DEF TypeOK, FreshWhenIdle, BuiltOnce
<1>4. JoinedEnded' /\ Marked' /\ FlushedAtExit'
  BY DEF TypeOK, PublishesFrom, JoinedEnded, Marked, FlushedAtExit
<1>. QED
  BY <1>1, <1>2, <1>3, <1>4

\* The wait for the construction is over.
LEMMA JoinInv == ASSUME IInv, NEW t \in Threads, Join(t) PROVE IInv'
<1> USE DEF Join, HandOver
<1>1. TypeOK' /\ pc' \in [Threads -> Steps]
  BY DEF TypeOK, Steps, Counted
<1>2. Counted' /\ PublishesFrom'
  BY DEF TypeOK, Counted, PublishesFrom
<1>3. FreshWhenIdle' /\ BuiltOnce'
  BY DEF TypeOK, FreshWhenIdle, BuiltOnce
<1>4. JoinedEnded' /\ Marked' /\ FlushedAtExit'
  BY DEF TypeOK, PublishesFrom, JoinedEnded, Marked, FlushedAtExit
<1>. QED
  BY <1>1, <1>2, <1>3, <1>4

\* The construction ends.
LEMMA ConstructInv == ASSUME IInv, ConstructProducer PROVE IInv'
<1> USE DEF ConstructProducer
<1>1. TypeOK' /\ pc' \in [Threads -> Steps]
  BY DEF TypeOK, Steps, Counted
<1>2. Counted' /\ PublishesFrom'
  BY DEF TypeOK, Counted, PublishesFrom
<1>3. FreshWhenIdle' /\ BuiltOnce'
  BY DEF TypeOK, FreshWhenIdle, BuiltOnce
<1>4. JoinedEnded' /\ Marked' /\ FlushedAtExit'
  BY DEF TypeOK, PublishesFrom, JoinedEnded, Marked, FlushedAtExit
<1>. QED
  BY <1>1, <1>2, <1>3, <1>4

\* A sent event leaves the buffer and what is left of the mark.
LEMMA SendInv == ASSUME IInv, NEW t \in Threads, Send(t) PROVE IInv'
<1> USE DEF Send
<1>1. TypeOK' /\ pc' \in [Threads -> Steps]
  BY DEF TypeOK, Steps, Counted
<1>2. Counted' /\ PublishesFrom'
  BY DEF TypeOK, Counted, PublishesFrom
<1>3. FreshWhenIdle' /\ BuiltOnce'
  BY DEF TypeOK, FreshWhenIdle, BuiltOnce
<1>4. JoinedEnded' /\ Marked' /\ FlushedAtExit'
  BY DEF TypeOK, PublishesFrom, JoinedEnded, Marked, FlushedAtExit
<1>. QED
  BY <1>1, <1>2, <1>3, <1>4

\* Main goes on from the drain to the joins.
LEMMA DrainInv == ASSUME IInv, Drain PROVE IInv'
<1> USE DEF Drain, Leave, After
<1>1. TypeOK' /\ pc' \in [Threads -> Steps]
  BY DEF TypeOK, Steps, Counted
<1>2. Counted' /\ PublishesFrom'
  BY DEF TypeOK, Counted, PublishesFrom
<1>3. FreshWhenIdle' /\ BuiltOnce'
  BY DEF TypeOK, FreshWhenIdle, BuiltOnce
<1>4. JoinedEnded' /\ Marked' /\ FlushedAtExit'
  BY DEF TypeOK, PublishesFrom, JoinedEnded, Marked, FlushedAtExit
<1>. QED
  BY <1>1, <1>2, <1>3, <1>4

\* A thread that main saw end is not inside a publish call.
LEMMA JoinThreadInv == ASSUME IInv, JoinThread PROVE IInv'
<1> USE DEF JoinThread, Leave, After
<1>1. TypeOK' /\ pc' \in [Threads -> Steps]
  <2>1. Joins[turn] \in Threads /\ turn' \in DOMAIN Joins
    BY DEF TypeOK
  <2>2. joined' \subseteq Threads
    BY <2>1 DEF TypeOK
  <2>3. timer' = 0 /\ mark' = mark /\ buffer' = buffer
    OBVIOUS
  <2>4. pc' \in [Threads -> Steps] /\ pc'["main"] \in {"join", "close"}
        /\ \A t \in Threads \ {"main"} : pc'[t] = pc[t]
    BY DEF TypeOK, Steps
  <2>. QED
    BY <2>1, <2>2, <2>3, <2>4 DEF TypeOK
<1>2. Counted' /\ PublishesFrom'
  BY DEF TypeOK, Counted, PublishesFrom
<1>3. FreshWhenIdle' /\ BuiltOnce'
  BY DEF TypeOK, FreshWhenIdle, BuiltOnce
<1>4. JoinedEnded' /\ Marked' /\ FlushedAtExit'
  BY DEF TypeOK, PublishesFrom, JoinedEnded, Marked, FlushedAtExit
<1>. QED
  BY <1>1, <1>2, <1>3, <1>4

\* All that is in the buffer is marked when the flush begins.
LEMMA CloseInv == ASSUME IInv, Close PROVE IInv'
<1> USE DEF Close, Leave, After
<1>1. TypeOK' /\ pc' \in [Threads -> Steps]
  BY DEF TypeOK, Steps, Counted
<1>2. Counted' /\ PublishesFrom'
  BY DEF TypeOK, Counted, PublishesFrom
<1>3. FreshWhenIdle' /\ BuiltOnce'
  BY DEF TypeOK, FreshWhenIdle, BuiltOnce
<1>4. JoinedEnded' /\ Marked' /\ FlushedAtExit'
  BY DEF TypeOK, PublishesFrom, JoinedEnded, Marked, FlushedAtExit
<1>. QED
  BY <1>1, <1>2, <1>3, <1>4

\* A flush that is not cut short leaves nothing that was marked.
LEMMA FlushInv == ASSUME IInv, Flush PROVE IInv'
<1> USE DEF Flush, Leave, After
<1>1. TypeOK' /\ pc' \in [Threads -> Steps]
  BY DEF TypeOK, Steps, Counted
<1>2. Counted' /\ PublishesFrom'
  BY DEF TypeOK, Counted, PublishesFrom
<1>3. FreshWhenIdle' /\ BuiltOnce'
  BY DEF TypeOK, FreshWhenIdle, BuiltOnce
<1>4. JoinedEnded' /\ Marked' /\ FlushedAtExit'
  BY DEF TypeOK, PublishesFrom, JoinedEnded, Marked, FlushedAtExit
<1>. QED
  BY <1>1, <1>2, <1>3, <1>4

\* The process ends.
LEMMA ExitInv == ASSUME IInv, Exit PROVE IInv'
<1> USE DEF Exit
<1>1. TypeOK' /\ pc' \in [Threads -> Steps]
  <2>1. up' \in BOOLEAN /\ stop' \in BOOLEAN /\ told' \in BOOLEAN /\ cut' \in BOOLEAN
    BY DEF TypeOK
  <2>. QED
    BY <2>1 DEF TypeOK, Steps, Counted
<1>2. Counted' /\ PublishesFrom'
  BY DEF TypeOK, Counted, PublishesFrom
<1>3. FreshWhenIdle' /\ BuiltOnce'
  BY DEF TypeOK, FreshWhenIdle, BuiltOnce
<1>4. JoinedEnded' /\ Marked' /\ FlushedAtExit'
  BY DEF TypeOK, PublishesFrom, JoinedEnded, Marked, FlushedAtExit
<1>. QED
  BY <1>1, <1>2, <1>3, <1>4

\* In one tick a waiting worker is done waiting, so its file grows no older.
LEMMA TickInv == ASSUME IInv, Tick PROVE IInv'
<1> USE DEF Tick, Waiting, Waits
<1>1. TypeOK' /\ pc' \in [Threads -> Steps]
  BY DEF TypeOK, Steps, Counted
<1>2. Counted' /\ PublishesFrom'
  BY DEF TypeOK, Counted, PublishesFrom
<1>3. FreshWhenIdle' /\ BuiltOnce'
  BY DEF TypeOK, FreshWhenIdle, BuiltOnce
<1>4. JoinedEnded' /\ Marked' /\ FlushedAtExit'
  BY DEF TypeOK, PublishesFrom, JoinedEnded, Marked, FlushedAtExit
<1>. QED
  BY <1>1, <1>2, <1>3, <1>4

\* A signal arrives.
LEMMA SignalInv == ASSUME IInv, Signal PROVE IInv'
<1> USE DEF Signal
<1>1. TypeOK' /\ pc' \in [Threads -> Steps]
  BY DEF TypeOK, Steps, Counted
<1>2. Counted' /\ PublishesFrom'
  BY DEF TypeOK, Counted, PublishesFrom
<1>3. FreshWhenIdle' /\ BuiltOnce'
  BY DEF TypeOK, FreshWhenIdle, BuiltOnce
<1>4. JoinedEnded' /\ Marked' /\ FlushedAtExit'
  BY DEF TypeOK, PublishesFrom, JoinedEnded, Marked, FlushedAtExit
<1>. QED
  BY <1>1, <1>2, <1>3, <1>4

\* The process is killed.
LEMMA KillInv == ASSUME IInv, Kill PROVE IInv'
<1> USE DEF Kill
<1>1. TypeOK' /\ pc' \in [Threads -> Steps]
  <2>1. up' \in BOOLEAN /\ stop' \in BOOLEAN /\ told' \in BOOLEAN /\ cut' \in BOOLEAN
    BY DEF TypeOK
  <2>. QED
    BY <2>1 DEF TypeOK, Steps, Counted
<1>2. Counted' /\ PublishesFrom'
  BY DEF TypeOK, Counted, PublishesFrom
<1>3. FreshWhenIdle' /\ BuiltOnce'
  BY DEF TypeOK, FreshWhenIdle, BuiltOnce
<1>4. JoinedEnded' /\ Marked' /\ FlushedAtExit'
  BY DEF TypeOK, PublishesFrom, JoinedEnded, Marked, FlushedAtExit
<1>. QED
  BY <1>1, <1>2, <1>3, <1>4

\* A client breaks.
LEMMA BreakInv == ASSUME IInv, NEW l \in Loops, Break(l) PROVE IInv'
<1> USE DEF Break
<1>1. TypeOK' /\ pc' \in [Threads -> Steps]
  BY DEF TypeOK, Steps, Counted
<1>2. Counted' /\ PublishesFrom'
  BY DEF TypeOK, Counted, PublishesFrom
<1>3. FreshWhenIdle' /\ BuiltOnce'
  BY DEF TypeOK, FreshWhenIdle, BuiltOnce
<1>4. JoinedEnded' /\ Marked' /\ FlushedAtExit'
  BY DEF TypeOK, PublishesFrom, JoinedEnded, Marked, FlushedAtExit
<1>. QED
  BY <1>1, <1>2, <1>3, <1>4

\* A new process starts as the first one did.
LEMMA RestartInv == ASSUME IInv, Restart PROVE IInv'
<1> USE DEF Restart, Started
<1>1. TypeOK' /\ pc' \in [Threads -> Steps]
  <2>1. up' \in BOOLEAN /\ stop' \in BOOLEAN /\ told' \in BOOLEAN /\ cut' \in BOOLEAN
    OBVIOUS
  <2>2. /\ queued' \in 0..Capacity /\ age' \in 0..MaxAge + 1
        /\ broken' \in [Loops -> BOOLEAN] /\ fails' \in [Loops -> 0..MaxFailures]
    BY DEF TypeOK
  <2>3. pub' \in [Threads -> {"out", "check", "lock", "join"}] /\ pc' \in [Threads -> Steps]
    BY DEF Steps
  <2>. QED
    BY <2>1, <2>2, <2>3 DEF TypeOK
<1>2. Counted' /\ PublishesFrom'
  BY DEF TypeOK, Counted, PublishesFrom
<1>3. FreshWhenIdle' /\ BuiltOnce'
  BY DEF TypeOK, FreshWhenIdle, BuiltOnce
<1>4. JoinedEnded' /\ Marked' /\ FlushedAtExit'
  BY DEF TypeOK, PublishesFrom, JoinedEnded, Marked, FlushedAtExit
<1>. QED
  BY <1>1, <1>2, <1>3, <1>4

-----------------------------------------------------------------------------
(* The theorems *)

\* The invariant is inductive.
LEMMA NextInv == IInv /\ [Next]_vars => IInv'
<1> SUFFICES ASSUME IInv, [Next]_vars PROVE IInv'
  OBVIOUS
<1>1. CASE MainStep
  BY <1>1, PollTopInv, PolledInv, PollFailsInv, DrainInv, JoinThreadInv, CloseInv, FlushInv,
     ExitInv DEF MainStep, PollLoop
<1>2. CASE WorkerLoop \/ Handled \/ SweepLoop
  BY <1>2, PassInv, GetInv, HandledInv, SweepLoopInv DEF WorkerLoop
<1>3. CASE PollLoop("decisions")
  BY <1>3, PollTopInv, PolledInv, PollFailsInv DEF PollLoop
<1>4. CASE \E t \in Threads : Publish(t) \/ PublishStep(t) \/ Send(t)
  BY <1>4, PublishInv, CheckInv, LockInv, JoinInv, SendInv DEF PublishStep
<1>5. CASE ConstructProducer \/ Tick \/ Signal \/ Kill \/ Restart
  BY <1>5, ConstructInv, TickInv, SignalInv, KillInv, RestartInv
<1>6. CASE \E l \in Loops : Break(l) \/ CommitFails(l)
  BY <1>6, BreakInv, CommitFailsInv
<1>7. CASE UNCHANGED vars
  BY <1>7 DEF vars, TypeOK, Counted, PublishesFrom, FreshWhenIdle, BuiltOnce, JoinedEnded,
              Marked, FlushedAtExit
<1>. QED
  BY <1>1, <1>2, <1>3, <1>4, <1>5, <1>6, <1>7 DEF Next

\* The invariant holds in every reachable state.
THEOREM InductiveInvariant == Spec => []IInv
<1>1. Init => IInv
  BY InitInv
<1>2. IInv /\ [Next]_vars => IInv'
  BY NextInv
<1>. QED
  BY <1>1, <1>2, PTL DEF Spec

\* Every variable keeps its type, in every process with any number of threads that
\* publish: a loop counts no failure beyond its limit, main joins no thread that it did
\* not start, and nothing is marked that is not in the buffer.
THEOREM TypeCorrect == Spec => []TypeOK
<1>1. IInv => TypeOK
  OBVIOUS
<1>. QED
  BY <1>1, InductiveInvariant, PTL

\* However long no work comes, the health check does not take the worker for stuck.
\* (run_forever, heartbeat.check)
THEOREM IdleReadsAsHealthy == Spec => []IdleIsHealthy
<1>1. IInv => IdleIsHealthy
  BY DEF TypeOK, FreshWhenIdle, IdleIsHealthy, Unhealthy
<1>. QED
  BY <1>1, InductiveInvariant, PTL

\* Whichever threads publish for the first time at once, one producer is constructed.
\* (_get_producer)
THEOREM OneProducerIsBuilt == Spec => []OneProducer
<1>1. IInv => OneProducer
  BY DEF BuiltOnce, OneProducer
<1>. QED
  BY <1>1, InductiveInvariant, PTL

\* Main's order of shutting down leaves no event of an ended thread unflushed.
\* (main's finally)
THEOREM EndedThreadsAreFlushed == Spec => []FlushedAtExit
<1>1. IInv => FlushedAtExit
  OBVIOUS
<1>. QED
  BY <1>1, InductiveInvariant, PTL
=============================================================================
