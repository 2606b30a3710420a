------------------------------ MODULE AuditTrail ------------------------------
(***************************************************************************)
(* The audit trail: the hash-chained file that TelemetrySink appends to,   *)
(* the copy on the audit topic that the worker publishes through a lazily  *)
(* built producer, and verify_chain.                                       *)
(*                                                                         *)
(* The i-th audit event of run r is <<r, i>>; a run's events grow in its   *)
(* checkpoint slice by slice.  SHA-256 is modelled as a function without   *)
(* collisions: the digest of a record is the sequence of everything that   *)
(* went into it.                                                           *)
(*                                                                         *)
(* External: the disk (a write that fails or is cut short leaves whole     *)
(* lines and possibly a torn one, because the lines go through one buffer) *)
(* and the Kafka client.                                                   *)
(***************************************************************************)
EXTENDS Integers, Sequences, FiniteSetsExt, SequencesExt

CONSTANTS
  Runs,
  MaxEvents,   \* BOUND: audit events of a run
  MaxTrouble   \* BOUND: crashes of the process, writes and sends that fail, runs
               \* the sweep expires and changes by someone else, all together

ASSUME AuditAssumption == MaxEvents \in Nat /\ MaxTrouble \in Nat

Events == Runs \X (1..MaxEvents)

\* _record_digest
Digest(s, p, e) == Append(p, <<s, e>>)
Genesis == << >>

\* A line that is not JSON; "open" if it does not end with a newline either.
Bad(kind) == [kind |-> kind, seq |-> -1, prev |-> Genesis, hash |-> Genesis, event |-> << >>]
Record(s, p, e) == [kind |-> "record", seq |-> s, prev |-> p, hash |-> Digest(s, p, e), event |-> e]

VARIABLES
  \* Durable.
  length,    \* length[r]: the audit events in r's checkpoint
  over,      \* over[r]: r cannot be resumed any more
  target,    \* target[r]: r has a row in run_targets
  file,      \* the lines of the audit file
  topic,     \* the events published to the audit topic
  \* TelemetrySink.
  seq, prev, \* the chain head
  cursor,    \* _emitted_counts, 0 for a run without one
  \* The worker thread: a slice of run is over.
  wpc, run, parked,
  unsent,    \* the flushed events _publish_audit has not come to
  \* events._producer and its initialisation.
  producer,
  \* Observations.
  raised,    \* the runs that a node's exception ended
  tears,     \* torn lines so far
  crashes, faults, sweeps, tampers

runVars    == <<length, over, target>>
sinkVars   == <<seq, prev, cursor>>
workVars   == <<wpc, run, parked, unsent>>
boundVars  == <<crashes, faults, sweeps, tampers>>
vars == <<runVars, file, topic, sinkVars, workVars, producer, raised, tears, boundVars>>

TypeOK ==
  /\ length \in [Runs -> 0..MaxEvents] /\ over \in [Runs -> BOOLEAN]
  /\ target \in [Runs -> BOOLEAN]
  /\ \A i \in DOMAIN file : file[i].kind \in {"record", "open", "garbage"}
  /\ topic \subseteq Events
  /\ seq \in Nat /\ cursor \in [Runs -> 0..MaxEvents]
  /\ \A r \in Runs : cursor[r] <= length[r]
  /\ wpc \in {"idle", "flush", "publish", "retire"} /\ run \in Runs /\ parked \in BOOLEAN
  /\ producer \in {"new", "starting", "ready", "failed"}
  /\ \A i \in DOMAIN unsent : unsent[i] \in Events
  /\ raised \subseteq Runs /\ tears \in 0..MaxTrouble
  /\ crashes \in Nat /\ faults \in Nat /\ sweeps \in Nat /\ tampers \in Nat
  /\ crashes + faults + sweeps + tampers <= MaxTrouble

Init ==
  /\ length = [r \in Runs |-> 0] /\ over = [r \in Runs |-> FALSE]
  /\ target = [r \in Runs |-> TRUE]
  /\ file = << >> /\ topic = {}
  /\ seq = 0 /\ prev = Genesis /\ cursor = [r \in Runs |-> 0]
  /\ wpc = "idle" /\ run \in Runs /\ parked = FALSE /\ unsent = << >>
  /\ producer = "new" /\ raised = {} /\ tears = 0
  /\ crashes = 0 /\ faults = 0 /\ sweeps = 0 /\ tampers = 0

MoreTrouble == crashes + faults + sweeps + tampers < MaxTrouble

-----------------------------------------------------------------------------
(* verify_chain and _resume_chain *)

\* Mutant: the stored digest is taken as it is.
Holds_NoDigest(i) ==
  /\ file[i].kind = "record"
  /\ file[i].seq = i - 1
  /\ file[i].prev = (IF i = 1 THEN Genesis ELSE file[i - 1].hash)

\* What verify_chain asks of line i, those before it having passed.
Holds(i) ==
  /\ file[i].kind = "record"
  /\ file[i].seq = i - 1
  /\ file[i].prev = (IF i = 1 THEN Genesis ELSE file[i - 1].hash)
  /\ file[i].hash = Digest(file[i].seq, file[i].prev, file[i].event)

Verified == \A i \in DOMAIN file : Holds(i)

\* Mutant: every process starts a chain of its own.
Resumed_Genesis(f) == [seq |-> 0, prev |-> Genesis]

\* Where a new sink takes up the chain: after the last line, if it can be read.
Resumed(f) ==
  IF f # << >> /\ Last(f).kind = "record"
  THEN [seq |-> Last(f).seq + 1, prev |-> Last(f).hash]
  ELSE [seq |-> 0, prev |-> Genesis]

-----------------------------------------------------------------------------
(* A slice of a run, and what the worker does after it *)

\* The graph runs r for a slice and adds n events to its checkpoint.  If a node
\* raised, _fail_run reports the run without recording them.  BOUND: once per run.
Slice(r, n, how) ==
  /\ wpc = "idle" /\ ~over[r] /\ length[r] + n <= MaxEvents
  /\ length' = [length EXCEPT ![r] = @ + n]
  /\ run' = r /\ parked' = (how = "parked")
  /\ IF how = "raised"
     THEN /\ r \notin raised
          /\ wpc' = "retire" /\ raised' = raised \cup {r}
          /\ over' \in {over, [over EXCEPT ![r] = TRUE]}
     ELSE /\ wpc' = "flush" /\ UNCHANGED raised
          /\ over' = [over EXCEPT ![r] = (how = "ended")]
  /\ UNCHANGED <<target, file, topic, sinkVars, unsent, producer, tears, boundVars>>

\* Mutant: one cursor for the process (docs/adr/0011).
Flushed_Process(r) == Max({cursor[s] : s \in Runs})

\* flush_new_events: the events of r up to here are in the file already.
Flushed(r) == cursor[r]

NewEvents == [i \in 1..(length[run] - Flushed(run)) |-> <<run, Flushed(run) + i>>]

\* The records of the first n new events.
NewRecords(n) ==
  [i \in 1..n |-> Record(seq + i - 1,
                         prev \o [j \in 1..(i - 1) |-> <<seq + j - 1, NewEvents[j]>>],
                         NewEvents[i])]

\* Lines are appended where the file ends, which may be inside a torn line.
Written(lines) ==
  IF lines # << >> /\ file # << >> /\ Last(file).kind = "open"
  THEN Front(file) \o <<Bad("garbage")>> \o Tail(lines)
  ELSE file \o lines

\* The chain head after n new records.
Advance(n) ==
  /\ seq' = seq + n
  /\ prev' = prev \o [j \in 1..n |-> <<seq + j - 1, NewEvents[j]>>]

\* _after_slice goes on: a parked run waits, any other is reported and retired.
AfterAudit == wpc' = IF parked THEN "idle" ELSE "retire"

\* Mutant: the cursor is increased by the events of the run, not set to them.
CursorAfterFlush_Added == [cursor EXCEPT ![run] = @ + length[run]]

CursorAfterFlush == [cursor EXCEPT ![run] = length[run]]

Flush ==
  /\ wpc = "flush"
  /\ LET n == Len(NewEvents)
     IN /\ file' = Written(NewRecords(n)) /\ Advance(n)
        /\ cursor' = IF n = 0 THEN cursor ELSE CursorAfterFlush
        /\ IF n > 0 /\ target[run] THEN unsent' = NewEvents /\ wpc' = "publish"
                                   ELSE AfterAudit /\ UNCHANGED unsent
  /\ UNCHANGED <<runVars, topic, run, parked, producer, raised, tears, boundVars>>

\* The first n new records reach the file, and perhaps part of the next.
PartlyWritten(n) ==
  \/ file' = Written(NewRecords(n)) /\ UNCHANGED tears
  \/ /\ n < Len(NewEvents)
     /\ file' = Written(Append(NewRecords(n), Bad("open"))) /\ tears' = tears + 1

\* Mutant: the cursor is moved before the lines are written.
CursorAfterFailure_Moved == [cursor EXCEPT ![run] = length[run]]

CursorAfterFailure == cursor

\* Mutant: _record_audit publishes all the same.
AfterFailure_Publishes == unsent' = NewEvents /\ wpc' = "publish"

AfterFailure == AfterAudit /\ UNCHANGED unsent

\* The write, or the flush when the file is closed, raises.  _record_audit logs it
\* and goes on; the chain head is where the loop had come to, which the lines on
\* disk may not have, and the cursor where it was.
FlushFails ==
  /\ wpc = "flush" /\ NewEvents # << >>
  /\ MoreTrouble /\ faults' = faults + 1
  /\ \E k \in 0..Len(NewEvents) : Advance(k) /\ \E n \in 0..k : PartlyWritten(n)
  /\ cursor' = CursorAfterFailure
  /\ AfterFailure
  /\ UNCHANGED <<runVars, topic, run, parked, producer, raised,
                 crashes, sweeps, tampers>>

\* _get_producer starts the construction on a thread of its own.
GetProducer ==
  /\ wpc = "publish" /\ producer = "new"
  /\ producer' = "starting"
  /\ UNCHANGED <<runVars, file, topic, sinkVars, workVars, raised, tears, boundVars>>

\* The construction succeeds, or fails for the life of the process.
ConstructProducer ==
  /\ producer = "starting"
  /\ producer' \in {"ready", "failed"}
  /\ UNCHANGED <<runVars, file, topic, sinkVars, workVars, raised, tears, boundVars>>

NextUnsent ==
  /\ unsent' = Tail(unsent)
  /\ IF Tail(unsent) = << >> THEN AfterAudit ELSE UNCHANGED wpc

\* publish_audit_event
Publish ==
  /\ wpc = "publish" /\ producer = "ready"
  /\ \/ topic' = topic \cup {Head(unsent)} /\ UNCHANGED faults
     \/ MoreTrouble /\ faults' = faults + 1 /\ UNCHANGED topic
  /\ NextUnsent
  /\ UNCHANGED <<runVars, file, sinkVars, run, parked, producer, raised, tears,
                 crashes, sweeps, tampers>>

\* There is no producer, or none within the second that _get_producer waits.
Drop ==
  /\ wpc = "publish" /\ producer \in {"starting", "failed"}
  /\ NextUnsent
  /\ UNCHANGED <<runVars, file, topic, sinkVars, run, parked, producer, raised, tears,
                 boundVars>>

\* _publish_outcome forgets the run's target and its cursor.
Retire(r) ==
  /\ target' = [target EXCEPT ![r] = FALSE]
  /\ cursor' = [cursor EXCEPT ![r] = 0]

RetireRun ==
  /\ wpc = "retire"
  /\ Retire(run)
  /\ wpc' = "idle"
  /\ UNCHANGED <<length, over, file, topic, seq, prev, run, parked, unsent, producer, raised,
                 tears, boundVars>>

-----------------------------------------------------------------------------
(* Around the worker *)

\* The sweep thread expires a run it found parked, whatever the worker does with
\* the run meanwhile.
Expire(r) ==
  /\ MoreTrouble /\ sweeps' = sweeps + 1
  /\ length[r] > 0 /\ ~over[r]
  /\ Retire(r)
  /\ UNCHANGED <<length, over, file, topic, seq, prev, workVars, producer, raised, tears,
                 crashes, faults, tampers>>

\* The process dies, perhaps while it writes, and a new one builds its sink.
Crash ==
  /\ MoreTrouble /\ crashes' = crashes + 1
  /\ \/ UNCHANGED <<file, tears>>
     \/ wpc = "flush" /\ \E n \in 0..Len(NewEvents) : PartlyWritten(n)
  /\ seq' = Resumed(file').seq /\ prev' = Resumed(file').prev
  /\ cursor' = [r \in Runs |-> 0]
  /\ wpc' = "idle" /\ parked' = FALSE /\ unsent' = << >>
  /\ producer' = "new"
  /\ UNCHANGED <<runVars, topic, run, raised, faults, sweeps, tampers>>

Altered(line) == [line EXCEPT !.event = <<"altered">>]
Rehashed(line) == [line EXCEPT !.hash = Digest(line.seq, line.prev, line.event)]

\* What ADR 0008 says the chain detects: a record altered, or removed, or moved,
\* anywhere but by rebuilding or dropping the end.  BOUND: once, as a second change
\* may undo the first.
Tamper ==
  /\ MoreTrouble /\ tampers = 0 /\ tampers' = 1
  /\ \E i \in DOMAIN file :
       \/ file' = [file EXCEPT ![i] = Altered(@)]
       \/ i < Len(file) /\ file' = [file EXCEPT ![i] = Rehashed(Altered(@))]
       \/ i < Len(file) /\ file' = RemoveAt(file, i)
       \/ i < Len(file) /\ file' = [file EXCEPT ![i] = file[i + 1], ![i + 1] = file[i]]
  /\ UNCHANGED <<runVars, topic, sinkVars, workVars, producer, raised, tears,
                 crashes, faults, sweeps>>

\* The worker has nothing to do.
Idle == wpc = "idle" /\ UNCHANGED vars

Next ==
  \/ \E r \in Runs, n \in 1..2, how \in {"parked", "ended", "raised"} : Slice(r, n, how)
  \/ Flush \/ FlushFails \/ GetProducer \/ ConstructProducer \/ Publish \/ Drop \/ RetireRun
  \/ \E r \in Runs : Expire(r)
  \/ Crash \/ Tamper \/ Idle

Spec == Init /\ [][Next]_vars

-----------------------------------------------------------------------------
(* Properties. *)

Recorded(e) == \E i \in DOMAIN file : file[i].kind = "record" /\ file[i].event = e

\* An audit file that nobody changed and no write tore or failed on verifies,
\* across restarts, forgotten cursors, crashes between lines and events written
\* twice (_resume_chain, flush_new_events).
ChainVerifies == tears = 0 /\ faults = 0 /\ tampers = 0 => Verified

\* A record altered, removed or moved in a chain that no write had damaged stays
\* visible to verify_chain, however the service goes on appending to it and
\* restarting (ADR 0008).
TamperingIsSeen == tampers > 0 /\ tears = 0 /\ faults = 0 => ~Verified

\* An event behind a run's cursor is never written again by this process, so it
\* has to be in the file: also when writes fail half-way, runs interleave, or the
\* sweep forgets a cursor under the worker.
CursorIsRecorded ==
  tears = 0 /\ tampers = 0 =>
    \A r \in Runs : \A i \in 1..cursor[r] : Recorded(<<r, i>>)

\* The copy on the topic never holds an event that the file does not.
TopicWithinFile == tears = 0 /\ tampers = 0 => \A e \in topic : Recorded(e)

\* When the worker is idle every event of every run is in the file (ADR 0011), unless a
\* crash or a failed write took it, or a node's exception ended the run: what such a
\* run did in its last slice is not recorded.
RunsAreAudited ==
  wpc = "idle" /\ crashes = 0 /\ faults = 0 /\ tampers = 0 =>
    \A r \in Runs \ raised : \A i \in 1..length[r] : Recorded(<<r, i>>)
=============================================================================
