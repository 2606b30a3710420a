--------------------------- MODULE AuditTrailProofs ---------------------------
(***************************************************************************)
(* Proofs about AuditTrail, for every set of runs, number of events and    *)
(* number of crashes, failed writes and sends, expiries and changes: the   *)
(* types, that an untouched chain verifies and a changed one does not, and *)
(* that what the cursor, the topic and an idle worker stand for is in the  *)
(* file.                                                                   *)
(***************************************************************************)
EXTENDS AuditTrail, SequenceTheorems, TLAPS

USE AuditAssumption DEF AuditAssumption

\* What a line can carry, and what a digest is made of.
Payload == Events \cup {<<"altered">>, << >>}
Chain   == Seq(Int \X Payload)
Line    == [kind : {"record", "open", "garbage"}, seq : Int, prev : Chain, hash : Chain,
            event : Payload]

\* A record's number is natural.
Numbered(f) == \A i \in DOMAIN f : f[i].kind = "record" => f[i].seq \in Nat

Types ==
  /\ TypeOK
  /\ file \in Seq(Line) /\ unsent \in Seq(Events) /\ prev \in Chain
  /\ Numbered(file)
  /\ wpc = "publish" => unsent # << >>

\* Only a crash or a failed write tears a line, and only a torn line is no record.
TornLines ==
  /\ tears <= crashes + faults
  /\ tears = 0 => \A i \in DOMAIN file : file[i].kind = "record"
  /\ tears = 0 /\ tampers = 0 => \A i \in DOMAIN file : file[i].event \in Events

\* The sink goes on where the file ends, so that the next record's prev is the hash of
\* the last.
HeadOfFile ==
  /\ seq = Len(file)
  /\ prev = IF file = << >> THEN Genesis ELSE file[Len(file)].hash

Chained == tears = 0 /\ faults = 0 /\ tampers = 0 => Verified /\ HeadOfFile

\* What is about to be published is in the file.
UnsentIsRecorded ==
  tears = 0 /\ tampers = 0 => \A i \in DOMAIN unsent : Recorded(unsent[i])

\* An event of a run is in the file unless the worker is about to write it.
AuditedOrFlushing ==
  crashes = 0 /\ faults = 0 /\ tampers = 0 =>
    \A r \in Runs \ raised : \/ wpc = "flush" /\ r = run
                             \/ \A i \in 1..length[r] : Recorded(<<r, i>>)

FileInv == TornLines /\ Chained /\ TamperingIsSeen

RecordInv == CursorIsRecorded /\ UnsentIsRecorded /\ TopicWithinFile /\ AuditedOrFlushing

IInv == Types /\ FileInv /\ RecordInv

-----------------------------------------------------------------------------
(* The lines a flush writes. *)

\* Appending to the second of two chains is appending to both.
LEMMA ConcatAppend ==
  ASSUME NEW s \in Chain, NEW t \in Chain, NEW e \in Int \X Payload
  PROVE  s \o Append(t, e) = Append(s \o t, e)
<1> DEFINE E == Int \X Payload
<1>1. s \in Seq(E) /\ t \in Seq(E) /\ e \in E
  BY DEF Chain
<1> HIDE DEF E
<1>2. s \o Append(t, e) \in Seq(E) /\ Append(s \o t, e) \in Seq(E)
  BY <1>1
<1>3. Len(s \o Append(t, e)) = Len(Append(s \o t, e))
  BY <1>1
<1>4. \A i \in 1..Len(s \o Append(t, e)) : (s \o Append(t, e))[i] = Append(s \o t, e)[i]
  BY <1>1
<1>. QED
  BY <1>2, <1>3, <1>4, SeqEqual

\* The digest of the i-th new record, and the prev of the one after it.
HashOf(i) == prev \o [j \in 1..i |-> <<seq + j - 1, NewEvents[j]>>]

\* The new events of the run are those of its checkpoint behind the cursor.
LEMMA NewEventsFacts ==
  ASSUME TypeOK
  PROVE  /\ NewEvents \in Seq(Events)
         /\ Len(NewEvents) \in Nat /\ Len(NewEvents) = length[run] - cursor[run]
         /\ DOMAIN NewEvents = 1..Len(NewEvents)
         /\ \A i \in 1..Len(NewEvents) :
               NewEvents[i] \in Events /\ NewEvents[i] = <<run, cursor[run] + i>>
<1> DEFINE n == length[run] - cursor[run]
<1>1. /\ run \in Runs /\ n \in Nat
      /\ cursor[run] \in Nat /\ length[run] \in 0..MaxEvents
  BY DEF TypeOK
<1>2. \A i \in 1..n : <<run, cursor[run] + i>> \in Events
  BY <1>1 DEF Events
<1>3. NewEvents = [i \in 1..n |-> <<run, cursor[run] + i>>]
  BY DEF NewEvents, Flushed
<1> HIDE DEF n
<1>4. NewEvents \in [1..n -> Events]
  BY <1>2, <1>3
<1>5. NewEvents \in Seq(Events) /\ Len(NewEvents) = n
  BY <1>1, <1>4
<1>. QED
  BY <1>1, <1>2, <1>3, <1>4, <1>5 DEF n

\* The digests are chains, each one longer than the last.
LEMMA HashFacts ==
  ASSUME Types
  PROVE  /\ \A i \in 0..Len(NewEvents) : HashOf(i) \in Chain
         /\ HashOf(0) = prev
         /\ \A i \in 1..Len(NewEvents) :
               HashOf(i) = Digest(seq + i - 1, HashOf(i - 1), NewEvents[i])
<1>0. /\ prev \in Chain /\ seq \in Nat /\ Len(NewEvents) \in Nat
      /\ \A i \in 1..Len(NewEvents) : NewEvents[i] \in Payload
  BY NewEventsFacts DEF Types, TypeOK, Payload
<1> DEFINE entry(j) == <<seq + j - 1, NewEvents[j]>>
           tail(i) == [j \in 1..i |-> entry(j)]
<1>1. \A j \in 1..Len(NewEvents) : entry(j) \in Int \X Payload
  BY <1>0
<1> HIDE DEF entry
<1>2. ASSUME NEW i \in 0..Len(NewEvents)
      PROVE  /\ tail(i) \in Chain /\ Len(tail(i)) = i
             /\ \A j \in 1..i : tail(i)[j] = entry(j)
  <2>1. \A j \in 1..i : entry(j) \in Int \X Payload
    BY <1>0, <1>1
  <2>2. tail(i) \in [1..i -> Int \X Payload] /\ i \in Nat
    BY <1>0, <2>1
  <2>. QED
    BY <2>2 DEF Chain
<1> HIDE DEF tail
<1>3. \A i \in 0..Len(NewEvents) : HashOf(i) = prev \o tail(i)
  BY DEF HashOf, tail, entry
<1>4. \A i \in 0..Len(NewEvents) : HashOf(i) \in Chain
  <2>1. \A t \in Chain : prev \o t \in Chain
    BY <1>0 DEF Chain
  <2>. QED
    BY <1>2, <1>3, <2>1
<1>5. HashOf(0) = prev
  <2>1. tail(0) = << >> /\ 0 \in 0..Len(NewEvents)
    BY <1>0, <1>2, EmptySeq DEF Chain
  <2>. QED
    BY <1>0, <1>3, <2>1, ConcatEmptySeq DEF Chain
<1>6. ASSUME NEW i \in 1..Len(NewEvents)
      PROVE  HashOf(i) = Append(HashOf(i - 1), entry(i))
  <2>1. i \in 0..Len(NewEvents) /\ i - 1 \in 0..Len(NewEvents) /\ entry(i) \in Int \X Payload
    BY <1>0, <1>1
  <2>2. tail(i) = Append(tail(i - 1), entry(i))
    <3>1. /\ tail(i - 1) \in Chain /\ Len(tail(i - 1)) = i - 1
          /\ \A j \in 1..i - 1 : tail(i - 1)[j] = entry(j)
          /\ tail(i) \in Chain /\ Len(tail(i)) = i
          /\ \A j \in 1..i : tail(i)[j] = entry(j)
      BY <1>2, <2>1
    <3> DEFINE t == Append(tail(i - 1), entry(i))
    <3>2. /\ t \in Chain /\ Len(t) = i
          /\ \A j \in 1..i - 1 : t[j] = entry(j)
          /\ t[i] = entry(i)
      BY <2>1, <3>1, AppendProperties DEF Chain
    <3>3. \A j \in 1..i : t[j] = entry(j)
      BY <3>2
    <3> HIDE DEF t
    <3>4. tail(i) = t
      BY <3>1, <3>2, <3>3, SeqEqual DEF Chain
    <3>. QED
      BY <3>4 DEF t
  <2>3. prev \o Append(tail(i - 1), entry(i)) = Append(prev \o tail(i - 1), entry(i))
    <3>1. tail(i - 1) \in Chain
      BY <1>2, <2>1
    <3>. QED
      BY <1>0, <2>1, <3>1, ConcatAppend
  <2>. QED
    BY <1>3, <2>1, <2>2, <2>3
<1>. QED
  BY <1>4, <1>5, <1>6 DEF Digest, entry

\* The new records: each one's prev is the digest of the one before it.
LEMMA NewRecordsFacts ==
  ASSUME Types, NEW n \in 0..Len(NewEvents)
  PROVE  /\ n \in Nat /\ NewRecords(n) \in Seq(Line) /\ Len(NewRecords(n)) = n
         /\ \A i \in 1..n : /\ NewRecords(n)[i].kind = "record"
                            /\ NewRecords(n)[i].seq = seq + i - 1
                            /\ NewRecords(n)[i].prev = HashOf(i - 1)
                            /\ NewRecords(n)[i].hash = HashOf(i)
                            /\ NewRecords(n)[i].event = NewEvents[i]
<1>0. /\ seq \in Nat /\ n \in Nat /\ Len(NewEvents) \in Nat
      /\ \A i \in 1..Len(NewEvents) : NewEvents[i] \in Payload
      /\ \A i \in 0..Len(NewEvents) : HashOf(i) \in Chain
      /\ \A i \in 1..Len(NewEvents) :
            HashOf(i) = Digest(seq + i - 1, HashOf(i - 1), NewEvents[i])
  <2>1. TypeOK /\ seq \in Nat
    BY DEF Types, TypeOK
  <2>2. /\ Len(NewEvents) \in Nat
        /\ \A i \in 1..Len(NewEvents) : NewEvents[i] \in Payload
    BY <2>1, NewEventsFacts DEF Payload
  <2>3. n \in Nat
    BY <2>2
  <2>. QED
    BY <2>1, <2>2, <2>3, HashFacts
<1> DEFINE rec(i) == [kind |-> "record", seq |-> seq + i - 1, prev |-> HashOf(i - 1),
                      hash |-> HashOf(i), event |-> NewEvents[i]]
<1>1. ASSUME NEW i \in 1..n
      PROVE  /\ i \in 1..Len(NewEvents) /\ i - 1 \in 0..Len(NewEvents)
             /\ i \in 0..Len(NewEvents) /\ seq + i - 1 \in Int
  BY <1>0
<1>2. \A i \in 1..n : rec(i) \in Line
  BY <1>0, <1>1 DEF Line
<1>3. NewRecords(n) = [i \in 1..n |-> rec(i)]
  BY <1>0, <1>1 DEF NewRecords, Record, HashOf
<1>4. \A i \in 1..n : /\ rec(i).kind = "record" /\ rec(i).seq = seq + i - 1
                      /\ rec(i).prev = HashOf(i - 1) /\ rec(i).hash = HashOf(i)
                      /\ rec(i).event = NewEvents[i]
  OBVIOUS
<1> HIDE DEF rec
<1>5. NewRecords(n) \in [1..n -> Line]
  BY <1>2, <1>3
<1>6. NewRecords(n) \in Seq(Line) /\ Len(NewRecords(n)) = n
  BY <1>0, <1>5
<1>. QED
  BY <1>0, <1>3, <1>4, <1>6

\* Lines go to the end of the file, or close a torn line first.
LEMMA WrittenFacts ==
  ASSUME file \in Seq(Line), Numbered(file), NEW lines \in Seq(Line), Numbered(lines)
  PROVE  /\ Written(lines) \in Seq(Line) /\ Numbered(Written(lines))
         /\ (\A i \in DOMAIN file : file[i].kind = "record") => Written(lines) = file \o lines
<1>1. CASE lines # << >> /\ file # << >> /\ Last(file).kind = "open"
  <2> DEFINE f == Front(file)
             t == Tail(lines)
             g == <<Bad("garbage")>>
  <2>1. f \in Seq(Line) /\ Numbered(f)
    <3>1. /\ f \in Seq(Line) /\ DOMAIN f \subseteq DOMAIN file
          /\ \A i \in DOMAIN f : f[i] = file[i]
      BY <1>1 DEF Front
    <3>. QED
      BY <3>1 DEF Numbered
  <2>2. t \in Seq(Line) /\ Numbered(t)
    <3>1. /\ t \in Seq(Line)
          /\ \A i \in DOMAIN t : i + 1 \in DOMAIN lines /\ t[i] = lines[i + 1]
      BY <1>1
    <3>. QED
      BY <3>1 DEF Numbered
  <2>3. g \in Seq(Line) /\ Numbered(g)
    <3>1. << >> \in Chain /\ << >> \in Payload /\ -1 \in Int
      BY DEF Chain, Payload
    <3>2. Bad("garbage") \in Line /\ Bad("garbage").kind = "garbage"
      BY <3>1 DEF Bad, Genesis, Line
    <3>. QED
      BY <3>2 DEF Numbered
  <2>4. Written(lines) = f \o g \o t
    BY <1>1 DEF Written
  <2> HIDE DEF f, g, t
  <2>5. ASSUME NEW u \in Seq(Line), NEW v \in Seq(Line), Numbered(u), Numbered(v)
        PROVE  u \o v \in Seq(Line) /\ Numbered(u \o v)
    BY <2>5 DEF Numbered
  <2>6. f \o g \in Seq(Line) /\ Numbered(f \o g)
    BY <2>1, <2>3, <2>5
  <2>7. ~\A i \in DOMAIN file : file[i].kind = "record"
    <3>1. Len(file) \in DOMAIN file /\ file[Len(file)].kind = "open"
      BY <1>1 DEF Last
    <3>. QED
      BY <3>1
  <2>. QED
    BY <2>2, <2>4, <2>5, <2>6, <2>7
<1>2. CASE ~(lines # << >> /\ file # << >> /\ Last(file).kind = "open")
  <2>1. Written(lines) = file \o lines
    BY <1>2 DEF Written
  <2>2. file \o lines \in Seq(Line) /\ Numbered(file \o lines)
    BY DEF Numbered
  <2>. QED
    BY <2>1, <2>2
<1>. QED
  BY <1>1, <1>2

LEMMA LineKinds ==
  ASSUME NEW f \in Seq(Line)
  PROVE  \A i \in DOMAIN f : f[i].kind \in {"record", "open", "garbage"}
<1>1. \A i \in DOMAIN f : f[i] \in Line
  OBVIOUS
<1>. QED
  BY <1>1 DEF Line

\* A write, whole or cut short, leaves a file of lines.
LEMMA WriteTypes ==
  ASSUME Types, NEW n \in 0..Len(NewEvents), PartlyWritten(n)
  PROVE  /\ file' \in Seq(Line) /\ Numbered(file')
         /\ tears' = tears \/ tears' = tears + 1
<1>1. /\ n \in Nat /\ NewRecords(n) \in Seq(Line) /\ Len(NewRecords(n)) = n
      /\ \A i \in 1..n : NewRecords(n)[i].seq = seq + i - 1
      /\ file \in Seq(Line) /\ Numbered(file) /\ seq \in Nat
  BY NewRecordsFacts DEF Types, TypeOK
<1>2. Numbered(NewRecords(n))
  BY <1>1 DEF Numbered
<1>3. CASE file' = Written(NewRecords(n)) /\ UNCHANGED tears
  BY <1>1, <1>2, <1>3, WrittenFacts
<1>4. CASE file' = Written(Append(NewRecords(n), Bad("open"))) /\ tears' = tears + 1
  <2>1. Bad("open") \in Line /\ Bad("open").kind = "open"
    <3>1. << >> \in Chain /\ << >> \in Payload /\ -1 \in Int
      BY DEF Chain, Payload
    <3>. QED
      BY <3>1 DEF Bad, Genesis, Line
  <2>2. /\ Append(NewRecords(n), Bad("open")) \in Seq(Line)
        /\ Numbered(Append(NewRecords(n), Bad("open")))
    BY <1>1, <1>2, <2>1 DEF Numbered
  <2>. QED
    BY <1>1, <1>4, <2>2, WrittenFacts
<1>. QED
  BY <1>3, <1>4 DEF PartlyWritten

\* The length of two files, one after the other.
LEMMA ConcatLines ==
  ASSUME NEW s \in Seq(Line), NEW t \in Seq(Line)
  PROVE  /\ Len(s) \in Nat /\ DOMAIN s = 1..Len(s)
         /\ Len(s \o t) = Len(s) + Len(t) /\ DOMAIN (s \o t) = 1..Len(s) + Len(t)
<1>1. s \o t \in Seq(Line) /\ Len(s \o t) = Len(s) + Len(t)
  BY ConcatProperties
<1>. QED
  BY <1>1

\* A file no write has torn only grows, by the new records.
LEMMA WriteAppends ==
  ASSUME Types, TornLines, NEW n \in 0..Len(NewEvents), PartlyWritten(n), tears' = 0
  PROVE  /\ tears = 0 /\ Len(file) \in Nat /\ DOMAIN file = 1..Len(file)
         /\ Len(file') = Len(file) + n /\ DOMAIN file' = 1..Len(file) + n
         /\ \A i \in DOMAIN file : i \in DOMAIN file' /\ file'[i] = file[i]
         /\ \A i \in 1..n : file'[Len(file) + i] = NewRecords(n)[i]
         /\ \A i \in DOMAIN file' : i \in DOMAIN file \/ \E k \in 1..n : i = Len(file) + k
<1>1. /\ n \in Nat /\ NewRecords(n) \in Seq(Line) /\ Len(NewRecords(n)) = n
      /\ \A i \in 1..n : NewRecords(n)[i].seq = seq + i - 1
      /\ file \in Seq(Line) /\ Numbered(file) /\ seq \in Nat /\ tears \in Nat
  BY NewRecordsFacts DEF Types, TypeOK
<1>2. Numbered(NewRecords(n))
  BY <1>1 DEF Numbered
<1>3. tears = 0 /\ file' = Written(NewRecords(n))
  BY <1>1 DEF PartlyWritten
<1>4. file' = file \o NewRecords(n)
  BY <1>1, <1>2, <1>3, WrittenFacts DEF TornLines
<1>5. /\ Len(file) \in Nat /\ DOMAIN file = 1..Len(file)
      /\ Len(file') = Len(file) + n /\ DOMAIN file' = 1..Len(file) + n
  BY <1>1, <1>4, ConcatLines
<1>6. \A i \in DOMAIN file : i \in DOMAIN file' /\ file'[i] = file[i]
  BY <1>1, <1>4
<1>7. \A i \in 1..n : file'[Len(file) + i] = NewRecords(n)[i]
  BY <1>1, <1>4
<1>8. ASSUME NEW i \in DOMAIN file', i \notin DOMAIN file
      PROVE  \E k \in 1..n : i = Len(file) + k
  <2>1. i - Len(file) \in 1..n /\ i = Len(file) + (i - Len(file))
    BY <1>1, <1>5, <1>8
  <2>. QED
    BY <2>1
<1>. QED
  BY <1>3, <1>5, <1>6, <1>7, <1>8

\* What was recorded stays so, and the new events are recorded.
LEMMA WriteRecords ==
  ASSUME Types, TornLines, NEW n \in 0..Len(NewEvents), PartlyWritten(n), tears' = 0
  PROVE  /\ \A e : Recorded(e) => Recorded(e)'
         /\ \A i \in 1..n : \A e : e = NewEvents[i] => Recorded(e)'
         /\ \A i \in DOMAIN file' : file'[i].kind = "record"
         /\ tampers = 0 => \A i \in DOMAIN file' : file'[i].event \in Events
<1>1. /\ tears = 0
      /\ \A i \in DOMAIN file : i \in DOMAIN file' /\ file'[i] = file[i]
      /\ \A i \in 1..n : Len(file) + i \in DOMAIN file' /\ file'[Len(file) + i] = NewRecords(n)[i]
      /\ \A i \in DOMAIN file' : i \in DOMAIN file \/ \E k \in 1..n : i = Len(file) + k
  <2>1. /\ n \in Nat /\ tears = 0 /\ Len(file) \in Nat /\ DOMAIN file' = 1..Len(file) + n
        /\ \A i \in DOMAIN file : i \in DOMAIN file' /\ file'[i] = file[i]
        /\ \A i \in 1..n : file'[Len(file) + i] = NewRecords(n)[i]
        /\ \A i \in DOMAIN file' : i \in DOMAIN file \/ \E k \in 1..n : i = Len(file) + k
    BY NewRecordsFacts, WriteAppends
  <2>2. \A i \in 1..n : Len(file) + i \in DOMAIN file'
    BY <2>1
  <2>. QED
    BY <2>1, <2>2
<1>2. ASSUME NEW i \in 1..n
      PROVE  /\ NewRecords(n)[i].kind = "record" /\ NewRecords(n)[i].event = NewEvents[i]
             /\ NewEvents[i] \in Events
  <2>1. i \in 1..Len(NewEvents)
    BY NewRecordsFacts, NewEventsFacts DEF Types
  <2>. QED
    BY <2>1, NewRecordsFacts, NewEventsFacts DEF Types
<1>3. \A e : Recorded(e) => Recorded(e)'
  BY <1>1 DEF Recorded
<1>4. ASSUME NEW i \in 1..n, NEW e, e = NewEvents[i] PROVE Recorded(e)'
  <2>1. /\ Len(file) + i \in DOMAIN file'
        /\ file'[Len(file) + i].kind = "record" /\ file'[Len(file) + i].event = e
    BY <1>1, <1>2, <1>4
  <2>. QED
    BY <2>1 DEF Recorded
<1>5. ASSUME NEW i \in DOMAIN file'
      PROVE  file'[i].kind = "record" /\ (tampers = 0 => file'[i].event \in Events)
  <2>1. CASE i \in DOMAIN file
    BY <1>1, <2>1 DEF TornLines
  <2>2. ASSUME NEW k \in 1..n, i = Len(file) + k
        PROVE  file'[i].kind = "record" /\ file'[i].event \in Events
    <3>1. file'[i] = NewRecords(n)[k]
      BY <1>1, <2>2
    <3>. QED
      BY <1>2, <3>1
  <2>. QED
    BY <1>1, <2>1, <2>2
<1>. QED
  BY <1>3, <1>4, <1>5

\* A chain that held goes on: every line holds, and its end is the digest of the last
\* new record.
LEMMA WriteChains ==
  ASSUME Types, TornLines, Verified, HeadOfFile,
         NEW n \in 0..Len(NewEvents), PartlyWritten(n), tears' = 0
  PROVE  /\ Verified'
         /\ Len(file') = seq + n
         /\ HashOf(n) = IF file' = << >> THEN Genesis ELSE file'[Len(file')].hash
<1>1. /\ Len(file) \in Nat /\ DOMAIN file = 1..Len(file) /\ seq = Len(file)
      /\ prev = IF file = << >> THEN Genesis ELSE file[Len(file)].hash
      /\ Len(file') = Len(file) + n /\ DOMAIN file' = 1..Len(file) + n
      /\ \A i \in DOMAIN file : file'[i] = file[i]
      /\ \A i \in 1..n : file'[Len(file) + i] = NewRecords(n)[i]
      /\ \A i \in DOMAIN file' : i \in DOMAIN file \/ \E k \in 1..n : i = Len(file) + k
  BY WriteAppends DEF HeadOfFile
<1>2. /\ n \in Nat
      /\ \A i \in 1..n : /\ NewRecords(n)[i].kind = "record"
                         /\ NewRecords(n)[i].seq = seq + i - 1
                         /\ NewRecords(n)[i].prev = HashOf(i - 1)
                         /\ NewRecords(n)[i].hash = HashOf(i)
                         /\ NewRecords(n)[i].event = NewEvents[i]
  BY NewRecordsFacts
<1>3. /\ HashOf(0) = prev
      /\ \A i \in 1..n : HashOf(i) = Digest(seq + i - 1, HashOf(i - 1), NewEvents[i])
  <2>1. \A i \in 1..n : i \in 1..Len(NewEvents)
    BY <1>2, NewEventsFacts DEF Types
  <2>. QED
    BY <2>1, HashFacts
<1>4. ASSUME NEW i \in DOMAIN file PROVE Holds(i)'
  <2>1. Holds(i)
    BY DEF Verified
  <2>2. i # 1 => i - 1 \in DOMAIN file
    BY <1>1
  <2>3. file'[i] = file[i] /\ (i # 1 => file'[i - 1] = file[i - 1])
    BY <1>1, <2>2
  <2>. QED
    BY <2>1, <2>3 DEF Holds
<1>5. ASSUME NEW k \in 1..n, NEW i, i = Len(file) + k PROVE Holds(i)'
  <2>1. HashOf(k - 1) = IF i = 1 THEN Genesis ELSE file'[i - 1].hash
    <3>1. CASE k = 1
      <4>1. HashOf(k - 1) = prev
        BY <1>3, <3>1
      <4>2. (i = 1 <=> file = << >>) /\ (i # 1 => i - 1 = Len(file) /\ Len(file) \in DOMAIN file)
        BY <1>1, <1>5, <3>1 DEF Types
      <4>. QED
        BY <1>1, <4>1, <4>2
    <3>2. CASE k # 1
      <4>1. k - 1 \in 1..n /\ i # 1 /\ i - 1 = Len(file) + (k - 1)
        BY <1>1, <1>2, <1>5, <3>2
      <4>2. file'[i - 1] = NewRecords(n)[k - 1] /\ NewRecords(n)[k - 1].hash = HashOf(k - 1)
        BY <1>1, <1>2, <4>1
      <4>. QED
        BY <4>1, <4>2
    <3>. QED
      BY <3>1, <3>2
  <2>2. /\ file'[i].kind = "record" /\ file'[i].seq = i - 1
        /\ file'[i].prev = HashOf(k - 1)
        /\ file'[i].hash = HashOf(k) /\ file'[i].event = NewEvents[k]
    <3>1. file'[i] = NewRecords(n)[k]
      BY <1>1, <1>5
    <3>2. seq + k - 1 = i - 1
      BY <1>1, <1>2, <1>5
    <3>. QED
      BY <1>2, <3>1, <3>2
  <2>3. file'[i].hash = Digest(file'[i].seq, file'[i].prev, file'[i].event)
    BY <1>1, <1>2, <1>3, <1>5, <2>2
  <2>. QED
    BY <2>1, <2>2, <2>3 DEF Holds
<1>6. Verified'
  BY <1>1, <1>4, <1>5 DEF Verified
<1>7. HashOf(n) = IF file' = << >> THEN Genesis ELSE file'[Len(file')].hash
  <2>1. CASE n = 0
    <3>1. file' = file
      <4>1. file \in Seq(Line) /\ file' \in Seq(Line) /\ Len(file') = Len(file)
        BY <1>1, <2>1, WriteTypes DEF Types
      <4>. QED
        BY <1>1, <4>1, SeqEqual
    <3>. QED
      BY <1>1, <1>3, <2>1, <3>1
  <2>2. CASE n # 0
    <3>1. n \in 1..n /\ Len(file') = Len(file) + n /\ file' # << >>
      BY <1>1, <1>2, <2>2
    <3>. QED
      BY <1>1, <1>2, <3>1
  <2>. QED
    BY <2>1, <2>2
<1>. QED
  BY <1>1, <1>6, <1>7

\* A line that did not hold still does not.
LEMMA WriteKeepsBreak ==
  ASSUME Types, TornLines, ~Verified,
         NEW n \in 0..Len(NewEvents), PartlyWritten(n), tears' = 0
  PROVE  ~Verified'
<1>1. PICK i \in DOMAIN file : ~Holds(i)
  BY DEF Verified
<1>2. /\ DOMAIN file = 1..Len(file) /\ Len(file) \in Nat
      /\ \A k \in DOMAIN file : k \in DOMAIN file' /\ file'[k] = file[k]
  BY WriteAppends
<1>3. i # 1 => i - 1 \in DOMAIN file
  BY <1>2
<1>4. file'[i] = file[i] /\ (i # 1 => file'[i - 1] = file[i - 1])
  BY <1>2, <1>3
<1>5. ~Holds(i)'
  BY <1>1, <1>4 DEF Holds
<1>. QED
  BY <1>2, <1>5 DEF Verified

\* A record altered, removed or moved no longer holds, or the one after it does not.
LEMMA TamperBreaks ==
  ASSUME Types, TornLines, Verified, tears = 0, tampers = 0, Tamper
  PROVE  ~Verified'
<1>1. /\ file \in Seq(Line) /\ DOMAIN file = 1..Len(file) /\ Len(file) \in Nat
      /\ \A i \in DOMAIN file : file[i] \in Line /\ file[i].event \in Events
  BY DEF Types, TornLines
<1>2. \A i \in DOMAIN file : Holds(i)
  BY DEF Verified
<1>3. \A e \in Events : e # <<"altered">>
  BY DEF Events
<1>4. PICK i \in DOMAIN file :
       \/ file' = [file EXCEPT ![i] = Altered(@)]
       \/ i < Len(file) /\ file' = [file EXCEPT ![i] = Rehashed(Altered(@))]
       \/ i < Len(file) /\ file' = RemoveAt(file, i)
       \/ i < Len(file) /\ file' = [file EXCEPT ![i] = file[i + 1], ![i + 1] = file[i]]
  BY DEF Tamper
<1> DEFINE l == file[i]
<1>5. /\ l \in Line /\ l.event # <<"altered">>
      /\ l.seq \in Int /\ l.prev \in Chain /\ l.event \in Payload
      /\ l.hash = Digest(l.seq, l.prev, l.event)
  BY <1>1, <1>2, <1>3 DEF Holds, Line
<1>6. Digest(l.seq, l.prev, <<"altered">>) # l.hash
  <2>1. <<"altered">> \in Payload
    BY DEF Payload
  <2>2. /\ <<l.seq, l.event>> \in Int \X Payload /\ <<l.seq, <<"altered">>>> \in Int \X Payload
        /\ <<l.seq, l.event>> # <<l.seq, <<"altered">>>>
    BY <1>5, <2>1
  <2>. QED
    BY <1>5, <2>2, AppendInjective DEF Digest, Chain
<1>7. CASE file' = [file EXCEPT ![i] = Altered(@)]
  <2>1. /\ i \in DOMAIN file' /\ file'[i] = Altered(l)
        /\ Altered(l).seq = l.seq /\ Altered(l).prev = l.prev /\ Altered(l).hash = l.hash
        /\ Altered(l).event = <<"altered">>
    BY <1>5, <1>7 DEF Altered, Line
  <2>2. ~Holds(i)'
    BY <1>6, <2>1 DEF Holds
  <2>. QED
    BY <2>1, <2>2 DEF Verified
<1>8. CASE i < Len(file) /\ file' = [file EXCEPT ![i] = Rehashed(Altered(@))]
  <2> DEFINE a == Rehashed(Altered(l))
  <2>1. i + 1 \in DOMAIN file /\ i + 1 # 1 /\ (i + 1) - 1 = i /\ i + 1 # i
    BY <1>1, <1>8
  <2>2. a.hash = Digest(l.seq, l.prev, <<"altered">>)
    BY <1>5 DEF Altered, Rehashed, Line
  <2>3. file[i + 1].prev = l.hash
    BY <1>2, <2>1 DEF Holds
  <2>4. i + 1 \in DOMAIN file' /\ file'[i + 1] = file[i + 1] /\ file'[i] = a
    BY <1>8, <2>1
  <2>5. ~Holds(i + 1)'
    BY <1>6, <2>1, <2>2, <2>3, <2>4 DEF Holds
  <2>. QED
    BY <2>4, <2>5 DEF Verified
<1>9. ASSUME i < Len(file), i \in DOMAIN file', file'[i] = file[i + 1]
      PROVE  ~Verified'
  <2>1. i + 1 \in DOMAIN file /\ i \in Int
    BY <1>1, <1>9
  <2>2. file[i + 1].seq = (i + 1) - 1
    BY <1>2, <2>1 DEF Holds
  <2>3. ~Holds(i)'
    BY <1>9, <2>1, <2>2 DEF Holds
  <2>. QED
    BY <1>9, <2>3 DEF Verified
<1>10. CASE i < Len(file) /\ file' = RemoveAt(file, i)
  <2>1. i \in 1..Len(file) /\ i < Len(file)
    BY <1>1, <1>10
  <2> DEFINE a == SubSeq(file, 1, i - 1)
             b == SubSeq(file, i + 1, Len(file))
  <2>2. a \in Seq(Line) /\ Len(a) = i - 1
    BY <1>1, <2>1
  <2>3. b \in Seq(Line) /\ Len(b) = Len(file) - i /\ b[1] = file[i + 1]
    BY <1>1, <2>1
  <2>4. file' = a \o b
    BY <1>10 DEF RemoveAt
  <2> HIDE DEF a, b
  <2>5. i \in DOMAIN (a \o b) /\ (a \o b)[i] = b[1]
    BY <1>1, <2>1, <2>2, <2>3
  <2>. QED
    BY <1>9, <2>1, <2>3, <2>4, <2>5
<1>11. CASE i < Len(file) /\ file' = [file EXCEPT ![i] = file[i + 1], ![i + 1] = file[i]]
  <2>1. i + 1 \in DOMAIN file /\ i + 1 # i
    BY <1>1, <1>11
  <2>2. i \in DOMAIN file' /\ file'[i] = file[i + 1]
    BY <1>11, <2>1
  <2>. QED
    BY <1>9, <1>11, <2>2
<1>. QED
  BY <1>4, <1>7, <1>8, <1>10, <1>11

-----------------------------------------------------------------------------
(* Steps that leave the file alone. *)

\* What the invariant says of the file, when nobody writes to it.
LEMMA FileFrame ==
  ASSUME Types, FileInv, UNCHANGED <<file, seq, prev, tears, tampers, crashes>>,
         faults' = faults \/ faults' = faults + 1
  PROVE  FileInv'
<1>0. tears \in Nat /\ crashes \in Nat /\ faults \in Nat
  BY DEF Types, TypeOK
<1>1. TornLines'
  BY <1>0 DEF FileInv, TornLines
<1>2. Verified' <=> Verified
  BY DEF Verified, Holds
<1>3. faults' = 0 => faults = 0
  BY <1>0
<1>4. Chained' /\ TamperingIsSeen'
  BY <1>2, <1>3 DEF FileInv, Chained, HeadOfFile, TamperingIsSeen
<1>. QED
  BY <1>1, <1>4 DEF FileInv

\* What it says of the events, when none is read on.
LEMMA RecordFrame ==
  ASSUME Types, RecordInv,
         UNCHANGED <<file, topic, tears, tampers, crashes, run, length, raised>>,
         faults' = faults \/ faults' = faults + 1,
         cursor' \in [Runs -> 0..MaxEvents], \A r \in Runs : cursor'[r] <= cursor[r],
         \A i \in DOMAIN unsent' : \E k \in DOMAIN unsent : unsent'[i] = unsent[k],
         wpc' = "flush" <=> wpc = "flush"
  PROVE  RecordInv'
<1>0. /\ \A e : Recorded(e)' <=> Recorded(e)
      /\ \A r \in Runs : cursor[r] \in Nat /\ cursor'[r] \in Nat
      /\ faults \in Nat
  BY DEF Recorded, Types, TypeOK
<1>1. CursorIsRecorded'
  <2> SUFFICES ASSUME tears = 0, tampers = 0, NEW r \in Runs, NEW i \in 1..cursor'[r]
               PROVE  Recorded(<<r, i>>)
    BY <1>0 DEF CursorIsRecorded
  <2>1. i \in 1..cursor[r]
    BY <1>0
  <2>. QED
    BY <2>1 DEF RecordInv, CursorIsRecorded
<1>2. UnsentIsRecorded'
  <2> SUFFICES ASSUME tears = 0, tampers = 0, NEW i \in DOMAIN unsent', NEW e, e = unsent'[i]
               PROVE  Recorded(e)'
    BY DEF UnsentIsRecorded
  <2>1. PICK k \in DOMAIN unsent : e = unsent[k]
    OBVIOUS
  <2>. QED
    BY <1>0, <2>1 DEF RecordInv, UnsentIsRecorded
<1>3. TopicWithinFile'
  BY <1>0 DEF RecordInv, TopicWithinFile
<1>4. AuditedOrFlushing'
  <2>1. faults' = 0 => faults = 0
    BY <1>0
  <2>. QED
    BY <1>0, <2>1 DEF RecordInv, AuditedOrFlushing
<1>. QED
  BY <1>1, <1>2, <1>3, <1>4 DEF RecordInv

LEMMA SliceInv ==
  ASSUME IInv, NEW r \in Runs, NEW n \in 1..2, NEW how \in {"parked", "ended", "raised"},
         Slice(r, n, how)
  PROVE  IInv'
<1> USE DEF Slice, sinkVars, boundVars
<1>1. /\ length[r] \in Nat /\ length[r] + n \in 0..MaxEvents
      /\ length' \in [Runs -> 0..MaxEvents]
      /\ \A q \in Runs : q # r => length'[q] = length[q]
      /\ length'[r] = length[r] + n
  BY DEF IInv, Types, TypeOK
<1>2. Types'
  <2>1. \A q \in Runs : cursor[q] <= length'[q]
    BY <1>1 DEF IInv, Types, TypeOK
  <2>2. over' \in [Runs -> BOOLEAN]
    BY DEF IInv, Types, TypeOK
  <2>3. /\ wpc' \in {"idle", "flush", "publish", "retire"} /\ wpc' # "publish"
        /\ raised' \subseteq Runs /\ run' \in Runs /\ parked' \in BOOLEAN
    BY DEF IInv, Types, TypeOK
  <2>. QED
    BY <1>1, <2>1, <2>2, <2>3 DEF IInv, Types, TypeOK
<1>3. FileInv'
  BY FileFrame DEF IInv
<1>4. \A e : Recorded(e)' <=> Recorded(e)
  BY DEF Recorded
<1>5. CursorIsRecorded' /\ UnsentIsRecorded' /\ TopicWithinFile'
  BY <1>4 DEF IInv, RecordInv, CursorIsRecorded, UnsentIsRecorded, TopicWithinFile
<1>6. AuditedOrFlushing'
  <2> SUFFICES ASSUME crashes = 0, faults = 0, tampers = 0, NEW q \in Runs \ raised'
               PROVE  \/ wpc' = "flush" /\ q = r
                      \/ \A i \in 1..length'[q] : Recorded(<<q, i>>)
    BY <1>4 DEF AuditedOrFlushing
  <2>1. CASE q = r
    BY <2>1
  <2>2. CASE q # r
    <3>1. q \in Runs \ raised
      BY <2>2
    <3>. QED
      BY <1>1, <2>2, <3>1 DEF IInv, RecordInv, AuditedOrFlushing
  <2>. QED
    BY <2>1, <2>2
<1>. QED
  BY <1>2, <1>3, <1>5, <1>6 DEF IInv, RecordInv

\* The producer is the construction thread's affair.
LEMMA ProducerInv ==
  ASSUME IInv, GetProducer \/ ConstructProducer
  PROVE  IInv'
<1> USE DEF GetProducer, ConstructProducer, runVars, sinkVars, workVars, boundVars
<1>1. Types'
  BY DEF IInv, Types, TypeOK
<1>2. FileInv'
  BY FileFrame DEF IInv
<1>3. RecordInv'
  <2>1. cursor \in [Runs -> 0..MaxEvents] /\ \A r \in Runs : cursor[r] <= cursor[r]
    BY DEF IInv, Types, TypeOK
  <2>. QED
    BY <2>1, RecordFrame DEF IInv
<1>. QED
  BY <1>1, <1>2, <1>3 DEF IInv

\* What is left of a queue whose head goes.
LEMMA TailFacts ==
  ASSUME NEW S, NEW s \in Seq(S), s # << >>
  PROVE  /\ Head(s) \in S /\ Head(s) = s[1] /\ 1 \in DOMAIN s
         /\ Tail(s) \in Seq(S)
         /\ \A i \in DOMAIN Tail(s) : i + 1 \in DOMAIN s /\ Tail(s)[i] = s[i + 1]
OBVIOUS

\* The published event goes, whether it reached the topic or not.
LEMMA PublishInv ==
  ASSUME IInv, Publish \/ Drop
  PROVE  IInv'
<1> USE DEF Publish, Drop, NextUnsent, AfterAudit, runVars, sinkVars, boundVars
<1>1. unsent \in Seq(Events) /\ unsent # << >> /\ wpc = "publish"
  BY DEF IInv, Types
<1>2. /\ Head(unsent) \in Events /\ Head(unsent) = unsent[1] /\ 1 \in DOMAIN unsent
      /\ unsent' \in Seq(Events)
      /\ \A i \in DOMAIN unsent' : i + 1 \in DOMAIN unsent /\ unsent'[i] = unsent[i + 1]
  <2>1. unsent' = Tail(unsent)
    OBVIOUS
  <2>. QED
    BY <1>1, <2>1, TailFacts
<1>3. /\ UNCHANGED <<length, over, target, file, seq, prev, cursor, run, parked, producer, raised,
                     tears, crashes, sweeps, tampers>>
      /\ \/ topic' = topic \cup {Head(unsent)} /\ faults' = faults
         \/ topic' = topic /\ faults' = faults
         \/ topic' = topic /\ MoreTrouble /\ faults' = faults + 1
      /\ \/ wpc' = "publish" /\ unsent' # << >>
         \/ wpc' \in {"idle", "retire"}
  OBVIOUS
<1>4. Types'
  <2>1. topic' \subseteq Events
    BY <1>2, <1>3 DEF IInv, Types, TypeOK
  <2>2. faults' \in Nat /\ crashes' + faults' + sweeps' + tampers' <= MaxTrouble
    <3>1. /\ crashes \in Nat /\ faults \in Nat /\ sweeps \in Nat /\ tampers \in Nat
          /\ crashes + faults + sweeps + tampers <= MaxTrouble
      BY DEF IInv, Types, TypeOK
    <3>2. crashes' = crashes /\ sweeps' = sweeps /\ tampers' = tampers
      BY <1>3
    <3>3. CASE faults' = faults
      BY <3>1, <3>2, <3>3
    <3>4. CASE MoreTrouble /\ faults' = faults + 1
      BY <3>1, <3>2, <3>4 DEF MoreTrouble
    <3>. QED
      BY <1>3, <3>3, <3>4
  <2>3. \A i \in DOMAIN unsent' : unsent'[i] \in Events
    BY <1>2
  <2>. QED
    BY <1>2, <1>3, <2>1, <2>2, <2>3 DEF IInv, Types, TypeOK
<1>5. FileInv'
  BY <1>3, FileFrame DEF IInv
<1>6. \A e : Recorded(e)' <=> Recorded(e)
  BY <1>3 DEF Recorded
<1>7. CursorIsRecorded'
  BY <1>3, <1>6 DEF IInv, RecordInv, CursorIsRecorded
<1>8. UnsentIsRecorded'
  <2> SUFFICES ASSUME tears = 0, tampers = 0, NEW i \in DOMAIN unsent', NEW e, e = unsent'[i]
               PROVE  Recorded(e)'
    BY <1>3 DEF UnsentIsRecorded
  <2>. QED
    BY <1>2, <1>6 DEF IInv, RecordInv, UnsentIsRecorded
<1>9. TopicWithinFile'
  <2>1. tears = 0 /\ tampers = 0 => Recorded(Head(unsent))
    BY <1>2 DEF IInv, RecordInv, UnsentIsRecorded
  <2>2. \A e \in topic' : e \in topic \/ e = Head(unsent)
    BY <1>3
  <2>. QED
    BY <1>3, <1>6, <2>1, <2>2 DEF IInv, RecordInv, TopicWithinFile
<1>10. AuditedOrFlushing'
  <2>1. faults' = 0 => faults = 0
    BY <1>3 DEF IInv, Types, TypeOK
  <2>. QED
    BY <1>1, <1>3, <1>6, <2>1 DEF IInv, RecordInv, AuditedOrFlushing
<1>. QED
  BY <1>4, <1>5, <1>7, <1>8, <1>9, <1>10 DEF IInv, RecordInv

\* A forgotten cursor is 0.
LEMMA RetireInv ==
  ASSUME IInv, RetireRun \/ \E r \in Runs : Expire(r)
  PROVE  IInv'
<1> USE DEF Retire, workVars
<1>1. PICK r \in Runs : (RetireRun /\ r = run) \/ Expire(r)
  BY DEF IInv, Types, TypeOK
<1>2. /\ cursor' = [cursor EXCEPT ![r] = 0] /\ target' = [target EXCEPT ![r] = FALSE]
      /\ UNCHANGED <<length, over, file, topic, seq, prev, run, parked, unsent, producer, raised,
                     tears, crashes, faults, tampers>>
      /\ wpc' = wpc \/ (wpc = "retire" /\ wpc' = "idle")
      /\ sweeps' = sweeps \/ (MoreTrouble /\ sweeps' = sweeps + 1)
  BY <1>1 DEF RetireRun, Expire, boundVars
<1>3. /\ cursor' \in [Runs -> 0..MaxEvents] /\ \A q \in Runs : cursor'[q] <= cursor[q]
      /\ \A q \in Runs : cursor'[q] <= length[q]
      /\ target' \in [Runs -> BOOLEAN]
  <2>1. /\ cursor \in [Runs -> 0..MaxEvents] /\ target \in [Runs -> BOOLEAN]
        /\ length \in [Runs -> 0..MaxEvents] /\ \A q \in Runs : cursor[q] <= length[q]
    BY DEF IInv, Types, TypeOK
  <2>2. cursor' \in [Runs -> 0..MaxEvents] /\ target' \in [Runs -> BOOLEAN]
    BY <1>2, <2>1
  <2>3. ASSUME NEW q \in Runs PROVE cursor'[q] <= cursor[q] /\ cursor'[q] <= length[q]
    <3>1. cursor[q] \in Nat /\ length[q] \in Nat /\ cursor[q] <= length[q]
      BY <2>1
    <3>2. cursor'[q] = cursor[q] \/ cursor'[q] = 0
      BY <1>2, <2>1
    <3>. QED
      BY <3>1, <3>2
  <2>. QED
    BY <2>2, <2>3
<1>4. Types'
  <2>1. sweeps' \in Nat /\ crashes' + faults' + sweeps' + tampers' <= MaxTrouble
    <3>1. /\ crashes \in Nat /\ faults \in Nat /\ sweeps \in Nat /\ tampers \in Nat
          /\ crashes + faults + sweeps + tampers <= MaxTrouble
      BY DEF IInv, Types, TypeOK
    <3>2. CASE sweeps' = sweeps
      BY <1>2, <3>1, <3>2
    <3>3. CASE MoreTrouble /\ sweeps' = sweeps + 1
      BY <1>2, <3>1, <3>3 DEF MoreTrouble
    <3>. QED
      BY <1>2, <3>2, <3>3
  <2>2. wpc' \in {"idle", "flush", "publish", "retire"} /\ (wpc' = "publish" => wpc = "publish")
    BY <1>2 DEF IInv, Types, TypeOK
  <2>. QED
    BY <1>2, <1>3, <2>1, <2>2 DEF IInv, Types, TypeOK
<1>5. FileInv'
  BY <1>2, FileFrame DEF IInv
<1>6. RecordInv'
  <2>1. wpc' = "flush" <=> wpc = "flush"
    BY <1>2
  <2>. QED
    BY <1>2, <1>3, <2>1, RecordFrame DEF IInv
<1>. QED
  BY <1>4, <1>5, <1>6 DEF IInv

-----------------------------------------------------------------------------
(* Steps that write to the file. *)

\* What the invariant says of the file after a write that was not torn.
LEMMA WriteFileInv ==
  ASSUME Types, FileInv, NEW n \in 0..Len(NewEvents), PartlyWritten(n), tears' = 0
  PROVE  /\ \A i \in DOMAIN file' : file'[i].kind = "record"
         /\ tampers = 0 => \A i \in DOMAIN file' : file'[i].event \in Events
         /\ faults = 0 /\ tampers = 0 =>
              /\ Verified' /\ Len(file') = seq + n
              /\ HashOf(n) = IF file' = << >> THEN Genesis ELSE file'[Len(file')].hash
         /\ faults = 0 /\ tampers > 0 => ~Verified'
<1>1. tears = 0 /\ TornLines
  BY WriteAppends DEF FileInv
<1>2. ASSUME faults = 0, tampers = 0
      PROVE  /\ Verified' /\ Len(file') = seq + n
             /\ HashOf(n) = IF file' = << >> THEN Genesis ELSE file'[Len(file')].hash
  <2>1. Verified /\ HeadOfFile
    BY <1>1, <1>2 DEF FileInv, Chained
  <2>. QED
    BY <1>1, <2>1, WriteChains
<1>3. ASSUME faults = 0, tampers > 0 PROVE ~Verified'
  <2>1. ~Verified
    BY <1>1, <1>3 DEF FileInv, TamperingIsSeen
  <2>. QED
    BY <1>1, <2>1, WriteKeepsBreak
<1>. QED
  BY <1>1, <1>2, <1>3, WriteRecords

\* A flush that succeeds writes what the run has behind its cursor, and moves it there.
LEMMA FlushInv ==
  ASSUME IInv, Flush
  PROVE  IInv'
<1> DEFINE n == Len(NewEvents)
<1>0. Types /\ FileInv /\ RecordInv /\ TypeOK /\ TornLines
  BY DEF IInv, Types, FileInv
<1>1. /\ UNCHANGED <<length, over, target, topic, run, parked, producer, raised, tears, crashes,
                     faults, sweeps, tampers>>
      /\ seq' = seq + n /\ prev' = HashOf(n) /\ wpc = "flush" /\ PartlyWritten(n)
      /\ \/ wpc' = "publish" /\ unsent' = NewEvents /\ n > 0
         \/ wpc' \in {"idle", "retire"} /\ unsent' = unsent
      /\ \/ cursor' = cursor /\ n = 0
         \/ cursor' = [cursor EXCEPT ![run] = length[run]]
  <2>1. /\ UNCHANGED <<length, over, target, topic, run, parked, producer, raised, tears,
                       crashes, faults, sweeps, tampers>>
        /\ Advance(n) /\ wpc = "flush" /\ file' = Written(NewRecords(n))
        /\ cursor' = IF n = 0 THEN cursor ELSE [cursor EXCEPT ![run] = length[run]]
        /\ IF n > 0 /\ target[run] THEN unsent' = NewEvents /\ wpc' = "publish"
                                   ELSE AfterAudit /\ UNCHANGED unsent
    BY DEF Flush, CursorAfterFlush, runVars, boundVars
  <2>2. seq' = seq + n /\ prev' = HashOf(n)
    BY <2>1, Zenon DEF Advance, HashOf
  <2>3. PartlyWritten(n)
    BY <2>1, Zenon DEF PartlyWritten
  <2> HIDE DEF n
  <2>. QED
    BY <2>1, <2>2, <2>3 DEF AfterAudit
<1>2. /\ n \in Nat /\ n = length[run] - cursor[run] /\ NewEvents \in Seq(Events)
      /\ run \in Runs /\ length[run] \in Nat /\ cursor[run] \in Nat /\ cursor[run] <= length[run]
      /\ \A i \in 1..n : NewEvents[i] \in Events /\ NewEvents[i] = <<run, cursor[run] + i>>
  <2>1. run \in Runs /\ length[run] \in Nat /\ cursor[run] \in Nat /\ cursor[run] <= length[run]
    BY <1>0 DEF TypeOK
  <2>. QED
    BY <1>0, <2>1, NewEventsFacts
<1>3. n \in 0..Len(NewEvents)
  BY <1>2
<1>4. /\ cursor' \in [Runs -> 0..MaxEvents] /\ cursor'[run] = length[run]
      /\ \A r \in Runs : r # run => cursor'[r] = cursor[r]
  <2>1. /\ cursor \in [Runs -> 0..MaxEvents] /\ length[run] \in 0..MaxEvents /\ run \in Runs
    BY <1>0 DEF TypeOK
  <2>2. n = 0 => cursor[run] = length[run]
    BY <1>2
  <2> HIDE DEF n
  <2>. QED
    BY <1>1, <2>1, <2>2
<1>5. Types'
  <2>1. file' \in Seq(Line) /\ Numbered(file')
    BY <1>0, <1>1, <1>3, WriteTypes
  <2>2. seq' \in Nat /\ prev' \in Chain
    <3>1. seq \in Nat
      BY <1>0 DEF TypeOK
    <3>2. HashOf(n) \in Chain
      BY <1>0, <1>3, HashFacts
    <3>. QED
      BY <1>1, <1>2, <3>1, <3>2
  <2>3. \A i \in DOMAIN file' : file'[i].kind \in {"record", "open", "garbage"}
    BY <2>1, LineKinds
  <2>4. /\ unsent' \in Seq(Events) /\ wpc' \in {"idle", "flush", "publish", "retire"}
        /\ wpc' = "publish" => unsent' # << >>
    BY <1>0, <1>1, <1>2 DEF Types
  <2>5. \A i \in DOMAIN unsent' : unsent'[i] \in Events
    BY <2>4
  <2>6. ASSUME NEW r \in Runs PROVE cursor'[r] <= length[r]
    <3>1. cursor[r] <= length[r]
      BY <1>0 DEF TypeOK
    <3>. QED
      BY <1>2, <1>4, <3>1
  <2>7. TypeOK'
    BY <1>0, <1>1, <1>4, <2>2, <2>3, <2>4, <2>5, <2>6 DEF TypeOK
  <2>. QED
    BY <2>1, <2>2, <2>4, <2>7 DEF Types
<1>6. FileInv'
  <2>1. TornLines'
    BY <1>0, <1>1, <1>3, WriteFileInv DEF TornLines
  <2>2. Chained'
    BY <1>0, <1>1, <1>3, WriteFileInv DEF Chained, HeadOfFile
  <2>3. TamperingIsSeen'
    BY <1>0, <1>1, <1>3, WriteFileInv DEF TamperingIsSeen
  <2>. QED
    BY <2>1, <2>2, <2>3 DEF FileInv
<1>7. ASSUME tears = 0
      PROVE  /\ \A e : Recorded(e) => Recorded(e)'
             /\ \A i \in 1..n : \A e : e = NewEvents[i] => Recorded(e)'
  BY <1>0, <1>1, <1>3, <1>7, WriteRecords
<1>8. ASSUME tears = 0, tampers = 0, NEW i \in 1..length[run], NEW e, e = <<run, i>>
      PROVE  Recorded(e)'
  <2>1. CASE i <= cursor[run]
    <3>1. i \in 1..cursor[run]
      BY <1>2, <2>1
    <3>2. Recorded(e)
      BY <1>0, <1>2, <1>8, <3>1 DEF RecordInv, CursorIsRecorded
    <3>. QED
      BY <1>7, <1>8, <3>2
  <2>2. CASE i > cursor[run]
    <3>1. i - cursor[run] \in 1..n /\ cursor[run] + (i - cursor[run]) = i
      BY <1>2, <2>2
    <3>2. e = NewEvents[i - cursor[run]]
      BY <1>2, <1>8, <3>1
    <3>. QED
      BY <1>7, <1>8, <3>1, <3>2
  <2>. QED
    BY <1>2, <2>1, <2>2
<1>9. CursorIsRecorded'
  <2> SUFFICES ASSUME tears = 0, tampers = 0, NEW r \in Runs, NEW i \in 1..cursor'[r],
                      NEW e, e = <<r, i>>
               PROVE  Recorded(e)'
    BY <1>1 DEF CursorIsRecorded
  <2>1. CASE r = run
    BY <1>4, <1>8, <2>1
  <2>2. CASE r # run
    <3>1. Recorded(e)
      BY <1>0, <1>4, <2>2 DEF RecordInv, CursorIsRecorded
    <3>. QED
      BY <1>7, <3>1
  <2>. QED
    BY <2>1, <2>2
<1>10. UnsentIsRecorded'
  <2> SUFFICES ASSUME tears = 0, tampers = 0, NEW i \in DOMAIN unsent', NEW e, e = unsent'[i]
               PROVE  Recorded(e)'
    BY <1>1 DEF UnsentIsRecorded
  <2>1. CASE unsent' = NewEvents
    <3>1. i \in 1..n
      BY <1>2, <2>1
    <3>. QED
      BY <1>7, <2>1, <3>1
  <2>2. CASE unsent' = unsent
    <3>1. Recorded(e)
      BY <1>0, <2>2 DEF RecordInv, UnsentIsRecorded
    <3>. QED
      BY <1>7, <3>1
  <2>. QED
    BY <1>1, <2>1, <2>2
<1>11. TopicWithinFile'
  BY <1>0, <1>1, <1>7 DEF RecordInv, TopicWithinFile
<1>12. AuditedOrFlushing'
  <2> SUFFICES ASSUME crashes = 0, faults = 0, tampers = 0, NEW r \in Runs \ raised,
                      NEW i \in 1..length[r], NEW e, e = <<r, i>>
               PROVE  Recorded(e)'
    BY <1>1 DEF AuditedOrFlushing
  <2>0. tears = 0
    BY <1>0 DEF TornLines, TypeOK
  <2>1. CASE r = run
    BY <1>8, <2>0, <2>1
  <2>2. CASE r # run
    <3>1. Recorded(e)
      BY <1>0, <2>2 DEF RecordInv, AuditedOrFlushing
    <3>. QED
      BY <1>7, <2>0, <3>1
  <2>. QED
    BY <2>1, <2>2
<1>. QED
  BY <1>5, <1>6, <1>9, <1>10, <1>11, <1>12 DEF IInv, RecordInv

\* A flush that fails leaves some of its lines, and every cursor where it was.
LEMMA FlushFailsInv ==
  ASSUME IInv, FlushFails
  PROVE  IInv'
<1>0. Types /\ FileInv /\ RecordInv /\ TypeOK /\ TornLines
  BY DEF IInv, Types, FileInv
<1>1. PICK k \in 0..Len(NewEvents) : Advance(k) /\ \E n \in 0..k : PartlyWritten(n)
  BY DEF FlushFails
<1>2. PICK n \in 0..k : PartlyWritten(n)
  BY <1>1
<1>3. n \in 0..Len(NewEvents) /\ k \in Nat
  BY <1>0, NewEventsFacts
<1>4. /\ UNCHANGED <<length, over, target, topic, run, parked, producer, raised, crashes, sweeps,
                     tampers, unsent, cursor>>
      /\ MoreTrouble /\ faults' = faults + 1 /\ wpc = "flush" /\ wpc' \in {"idle", "retire"}
  BY DEF FlushFails, AfterFailure, AfterAudit, CursorAfterFailure, runVars
<1>5. seq' = seq + k /\ prev' = HashOf(k)
  BY <1>1, Zenon DEF Advance, HashOf
<1>6. /\ file' \in Seq(Line) /\ Numbered(file') /\ tears' \in {tears, tears + 1}
      /\ tears \in Nat /\ tears <= crashes + faults /\ seq \in Nat
      /\ crashes \in Nat /\ faults \in Nat /\ sweeps \in Nat /\ tampers \in Nat
      /\ crashes + faults + sweeps + tampers < MaxTrouble
  BY <1>0, <1>2, <1>3, <1>4, WriteTypes DEF TypeOK, TornLines, MoreTrouble
<1>7. Types'
  <2>1. prev' \in Chain /\ seq' \in Nat
    BY <1>0, <1>3, <1>5, <1>6, HashFacts
  <2>2. \A i \in DOMAIN file' : file'[i].kind \in {"record", "open", "garbage"}
    BY <1>6, LineKinds
  <2>3. /\ faults' \in Nat /\ crashes + faults' + sweeps + tampers <= MaxTrouble
        /\ tears' \in 0..MaxTrouble
    BY <1>4, <1>6
  <2>4. TypeOK'
    BY <1>0, <1>4, <2>1, <2>2, <2>3 DEF TypeOK
  <2>. QED
    BY <1>0, <1>4, <1>6, <2>1, <2>4 DEF Types
<1>8. FileInv'
  <2>1. faults' # 0 /\ tears' <= crashes' + faults'
    BY <1>4, <1>6
  <2>2. tears' = 0 => /\ \A i \in DOMAIN file' : file'[i].kind = "record"
                      /\ tampers' = 0 => \A i \in DOMAIN file' : file'[i].event \in Events
    BY <1>0, <1>2, <1>3, <1>4, WriteFileInv
  <2>. QED
    BY <2>1, <2>2 DEF FileInv, TornLines, Chained, TamperingIsSeen
<1>9. RecordInv'
  <2>1. tears' = 0 => tears = 0 /\ \A e : Recorded(e) => Recorded(e)'
    BY <1>0, <1>2, <1>3, WriteAppends, WriteRecords
  <2>2. CursorIsRecorded' /\ UnsentIsRecorded' /\ TopicWithinFile'
    BY <1>0, <1>4, <2>1 DEF RecordInv, CursorIsRecorded, UnsentIsRecorded, TopicWithinFile
  <2>3. AuditedOrFlushing'
    BY <1>4, <1>6 DEF AuditedOrFlushing
  <2>. QED
    BY <2>2, <2>3 DEF RecordInv
<1>. QED
  BY <1>7, <1>8, <1>9 DEF IInv

\* A sink that is built on a chain that holds takes it up where it ends.
LEMMA ResumedHead ==
  ASSUME file' \in Seq(Line), Verified',
         seq' = Resumed(file').seq, prev' = Resumed(file').prev
  PROVE  HeadOfFile'
<1> DEFINE f == file'
<1>1. Len(f) \in Nat /\ DOMAIN f = 1..Len(f) /\ (f = << >> <=> Len(f) = 0)
  OBVIOUS
<1>2. CASE f = << >>
  BY <1>1, <1>2 DEF Resumed, HeadOfFile
<1>3. CASE f # << >>
  <2>1. Len(f) \in DOMAIN f
    BY <1>1, <1>3
  <2>2. f[Len(f)].kind = "record" /\ f[Len(f)].seq = Len(f) - 1
    BY <2>1 DEF Verified, Holds
  <2>3. Resumed(f) = [seq |-> Len(f) - 1 + 1, prev |-> f[Len(f)].hash]
    BY <1>3, <2>2 DEF Resumed, Last
  <2>. QED
    BY <1>1, <1>3, <2>3 DEF HeadOfFile
<1>. QED
  BY <1>2, <1>3

\* A new process takes up the chain, and knows no cursor.
LEMMA CrashInv ==
  ASSUME IInv, Crash
  PROVE  IInv'
<1>0. Types /\ FileInv /\ RecordInv /\ TypeOK /\ TornLines
  BY DEF IInv, Types, FileInv
<1>1. /\ UNCHANGED <<length, over, target, topic, run, raised, faults, sweeps, tampers>>
      /\ MoreTrouble /\ crashes' = crashes + 1
      /\ seq' = Resumed(file').seq /\ prev' = Resumed(file').prev
      /\ cursor' = [r \in Runs |-> 0]
      /\ wpc' = "idle" /\ parked' = FALSE /\ unsent' = << >> /\ producer' = "new"
      /\ \/ UNCHANGED <<file, tears>>
         \/ \E n \in 0..Len(NewEvents) : PartlyWritten(n)
  BY DEF Crash, runVars
<1>2. /\ tears \in Nat /\ tears <= crashes + faults
      /\ crashes \in Nat /\ faults \in Nat /\ sweeps \in Nat /\ tampers \in Nat
      /\ crashes + faults + sweeps + tampers < MaxTrouble
  BY <1>0, <1>1 DEF TypeOK, TornLines, MoreTrouble
<1>3. file' \in Seq(Line) /\ Numbered(file') /\ tears' \in {tears, tears + 1}
  <2>1. CASE UNCHANGED <<file, tears>>
    BY <1>0, <2>1 DEF Types, Numbered
  <2>2. ASSUME NEW n \in 0..Len(NewEvents), PartlyWritten(n)
        PROVE  file' \in Seq(Line) /\ Numbered(file') /\ tears' \in {tears, tears + 1}
    BY <1>0, <2>2, WriteTypes
  <2>. QED
    BY <1>1, <2>1, <2>2
<1>4. ASSUME tears' = 0
      PROVE  /\ tears = 0 /\ \A e : Recorded(e) => Recorded(e)'
             /\ \A i \in DOMAIN file' : file'[i].kind = "record"
             /\ tampers = 0 => \A i \in DOMAIN file' : file'[i].event \in Events
             /\ faults = 0 /\ tampers = 0 => Verified'
             /\ faults = 0 /\ tampers > 0 => ~Verified'
  <2>1. CASE UNCHANGED <<file, tears>>
    <3>1. (Verified' <=> Verified) /\ \A e : Recorded(e) <=> Recorded(e)'
      BY <2>1 DEF Verified, Holds, Recorded
    <3>. QED
      BY <1>0, <1>4, <2>1, <3>1 DEF FileInv, TornLines, Chained, TamperingIsSeen
  <2>2. CASE \E n \in 0..Len(NewEvents) : PartlyWritten(n)
    <3>1. PICK n \in 0..Len(NewEvents) : PartlyWritten(n)
      BY <2>2
    <3>2. tears = 0 /\ \A e : Recorded(e) => Recorded(e)'
      BY <1>0, <1>4, <3>1, WriteAppends, WriteRecords
    <3>. QED
      BY <1>0, <1>4, <3>1, <3>2, WriteFileInv
  <2>. QED
    BY <1>1, <2>1, <2>2
<1>5. Types'
  <2>1. seq' \in Nat /\ prev' \in Chain
    <3>1. CASE file' # << >> /\ Last(file').kind = "record"
      <4>1. Len(file') \in DOMAIN file' /\ file'[Len(file')] \in Line
        BY <1>3, <3>1
      <4>2. file'[Len(file')].seq \in Nat /\ file'[Len(file')].hash \in Chain
        BY <1>3, <3>1, <4>1 DEF Last, Numbered, Line
      <4>. QED
        BY <1>1, <3>1, <4>2 DEF Resumed, Last
    <3>2. CASE ~(file' # << >> /\ Last(file').kind = "record")
      <4>1. Resumed(file') = [seq |-> 0, prev |-> << >>]
        BY <3>2 DEF Resumed, Genesis
      <4>. QED
        BY <1>1, <4>1 DEF Chain
    <3>. QED
      BY <3>1, <3>2
  <2>2. \A i \in DOMAIN file' : file'[i].kind \in {"record", "open", "garbage"}
    BY <1>3, LineKinds
  <2>3. /\ crashes' \in Nat /\ crashes' + faults + sweeps + tampers <= MaxTrouble
        /\ tears' \in 0..MaxTrouble
    BY <1>1, <1>2, <1>3
  <2>4. /\ cursor' \in [Runs -> 0..MaxEvents] /\ \A r \in Runs : cursor'[r] <= length[r]
    BY <1>0, <1>1 DEF TypeOK
  <2>5. unsent' \in Seq(Events) /\ DOMAIN unsent' = {}
    BY <1>1
  <2>6. TypeOK'
    BY <1>0, <1>1, <2>1, <2>2, <2>3, <2>4, <2>5 DEF TypeOK
  <2>. QED
    BY <1>1, <1>3, <2>1, <2>5, <2>6 DEF Types
<1>6. FileInv'
  <2>1. TornLines'
    <3>1. tears' <= crashes' + faults' /\ tampers' = tampers
      BY <1>1, <1>2, <1>3
    <3>2. tears' = 0 => \A i \in DOMAIN file' : file'[i].kind = "record"
      BY <1>4
    <3>3. tears' = 0 /\ tampers = 0 => \A i \in DOMAIN file' : file'[i].event \in Events
      BY <1>4
    <3>. QED
      BY <3>1, <3>2, <3>3 DEF TornLines
  <2>2. Chained'
    BY <1>1, <1>3, <1>4, ResumedHead DEF Chained
  <2>3. TamperingIsSeen'
    BY <1>1, <1>4 DEF TamperingIsSeen
  <2>. QED
    BY <2>1, <2>2, <2>3 DEF FileInv
<1>7. RecordInv'
  <2>1. CursorIsRecorded' /\ UnsentIsRecorded'
    BY <1>1 DEF CursorIsRecorded, UnsentIsRecorded
  <2>2. TopicWithinFile'
    BY <1>0, <1>1, <1>4 DEF RecordInv, TopicWithinFile
  <2>3. AuditedOrFlushing'
    BY <1>1, <1>2 DEF AuditedOrFlushing
  <2>. QED
    BY <2>1, <2>2, <2>3 DEF RecordInv
<1>. QED
  BY <1>5, <1>6, <1>7 DEF IInv

\* Every entry of the changed file is a line, and a record if it was one.
LEMMA TamperTypes ==
  ASSUME Types, Tamper
  PROVE  /\ file' \in Seq(Line) /\ Numbered(file')
         /\ (\A i \in DOMAIN file : file[i].kind = "record")
              => \A i \in DOMAIN file' : file'[i].kind = "record"
<1> DEFINE L == {l \in Line : l.kind = "record" => l.seq \in Nat}
           K == {l \in L : l.kind = "record"}
<1>1. /\ file \in Seq(Line) /\ Len(file) \in Nat /\ DOMAIN file = 1..Len(file)
      /\ \A i \in DOMAIN file : file[i] \in L
  BY DEF Types, Numbered
<1>2. PICK i \in DOMAIN file :
       \/ file' = [file EXCEPT ![i] = Altered(@)]
       \/ i < Len(file) /\ file' = [file EXCEPT ![i] = Rehashed(Altered(@))]
       \/ i < Len(file) /\ file' = RemoveAt(file, i)
       \/ i < Len(file) /\ file' = [file EXCEPT ![i] = file[i + 1], ![i + 1] = file[i]]
  BY DEF Tamper
<1>3. ASSUME NEW l \in L
      PROVE  /\ Altered(l) \in L /\ Altered(l).kind = l.kind
             /\ Rehashed(Altered(l)) \in L /\ Rehashed(Altered(l)).kind = l.kind
  <2>1. /\ Altered(l) \in Line /\ Altered(l).kind = l.kind /\ Altered(l).seq = l.seq
        /\ Altered(l).prev = l.prev /\ Altered(l).event = <<"altered">>
    BY DEF Altered, Line, Payload
  <2>2. Digest(l.seq, l.prev, <<"altered">>) \in Chain
    BY DEF Digest, Chain, Line, Payload
  <2>3. /\ Rehashed(Altered(l)) = [Altered(l) EXCEPT !.hash = Digest(l.seq, l.prev, <<"altered">>)]
        /\ Rehashed(Altered(l)).kind = l.kind /\ Rehashed(Altered(l)).seq = l.seq
    BY <2>1 DEF Rehashed, Line
  <2>4. Rehashed(Altered(l)) \in Line
    BY <2>1, <2>2, <2>3 DEF Line
  <2>. QED
    BY <2>1, <2>3, <2>4
<1> HIDE DEF L
\* A file made of lines of M stays so, for M = L and for M = K.
<1>4. ASSUME NEW M, \A k \in DOMAIN file : file[k] \in M,
             \A l \in M : Altered(l) \in M /\ Rehashed(Altered(l)) \in M
      PROVE  file' \in Seq(M)
  <2>0. file \in Seq(M) /\ DOMAIN file = 1..Len(file) /\ Len(file) \in Nat
    BY <1>1, <1>4
  <2>1. CASE file' = [file EXCEPT ![i] = Altered(@)]
    BY <1>4, <2>0, <2>1
  <2>2. CASE i < Len(file) /\ file' = [file EXCEPT ![i] = Rehashed(Altered(@))]
    BY <1>4, <2>0, <2>2
  <2>3. CASE i < Len(file) /\ file' = RemoveAt(file, i)
    <3>1. SubSeq(file, 1, i - 1) \in Seq(M) /\ SubSeq(file, i + 1, Len(file)) \in Seq(M)
      BY <2>0, <2>3
    <3>. QED
      BY <2>3, <3>1, ConcatProperties DEF RemoveAt
  <2>4. CASE i < Len(file) /\ file' = [file EXCEPT ![i] = file[i + 1], ![i + 1] = file[i]]
    <3>1. i \in 1..Len(file) /\ i + 1 \in 1..Len(file)
      BY <2>0, <2>4
    <3>. QED
      BY <2>0, <2>4, <3>1
  <2>. QED
    BY <1>2, <2>1, <2>2, <2>3, <2>4
<1>5. file' \in Seq(L)
  BY <1>1, <1>3, <1>4
<1>6. file' \in Seq(Line) /\ Numbered(file')
  <2>1. Len(file') \in Nat /\ DOMAIN file' = 1..Len(file')
        /\ \A k \in 1..Len(file') : file'[k] \in L
    BY <1>5
  <2>2. file' \in Seq(Line)
    BY <1>5, <2>1 DEF L
  <2>. QED
    BY <2>1, <2>2 DEF L, Numbered
<1>7. ASSUME \A k \in DOMAIN file : file[k].kind = "record"
      PROVE  \A k \in DOMAIN file' : file'[k].kind = "record"
  <2>1. file' \in Seq(K)
    <3>1. \A k \in DOMAIN file : file[k] \in K
      BY <1>1, <1>7
    <3>2. \A l \in K : Altered(l) \in K /\ Rehashed(Altered(l)) \in K
      BY <1>3
    <3> HIDE DEF K
    <3>. QED
      BY <1>4, <3>1, <3>2
  <2>. QED
    BY <2>1
<1>. QED
  BY <1>6, <1>7

\* After a change nothing is said of the events any more, but the change is seen.
LEMMA TamperInv ==
  ASSUME IInv, Tamper
  PROVE  IInv'
<1>0. Types /\ FileInv /\ TypeOK /\ TornLines
  BY DEF IInv, Types, FileInv
<1>1. /\ UNCHANGED <<length, over, target, topic, seq, prev, cursor, wpc, run, parked, unsent,
                     producer, raised, tears, crashes, faults, sweeps>>
      /\ MoreTrouble /\ tampers = 0 /\ tampers' = 1
  BY DEF Tamper, runVars, sinkVars, workVars
<1>2. /\ tears \in Nat /\ tears <= crashes + faults
      /\ crashes \in Nat /\ faults \in Nat /\ sweeps \in Nat
      /\ crashes + faults + sweeps + tampers' <= MaxTrouble
  BY <1>0, <1>1 DEF TypeOK, TornLines, MoreTrouble
<1>3. Types'
  <2>1. file' \in Seq(Line) /\ Numbered(file')
    BY <1>0, TamperTypes
  <2>2. \A i \in DOMAIN file' : file'[i].kind \in {"record", "open", "garbage"}
    BY <2>1, LineKinds
  <2>3. TypeOK'
    BY <1>0, <1>1, <1>2, <2>2 DEF TypeOK
  <2>. QED
    BY <1>0, <1>1, <2>1, <2>3 DEF Types
<1>4. FileInv'
  <2>1. TornLines'
    BY <1>0, <1>1, <1>2, TamperTypes DEF TornLines
  <2>2. TamperingIsSeen'
    <3> SUFFICES ASSUME tears = 0, faults = 0 PROVE ~Verified'
      BY <1>1 DEF TamperingIsSeen
    <3>1. Verified
      BY <1>0, <1>1 DEF FileInv, Chained
    <3>. QED
      BY <1>0, <1>1, <3>1, TamperBreaks
  <2>. QED
    BY <1>1, <2>1, <2>2 DEF FileInv, Chained
<1>5. RecordInv'
  BY <1>1 DEF RecordInv, CursorIsRecorded, UnsentIsRecorded, TopicWithinFile, AuditedOrFlushing
<1>. QED
  BY <1>3, <1>4, <1>5 DEF IInv

-----------------------------------------------------------------------------
(* The invariant is inductive. *)

LEMMA InitInv ==
  ASSUME Init
  PROVE  IInv
<1>1. /\ file = << >> /\ unsent = << >> /\ prev = << >> /\ topic = {} /\ seq = 0
      /\ tears = 0 /\ crashes = 0 /\ faults = 0 /\ sweeps = 0 /\ tampers = 0
      /\ cursor = [r \in Runs |-> 0] /\ length = [r \in Runs |-> 0]
      /\ wpc = "idle"
  BY Zenon DEF Init, Genesis
<1>2. /\ over \in [Runs -> BOOLEAN] /\ target \in [Runs -> BOOLEAN]
      /\ run \in Runs /\ parked \in BOOLEAN /\ raised \subseteq Runs
      /\ producer \in {"new", "starting", "ready", "failed"}
  BY DEF Init
<1>3. /\ file \in Seq(Line) /\ unsent \in Seq(Events) /\ prev \in Chain
      /\ Len(file) = 0 /\ DOMAIN file = {} /\ DOMAIN unsent = {}
  BY <1>1 DEF Chain
<1>4. Types
  BY <1>1, <1>2, <1>3 DEF Types, TypeOK, Numbered
<1>5. FileInv
  BY <1>1, <1>3 DEF FileInv, TornLines, Chained, Verified, HeadOfFile, Genesis, TamperingIsSeen
<1>6. RecordInv
  BY <1>1, <1>3 DEF RecordInv, CursorIsRecorded, UnsentIsRecorded, TopicWithinFile,
                    AuditedOrFlushing
<1>. QED
  BY <1>4, <1>5, <1>6 DEF IInv

\* Nothing happens.
LEMMA StutterInv ==
  ASSUME IInv, UNCHANGED vars
  PROVE  IInv'
<1> USE DEF vars, runVars, sinkVars, workVars, boundVars
<1>1. Types'
  BY DEF IInv, Types, TypeOK, Numbered
<1>2. FileInv'
  BY FileFrame DEF IInv
<1>3. RecordInv'
  <2>1. cursor \in [Runs -> 0..MaxEvents] /\ \A r \in Runs : cursor[r] <= cursor[r]
    BY DEF IInv, Types, TypeOK
  <2>. QED
    BY <2>1, RecordFrame DEF IInv
<1>. QED
  BY <1>1, <1>2, <1>3 DEF IInv

LEMMA NextInv ==
  ASSUME IInv, [Next]_vars
  PROVE  IInv'
<1>1. ASSUME NEW r \in Runs, NEW n \in 1..2, NEW how \in {"parked", "ended", "raised"},
             Slice(r, n, how)
      PROVE  IInv'
  BY <1>1, SliceInv
<1>2. CASE Flush
  BY <1>2, FlushInv
<1>3. CASE FlushFails
  BY <1>3, FlushFailsInv
<1>4. CASE GetProducer \/ ConstructProducer
  BY <1>4, ProducerInv
<1>5. CASE Publish \/ Drop
  BY <1>5, PublishInv
<1>6. CASE RetireRun \/ \E r \in Runs : Expire(r)
  BY <1>6, RetireInv
<1>7. CASE Crash
  BY <1>7, CrashInv
<1>8. CASE Tamper
  BY <1>8, TamperInv
<1>9. CASE Idle \/ UNCHANGED vars
  BY <1>9, StutterInv DEF Idle
<1>. QED
  BY <1>1, <1>2, <1>3, <1>4, <1>5, <1>6, <1>7, <1>8, <1>9 DEF Next

LEMMA Inductive == Spec => []IInv
<1>1. Init => IInv
  BY InitInv
<1>2. IInv /\ [Next]_vars => IInv'
  BY NextInv
<1>. QED
  BY <1>1, <1>2, PTL DEF Spec

-----------------------------------------------------------------------------
(* Theorems. *)

\* The sink's chain head, the cursors and the worker keep their types, and a cursor
\* never passes the events of its run (TelemetrySink, flush_new_events).
THEOREM TypeCorrect == Spec => []TypeOK
<1>1. IInv => TypeOK
  BY DEF IInv, Types
<1>. QED
  BY <1>1, Inductive, PTL

\* For every number of runs, restarts and expiries, the file of a service whose writes
\* all reached the disk passes verify_chain (_resume_chain, flush_new_events).
THEOREM UntouchedChainVerifies == Spec => []ChainVerifies
<1>1. IInv => ChainVerifies
  BY DEF IInv, FileInv, Chained, ChainVerifies
<1>. QED
  BY <1>1, Inductive, PTL

\* A record altered, removed or moved breaks the chain for good: nothing the service
\* appends afterwards, in this process or the next, makes it verify again (ADR 0008).
THEOREM TamperingStaysVisible == Spec => []TamperingIsSeen
<1>1. IInv => TamperingIsSeen
  BY DEF IInv, FileInv
<1>. QED
  BY <1>1, Inductive, PTL

\* No event is lost behind a cursor: whatever flush_new_events will not write again is
\* in the file, through failed writes, crashes and expiries.
THEOREM CursorStandsForRecords == Spec => []CursorIsRecorded
<1>1. IInv => CursorIsRecorded
  BY DEF IInv, RecordInv
<1>. QED
  BY <1>1, Inductive, PTL

\* Nothing is on the audit topic that is not in the file: _record_audit publishes what
\* a flush has written and only that.
THEOREM TopicHoldsNoMore == Spec => []TopicWithinFile
<1>1. IInv => TopicWithinFile
  BY DEF IInv, RecordInv
<1>. QED
  BY <1>1, Inductive, PTL

\* Unless something crashed, failed or was changed, an idle worker has recorded every
\* event of every run that no node's exception ended (_after_slice, _record_audit).
THEOREM IdleMeansAudited == Spec => []RunsAreAudited
<1>1. IInv => RunsAreAudited
  BY DEF IInv, RecordInv, AuditedOrFlushing, RunsAreAudited
<1>. QED
  BY <1>1, Inductive, PTL
=============================================================================
