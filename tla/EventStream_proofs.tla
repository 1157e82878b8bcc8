--------------------------- MODULE EventStream_proofs ---------------------------
(***************************************************************************)
(* Proofs of EventStream's safety properties, for any length of the log,   *)
(* any bounds of a stream and any number of faults.  The invariant says of *)
(* every message on its way what the page will have read before it: the    *)
(* ids go on where the page is, and where they end the generator goes on.  *)
(***************************************************************************)
EXTENDS EventStream, FiniteSetTheorems, SequenceTheorems, TLAPS

Messages == Progress \cup {Heartbeat, Complete}

Written == Cardinality(log[Job])

\* read[i] is the page's last event id once it has read i messages of the wire.
Chain(read) ==
    /\ read \in [0 .. Len(wire) -> 0 .. Written]
    /\ read[0] = lastId
    /\ \A i \in 1 .. Len(wire) :
         IF wire[i].event = "progress"
         THEN wire[i].id = read[i - 1] + 1 /\ read[i] = wire[i].id
         ELSE read[i] = read[i - 1]
    /\ server.pc # "ended" => read[Len(wire)] = server.cursor

StreamInv ==
    /\ TypeOK
    /\ Written \in 0 .. MaxEvents /\ log[Job] = 1 .. Written
    /\ server.pc = "status" =>
         \E m \in server.cursor .. Written : server.batch = server.cursor + 1 .. m
    /\ received = [i \in 1 .. lastId |-> i]
    /\ \E read : Chain(read)

-----------------------------------------------------------------------------
(* Operators.                                                              *)

LEMMA CardinalityOfInterval ==
    ASSUME NEW a \in Nat, NEW b \in Nat, a <= b
    PROVE  IsFiniteSet(a + 1 .. b) /\ Cardinality(a + 1 .. b) = b - a
<1> DEFINE c == a + 1
<1>1. c \in Int /\ b \in Int
      OBVIOUS
<1> HIDE DEF c
<1>2. IsFiniteSet(c .. b) /\ Cardinality(c .. b) = IF c > b THEN 0 ELSE b - c + 1
      BY <1>1, FS_Interval
<1> QED BY <1>2 DEF c

\* The rows of an interval come in its order.
LEMMA BySequenceOfInterval ==
    ASSUME NEW a \in Nat, NEW b \in Nat, a <= b
    PROVE  BySequence(a + 1 .. b) = [i \in 1 .. b - a |-> a + i]
<1>1. Cardinality(a + 1 .. b) = b - a
      BY CardinalityOfInterval
<1>2. ASSUME NEW n \in a + 1 .. b
      PROVE  Cardinality({o \in a + 1 .. b : o < n}) = n - 1 - a
  <2>1. {o \in a + 1 .. b : o < n} = a + 1 .. n - 1
        OBVIOUS
  <2>2. n - 1 \in Nat /\ a <= n - 1
        OBVIOUS
  <2> QED BY <2>1, <2>2, CardinalityOfInterval
<1>3. ASSUME NEW i \in 1 .. b - a
      PROVE  (CHOOSE n \in a + 1 .. b : Cardinality({o \in a + 1 .. b : o < n}) = i - 1) = a + i
  <2>1. a + i \in a + 1 .. b
        OBVIOUS
  <2>2. \A n \in a + 1 .. b : Cardinality({o \in a + 1 .. b : o < n}) = i - 1 <=> n = a + i
        BY <1>2
  <2> QED BY <2>1, <2>2
<1> QED BY <1>1, <1>3 DEF BySequence

\* What a poll yields of the events a+1 .. a+n, and at its end.
EventMessages(a, n) == [i \in 1 .. n |-> [event |-> "progress", id |-> a + i]]

EventMessagesAnd(a, n, end) == EventMessages(a, n) \o end

SendsEvents(sent, a, n) ==
    /\ sent \in Seq(Messages) /\ Len(sent) \in Nat /\ Len(sent) >= n
    /\ \A i \in 1 .. n : sent[i] = [event |-> "progress", id |-> a + i]
    /\ \A i \in n + 1 .. Len(sent) : sent[i].event # "progress"

LEMMA YieldedOfInterval ==
    ASSUME NEW a \in Nat, NEW n \in Nat, a + n <= MaxEvents,
           NEW end \in {<<>>, <<Complete>>, <<Heartbeat>>}
    PROVE  SendsEvents(EventMessagesAnd(a, n, end), a, n)
<1>1. PICK sent : sent = EventMessagesAnd(a, n, end)
      OBVIOUS
<1>2. PICK events : events = EventMessages(a, n)
      OBVIOUS
<1>3. /\ events \in Seq(Messages) /\ Len(events) = n
      /\ \A i \in 1 .. n : events[i] = [event |-> "progress", id |-> a + i]
  <2>1. ASSUME NEW i \in 1 .. n
        PROVE  [event |-> "progress", id |-> a + i] \in Messages
    <3>1. a + i \in 1 .. MaxEvents
          BY StreamConstantsOK
    <3> QED BY <3>1 DEF Messages, Progress
  <2>2. events \in [1 .. n -> Messages]
        BY <1>2, <2>1 DEF EventMessages
  <2>3. events \in Seq(Messages)
        BY <2>2, SeqDef
  <2>4. Len(events) = n
        BY <2>2, <2>3, LenProperties
  <2>5. \A i \in 1 .. n : events[i] = [event |-> "progress", id |-> a + i]
        BY <1>2 DEF EventMessages
  <2> QED BY <2>3, <2>4, <2>5
<1>4. end \in Seq(Messages) /\ \A i \in 1 .. Len(end) : end[i].event # "progress"
  <2>1. /\ Complete \in Messages /\ Heartbeat \in Messages
        /\ Complete.event # "progress" /\ Heartbeat.event # "progress"
        BY DEF Messages, Complete, Heartbeat
  <2> HIDE DEF Complete, Heartbeat, Messages
  <2>2. ASSUME NEW m \in {Complete, Heartbeat}, end = <<m>>
        PROVE  end \in Seq(Messages) /\ \A i \in 1 .. Len(end) : end[i].event # "progress"
        BY <2>1, <2>2
  <2>3. CASE end = <<>>
    <3>1. <<>> \in Seq(Messages) /\ Len(<<>>) = 0
          BY EmptySeq
    <3> QED BY <2>3, <3>1
  <2> QED BY <2>2, <2>3
<1>5. /\ sent \in Seq(Messages) /\ Len(sent) = n + Len(end)
      /\ \A i \in 1 .. n + Len(end) : sent[i] = IF i <= n THEN events[i] ELSE end[i - n]
  <2>1. sent = events \o end
        BY <1>1, <1>2 DEF EventMessagesAnd
  <2>2. /\ events \o end \in Seq(Messages) /\ Len(events \o end) = Len(events) + Len(end)
        /\ \A i \in 1 .. Len(events) + Len(end) :
              (events \o end)[i] = IF i <= Len(events) THEN events[i] ELSE end[i - Len(events)]
        BY <1>3, <1>4, ConcatProperties
  <2> QED BY <1>3, <2>1, <2>2
<1>6. Len(end) \in Nat
      BY <1>4, LenProperties
<1>7. \A i \in 1 .. n : sent[i] = events[i]
      BY <1>3, <1>5, <1>6
<1>8. ASSUME NEW i \in n + 1 .. Len(sent)
      PROVE  sent[i].event # "progress"
  <2>1. i - n \in 1 .. Len(end) /\ i \in 1 .. n + Len(end) /\ ~(i <= n)
        BY <1>5, <1>6
  <2> QED BY <1>4, <1>5, <2>1
<1>9. Len(sent) \in Nat /\ Len(sent) >= n
      BY <1>5, <1>6
<1>10. \A i \in 1 .. n : sent[i] = [event |-> "progress", id |-> a + i]
      BY <1>3, <1>7
<1> QED BY <1>1, <1>5, <1>8, <1>9, <1>10 DEF SendsEvents

LEMMA WrittenIsNumber ==
    ASSUME NEW n \in Nat
    PROVE  Cardinality(1 .. n) = n
<1>1. Cardinality(1 .. n) = IF 1 > n THEN 0 ELSE n - 1 + 1
      BY FS_Interval
<1> QED BY <1>1

-----------------------------------------------------------------------------
(* Steps.                                                                  *)

LEMMA StreamInit == Init => StreamInv
<1> SUFFICES ASSUME Init PROVE StreamInv
    OBVIOUS
<1>1. log[Job] = {} /\ Written = 0 /\ log[Job] = 1 .. 0
      BY StreamConstantsOK, WrittenIsNumber, FS_EmptySet DEF Init, LogInit, Written
<1>2. TypeOK
  <2>1. <<>> \in Seq(Messages) /\ <<>> \in Seq(1 .. MaxEvents)
        BY EmptySeq
  <2>2. server \in [pc : {"events", "status", "ended"}, cursor : 0 .. MaxEvents,
                    batch : SUBSET (1 .. MaxEvents), polls : 0 .. MaxPolls - 1,
                    quiet : 0 .. HeartbeatEvery - 1]
        BY StreamConstantsOK DEF Init, NoStream
  <2>3. LogTypeOK
        BY DEF Init, LogInit, LogTypeOK
  <2>4. wire \in Seq(Progress \cup {Heartbeat, Complete}) /\ received \in Seq(1 .. MaxEvents)
        BY <2>1 DEF Init, Messages
  <2>5. lastId \in 0 .. MaxEvents /\ faults \in 0 .. MaxFaults
        BY StreamConstantsOK DEF Init
  <2>6. connected \in BOOLEAN /\ complete \in BOOLEAN
        BY DEF Init
  <2> QED BY <2>2, <2>3, <2>4, <2>5, <2>6 DEF TypeOK
<1>3. Chain([i \in 0 .. 0 |-> 0])
      BY <1>1 DEF Init, Chain, NoStream
<1>4. received = [i \in 1 .. lastId |-> i]
      BY DEF Init
<1> QED BY <1>1, <1>2, <1>3, <1>4, StreamConstantsOK DEF StreamInv, Init, NoStream

\* A stream starts anew with nothing on its way.
LEMMA FreshStream ==
    ASSUME StreamInv, UNCHANGED logVars, wire' = <<>>, lastId' \in {lastId, 0},
           received' = [i \in 1 .. lastId' |-> i], received' \in Seq(1 .. MaxEvents),
           connected' \in BOOLEAN, complete' \in BOOLEAN, faults' \in 0 .. MaxFaults,
           \/ server' = NoStream
           \/ server' = [NoStream EXCEPT !.pc = "events", !.cursor = lastId']
    PROVE  StreamInv'
<1>1. Written' = Written /\ log' = log /\ state' = state
      BY DEF Written, logVars
<1>2. lastId' \in 0 .. Written /\ lastId' \in 0 .. MaxEvents
  <2>1. lastId \in 0 .. Written
        BY LenProperties DEF StreamInv, TypeOK, Chain
  <2> QED BY <2>1, StreamConstantsOK DEF StreamInv, TypeOK
<1>3. /\ server'.cursor \in 0 .. MaxEvents /\ server'.batch = {}
      /\ server'.polls = 0 /\ server'.quiet = 0 /\ server'.pc \in {"events", "ended"}
      /\ server'.pc = "events" => server'.cursor = lastId'
      /\ server' = [pc |-> server'.pc, cursor |-> server'.cursor, batch |-> server'.batch,
                    polls |-> server'.polls, quiet |-> server'.quiet]
  <2>1. CASE server' = NoStream
        BY <1>2, <2>1, StreamConstantsOK DEF NoStream
  <2>2. CASE server' = [NoStream EXCEPT !.pc = "events", !.cursor = lastId']
        BY <1>2, <2>2 DEF NoStream
  <2> QED BY <2>1, <2>2
<1>4. PICK read : read = [i \in 0 .. 0 |-> lastId']
      OBVIOUS
<1>5. Chain(read)'
  <2>1. Len(wire') = 0
        OBVIOUS
  <2>2. read \in [0 .. 0 -> 0 .. Written'] /\ read[0] = lastId'
        BY <1>1, <1>2, <1>4
  <2> QED BY <1>3, <2>1, <2>2 DEF Chain
<1>6. TypeOK'
  <2>1. wire' \in Seq(Messages)
        BY EmptySeq
  <2>2. lastId' \in 0 .. MaxEvents
        BY <1>2
  <2>3. server' \in [pc : {"events", "status", "ended"}, cursor : 0 .. MaxEvents,
                     batch : SUBSET (1 .. MaxEvents), polls : 0 .. MaxPolls - 1,
                     quiet : 0 .. HeartbeatEvery - 1]
        BY <1>3, StreamConstantsOK
  <2> QED BY <1>1, <2>1, <2>2, <2>3 DEF StreamInv, TypeOK, LogTypeOK, Messages
<1>7. server'.pc # "status"
      BY <1>3
<1> QED BY <1>1, <1>5, <1>6, <1>7 DEF StreamInv

\* What is on its way stays; the generator may have ended.
LEMMA SameWire ==
    ASSUME StreamInv, UNCHANGED <<wire, lastId, received>>,
           UNCHANGED server \/ server' = NoStream,
           log[Job] \subseteq log'[Job], log'[Job] = 1 .. Written', Written' \in Written .. MaxEvents,
           LogTypeOK', connected' \in BOOLEAN, complete' \in BOOLEAN, faults' \in 0 .. MaxFaults
    PROVE  StreamInv'
<1>1. PICK read : Chain(read)
      BY DEF StreamInv
<1>2. Written \in Nat /\ Written' \in Nat /\ Written <= Written'
      BY DEF StreamInv
<1>3. Chain(read)'
      BY <1>1, <1>2 DEF Chain, NoStream
<1>4. TypeOK'
  <2>1. NoStream \in [pc : {"events", "status", "ended"}, cursor : 0 .. MaxEvents,
                      batch : SUBSET (1 .. MaxEvents), polls : 0 .. MaxPolls - 1,
                      quiet : 0 .. HeartbeatEvery - 1]
        BY StreamConstantsOK DEF NoStream
  <2> QED BY <2>1 DEF StreamInv, TypeOK
<1>5. server'.pc = "status" =>
         \E m \in server'.cursor .. Written' : server'.batch = server'.cursor + 1 .. m
      BY <1>2 DEF StreamInv, NoStream, TypeOK
<1> QED BY <1>2, <1>3, <1>4, <1>5 DEF StreamInv

LEMMA JobSteps ==
    ASSUME StreamInv, JobWrites \/ JobFinishes
    PROVE  StreamInv'
<1>1. /\ Job \in Jobs /\ LogTypeOK /\ Written \in 0 .. MaxEvents /\ log[Job] = 1 .. Written
      /\ connected \in BOOLEAN /\ complete \in BOOLEAN /\ faults \in 0 .. MaxFaults
      BY StreamConstantsOK DEF StreamInv, TypeOK
<1>2. UNCHANGED <<wire, lastId, received, server, connected, complete, faults>>
      BY DEF JobWrites, JobFinishes, page
<1>3. CASE JobWrites
  <2>1. /\ Written < MaxEvents /\ state' = state
        /\ log' = [log EXCEPT ![Job] = 1 .. Written + 1]
        BY <1>3 DEF JobWrites, WriteNext, Written
  <2>2. log'[Job] = 1 .. Written + 1 /\ Written + 1 \in Nat
        BY <1>1, <2>1 DEF LogTypeOK
  <2>3. Written' = Written + 1
        BY <2>2, WrittenIsNumber DEF Written
  <2>4. LogTypeOK'
        BY <1>1, <2>1 DEF LogTypeOK
  <2> QED BY <1>1, <1>2, <2>1, <2>2, <2>3, <2>4, StreamConstantsOK, SameWire
<1>4. CASE JobFinishes
  <2>1. log' = log /\ Written' = Written
        BY <1>4 DEF JobFinishes, Finish, Written
  <2>2. LogTypeOK'
        BY <1>1, <1>4, <2>1 DEF LogTypeOK, JobFinishes, Finish
  <2> QED BY <1>1, <1>2, <2>1, <2>2, SameWire
<1> QED BY <1>3, <1>4

LEMMA FetchStep ==
    ASSUME StreamInv, FetchEventsAfter
    PROVE  StreamInv'
<1>1. /\ server.pc = "events"
      /\ server' = [server EXCEPT !.pc = "status",
                                  !.batch = {n \in log[Job] : n > server.cursor}]
      /\ UNCHANGED <<log, state, wire, connected, lastId, received, complete, faults>>
      BY DEF FetchEventsAfter, logVars, page
<1>2. PICK read : Chain(read)
      BY DEF StreamInv
<1>3. /\ server \in [pc : {"events", "status", "ended"}, cursor : 0 .. MaxEvents,
                     batch : SUBSET (1 .. MaxEvents), polls : 0 .. MaxPolls - 1,
                     quiet : 0 .. HeartbeatEvery - 1]
      /\ wire \in Seq(Progress \cup {Heartbeat, Complete})
      /\ Written \in 0 .. MaxEvents /\ log[Job] = 1 .. Written /\ MaxEvents \in Nat
      BY StreamConstantsOK DEF StreamInv, TypeOK
<1>4. /\ server'.pc = "status" /\ server'.cursor = server.cursor
      /\ server'.batch = {n \in log[Job] : n > server.cursor}
      /\ server' \in [pc : {"events", "status", "ended"}, cursor : 0 .. MaxEvents,
                      batch : SUBSET (1 .. MaxEvents), polls : 0 .. MaxPolls - 1,
                      quiet : 0 .. HeartbeatEvery - 1]
  <2> DEFINE batch == {n \in log[Job] : n > server.cursor}
  <2>1. batch \subseteq 1 .. MaxEvents
        BY <1>3
  <2> HIDE DEF batch
  <2>2. server' = [server EXCEPT !.pc = "status", !.batch = batch]
        BY <1>1 DEF batch
  <2>3. /\ server'.pc = "status" /\ server'.cursor = server.cursor /\ server'.batch = batch
        /\ server' \in [pc : {"events", "status", "ended"}, cursor : 0 .. MaxEvents,
                        batch : SUBSET (1 .. MaxEvents), polls : 0 .. MaxPolls - 1,
                        quiet : 0 .. HeartbeatEvery - 1]
        BY <1>3, <2>1, <2>2
  <2> QED BY <2>3 DEF batch
<1>5. server.cursor \in 0 .. Written
  <2>1. Len(wire) \in Nat
        BY <1>3, LenProperties
  <2> QED BY <1>1, <1>2, <2>1 DEF Chain
<1>6. Written' = Written /\ Chain(read)'
      BY <1>1, <1>2, <1>4 DEF Chain, Written
<1>7. server'.batch = server'.cursor + 1 .. Written' /\ Written' \in server'.cursor .. Written'
      BY <1>3, <1>4, <1>5, <1>6
<1>8. TypeOK'
      BY <1>1, <1>4 DEF StreamInv, TypeOK, LogTypeOK
<1>9. received' = [i \in 1 .. lastId' |-> i] /\ Written' \in 0 .. MaxEvents /\ log'[Job] = 1 .. Written'
      BY <1>1, <1>3, <1>6 DEF StreamInv
<1> QED BY <1>6, <1>7, <1>8, <1>9 DEF StreamInv

LEMMA PollStep ==
    ASSUME StreamInv, PollStatus
    PROVE  StreamInv'
<1> DEFINE batch == BySequence(server.batch)
           quiet == IF batch = <<>> THEN server.quiet + 1 ELSE 0
           beat  == quiet >= HeartbeatEvery
           sent  == Yielded(batch, JobIsTerminal, beat)
           next  == [pc |-> "events",
                     cursor |-> IF batch = <<>> THEN server.cursor ELSE batch[Len(batch)],
                     batch |-> {}, polls |-> server.polls + 1,
                     quiet |-> IF beat THEN 0 ELSE quiet]
<1>1. /\ server.pc = "status" /\ wire' = wire \o sent
      /\ server' = IF JobIsTerminal \/ LastPoll(server.polls + 1) THEN NoStream ELSE next
      /\ UNCHANGED <<log, state, connected, lastId, received, complete, faults>>
      BY DEF PollStatus, logVars, page
<1>2. /\ server.cursor \in 0 .. MaxEvents /\ server.polls \in 0 .. MaxPolls - 1
      /\ server.quiet \in 0 .. HeartbeatEvery - 1
      /\ wire \in Seq(Messages) /\ Written \in 0 .. MaxEvents /\ MaxEvents \in Nat
      /\ MaxPolls \in Nat \ {0} /\ HeartbeatEvery \in Nat \ {0}
      BY StreamConstantsOK DEF StreamInv, TypeOK, Messages
<1>3. PICK m \in server.cursor .. Written : server.batch = server.cursor + 1 .. m
      BY <1>1 DEF StreamInv
<1>4. PICK a \in Nat : a = server.cursor
      BY <1>2
<1>5. a <= m /\ m \in 0 .. MaxEvents /\ m \in Nat /\ m <= Written
      BY <1>2, <1>3, <1>4
<1>6. batch = [i \in 1 .. m - a |-> a + i]
      BY <1>3, <1>4, <1>5, BySequenceOfInterval
<1>7. /\ sent \in Seq(Messages) /\ Len(sent) >= m - a
      /\ \A i \in 1 .. m - a : sent[i] = [event |-> "progress", id |-> a + i]
      /\ \A i \in 1 .. Len(sent) : i > m - a => sent[i].event # "progress"
  <2> DEFINE events == [i \in DOMAIN batch |-> [event |-> "progress", id |-> batch[i]]]
             end == IF JobIsTerminal THEN <<Complete>> ELSE IF beat THEN <<Heartbeat>> ELSE <<>>
  <2> HIDE DEF batch, beat, quiet, next
  <2>1. sent = events \o end
        BY DEF Yielded
  <2>2. end \in {<<>>, <<Complete>>, <<Heartbeat>>}
        OBVIOUS
  <2>3. PICK n \in Nat : n = m - a
        BY <1>4, <1>5
  <2>4. events = EventMessages(a, n)
        BY <1>6, <2>3 DEF EventMessages
  <2> HIDE DEF events, end, sent
  <2>5. a \in Nat /\ n \in Nat /\ a + n <= MaxEvents
        BY <1>2, <1>4, <1>5, <2>3
  <2>6. /\ sent \in Seq(Messages) /\ Len(sent) \in Nat /\ Len(sent) >= n
        /\ \A i \in 1 .. n : sent[i] = [event |-> "progress", id |-> a + i]
        /\ \A i \in n + 1 .. Len(sent) : sent[i].event # "progress"
    <3>1. sent = EventMessagesAnd(a, n, end)
          BY <2>1, <2>4 DEF EventMessagesAnd
    <3>2. SendsEvents(EventMessagesAnd(a, n, end), a, n)
          BY <2>2, <2>5, YieldedOfInterval
    <3> QED BY <3>1, <3>2 DEF SendsEvents
  <2>7. \A i \in 1 .. Len(sent) : i > n => i \in n + 1 .. Len(sent)
        BY <2>5, <2>6
  <2> QED BY <2>3, <2>6, <2>7
<1>8. (batch = <<>> <=> m = a) /\ (m # a => batch[Len(batch)] = m)
  <2>1. m - a \in Nat /\ batch \in [1 .. m - a -> Nat]
        BY <1>5, <1>6
  <2>2. batch \in Seq(Nat) /\ Len(batch) = m - a
        BY <2>1, SeqDef, LenProperties
  <2>3. batch = <<>> <=> m = a
        BY <1>5, <2>2, EmptySeq
  <2> QED BY <1>5, <1>6, <2>2, <2>3
<1>9. next.cursor = m
      BY <1>4, <1>8
<1>10. server' \in [pc : {"events", "status", "ended"}, cursor : 0 .. MaxEvents,
                    batch : SUBSET (1 .. MaxEvents), polls : 0 .. MaxPolls - 1,
                    quiet : 0 .. HeartbeatEvery - 1]
  <2>1. CASE server' = NoStream
        BY <1>2, <2>1 DEF NoStream
  <2>2. CASE server' = next /\ ~LastPoll(server.polls + 1)
    <3>1. server.polls + 1 \in 0 .. MaxPolls - 1
          BY <1>2, <2>2 DEF LastPoll
    <3>2. next.quiet \in 0 .. HeartbeatEvery - 1
      <4> HIDE DEF batch
      <4> QED BY <1>2
    <3> HIDE DEF batch, quiet, beat
    <3> QED BY <1>5, <1>9, <2>2, <3>1, <3>2
  <2> QED BY <1>1, <2>1, <2>2
<1> HIDE DEF sent, batch, quiet, beat, next
<1>11. /\ wire' \in Seq(Messages) /\ Len(wire) \in Nat /\ Len(sent) \in Nat
       /\ Len(wire') = Len(wire) + Len(sent)
       /\ \A i \in 1 .. Len(wire) + Len(sent) :
            wire'[i] = IF i <= Len(wire) THEN wire[i] ELSE sent[i - Len(wire)]
       BY <1>1, <1>2, <1>7, ConcatProperties, LenProperties
<1>12. PICK old : Chain(old)
       BY DEF StreamInv
<1>13. PICK w \in Nat, k \in Nat, n \in Nat : w = Len(wire) /\ k = Len(sent) /\ n = m - a
       BY <1>4, <1>5, <1>11
<1>14. /\ Len(wire') = w + k /\ n <= k /\ m = a + n
       /\ \A i \in 1 .. w : wire'[i] = wire[i]
       /\ \A i \in w + 1 .. w + n : wire'[i] = [event |-> "progress", id |-> a + (i - w)]
       /\ \A i \in w + n + 1 .. w + k : wire'[i].event # "progress"
  <2>1. Len(wire') = w + k /\ n <= k /\ m = a + n
        BY <1>4, <1>5, <1>7, <1>11, <1>13
  <2>2. \A i \in 1 .. w + k : wire'[i] = IF i <= w THEN wire[i] ELSE sent[i - w]
        BY <1>11, <1>13
  <2>3. /\ \A i \in 1 .. n : sent[i] = [event |-> "progress", id |-> a + i]
        /\ \A i \in 1 .. k : i > n => sent[i].event # "progress"
        BY <1>7, <1>13
  <2>4. \A i \in w + 1 .. w + k : i - w \in 1 .. k /\ wire'[i] = sent[i - w]
        BY <1>13, <2>2
  <2>5. ASSUME NEW i \in w + 1 .. w + n
        PROVE  wire'[i] = [event |-> "progress", id |-> a + (i - w)]
    <3>1. i - w \in 1 .. n /\ i \in w + 1 .. w + k
          BY <1>13, <2>1
    <3> QED BY <2>3, <2>4, <3>1
  <2>6. ASSUME NEW i \in w + n + 1 .. w + k
        PROVE  wire'[i].event # "progress"
    <3>1. i - w \in 1 .. k /\ i - w > n /\ i \in w + 1 .. w + k
          BY <1>13, <2>1
    <3> QED BY <2>3, <2>4, <3>1
  <2>7. \A i \in 1 .. w : wire'[i] = wire[i]
        BY <1>13, <2>2
  <2> QED BY <2>1, <2>5, <2>6, <2>7
<1>15. PICK read : read = [i \in 0 .. w + k |->
                             IF i <= w THEN old[i] ELSE IF i <= w + n THEN a + (i - w) ELSE a + n]
       OBVIOUS
<1>16. /\ old \in [0 .. w -> 0 .. Written] /\ old[0] = lastId /\ old[w] = a
       /\ \A i \in 1 .. w : IF wire[i].event = "progress"
                           THEN wire[i].id = old[i - 1] + 1 /\ old[i] = wire[i].id
                           ELSE old[i] = old[i - 1]
       BY <1>1, <1>4, <1>12, <1>13 DEF Chain
<1>17. /\ \A i \in 0 .. w : read[i] = old[i]
       /\ \A i \in w .. w + n : read[i] = a + (i - w)
       /\ \A i \in w + n .. w + k : read[i] = a + n
  <2>1. w \in 0 .. w + k /\ \A i \in 0 .. w : i \in 0 .. w + k
        BY <1>13
  <2>2. \A i \in w + 1 .. w + n : read[i] = a + (i - w)
        BY <1>13, <1>14, <1>15
  <2>3. \A i \in w + n + 1 .. w + k : read[i] = a + n
        BY <1>13, <1>14, <1>15
  <2>4. \A i \in 0 .. w : read[i] = old[i]
        BY <1>13, <1>15, <2>1
  <2>5. read[w] = a + (w - w)
        BY <1>4, <1>13, <1>16, <2>4
  <2>6. read[w + n] = a + n
    <3>1. n = 0 \/ w + n \in w + 1 .. w + n
          BY <1>13
    <3>2. w + n - w = n /\ w - w = 0 /\ a + 0 = a
          BY <1>4, <1>13
    <3> QED BY <1>13, <2>2, <2>5, <3>1, <3>2
  <2>7. /\ \A i \in w .. w + n : i = w \/ i \in w + 1 .. w + n
        /\ \A i \in w + n .. w + k : i = w + n \/ i \in w + n + 1 .. w + k
        BY <1>13
  <2> QED BY <2>2, <2>3, <2>4, <2>5, <2>6, <2>7
<1>18. Chain(read)'
  <2>1. Written' = Written /\ lastId' = lastId
        BY <1>1 DEF Written
  <2>2. read \in [0 .. w + k -> 0 .. Written] /\ read[0] = lastId
    <3>1. \A i \in 0 .. w : old[i] \in 0 .. Written
          BY <1>13, <1>16
    <3>2. a + n \in 0 .. Written /\ \A i \in w .. w + n : a + (i - w) \in 0 .. Written
      <4>1. a + n \in Nat /\ a + n <= Written
            BY <1>4, <1>5, <1>13, <1>14
      <4>2. Written \in Nat
            BY <1>2
      <4>3. ASSUME NEW i \in w .. w + n
            PROVE  a + (i - w) \in Nat /\ a + (i - w) <= a + n
        <5>1. i - w \in 0 .. n
              BY <1>13
        <5>2. PICK e \in 0 .. n : e = i - w
              BY <5>1
        <5> QED BY <1>4, <1>13, <5>2
      <4> QED BY <4>1, <4>2, <4>3
    <3>3. \A i \in 0 .. w + k : i \in 0 .. w \/ i \in w .. w + n \/ i \in w + n .. w + k
          BY <1>13
    <3>4. \A i \in 0 .. w + k : read[i] \in 0 .. Written
          BY <1>17, <3>1, <3>2, <3>3
    <3>5. 0 \in 0 .. w
          BY <1>13
    <3> QED BY <1>15, <1>16, <1>17, <3>4, <3>5
  <2>3. ASSUME NEW i \in 1 .. w + k
        PROVE  IF wire'[i].event = "progress"
               THEN wire'[i].id = read[i - 1] + 1 /\ read[i] = wire'[i].id
               ELSE read[i] = read[i - 1]
    <3>1. CASE i \in 1 .. w
      <4>1. i - 1 \in 0 .. w /\ i \in 0 .. w
            BY <1>13, <3>1
      <4> QED BY <1>14, <1>16, <1>17, <3>1, <4>1
    <3>2. CASE i \in w + 1 .. w + n
      <4>1. i - 1 \in w .. w + n /\ i \in w .. w + n
            BY <1>13, <3>2
      <4>2. wire'[i].event = "progress" /\ wire'[i].id = a + (i - w)
        <5>1. wire'[i] = [event |-> "progress", id |-> a + (i - w)]
              BY <1>14, <3>2
        <5> QED BY <5>1
      <4>3. read[i] = a + (i - w) /\ read[i - 1] = a + (i - 1 - w)
            BY <1>17, <4>1
      <4> QED BY <1>4, <1>13, <4>1, <4>2, <4>3
    <3>3. CASE i \in w + n + 1 .. w + k
      <4>1. i - 1 \in w + n .. w + k /\ i \in w + n .. w + k
            BY <1>13, <3>3
      <4> QED BY <1>14, <1>17, <3>3, <4>1
    <3> QED BY <1>13, <1>14, <3>1, <3>2, <3>3
  <2>4. server'.pc # "ended" => read[w + k] = server'.cursor
    <3>1. read[w + k] = m
          BY <1>13, <1>14, <1>17
    <3> QED BY <1>1, <1>9, <3>1 DEF NoStream, next
  <2> QED BY <1>14, <2>1, <2>2, <2>3, <2>4 DEF Chain
<1>19. TypeOK' /\ Written' = Written
       BY <1>1, <1>10, <1>11 DEF StreamInv, TypeOK, LogTypeOK, Messages, Written
<1>20. server'.pc # "status"
       BY <1>1 DEF NoStream, next
<1> QED BY <1>1, <1>18, <1>19, <1>20 DEF StreamInv

LEMMA ReceiveStep ==
    ASSUME StreamInv, Receive
    PROVE  StreamInv'
<1> DEFINE m == Head(wire)
<1>1. /\ wire # <<>> /\ wire' = Tail(wire) /\ UNCHANGED <<log, state, server, faults>>
      /\ connected' \in {connected, FALSE} /\ complete' \in {complete, TRUE}
      /\ \/ m.event = "progress" /\ received' = Append(received, m.id) /\ lastId' = m.id
         \/ m.event # "progress" /\ UNCHANGED <<received, lastId>>
      BY DEF Receive, page, logVars
<1>2. wire \in Seq(Messages) /\ received \in Seq(1 .. MaxEvents) /\ lastId \in 0 .. MaxEvents
      BY DEF StreamInv, TypeOK, Messages
<1>3. /\ Len(wire) \in Nat \ {0} /\ wire' \in Seq(Messages) /\ Len(wire') = Len(wire) - 1
      /\ \A i \in 1 .. Len(wire') : wire'[i] = wire[i + 1]
      /\ m = wire[1] /\ m \in Messages
      BY <1>1, <1>2, HeadTailProperties, EmptySeq
<1>4. PICK old : Chain(old)
      BY DEF StreamInv
<1>5. PICK read : read = [i \in 0 .. Len(wire) - 1 |-> old[i + 1]]
      OBVIOUS
<1>6. IF m.event = "progress" THEN m.id = lastId + 1 /\ old[1] = m.id ELSE old[1] = lastId
  <2>1. 1 \in 1 .. Len(wire) /\ 1 - 1 = 0
        BY <1>3
  <2> QED BY <1>3, <1>4, <2>1 DEF Chain
<1>7. Chain(read)'
  <2>1. Written' = Written /\ server' = server
        BY <1>1 DEF Written
  <2>2. old \in [0 .. Len(wire) -> 0 .. Written]
        BY <1>4 DEF Chain
  <2>3. read \in [0 .. Len(wire') -> 0 .. Written] /\ read[0] = lastId'
        BY <1>1, <1>3, <1>5, <1>6, <2>2
  <2>4. ASSUME NEW i \in 1 .. Len(wire')
        PROVE  IF wire'[i].event = "progress"
               THEN wire'[i].id = read[i - 1] + 1 /\ read[i] = wire'[i].id
               ELSE read[i] = read[i - 1]
    <3>1. i + 1 \in 1 .. Len(wire) /\ wire'[i] = wire[i + 1]
          BY <1>3
    <3>2. read[i] = old[i + 1] /\ read[i - 1] = old[i + 1 - 1]
          BY <1>3, <1>5
    <3> QED BY <1>4, <3>1, <3>2 DEF Chain
  <2>5. read[Len(wire')] = old[Len(wire)]
        BY <1>3, <1>5
  <2> QED BY <1>4, <2>1, <2>3, <2>4, <2>5 DEF Chain
<1>8. received' = [i \in 1 .. lastId' |-> i] /\ received' \in Seq(1 .. MaxEvents) /\ lastId' \in 0 .. MaxEvents
  <2>1. CASE m.event # "progress"
        BY <1>1, <1>2, <2>1 DEF StreamInv
  <2>2. CASE m.event = "progress"
    <3>1. m.id = lastId + 1 /\ m.id \in 1 .. MaxEvents
          BY <1>3, <1>6, <2>2 DEF Messages, Progress, Heartbeat, Complete
    <3>2. received = [i \in 1 .. lastId |-> i] /\ Len(received) = lastId
          BY <1>2, LenProperties DEF StreamInv
    <3>3. /\ received' \in Seq(1 .. MaxEvents) /\ Len(received') = lastId + 1
          /\ \A i \in 1 .. lastId + 1 : received'[i] = i
      <4>1. PICK n \in 1 .. MaxEvents : n = m.id
            BY <3>1
      <4>2. received' = Append(received, n) /\ n = lastId + 1
            BY <1>1, <2>2, <3>1, <4>1
      <4> QED BY <1>2, <3>2, <4>2, AppendProperties
    <3>4. received' = [i \in 1 .. lastId + 1 |-> i]
          BY <3>3, LenProperties
    <3> QED BY <1>1, <2>2, <3>1, <3>3, <3>4
  <2> QED BY <2>1, <2>2
<1>9. TypeOK'
  <2>1. connected' \in BOOLEAN /\ complete' \in BOOLEAN
        BY <1>1 DEF StreamInv, TypeOK
  <2> QED BY <1>1, <1>3, <1>8, <2>1 DEF StreamInv, TypeOK, LogTypeOK, Messages
<1> QED BY <1>1, <1>7, <1>8, <1>9 DEF StreamInv, Written

LEMMA StreamStep == StreamInv /\ [Next]_vars => StreamInv'
<1> SUFFICES ASSUME StreamInv, [Next]_vars PROVE StreamInv'
    OBVIOUS
<1>1. /\ log[Job] = 1 .. Written /\ Written \in 0 .. MaxEvents /\ MaxEvents \in Nat /\ MaxFaults \in Nat
      /\ LogTypeOK /\ connected \in BOOLEAN /\ complete \in BOOLEAN /\ faults \in 0 .. MaxFaults
      /\ received \in Seq(1 .. MaxEvents) /\ received = [i \in 1 .. lastId |-> i]
      BY StreamConstantsOK DEF StreamInv, TypeOK
<1>2. Fault => faults' \in 0 .. MaxFaults
      BY <1>1 DEF Fault
<1>3. UNCHANGED logVars => log'[Job] = 1 .. Written' /\ log' = log /\ Written' = Written /\ LogTypeOK'
      BY <1>1 DEF logVars, Written, LogTypeOK
<1>4. CASE JobWrites \/ JobFinishes
      BY <1>4, JobSteps
<1>5. CASE ServerStep
      BY <1>5, FetchStep, PollStep DEF ServerStep
<1>6. CASE Connect
      BY <1>1, <1>6, FreshStream DEF Connect, ResumesAfter
<1>7. CASE Receive
      BY <1>7, ReceiveStep
<1>8. CASE StreamEnds
  <2>1. /\ UNCHANGED logVars /\ UNCHANGED <<server, wire, lastId, received, complete, faults>>
        /\ connected' = FALSE
        BY <1>8 DEF StreamEnds
  <2>2. connected' \in BOOLEAN /\ complete' \in BOOLEAN
        BY <1>1, <2>1
  <2>3. /\ log'[Job] = 1 .. Written' /\ log'[Job] = log[Job] /\ Written' \in Written .. MaxEvents /\ LogTypeOK'
        /\ UNCHANGED <<server, wire, lastId, received>> /\ faults' \in 0 .. MaxFaults
        BY <1>1, <1>3, <2>1
  <2> QED BY <2>2, <2>3, SameWire
<1>9. CASE PollFails
      BY <1>1, <1>2, <1>3, <1>9, SameWire DEF PollFails, page
<1>10. CASE Disconnect
       BY <1>1, <1>2, <1>10, FreshStream DEF Disconnect
<1>11. CASE Remount
  <2>1. received' = [i \in 1 .. lastId' |-> i] /\ received' \in Seq(1 .. MaxEvents)
    <3>1. <<>> \in Seq(1 .. MaxEvents)
          BY EmptySeq
    <3> QED BY <1>11, <3>1 DEF Remount
  <2> QED BY <1>2, <1>11, <2>1, FreshStream DEF Remount
<1>12. CASE UNCHANGED vars
       BY <1>1, <1>3, <1>12, SameWire DEF vars, page
<1> QED BY <1>4, <1>5, <1>6, <1>7, <1>8, <1>9, <1>10, <1>11, <1>12 DEF Next, PageStep

\* Every message, cursor and count of a stream is of its type.
THEOREM StreamTypes == Spec => []TypeOK
<1>1. StreamInv => TypeOK
      BY DEF StreamInv
<1> QED BY <1>1, StreamInit, StreamStep, PTL DEF Spec

\* The page shows a gapless prefix of the log, however often it reconnects.
THEOREM ShownInOrderOnce == Spec => []InOrderOnce
<1>1. StreamInv => InOrderOnce
  <2> SUFFICES ASSUME StreamInv PROVE InOrderOnce
      OBVIOUS
  <2>1. received \in Seq(1 .. MaxEvents) /\ received = [i \in 1 .. lastId |-> i] /\ lastId \in Nat
        BY StreamConstantsOK DEF StreamInv, TypeOK
  <2>2. Len(received) = lastId
        BY <2>1, LenProperties
  <2>3. lastId \in 0 .. Written
    <3>1. Len(wire) \in Nat
          BY LenProperties DEF StreamInv, TypeOK
    <3> QED BY <3>1 DEF StreamInv, Chain
  <2> QED BY <2>1, <2>2, <2>3 DEF InOrderOnce, StreamInv, Written
<1> QED BY <1>1, StreamInit, StreamStep, PTL DEF Spec
=============================================================================
