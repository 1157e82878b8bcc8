----------------------------- MODULE EventStream -----------------------------
(***************************************************************************)
(* How a browser follows a generation job:                                 *)
(*                                                                         *)
(*   api/routes/events.py, api/sse.py   the server-sent event stream, which *)
(*                        polls generation_events and generation_jobs      *)
(*   web/lib/generation-stream.ts       the page's EventSource             *)
(*                                                                         *)
(* The job writes its events as EventLog says, which is what GenerationJobs *)
(* is shown to do.  One action is one query, one message read by the page, *)
(* or one change of the connection.  The page's EventSource reconnects by  *)
(* itself and sends the last event id it has read.  An event is its number. *)
(***************************************************************************)
EXTENDS EventLog, Sequences, Functions

CONSTANTS
    Job,             \* the job the page follows
    MaxPolls,        \* MAX_POLLS
    HeartbeatEvery,  \* HEARTBEAT_EVERY_N_POLLS
    OperatorActs,    \* release_stuck_job.py may be used on a live job
    MaxEvents,       \* bound: events of a job
    MaxFaults        \* bound: lost connections and reloads of the page

ASSUME StreamConstantsOK ==
    /\ Job \in Jobs
    /\ MaxPolls \in Nat \ {0} /\ HeartbeatEvery \in Nat \ {0}
    /\ OperatorActs \in BOOLEAN
    /\ MaxEvents \in Nat /\ MaxFaults \in Nat

VARIABLES
    server,     \* the generator behind the open response
    wire,       \* messages sent and not yet read
    connected,  \* the EventSource has an open response
    lastId,     \* the EventSource's last event id
    received,   \* events the page shows, in order of arrival
    complete,   \* the page was told that generation is complete
    faults

page == <<connected, lastId, received, complete>>
vars == <<logVars, server, wire, page, faults>>

Progress  == [event : {"progress"}, id : 1 .. MaxEvents]
Heartbeat == [event |-> "heartbeat", id |-> 0]
Complete  == [event |-> "complete", id |-> 0]

NoStream == [pc |-> "ended", cursor |-> 0, batch |-> {}, polls |-> 0,
             quiet |-> 0]

TypeOK ==
    /\ LogTypeOK
    /\ server \in [pc : {"events", "status", "ended"}, cursor : 0 .. MaxEvents,
                   batch : SUBSET (1 .. MaxEvents), polls : 0 .. MaxPolls - 1,
                   quiet : 0 .. HeartbeatEvery - 1]
    /\ wire \in Seq(Progress \cup {Heartbeat, Complete})
    /\ connected \in BOOLEAN /\ complete \in BOOLEAN
    /\ lastId \in 0 .. MaxEvents
    /\ received \in Seq(1 .. MaxEvents)
    /\ faults \in 0 .. MaxFaults

Init ==
    /\ LogInit
    /\ server = NoStream
    /\ wire = <<>>
    /\ connected = FALSE /\ lastId = 0 /\ received = <<>> /\ complete = FALSE
    /\ faults = 0

-----------------------------------------------------------------------------
(* The job.                                                                *)

JobWrites ==
    /\ Cardinality(log[Job]) < MaxEvents
    /\ WriteNext(Job)
    /\ UNCHANGED <<server, wire, page, faults>>

JobFinishes ==
    /\ Finish(Job)
    /\ state'[Job] = "abandoned" => OperatorActs
    /\ UNCHANGED <<server, wire, page, faults>>

-----------------------------------------------------------------------------
(* stream_job_events.                                                      *)

\* Mutant: the header is ignored and every stream starts at the first event.
ResumesAtStart(id) == 0

\* Last-Event-ID, 0 when there is none.
ResumesAfter(id) == id

Connect ==
    /\ ~connected /\ ~complete
    /\ connected' = TRUE
    /\ wire' = <<>>
    /\ server' = [NoStream EXCEPT !.pc = "events",
                                  !.cursor = ResumesAfter(lastId)]
    /\ UNCHANGED <<logVars, lastId, received, complete, faults>>

\* SELECT ... WHERE sequence > cursor ORDER BY sequence
FetchEventsAfter ==
    /\ server.pc = "events"
    /\ server' = [server EXCEPT
                    !.pc = "status",
                    !.batch = {n \in log[Job] : n > server.cursor}]
    /\ UNCHANGED <<logVars, wire, page, faults>>

\* The fetched rows as a list.
BySequence(rows) ==
    [i \in 1 .. Cardinality(rows) |->
        CHOOSE n \in rows : Cardinality({o \in rows : o < n}) = i - 1]

JobIsTerminal == state[Job] # "open"

\* Mutant: the generator returns without saying why.
YieldedWithoutEnd(batch, terminal, beat) ==
    [i \in DOMAIN batch |-> [event |-> "progress", id |-> batch[i]]]
    \o (IF beat /\ ~terminal THEN <<Heartbeat>> ELSE <<>>)

\* What one poll yields: the fetched events in order, then the end of the
\* stream, or a heartbeat.
Yielded(batch, terminal, beat) ==
    [i \in DOMAIN batch |-> [event |-> "progress", id |-> batch[i]]]
    \o (IF terminal THEN <<Complete>>
        ELSE IF beat THEN <<Heartbeat>> ELSE <<>>)

\* Mutant: the loop polls once too often.
LastPollPlusOne(polls) == polls = MaxPolls + 1

\* for _ in range(MAX_POLLS)
LastPoll(polls) == polls = MaxPolls

\* job_is_terminal is a statement of its own, after the events were read.
\* The poll then yields and sleeps, or the generator returns.
PollStatus ==
    LET batch == BySequence(server.batch)
        quiet == IF batch = <<>> THEN server.quiet + 1 ELSE 0
        beat  == quiet >= HeartbeatEvery
        polls == server.polls + 1
    IN  /\ server.pc = "status"
        /\ wire' = wire \o Yielded(batch, JobIsTerminal, beat)
        /\ server' =
             IF JobIsTerminal \/ LastPoll(polls)
             THEN NoStream
             ELSE [pc |-> "events",
                   cursor |-> IF batch = <<>> THEN server.cursor
                              ELSE batch[Len(batch)],
                   batch |-> {}, polls |-> polls,
                   quiet |-> IF beat THEN 0 ELSE quiet]
        /\ UNCHANGED <<logVars, page, faults>>

-----------------------------------------------------------------------------
(* useGenerationStream.                                                    *)

Receive ==
    /\ connected /\ wire # <<>>
    /\ wire' = Tail(wire)
    /\ LET m == Head(wire)
       IN  \/ /\ m.event = "progress"
              /\ received' = Append(received, m.id)
              /\ lastId' = m.id
              /\ UNCHANGED <<connected, complete>>
           \/ m.event = "heartbeat" /\ UNCHANGED page
           \/ /\ m.event = "complete"
              /\ complete' = TRUE /\ connected' = FALSE
              /\ UNCHANGED <<lastId, received>>
    /\ UNCHANGED <<logVars, server, faults>>

\* Mutant: the page takes the end of a response for a quiet stream.
StreamEndsUnseen == FALSE

\* The response ended without "complete": EventSource will connect again.
StreamEnds ==
    /\ connected /\ wire = <<>> /\ server.pc = "ended"
    /\ connected' = FALSE
    /\ UNCHANGED <<logVars, server, wire, lastId, received, complete, faults>>

-----------------------------------------------------------------------------
(* Faults.                                                                 *)

Fault == faults < MaxFaults /\ faults' = faults + 1

\* A query of the poll raises: the generator ends, what it yielded arrives.
PollFails ==
    /\ Fault
    /\ server.pc # "ended"
    /\ server' = NoStream
    /\ UNCHANGED <<logVars, wire, page>>

\* The connection is lost with everything on its way.
Disconnect ==
    /\ Fault
    /\ connected
    /\ connected' = FALSE /\ wire' = <<>> /\ server' = NoStream
    /\ UNCHANGED <<logVars, lastId, received, complete>>

\* The author leaves the page and returns: a new EventSource, an empty list.
Remount ==
    /\ Fault
    /\ connected' = FALSE /\ wire' = <<>> /\ server' = NoStream
    /\ lastId' = 0 /\ received' = <<>> /\ complete' = FALSE
    /\ UNCHANGED logVars

-----------------------------------------------------------------------------

ServerStep == FetchEventsAfter \/ PollStatus
PageStep   == Connect \/ Receive \/ StreamEnds

Next ==
    \/ JobWrites \/ JobFinishes
    \/ ServerStep \/ PageStep
    \/ PollFails \/ Disconnect \/ Remount

Spec == Init /\ [][Next]_vars

\* The generator polls until it returns, and an EventSource reads and
\* reconnects by itself.  The job need not go on.
FairSpec == Spec /\ WF_vars(ServerStep) /\ WF_vars(PageStep)

-----------------------------------------------------------------------------

\* Whatever connections were lost in between, the page shows the job's events
\* from the first one on, each once and in order.
InOrderOnce ==
    /\ received = [i \in 1 .. Len(received) |-> i]
    /\ Len(received) <= Cardinality(log[Job])

\* Every event reaches the page while the job runs, unless the page was told
\* that the job is complete: bounded streams and lost messages delay it only.
EventsArrive ==
    \A n \in 1 .. MaxEvents :
        n \in log[Job] ~> n \in Range(received) \/ complete

\* The page learns that the job ended.
EndIsReported == state[Job] # "open" ~> complete

\* api/sse.py: "a reconnect after N events receives events N+1 onward exactly
\* once"; api/routes/events.py adds "never a duplicate or a gap".  Checked
\* without the operator: nobody released the job early.
NoGap == complete => Range(received) = log[Job]
=============================================================================
