------------------------ MODULE GenerationJobs_proofs ------------------------
(***************************************************************************)
(* Proofs about GenerationJobs, for all values of its constants.           *)
(*                                                                         *)
(* The inductive invariant IInv is the conjunction of TypeOK with four     *)
(* facts, each preserved by every step (one lemma per conjunct, one step   *)
(* per action):                                                            *)
(*   RowsExist            whoever holds a job id holds that of a row       *)
(*   Contiguous           a branch's chapters are numbered 1 .. n, and a   *)
(*                        number read for publication is at most n + 1     *)
(*   Claims               a worker past claim_job is the only one          *)
(*   ChapterHasCandidate  a chapter's job has its candidate row            *)
(***************************************************************************)
EXTENDS GenerationJobs, TLAPS

\* Handlers, pollers, workers and outbox rows refer to inserted jobs only,
\* and an inserted job has a branch.
RowsExist ==
    /\ \A j \in Jobs : status[j] # "none" => branch[j] \in Branches
    /\ \A q \in Requests :
         request[q].pc \in {"launch", "mark"} => request[q].job \in Rows
    /\ \A d \in Dispatchers : dispatcher[d].batch \subseteq Rows
    /\ \A d \in Dispatchers : dispatcher[d].launched \in Rows \cup {0}
    /\ \A j \in Jobs : outbox[j] # "none" => j \in Rows
    /\ \A r \in Runs : run[r].pc # "free" => run[r].job \in Rows

\* Branch b has exactly the chapters 1 .. n.
Numbered(b, n) == IndicesOf(b) = 1 .. n

\* The number read by StageCandidate is never beyond the next one, because
\* chapters are only ever added; UNIQUE (branch_id, chapter_index) then
\* leaves only the next one.
Contiguous ==
    /\ \A b \in Branches : \E n \in Nat : Numbered(b, n)
    /\ \A r \in Runs : run[r].pc = "commit" =>
         \E n \in Nat : /\ Numbered(branch[run[r].job], n)
                        /\ run[r].index \in 1 .. n + 1

\* No job returns to QUEUED, so a claim is never repeated.
Claims ==
    /\ \A r \in Runs : run[r].claimed =>
         /\ run[r].pc \notin {"free", "launched"}
         /\ status[run[r].job] \notin {"none", "QUEUED"}
    /\ OneWorkerPerJob

\* candidate_chapters.job_id is UNIQUE: the row shuts out a second chapter.
ChapterHasCandidate ==
    \A c \in chapters : c.job \in Rows /\ candidate[c.job] # "none"

-----------------------------------------------------------------------------
(* Operators.                                                              *)

\* What COALESCE(MAX(chapter_index), 0) + 1 returns on a numbered branch.
LEMMA NextIndexIs ==
    ASSUME NEW b, NEW n \in Nat, Numbered(b, n)
    PROVE  NextIndex(b) = n + 1
<1>1. IndicesOf(b) \cup {0} = 0 .. n
  BY DEF Numbered
<1>2. n \in 0 .. n /\ \A y \in 0 .. n : n >= y
  OBVIOUS
<1>3. Max(0 .. n) \in 0 .. n /\ \A y \in 0 .. n : Max(0 .. n) >= y
  BY <1>2 DEF Max
<1>4. Max(0 .. n) = n
  BY <1>2, <1>3
<1>. QED
  BY <1>1, <1>4 DEF NextIndex

\* A written event is an event row.
LEMMA WriteEventType ==
    ASSUME events \in [Jobs -> SUBSET [seq : Nat, status : EventStatus]],
           run \in [Runs -> RunState],
           NEW r \in Runs, NEW s \in EventStatus, WriteEvent(r, s)
    PROVE  events' \in [Jobs -> SUBSET [seq : Nat, status : EventStatus]]
<1>1. [seq |-> run[r].seq + 1, status |-> s]
        \in [seq : Nat, status : EventStatus]
  BY DEF RunState
<1>. QED
  BY <1>1 DEF WriteEvent

\* The next chapter number is a positive number.
LEMMA NextIndexType ==
    ASSUME Contiguous, NEW b \in Branches
    PROVE  NextIndex(b) \in Nat \ {0}
<1>1. PICK n \in Nat : Numbered(b, n)
  BY DEF Contiguous
<1>2. NextIndex(b) = n + 1
  BY <1>1, NextIndexIs
<1>. QED
  BY <1>2

\* A worker that has read the number of its chapter, for its prompt or for
\* publication, is well typed.
LEMMA NumberedRunType ==
    ASSUME NEW worker \in RunState, NEW n \in Nat \ {0}, NEW ok \in BOOLEAN
    PROVE  /\ [worker EXCEPT !.pc = "agents", !.told = n] \in RunState
           /\ [worker EXCEPT !.pc = "commit", !.approved = ok, !.index = n] \in RunState
BY DEF RunState, Working

\* A launch leaves worker states well typed.
LEMMA StartWorkerType ==
    ASSUME run \in [Runs -> RunState], NEW j \in Jobs, StartWorker(j)
    PROVE  run' \in [Runs -> RunState]
<1>1. PICK r \in Runs :
        run' = [run EXCEPT ![r].pc = "launched", ![r].job = j]
  BY DEF StartWorker
<1>2. [run[r] EXCEPT !.pc = "launched", !.job = j] \in RunState
  BY DEF RunState
<1>. QED
  BY <1>1, <1>2

-----------------------------------------------------------------------------
(* Types.                                                                  *)

\* The initial tables and processes are well typed.
LEMMA InitTypeOK == Init => TypeOK
<1>. SUFFICES ASSUME Init PROVE TypeOK
  OBVIOUS
<1>1. /\ IdleRequest \in RequestState
      /\ IdleDispatcher \in DispatcherState
      /\ FreshRun \in RunState
  BY ConstantsOK DEF IdleRequest, IdleDispatcher, FreshRun, RequestState,
     DispatcherState, RunState
<1>. QED
  BY <1>1, ConstantsOK DEF Init, TypeOK, Statuses

\* Every step keeps the types.
LEMMA TypeStep ==
    ASSUME TypeOK, RowsExist, Contiguous, [Next]_vars
    PROVE  TypeOK'
<1>. USE DEF TypeOK
<1>0. /\ IdleRequest \in RequestState
      /\ IdleDispatcher \in DispatcherState
      /\ FreshRun \in RunState
  BY ConstantsOK DEF IdleRequest, IdleDispatcher, FreshRun, RequestState,
     DispatcherState, RunState
<1>1. ASSUME NEW q \in Requests, NEW k \in Keys,
             NEW b \in Branches \cup {None},
             Submit(q, k, b)
      PROVE  TypeOK'
  BY <1>0, <1>1 DEF Submit, Answer, IdleRequest, RequestState, jobRows,
     canon, faults
<1>2. ASSUME NEW q \in Requests, NEW j \in Jobs, RetryLookup(q, j)
      PROVE  TypeOK'
  BY <1>2 DEF RetryLookup, RequestState, jobRows, canon, faults
<1>3. ASSUME NEW q \in Requests, NEW j \in Jobs, NEW b \in Branches,
             InsertJob(q, j, b)
      PROVE  TypeOK'
  BY <1>0, <1>3 DEF InsertJob, Answer, IdleRequest, RequestState, Statuses,
     canon, faults
<1>4. ASSUME NEW q \in Requests, InsertRefused(q)
      PROVE  TypeOK'
  BY <1>0, <1>4 DEF InsertRefused, Answer, IdleRequest, RequestState,
     jobRows, canon, faults
<1>5. ASSUME NEW q \in Requests, RequestLaunches(q)
      PROVE  TypeOK'
  <2>1. run' \in [Runs -> RunState]
    BY <1>5, StartWorkerType DEF RequestLaunches, RowsExist, Rows
  <2>2. request' \in [Requests -> RequestState]
    BY <1>5 DEF RequestLaunches, Goto, RequestState
  <2>. QED
    BY <1>5, <2>1, <2>2 DEF RequestLaunches, jobRows, canon, faults
<1>6. ASSUME NEW q \in Requests, RequestLaunchFails(q)
      PROVE  TypeOK'
  <2>1. run' \in [Runs -> RunState]
    BY <1>6, StartWorkerType DEF RequestLaunchFails, RowsExist, Rows
  <2>2. request' \in [Requests -> RequestState]
    BY <1>0, <1>6 DEF RequestLaunchFails, Answer, IdleRequest, RequestState
  <2>. QED
    BY <1>6, <2>1, <2>2 DEF RequestLaunchFails, jobRows, canon, faults
<1>7. ASSUME NEW q \in Requests, RequestMarks(q)
      PROVE  TypeOK'
  BY <1>0, <1>7 DEF RequestMarks, Answer, IdleRequest, RequestState, jobRows,
     canon, faults
<1>8. ASSUME NEW d \in Dispatchers, FetchUnpublished(d)
      PROVE  TypeOK'
  BY <1>8 DEF FetchUnpublished, Oldest, DispatcherState, jobRows, canon, faults
<1>9. ASSUME NEW d \in Dispatchers, NEW j \in Jobs, DispatchLaunches(d, j)
      PROVE  TypeOK'
  <2>1. run' \in [Runs -> RunState]
    BY <1>9, StartWorkerType DEF DispatchLaunches
  <2>2. dispatcher' \in [Dispatchers -> DispatcherState]
    BY <1>9 DEF DispatchLaunches, DispatcherState
  <2>. QED
    BY <1>9, <2>1, <2>2 DEF DispatchLaunches, jobRows, canon, faults
<1>10. ASSUME NEW d \in Dispatchers, NEW j \in Jobs, DispatchLaunchFails(d, j)
      PROVE  TypeOK'
  <2>1. run' \in [Runs -> RunState]
    BY <1>10, StartWorkerType DEF DispatchLaunchFails
  <2>2. dispatcher' \in [Dispatchers -> DispatcherState]
    BY <1>10 DEF DispatchLaunchFails, WithoutEntry, DispatcherState
  <2>. QED
    BY <1>10, <2>1, <2>2 DEF DispatchLaunchFails, jobRows, canon, faults
<1>11. ASSUME NEW d \in Dispatchers, DispatchMarks(d)
      PROVE  TypeOK'
  BY <1>11 DEF DispatchMarks, WithoutEntry, DispatcherState, jobRows, canon,
     faults
<1>12. ASSUME NEW r \in Runs, Claim(r)
      PROVE  TypeOK'
  <2>1. [run[r] EXCEPT !.pc = "context", !.claimed = TRUE] \in RunState
    BY DEF RunState, Working
  <2>2. run' \in [Runs -> RunState]
    BY <1>12, <2>1 DEF Claim
  <2>3. /\ status' \in [Jobs -> Statuses]
        /\ lease' \in [Jobs -> {"null", "live", "expired"}]
    BY <1>12 DEF Claim, Statuses
  <2>. QED
    BY <1>12, <2>2, <2>3 DEF Claim, canon, faults
<1>13. ASSUME NEW r \in Runs, NotClaimable(r)
      PROVE  TypeOK'
  BY <1>0, <1>13 DEF NotClaimable, Exit, FreshRun, RunState, jobRows, canon,
     faults
<1>14. ASSUME NEW r \in Runs, ReadContext(r)
      PROVE  TypeOK'
  <2>1. run[r].job \in Jobs /\ branch[run[r].job] \in Branches
    BY <1>14 DEF ReadContext, RowsExist, Rows
  <2>2. NextIndex(branch[run[r].job]) \in Nat \ {0}
    BY <2>1, NextIndexType
  <2>3. [run[r] EXCEPT !.pc = "agents",
                       !.told = NextIndex(branch[run[r].job])] \in RunState
    BY <2>2, NumberedRunType
  <2>. QED
    BY <1>14, <2>3 DEF ReadContext, jobRows, canon, faults
<1>15. ASSUME NEW r \in Runs, AgentTurn(r)
      PROVE  TypeOK'
  <2>1. [run[r] EXCEPT !.seq = @ + 1] \in RunState
    BY DEF RunState
  <2>2. run' \in [Runs -> RunState]
    BY <1>15, <2>1 DEF AgentTurn
  <2>3. events' \in [Jobs -> SUBSET [seq : Nat, status : EventStatus]]
    BY <1>15, WriteEventType DEF AgentTurn, EventStatus
  <2>. QED
    BY <1>15, <2>2, <2>3 DEF AgentTurn, jobRows, faults
<1>16. ASSUME NEW r \in Runs, Draft(r)
      PROVE  TypeOK'
  BY <1>16 DEF Draft, WriteEvent, EventStatus, RunState, Working, jobRows,
     faults
<1>17. ASSUME NEW r \in Runs, Evaluate(r)
      PROVE  TypeOK'
  BY <1>17 DEF Evaluate, WriteEvent, EventStatus, RunState, Working, jobRows,
     faults
<1>18. ASSUME NEW r \in Runs, Redraft(r)
      PROVE  TypeOK'
  BY <1>18, ConstantsOK DEF Redraft, AttemptsLeft, RunState, Working,
     jobRows, canon, faults
<1>19. ASSUME NEW r \in Runs, StageCandidate(r)
      PROVE  TypeOK'
  <2>1. run[r].job \in Jobs /\ branch[run[r].job] \in Branches
    BY <1>19 DEF StageCandidate, RowsExist, Rows
  <2>2. NextIndex(branch[run[r].job]) \in Nat \ {0}
    BY <2>1, NextIndexType
  <2>3. ASSUME NEW ok \in BOOLEAN
        PROVE  [run[r] EXCEPT !.pc = "commit", !.approved = ok,
                              !.index = NextIndex(branch[run[r].job])]
                 \in RunState
    BY <2>2, NumberedRunType
  <2>4. run' \in [Runs -> RunState]
    BY <1>19, <2>3 DEF StageCandidate
  <2>. QED
    BY <1>19, <2>4 DEF StageCandidate, jobRows, canon, faults
<1>20. ASSUME NEW r \in Runs, CommitCandidate(r)
      PROVE  TypeOK'
  BY <1>20 DEF CommitCandidate, WriteEvent, EventStatus, ChapterRow,
     RunState, Working, jobRows, faults
<1>21. ASSUME NEW r \in Runs, Release(r)
      PROVE  TypeOK'
  BY <1>0, <1>21 DEF Release, ReleaseJob, Exit, FreshRun, RunState, Statuses,
     Terminal, canon, faults
<1>22. ASSUME NEW r \in Runs, Fail(r)
      PROVE  TypeOK'
  BY <1>0, <1>22 DEF Fail, ReleaseJob, Exit, FreshRun, RunState, Statuses,
     Terminal, canon, faults
<1>23. ASSUME NEW j \in Jobs, LeaseExpires(j)
      PROVE  TypeOK'
  BY <1>23 DEF LeaseExpires, canon, procs, faults
<1>24. ASSUME NEW r \in Runs, WorkerCrash(r)
      PROVE  TypeOK'
  <2>1. [FreshRun EXCEPT !.pc = "done", !.job = run[r].job,
                         !.claimed = run[r].claimed] \in RunState
    BY <1>0 DEF RunState
  <2>2. run' \in [Runs -> RunState]
    BY <1>24, <2>1 DEF WorkerCrash, Exit
  <2>. QED
    BY <1>24, <2>2 DEF WorkerCrash, jobRows, canon
<1>25. ASSUME NEW d \in Dispatchers, DispatcherCrash(d)
      PROVE  TypeOK'
  BY <1>0, <1>25 DEF DispatcherCrash, jobRows, canon
<1>26. ASSUME NEW j \in Jobs, ReleaseStuckJob(j)
      PROVE  TypeOK'
  BY <1>26 DEF ReleaseStuckJob, Statuses, Terminal, canon, procs
<1>27. ASSUME NEW q \in Requests, RequestMarkFails(q)
      PROVE  TypeOK'
  BY <1>0, <1>27 DEF RequestMarkFails, Answer, IdleRequest, RequestState,
     jobRows, canon, faults
<1>28. CASE UNCHANGED vars
  BY <1>28 DEF vars, jobRows, canon, procs, faults
<1>. QED
  BY <1>1, <1>2, <1>3, <1>4, <1>5, <1>6, <1>7, <1>8, <1>9, <1>10, <1>11,
     <1>12, <1>13, <1>14, <1>15, <1>16, <1>17, <1>18, <1>19, <1>20, <1>21,
     <1>22, <1>23, <1>24, <1>25, <1>26, <1>27, <1>28
  DEF Next, RequestStep, PollStep, WorkerStep
-----------------------------------------------------------------------------
(* Rows are never deleted.                                                 *)

\* Every step keeps references to jobs valid.
LEMMA RowsStep ==
    ASSUME TypeOK, RowsExist, [Next]_vars
    PROVE  RowsExist'
<1>1. ASSUME NEW q \in Requests, NEW k \in Keys,
             NEW b \in Branches \cup {None}, Submit(q, k, b)
      PROVE  RowsExist'
  BY <1>1 DEF Submit, Answer, IdleRequest, TypeOK, RowsExist, Rows,
     RequestState, DispatcherState, RunState, Working, jobRows
<1>2. ASSUME NEW q \in Requests, NEW j \in Jobs, RetryLookup(q, j)
      PROVE  RowsExist'
  BY <1>2 DEF RetryLookup, TypeOK, RowsExist, Rows, RequestState,
     DispatcherState, RunState, Working, jobRows
<1>3. ASSUME NEW q \in Requests, NEW j \in Jobs, NEW b \in Branches,
             InsertJob(q, j, b)
      PROVE  RowsExist'
  <2>1. Rows' = Rows \cup {j}
    BY <1>3 DEF InsertJob, Rows, TypeOK
  <2>2. \A i \in Jobs : /\ status'[i] # "none" => branch'[i] \in Branches
                        /\ outbox'[i] # "none" => i \in Rows'
    BY <1>3, <2>1 DEF InsertJob, RowsExist, Rows, TypeOK
  <2>3. \A p \in Requests :
          request'[p].pc \in {"launch", "mark"} => request'[p].job \in Rows'
    <3>1. \A p \in Requests \ {q} : request'[p] = request[p]
      BY <1>3 DEF InsertJob, Answer, TypeOK
    <3>2. CASE request[q].key \in Jobs
      BY <1>3, <2>1, <3>1, <3>2
         DEF InsertJob, Answer, IdleRequest, RowsExist, TypeOK
    <3>3. CASE request[q].key \notin Jobs
      <4>1. request'[q].job = j
        BY <1>3, <3>3 DEF InsertJob, TypeOK, RequestState
      <4>. QED
        BY <2>1, <3>1, <4>1 DEF RowsExist
    <3>. QED
      BY <3>2, <3>3
  <2>. QED
    BY <1>3, <2>1, <2>2, <2>3 DEF InsertJob, RowsExist
<1>4. ASSUME NEW q \in Requests, InsertRefused(q)
      PROVE  RowsExist'
  BY <1>4 DEF InsertRefused, Answer, IdleRequest, TypeOK, RowsExist, Rows,
     RequestState, DispatcherState, RunState, Working, jobRows
<1>5. ASSUME NEW q \in Requests, RequestLaunches(q)
      PROVE  RowsExist'
  BY <1>5 DEF RequestLaunches, StartWorker, Goto, TypeOK, RowsExist, Rows,
     RequestState, DispatcherState, RunState, Working, jobRows
<1>6. ASSUME NEW q \in Requests, RequestLaunchFails(q)
      PROVE  RowsExist'
  <2>1. CASE StartWorker(request[q].job)
    BY <1>6, <2>1
       DEF RequestLaunchFails, StartWorker, Answer, IdleRequest, TypeOK, RowsExist, Rows,
       RequestState, DispatcherState, RunState, Working, jobRows
  <2>2. CASE UNCHANGED run
    BY <1>6, <2>2
       DEF RequestLaunchFails, Answer, IdleRequest, TypeOK, RowsExist, Rows,
       RequestState, DispatcherState, RunState, Working, jobRows
  <2>. QED
    BY <1>6, <2>1, <2>2 DEF RequestLaunchFails
<1>7. ASSUME NEW q \in Requests, RequestMarks(q)
      PROVE  RowsExist'
  BY <1>7 DEF RequestMarks, Answer, IdleRequest, TypeOK, RowsExist, Rows,
     RequestState, DispatcherState, RunState, Working, jobRows
<1>8. ASSUME NEW d \in Dispatchers, FetchUnpublished(d)
      PROVE  RowsExist'
  BY <1>8 DEF FetchUnpublished, Oldest, Unpublished, TypeOK, RowsExist,
     Rows, RequestState, DispatcherState, RunState, Working, jobRows
<1>9. ASSUME NEW d \in Dispatchers, NEW j \in Jobs, DispatchLaunches(d, j)
      PROVE  RowsExist'
  BY <1>9 DEF DispatchLaunches, StartWorker, NextEntry, TypeOK, RowsExist,
     Rows, RequestState, DispatcherState, RunState, Working, jobRows
<1>10. ASSUME NEW d \in Dispatchers, NEW j \in Jobs, DispatchLaunchFails(d,
             j)
      PROVE  RowsExist'
  <2>1. CASE StartWorker(j)
    BY <1>10, <2>1
       DEF DispatchLaunchFails, StartWorker, WithoutEntry, NextEntry, TypeOK, RowsExist, Rows,
       RequestState, DispatcherState, RunState, Working, jobRows
  <2>2. CASE UNCHANGED run
    BY <1>10, <2>2
       DEF DispatchLaunchFails, WithoutEntry, NextEntry, TypeOK, RowsExist, Rows,
       RequestState, DispatcherState, RunState, Working, jobRows
  <2>. QED
    BY <1>10, <2>1, <2>2 DEF DispatchLaunchFails
<1>11. ASSUME NEW d \in Dispatchers, DispatchMarks(d)
      PROVE  RowsExist'
  BY <1>11 DEF DispatchMarks, WithoutEntry, TypeOK, RowsExist, Rows,
     RequestState, DispatcherState, RunState, Working, jobRows
<1>12. ASSUME NEW r \in Runs, Claim(r)
      PROVE  RowsExist'
  BY <1>12 DEF Claim, Claimable, TypeOK, RowsExist, Rows, RequestState,
     DispatcherState, RunState, Working
<1>13. ASSUME NEW r \in Runs, NotClaimable(r)
      PROVE  RowsExist'
  BY <1>13 DEF NotClaimable, Exit, FreshRun, TypeOK, RowsExist, Rows,
     RequestState, DispatcherState, RunState, Working, jobRows
<1>14. ASSUME NEW r \in Runs, ReadContext(r)
      PROVE  RowsExist'
  BY <1>14 DEF ReadContext, TypeOK, RowsExist, Rows, RequestState,
     DispatcherState, RunState, Working, jobRows
<1>15. ASSUME NEW r \in Runs, AgentTurn(r)
      PROVE  RowsExist'
  BY <1>15 DEF AgentTurn, WriteEvent, TypeOK, RowsExist, Rows, RequestState,
     DispatcherState, RunState, Working, jobRows
<1>16. ASSUME NEW r \in Runs, Draft(r)
      PROVE  RowsExist'
  BY <1>16 DEF Draft, WriteEvent, TypeOK, RowsExist, Rows, RequestState,
     DispatcherState, RunState, Working, jobRows
<1>17. ASSUME NEW r \in Runs, Evaluate(r)
      PROVE  RowsExist'
  BY <1>17 DEF Evaluate, WriteEvent, TypeOK, RowsExist, Rows, RequestState,
     DispatcherState, RunState, Working, jobRows
<1>18. ASSUME NEW r \in Runs, Redraft(r)
      PROVE  RowsExist'
  BY <1>18 DEF Redraft, TypeOK, RowsExist, Rows, RequestState,
     DispatcherState, RunState, Working, jobRows
<1>19. ASSUME NEW r \in Runs, StageCandidate(r)
      PROVE  RowsExist'
  BY <1>19 DEF StageCandidate, TypeOK, RowsExist, Rows, RequestState,
     DispatcherState, RunState, Working, jobRows
<1>20. ASSUME NEW r \in Runs, CommitCandidate(r)
      PROVE  RowsExist'
  BY <1>20 DEF CommitCandidate, WriteEvent, TypeOK, RowsExist, Rows,
     RequestState, DispatcherState, RunState, Working, jobRows
<1>21. ASSUME NEW r \in Runs, Release(r)
      PROVE  RowsExist'
  BY <1>21 DEF Release, ReleaseJob, Exit, FreshRun, TypeOK, RowsExist, Rows,
     RequestState, DispatcherState, RunState, Working
<1>22. ASSUME NEW r \in Runs, Fail(r)
      PROVE  RowsExist'
  BY <1>22 DEF Fail, ReleaseJob, Exit, FreshRun, TypeOK, RowsExist, Rows,
     RequestState, DispatcherState, RunState, Working
<1>23. ASSUME NEW j \in Jobs, LeaseExpires(j)
      PROVE  RowsExist'
  BY <1>23 DEF LeaseExpires, TypeOK, RowsExist, Rows, RequestState,
     DispatcherState, RunState, Working, procs
<1>24. ASSUME NEW r \in Runs, WorkerCrash(r)
      PROVE  RowsExist'
  BY <1>24 DEF WorkerCrash, Exit, FreshRun, TypeOK, RowsExist, Rows,
     RequestState, DispatcherState, RunState, Working, jobRows
<1>25. ASSUME NEW d \in Dispatchers, DispatcherCrash(d)
      PROVE  RowsExist'
  BY <1>25 DEF DispatcherCrash, IdleDispatcher, TypeOK, RowsExist, Rows,
     RequestState, DispatcherState, RunState, Working, jobRows
<1>26. ASSUME NEW j \in Jobs, ReleaseStuckJob(j)
      PROVE  RowsExist'
  BY <1>26 DEF ReleaseStuckJob, Active, TypeOK, RowsExist, Rows,
     RequestState, DispatcherState, RunState, Working, procs
<1>27. ASSUME NEW q \in Requests, RequestMarkFails(q)
      PROVE  RowsExist'
  BY <1>27 DEF RequestMarkFails, Answer, IdleRequest, TypeOK, RowsExist, Rows,
     RequestState, DispatcherState, RunState, Working, jobRows
<1>28. CASE UNCHANGED vars
  BY <1>28 DEF vars, TypeOK, RowsExist, Rows, RequestState, DispatcherState,
     RunState, Working, jobRows, procs
<1>. QED
  BY <1>1, <1>2, <1>3, <1>4, <1>5, <1>6, <1>7, <1>8, <1>9, <1>10, <1>11,
     <1>12, <1>13, <1>14, <1>15, <1>16, <1>17, <1>18, <1>19, <1>20, <1>21,
     <1>22, <1>23, <1>24, <1>25, <1>26, <1>27, <1>28 DEF Next, RequestStep,
     PollStep, WorkerStep

-----------------------------------------------------------------------------
(* Chapter numbers.                                                        *)

\* 1 .. n determines n.
LEMMA SameInterval ==
    ASSUME NEW m \in Nat, NEW n \in Nat, 1 .. m = 1 .. n
    PROVE  m = n
<1>1. m <= n
  <2>1. CASE m = 0
    BY <2>1
  <2>2. CASE m # 0
    BY <2>2, m \in 1 .. m
  <2>. QED
    BY <2>1, <2>2
<1>2. n <= m
  <2>1. CASE n = 0
    BY <2>1
  <2>2. CASE n # 0
    BY <2>2, n \in 1 .. n
  <2>. QED
    BY <2>1, <2>2
<1>. QED
  BY <1>1, <1>2

\* A step that publishes nothing and reads no number keeps Contiguous.
LEMMA ContiguousFrame ==
    ASSUME Contiguous, RowsExist, chapters' = chapters,
           \A j \in Rows : branch'[j] = branch[j],
           \A r \in Runs : run'[r].pc = "commit" =>
               /\ run[r].pc = "commit"
               /\ run'[r].job = run[r].job
               /\ run'[r].index = run[r].index
    PROVE  Contiguous'
<1>1. \A b, n : Numbered(b, n) => Numbered(b, n)'
  BY DEF Numbered, IndicesOf
<1>2. \A r \in Runs : run[r].pc = "commit" => run[r].job \in Rows
  BY DEF RowsExist
<1>3. \A b \in Branches : \E n \in Nat : Numbered(b, n)'
  BY <1>1 DEF Contiguous
<1>4. ASSUME NEW r \in Runs, run'[r].pc = "commit"
      PROVE  \E n \in Nat : /\ Numbered(branch[run[r].job], n)'
                            /\ run'[r].index \in 1 .. n + 1
  <2>1. PICK n \in Nat : /\ Numbered(branch[run[r].job], n)
                         /\ run[r].index \in 1 .. n + 1
    BY <1>4 DEF Contiguous
  <2>2. branch'[run'[r].job] = branch[run[r].job]
    BY <1>2, <1>4
  <2>3. IndicesOf(branch[run[r].job])' = IndicesOf(branch[run[r].job])
    BY <2>2 DEF IndicesOf
  <2>. QED
    BY <1>4, <2>1, <2>2, <2>3 DEF Numbered
<1>. QED
  BY <1>3, <1>4 DEF Contiguous

\* Every step keeps chapter numbers contiguous.
LEMMA ContiguousStep ==
    ASSUME TypeOK, RowsExist, Contiguous, [Next]_vars
    PROVE  Contiguous'
<1>1. ASSUME NEW q \in Requests, NEW k \in Keys,
             NEW b \in Branches \cup {None}, Submit(q, k, b)
      PROVE  Contiguous'
  BY <1>1, ContiguousFrame DEF Submit, TypeOK, Rows, RunState, Working,
     jobRows, canon
<1>2. ASSUME NEW q \in Requests, NEW j \in Jobs, RetryLookup(q, j)
      PROVE  Contiguous'
  BY <1>2, ContiguousFrame DEF RetryLookup, TypeOK, Rows, RunState, Working,
     jobRows, canon
<1>3. ASSUME NEW q \in Requests, NEW j \in Jobs, NEW b \in Branches,
             InsertJob(q, j, b)
      PROVE  Contiguous'
  BY <1>3, ContiguousFrame DEF InsertJob, TypeOK, Rows, RunState, Working,
     canon
<1>4. ASSUME NEW q \in Requests, InsertRefused(q)
      PROVE  Contiguous'
  BY <1>4, ContiguousFrame DEF InsertRefused, TypeOK, Rows, RunState,
     Working, jobRows, canon
<1>5. ASSUME NEW q \in Requests, RequestLaunches(q)
      PROVE  Contiguous'
  BY <1>5, ContiguousFrame DEF RequestLaunches, StartWorker, TypeOK, Rows,
     RunState, Working, jobRows, canon
<1>6. ASSUME NEW q \in Requests, RequestLaunchFails(q)
      PROVE  Contiguous'
  <2>1. CASE StartWorker(request[q].job)
    BY <1>6, <2>1, ContiguousFrame
       DEF RequestLaunchFails, StartWorker, TypeOK, Rows, RunState,
       Working, jobRows, canon
  <2>2. CASE UNCHANGED run
    BY <1>6, <2>2, ContiguousFrame
       DEF RequestLaunchFails, TypeOK, Rows, RunState,
       Working, jobRows, canon
  <2>. QED
    BY <1>6, <2>1, <2>2 DEF RequestLaunchFails
<1>7. ASSUME NEW q \in Requests, RequestMarks(q)
      PROVE  Contiguous'
  BY <1>7, ContiguousFrame DEF RequestMarks, TypeOK, Rows, RunState,
     Working, jobRows, canon
<1>8. ASSUME NEW d \in Dispatchers, FetchUnpublished(d)
      PROVE  Contiguous'
  BY <1>8, ContiguousFrame DEF FetchUnpublished, TypeOK, Rows, RunState,
     Working, jobRows, canon
<1>9. ASSUME NEW d \in Dispatchers, NEW j \in Jobs, DispatchLaunches(d, j)
      PROVE  Contiguous'
  BY <1>9, ContiguousFrame DEF DispatchLaunches, StartWorker, TypeOK, Rows,
     RunState, Working, jobRows, canon
<1>10. ASSUME NEW d \in Dispatchers, NEW j \in Jobs, DispatchLaunchFails(d,
             j)
      PROVE  Contiguous'
  <2>1. CASE StartWorker(j)
    BY <1>10, <2>1, ContiguousFrame
       DEF DispatchLaunchFails, StartWorker, TypeOK, Rows, RunState,
       Working, jobRows, canon
  <2>2. CASE UNCHANGED run
    BY <1>10, <2>2, ContiguousFrame
       DEF DispatchLaunchFails, TypeOK, Rows, RunState,
       Working, jobRows, canon
  <2>. QED
    BY <1>10, <2>1, <2>2 DEF DispatchLaunchFails
<1>11. ASSUME NEW d \in Dispatchers, DispatchMarks(d)
      PROVE  Contiguous'
  BY <1>11, ContiguousFrame DEF DispatchMarks, TypeOK, Rows, RunState,
     Working, jobRows, canon
<1>12. ASSUME NEW r \in Runs, Claim(r)
      PROVE  Contiguous'
  BY <1>12, ContiguousFrame DEF Claim, TypeOK, Rows, RunState, Working,
     canon
<1>13. ASSUME NEW r \in Runs, NotClaimable(r)
      PROVE  Contiguous'
  BY <1>13, ContiguousFrame DEF NotClaimable, Exit, FreshRun, TypeOK, Rows,
     RunState, Working, jobRows, canon
<1>14. ASSUME NEW r \in Runs, ReadContext(r)
      PROVE  Contiguous'
  BY <1>14, ContiguousFrame DEF ReadContext, TypeOK, Rows, RunState,
     Working, jobRows, canon
<1>15. ASSUME NEW r \in Runs, AgentTurn(r)
      PROVE  Contiguous'
  BY <1>15, ContiguousFrame DEF AgentTurn, TypeOK, Rows, RunState, Working,
     jobRows
<1>16. ASSUME NEW r \in Runs, Draft(r)
      PROVE  Contiguous'
  BY <1>16, ContiguousFrame DEF Draft, TypeOK, Rows, RunState, Working,
     jobRows
<1>17. ASSUME NEW r \in Runs, Evaluate(r)
      PROVE  Contiguous'
  BY <1>17, ContiguousFrame DEF Evaluate, TypeOK, Rows, RunState, Working,
     jobRows
<1>18. ASSUME NEW r \in Runs, Redraft(r)
      PROVE  Contiguous'
  BY <1>18, ContiguousFrame DEF Redraft, TypeOK, Rows, RunState, Working,
     jobRows, canon
<1>19. ASSUME NEW r \in Runs, StageCandidate(r)
      PROVE  Contiguous'
  <2>. DEFINE b == branch[run[r].job]
  <2>1. b \in Branches
    BY <1>19 DEF StageCandidate, RowsExist, Rows
  <2>2. PICK n \in Nat : Numbered(b, n)
    BY <2>1 DEF Contiguous
  <2>3. NextIndex(b) = n + 1
    BY <2>2, NextIndexIs
  <2>4. run'[r].index = n + 1 /\ run'[r].job = run[r].job
    BY <1>19, <2>3 DEF StageCandidate, TypeOK, RunState
  <2>5. \A s \in Runs \ {r} : run'[s] = run[s]
    BY <1>19 DEF StageCandidate, TypeOK
  <2>6. chapters' = chapters /\ branch' = branch
    BY <1>19 DEF StageCandidate, canon, jobRows
  <2>7. \A c, m : Numbered(c, m) => Numbered(c, m)'
    BY <2>6 DEF Numbered, IndicesOf
  <2>8. Numbered(branch[run[r].job], n)' /\ run'[r].index \in 1 .. n + 1
    <3>1. branch'[run'[r].job] = b
      BY <2>4, <2>6
    <3>. QED
      BY <2>2, <2>4, <2>6, <3>1 DEF Numbered, IndicesOf
  <2>9. ASSUME NEW s \in Runs \ {r}, run'[s].pc = "commit"
        PROVE  \E m \in Nat : /\ Numbered(branch[run[s].job], m)'
                              /\ run'[s].index \in 1 .. m + 1
    <3>1. PICK m \in Nat : /\ Numbered(branch[run[s].job], m)
                           /\ run[s].index \in 1 .. m + 1
      BY <2>5, <2>9 DEF Contiguous
    <3>. QED
      BY <2>5, <2>6, <3>1 DEF Numbered, IndicesOf
  <2>. QED
    BY <2>7, <2>8, <2>9 DEF Contiguous
<1>20. ASSUME NEW r \in Runs, CommitCandidate(r)
      PROVE  Contiguous'
  <2>1. /\ run[r].pc = "commit" /\ branch' = branch
        /\ run[r].job \in Jobs /\ run'[r].pc # "commit"
        /\ \A s \in Runs \ {r} : run'[s] = run[s]
    BY <1>20 DEF CommitCandidate, jobRows, RowsExist, Rows, TypeOK, RunState
  <2>2. CASE chapters' = chapters
    BY <2>1, <2>2, ContiguousFrame
  <2>3. CASE chapters' # chapters
    <3>1. PICK b \in Branches : b = branch[run[r].job]
      BY <2>1 DEF RowsExist, Rows
    <3>2. PICK c \in ChapterRow :
            /\ c.branch = b /\ c.index = run[r].index
            /\ ChapterFree(b, c.index) /\ chapters' = chapters \cup {c}
      BY <1>20, <2>1, <2>3, <3>1 DEF CommitCandidate, ChapterRow, TypeOK,
         RunState
    <3>3. PICK n \in Nat : Numbered(b, n) /\ c.index \in 1 .. n + 1
      BY <2>1, <3>1, <3>2 DEF Contiguous
    <3>4. c.index = n + 1
      BY <3>2, <3>3 DEF Numbered, ChapterFree, IndicesOf
    <3>5. Numbered(b, n + 1)'
      <4>1. IndicesOf(b)' = IndicesOf(b) \cup {n + 1}
        BY <3>2, <3>4 DEF IndicesOf
      <4>. QED
        BY <3>3, <4>1 DEF Numbered
    <3>6. \A a : a # b => IndicesOf(a)' = IndicesOf(a)
      BY <3>2 DEF IndicesOf
    <3>7. \A a \in Branches : \E m \in Nat : Numbered(a, m)'
      <4>1. n + 1 \in Nat
        OBVIOUS
      <4>. QED
        BY <3>5, <3>6, <4>1 DEF Contiguous, Numbered
    <3>8. ASSUME NEW s \in Runs, run'[s].pc = "commit"
          PROVE  \E m \in Nat : /\ Numbered(branch[run[s].job], m)'
                                /\ run'[s].index \in 1 .. m + 1
      <4>1. s # r /\ run'[s] = run[s] /\ run[s].pc = "commit"
        BY <2>1, <3>8
      <4>2. PICK m \in Nat : /\ Numbered(branch[run[s].job], m)
                             /\ run[s].index \in 1 .. m + 1
        BY <4>1 DEF Contiguous
      <4>3. PICK a : a = branch[run[s].job]
        OBVIOUS
      <4>4. CASE a = b
        <5>1. m = n
          BY <3>3, <4>2, <4>3, <4>4, SameInterval DEF Numbered
        <5>2. Numbered(branch[run[s].job], n + 1)'
          BY <2>1, <3>5, <4>1, <4>3, <4>4 DEF Numbered, IndicesOf
        <5>. QED
          BY <4>1, <4>2, <5>1, <5>2
      <4>5. CASE a # b
        <5>1. Numbered(branch[run[s].job], m)'
          BY <2>1, <3>6, <4>1, <4>2, <4>3, <4>5 DEF Numbered, IndicesOf
        <5>. QED
          BY <4>1, <4>2, <5>1
      <4>. QED
        BY <4>4, <4>5
    <3>. QED
      BY <3>7, <3>8 DEF Contiguous
  <2>. QED
    BY <2>2, <2>3
<1>21. ASSUME NEW r \in Runs, Release(r)
      PROVE  Contiguous'
  BY <1>21, ContiguousFrame DEF Release, Exit, FreshRun, TypeOK, Rows,
     RunState, Working, canon
<1>22. ASSUME NEW r \in Runs, Fail(r)
      PROVE  Contiguous'
  BY <1>22, ContiguousFrame DEF Fail, Exit, FreshRun, TypeOK, Rows,
     RunState, Working, canon
<1>23. ASSUME NEW j \in Jobs, LeaseExpires(j)
      PROVE  Contiguous'
  BY <1>23, ContiguousFrame DEF LeaseExpires, TypeOK, Rows, RunState,
     Working, canon, procs
<1>24. ASSUME NEW r \in Runs, WorkerCrash(r)
      PROVE  Contiguous'
  BY <1>24, ContiguousFrame DEF WorkerCrash, Exit, FreshRun, TypeOK, Rows,
     RunState, Working, jobRows, canon
<1>25. ASSUME NEW d \in Dispatchers, DispatcherCrash(d)
      PROVE  Contiguous'
  BY <1>25, ContiguousFrame DEF DispatcherCrash, TypeOK, Rows, RunState,
     Working, jobRows, canon
<1>26. ASSUME NEW j \in Jobs, ReleaseStuckJob(j)
      PROVE  Contiguous'
  BY <1>26, ContiguousFrame DEF ReleaseStuckJob, TypeOK, Rows, RunState,
     Working, canon, procs
<1>27. ASSUME NEW q \in Requests, RequestMarkFails(q)
      PROVE  Contiguous'
  BY <1>27, ContiguousFrame DEF RequestMarkFails, TypeOK, Rows, RunState,
     Working, jobRows, canon
<1>28. CASE UNCHANGED vars
  BY <1>28, ContiguousFrame DEF vars, TypeOK, Rows, RunState, Working,
     jobRows, canon, procs
<1>. QED
  BY <1>1, <1>2, <1>3, <1>4, <1>5, <1>6, <1>7, <1>8, <1>9, <1>10, <1>11,
     <1>12, <1>13, <1>14, <1>15, <1>16, <1>17, <1>18, <1>19, <1>20, <1>21,
     <1>22, <1>23, <1>24, <1>25, <1>26, <1>27, <1>28 DEF Next, RequestStep,
     PollStep, WorkerStep

-----------------------------------------------------------------------------
(* Claims and candidates.                                                  *)

\* A step without a claim, which sends no job back to QUEUED, keeps Claims.
LEMMA ClaimsFrame ==
    ASSUME Claims, RowsExist, TypeOK,
           \A j \in Jobs : status[j] \notin {"none", "QUEUED"} =>
               status'[j] \notin {"none", "QUEUED"},
           \A r \in Runs : run'[r].claimed =>
               /\ run[r].claimed
               /\ run'[r].job = run[r].job
               /\ run'[r].pc \notin {"free", "launched"}
    PROVE  Claims'
<1>1. \A r \in Runs : run[r].claimed => run[r].job \in Jobs
  BY DEF Claims, RowsExist, Rows, TypeOK, RunState
<1>. QED
  BY <1>1 DEF Claims, OneWorkerPerJob

\* Every step keeps claims unique.
LEMMA ClaimsStep ==
    ASSUME TypeOK, RowsExist, Claims, [Next]_vars
    PROVE  Claims'
<1>1. ASSUME NEW q \in Requests, NEW k \in Keys,
             NEW b \in Branches \cup {None}, Submit(q, k, b)
      PROVE  Claims'
  BY <1>1, ClaimsFrame DEF Submit, TypeOK, Claims, RunState, Working,
     jobRows
<1>2. ASSUME NEW q \in Requests, NEW j \in Jobs, RetryLookup(q, j)
      PROVE  Claims'
  BY <1>2, ClaimsFrame DEF RetryLookup, TypeOK, Claims, RunState, Working,
     jobRows
<1>3. ASSUME NEW q \in Requests, NEW j \in Jobs, NEW b \in Branches,
             InsertJob(q, j, b)
      PROVE  Claims'
  BY <1>3, ClaimsFrame DEF InsertJob, TypeOK, Claims, RunState, Working
<1>4. ASSUME NEW q \in Requests, InsertRefused(q)
      PROVE  Claims'
  BY <1>4, ClaimsFrame DEF InsertRefused, TypeOK, Claims, RunState, Working,
     jobRows
<1>5. ASSUME NEW q \in Requests, RequestLaunches(q)
      PROVE  Claims'
  BY <1>5, ClaimsFrame DEF RequestLaunches, StartWorker, TypeOK, Claims,
     RunState, Working, jobRows
<1>6. ASSUME NEW q \in Requests, RequestLaunchFails(q)
      PROVE  Claims'
  <2>1. CASE StartWorker(request[q].job)
    BY <1>6, <2>1, ClaimsFrame
       DEF RequestLaunchFails, StartWorker, TypeOK, Claims, RunState,
       Working, jobRows
  <2>2. CASE UNCHANGED run
    BY <1>6, <2>2, ClaimsFrame
       DEF RequestLaunchFails, TypeOK, Claims, RunState,
       Working, jobRows
  <2>. QED
    BY <1>6, <2>1, <2>2 DEF RequestLaunchFails
<1>7. ASSUME NEW q \in Requests, RequestMarks(q)
      PROVE  Claims'
  BY <1>7, ClaimsFrame DEF RequestMarks, TypeOK, Claims, RunState, Working,
     jobRows
<1>8. ASSUME NEW d \in Dispatchers, FetchUnpublished(d)
      PROVE  Claims'
  BY <1>8, ClaimsFrame DEF FetchUnpublished, TypeOK, Claims, RunState,
     Working, jobRows
<1>9. ASSUME NEW d \in Dispatchers, NEW j \in Jobs, DispatchLaunches(d, j)
      PROVE  Claims'
  BY <1>9, ClaimsFrame DEF DispatchLaunches, StartWorker, TypeOK, Claims,
     RunState, Working, jobRows
<1>10. ASSUME NEW d \in Dispatchers, NEW j \in Jobs, DispatchLaunchFails(d,
             j)
      PROVE  Claims'
  <2>1. CASE StartWorker(j)
    BY <1>10, <2>1, ClaimsFrame
       DEF DispatchLaunchFails, StartWorker, TypeOK, Claims, RunState,
       Working, jobRows
  <2>2. CASE UNCHANGED run
    BY <1>10, <2>2, ClaimsFrame
       DEF DispatchLaunchFails, TypeOK, Claims, RunState,
       Working, jobRows
  <2>. QED
    BY <1>10, <2>1, <2>2 DEF DispatchLaunchFails
<1>11. ASSUME NEW d \in Dispatchers, DispatchMarks(d)
      PROVE  Claims'
  BY <1>11, ClaimsFrame DEF DispatchMarks, TypeOK, Claims, RunState,
     Working, jobRows
<1>12. ASSUME NEW r \in Runs, Claim(r)
      PROVE  Claims'
  <2>1. /\ status[run[r].job] = "QUEUED" /\ run[r].job \in Jobs
        /\ run'[r].job = run[r].job /\ run'[r].pc = "context"
        /\ \A s \in Runs \ {r} : run'[s] = run[s]
        /\ status' = [status EXCEPT ![run[r].job] = "RUNNING"]
    BY <1>12 DEF Claim, Claimable, RowsExist, Rows, TypeOK, RunState
  <2>2. \A s \in Runs : run[s].claimed => run[s].job # run[r].job
    BY <2>1 DEF Claims
  <2>3. \A s \in Runs \ {r} : run[s].claimed => run[s].job \in Jobs
    BY DEF Claims, RowsExist, Rows
  <2>4. OneWorkerPerJob'
    BY <2>1, <2>2 DEF Claims, OneWorkerPerJob
  <2>. QED
    BY <2>1, <2>2, <2>3, <2>4 DEF Claims, TypeOK
<1>13. ASSUME NEW r \in Runs, NotClaimable(r)
      PROVE  Claims'
  BY <1>13, ClaimsFrame DEF NotClaimable, Exit, FreshRun, TypeOK, Claims,
     RunState, Working, jobRows
<1>14. ASSUME NEW r \in Runs, ReadContext(r)
      PROVE  Claims'
  BY <1>14, ClaimsFrame DEF ReadContext, TypeOK, Claims, RunState, Working,
     jobRows
<1>15. ASSUME NEW r \in Runs, AgentTurn(r)
      PROVE  Claims'
  BY <1>15, ClaimsFrame DEF AgentTurn, TypeOK, Claims, RunState, Working,
     jobRows
<1>16. ASSUME NEW r \in Runs, Draft(r)
      PROVE  Claims'
  BY <1>16, ClaimsFrame DEF Draft, TypeOK, Claims, RunState, Working,
     jobRows
<1>17. ASSUME NEW r \in Runs, Evaluate(r)
      PROVE  Claims'
  BY <1>17, ClaimsFrame DEF Evaluate, TypeOK, Claims, RunState, Working,
     jobRows
<1>18. ASSUME NEW r \in Runs, Redraft(r)
      PROVE  Claims'
  BY <1>18, ClaimsFrame DEF Redraft, TypeOK, Claims, RunState, Working,
     jobRows
<1>19. ASSUME NEW r \in Runs, StageCandidate(r)
      PROVE  Claims'
  BY <1>19, ClaimsFrame DEF StageCandidate, TypeOK, Claims, RunState,
     Working, jobRows
<1>20. ASSUME NEW r \in Runs, CommitCandidate(r)
      PROVE  Claims'
  BY <1>20, ClaimsFrame DEF CommitCandidate, TypeOK, Claims, RunState,
     Working, jobRows
<1>21. ASSUME NEW r \in Runs, Release(r)
      PROVE  Claims'
  BY <1>21, ClaimsFrame DEF Release, ReleaseJob, Exit, FreshRun, TypeOK,
     Claims, RunState, Working
<1>22. ASSUME NEW r \in Runs, Fail(r)
      PROVE  Claims'
  BY <1>22, ClaimsFrame DEF Fail, ReleaseJob, Exit, FreshRun, TypeOK,
     Claims, RunState, Working
<1>23. ASSUME NEW j \in Jobs, LeaseExpires(j)
      PROVE  Claims'
  BY <1>23, ClaimsFrame DEF LeaseExpires, TypeOK, Claims, RunState, Working,
     procs
<1>24. ASSUME NEW r \in Runs, WorkerCrash(r)
      PROVE  Claims'
  BY <1>24, ClaimsFrame DEF WorkerCrash, Exit, FreshRun, TypeOK, Claims,
     RunState, Working, jobRows
<1>25. ASSUME NEW d \in Dispatchers, DispatcherCrash(d)
      PROVE  Claims'
  BY <1>25, ClaimsFrame DEF DispatcherCrash, TypeOK, Claims, RunState,
     Working, jobRows
<1>26. ASSUME NEW j \in Jobs, ReleaseStuckJob(j)
      PROVE  Claims'
  BY <1>26, ClaimsFrame DEF ReleaseStuckJob, TypeOK, Claims, RunState,
     Working, procs
<1>27. ASSUME NEW q \in Requests, RequestMarkFails(q)
      PROVE  Claims'
  BY <1>27, ClaimsFrame DEF RequestMarkFails, TypeOK, Claims, RunState, Working,
     jobRows
<1>28. CASE UNCHANGED vars
  BY <1>28, ClaimsFrame DEF vars, TypeOK, Claims, RunState, Working,
     jobRows, procs
<1>. QED
  BY <1>1, <1>2, <1>3, <1>4, <1>5, <1>6, <1>7, <1>8, <1>9, <1>10, <1>11,
     <1>12, <1>13, <1>14, <1>15, <1>16, <1>17, <1>18, <1>19, <1>20, <1>21,
     <1>22, <1>23, <1>24, <1>25, <1>26, <1>27, <1>28 DEF Next, RequestStep,
     PollStep, WorkerStep

\* Every step keeps a candidate row for each chapter.
LEMMA OneChapterStep ==
    ASSUME TypeOK, RowsExist, ChapterHasCandidate, [Next]_vars
    PROVE  ChapterHasCandidate'
<1>1. ASSUME NEW q \in Requests, NEW k \in Keys,
             NEW b \in Branches \cup {None}, Submit(q, k, b)
      PROVE  ChapterHasCandidate'
  BY <1>1 DEF Submit, TypeOK, ChapterHasCandidate, RowsExist, Rows,
     ChapterRow, jobRows, canon
<1>2. ASSUME NEW q \in Requests, NEW j \in Jobs, RetryLookup(q, j)
      PROVE  ChapterHasCandidate'
  BY <1>2 DEF RetryLookup, TypeOK, ChapterHasCandidate, RowsExist, Rows,
     ChapterRow, jobRows, canon
<1>3. ASSUME NEW q \in Requests, NEW j \in Jobs, NEW b \in Branches,
             InsertJob(q, j, b)
      PROVE  ChapterHasCandidate'
  BY <1>3 DEF InsertJob, TypeOK, ChapterHasCandidate, RowsExist, Rows,
     ChapterRow, canon
<1>4. ASSUME NEW q \in Requests, InsertRefused(q)
      PROVE  ChapterHasCandidate'
  BY <1>4 DEF InsertRefused, TypeOK, ChapterHasCandidate, RowsExist, Rows,
     ChapterRow, jobRows, canon
<1>5. ASSUME NEW q \in Requests, RequestLaunches(q)
      PROVE  ChapterHasCandidate'
  BY <1>5 DEF RequestLaunches, TypeOK, ChapterHasCandidate, RowsExist, Rows,
     ChapterRow, jobRows, canon
<1>6. ASSUME NEW q \in Requests, RequestLaunchFails(q)
      PROVE  ChapterHasCandidate'
  BY <1>6 DEF RequestLaunchFails, TypeOK, ChapterHasCandidate, RowsExist,
     Rows, ChapterRow, jobRows, canon
<1>7. ASSUME NEW q \in Requests, RequestMarks(q)
      PROVE  ChapterHasCandidate'
  BY <1>7 DEF RequestMarks, TypeOK, ChapterHasCandidate, RowsExist, Rows,
     ChapterRow, jobRows, canon
<1>8. ASSUME NEW d \in Dispatchers, FetchUnpublished(d)
      PROVE  ChapterHasCandidate'
  BY <1>8 DEF FetchUnpublished, TypeOK, ChapterHasCandidate, RowsExist,
     Rows, ChapterRow, jobRows, canon
<1>9. ASSUME NEW d \in Dispatchers, NEW j \in Jobs, DispatchLaunches(d, j)
      PROVE  ChapterHasCandidate'
  BY <1>9 DEF DispatchLaunches, TypeOK, ChapterHasCandidate, RowsExist,
     Rows, ChapterRow, jobRows, canon
<1>10. ASSUME NEW d \in Dispatchers, NEW j \in Jobs, DispatchLaunchFails(d,
             j)
      PROVE  ChapterHasCandidate'
  BY <1>10 DEF DispatchLaunchFails, TypeOK, ChapterHasCandidate, RowsExist,
     Rows, ChapterRow, jobRows, canon
<1>11. ASSUME NEW d \in Dispatchers, DispatchMarks(d)
      PROVE  ChapterHasCandidate'
  BY <1>11 DEF DispatchMarks, TypeOK, ChapterHasCandidate, RowsExist, Rows,
     ChapterRow, jobRows, canon
<1>12. ASSUME NEW r \in Runs, Claim(r)
      PROVE  ChapterHasCandidate'
  BY <1>12 DEF Claim, TypeOK, ChapterHasCandidate, RowsExist, Rows,
     ChapterRow, canon
<1>13. ASSUME NEW r \in Runs, NotClaimable(r)
      PROVE  ChapterHasCandidate'
  BY <1>13 DEF NotClaimable, TypeOK, ChapterHasCandidate, RowsExist, Rows,
     ChapterRow, jobRows, canon
<1>14. ASSUME NEW r \in Runs, ReadContext(r)
      PROVE  ChapterHasCandidate'
  BY <1>14 DEF ReadContext, TypeOK, ChapterHasCandidate, RowsExist, Rows,
     ChapterRow, jobRows, canon
<1>15. ASSUME NEW r \in Runs, AgentTurn(r)
      PROVE  ChapterHasCandidate'
  BY <1>15 DEF AgentTurn, TypeOK, ChapterHasCandidate, RowsExist, Rows,
     ChapterRow, jobRows
<1>16. ASSUME NEW r \in Runs, Draft(r)
      PROVE  ChapterHasCandidate'
  BY <1>16 DEF Draft, TypeOK, ChapterHasCandidate, RowsExist, Rows,
     ChapterRow, jobRows
<1>17. ASSUME NEW r \in Runs, Evaluate(r)
      PROVE  ChapterHasCandidate'
  BY <1>17 DEF Evaluate, TypeOK, ChapterHasCandidate, RowsExist, Rows,
     ChapterRow, jobRows
<1>18. ASSUME NEW r \in Runs, Redraft(r)
      PROVE  ChapterHasCandidate'
  BY <1>18 DEF Redraft, TypeOK, ChapterHasCandidate, RowsExist, Rows,
     ChapterRow, jobRows, canon
<1>19. ASSUME NEW r \in Runs, StageCandidate(r)
      PROVE  ChapterHasCandidate'
  BY <1>19 DEF StageCandidate, TypeOK, ChapterHasCandidate, RowsExist, Rows,
     ChapterRow, jobRows, canon
<1>20. ASSUME NEW r \in Runs, CommitCandidate(r)
      PROVE  ChapterHasCandidate'
  BY <1>20 DEF CommitCandidate, TypeOK, ChapterHasCandidate, RowsExist,
     Rows, ChapterRow, jobRows
<1>21. ASSUME NEW r \in Runs, Release(r)
      PROVE  ChapterHasCandidate'
  BY <1>21 DEF Release, ReleaseJob, TypeOK, ChapterHasCandidate, RowsExist,
     Rows, ChapterRow, canon
<1>22. ASSUME NEW r \in Runs, Fail(r)
      PROVE  ChapterHasCandidate'
  BY <1>22 DEF Fail, ReleaseJob, TypeOK, ChapterHasCandidate, RowsExist,
     Rows, ChapterRow, canon
<1>23. ASSUME NEW j \in Jobs, LeaseExpires(j)
      PROVE  ChapterHasCandidate'
  BY <1>23 DEF LeaseExpires, TypeOK, ChapterHasCandidate, RowsExist, Rows,
     ChapterRow, canon
<1>24. ASSUME NEW r \in Runs, WorkerCrash(r)
      PROVE  ChapterHasCandidate'
  BY <1>24 DEF WorkerCrash, TypeOK, ChapterHasCandidate, RowsExist, Rows,
     ChapterRow, jobRows, canon
<1>25. ASSUME NEW d \in Dispatchers, DispatcherCrash(d)
      PROVE  ChapterHasCandidate'
  BY <1>25 DEF DispatcherCrash, TypeOK, ChapterHasCandidate, RowsExist,
     Rows, ChapterRow, jobRows, canon
<1>26. ASSUME NEW j \in Jobs, ReleaseStuckJob(j)
      PROVE  ChapterHasCandidate'
  BY <1>26 DEF ReleaseStuckJob, TypeOK, ChapterHasCandidate, RowsExist,
     Rows, ChapterRow, canon
<1>27. ASSUME NEW q \in Requests, RequestMarkFails(q)
      PROVE  ChapterHasCandidate'
  BY <1>27 DEF RequestMarkFails, TypeOK, ChapterHasCandidate, RowsExist, Rows,
     ChapterRow, jobRows, canon
<1>28. CASE UNCHANGED vars
  BY <1>28 DEF vars, TypeOK, ChapterHasCandidate, RowsExist, Rows,
     ChapterRow, jobRows, canon
<1>. QED
  BY <1>1, <1>2, <1>3, <1>4, <1>5, <1>6, <1>7, <1>8, <1>9, <1>10, <1>11,
     <1>12, <1>13, <1>14, <1>15, <1>16, <1>17, <1>18, <1>19, <1>20, <1>21,
     <1>22, <1>23, <1>24, <1>25, <1>26, <1>27, <1>28 DEF Next, RequestStep,
     PollStep, WorkerStep

-----------------------------------------------------------------------------
(* Refinement of ChapterLedger.                                            *)

\* The ledger a refinement maps to numbers a branch as the tables do.
LEMMA LedgerIndices ==
    ASSUME NEW b
    PROVE  Ledger!IndicesOf(b) = IndicesOf(b)
<1>. DEFINE L == {[branch |-> c.branch, index |-> c.index, job |-> c.job] :
                    c \in chapters}
<1>1. Ledger!IndicesOf(b) = {e.index : e \in {f \in L : f.branch = b}}
  BY DEF Ledger!IndicesOf
<1>2. ASSUME NEW i, i \in Ledger!IndicesOf(b)
      PROVE  i \in IndicesOf(b)
  <2>1. PICK e \in L : e.branch = b /\ e.index = i
    BY <1>1, <1>2
  <2>2. PICK c \in chapters :
          e = [branch |-> c.branch, index |-> c.index, job |-> c.job]
    BY <2>1
  <2>. QED
    BY <2>1, <2>2 DEF IndicesOf
<1>3. ASSUME NEW i, i \in IndicesOf(b)
      PROVE  i \in Ledger!IndicesOf(b)
  <2>1. PICK c \in chapters : c.branch = b /\ c.index = i
    BY <1>3 DEF IndicesOf
  <2>. DEFINE e == [branch |-> c.branch, index |-> c.index, job |-> c.job]
  <2>2. e \in L /\ e.branch = b /\ e.index = i
    BY <2>1
  <2>. QED
    BY <1>1, <2>2
<1>. QED
  BY <1>2, <1>3

\* A step that adds neither job nor chapter is invisible in the ledger.
LEMMA LedgerStutters ==
    ASSUME Rows' = Rows, chapters' = chapters
    PROVE  UNCHANGED Ledger!vars
  BY DEF Ledger!vars

\* InsertJob accepts, CommitCandidate publishes, all else stutters.
LEMMA LedgerStep ==
    ASSUME TypeOK, RowsExist, Contiguous, ChapterHasCandidate, [Next]_vars
    PROVE  [Ledger!Next]_(Ledger!vars)
<1>1. ASSUME NEW q \in Requests, NEW k \in Keys,
             NEW b \in Branches \cup {None}, Submit(q, k, b)
      PROVE  [Ledger!Next]_(Ledger!vars)
  BY <1>1, LedgerStutters DEF Submit, TypeOK, RowsExist, Rows, jobRows,
     canon
<1>2. ASSUME NEW q \in Requests, NEW j \in Jobs, RetryLookup(q, j)
      PROVE  [Ledger!Next]_(Ledger!vars)
  BY <1>2, LedgerStutters DEF RetryLookup, TypeOK, RowsExist, Rows, jobRows,
     canon
<1>3. ASSUME NEW q \in Requests, NEW j \in Jobs, NEW b \in Branches,
             InsertJob(q, j, b)
      PROVE  [Ledger!Next]_(Ledger!vars)
  <2>1. j \notin Rows /\ Rows' = Rows \cup {j} /\ chapters' = chapters
    BY <1>3 DEF InsertJob, Rows, TypeOK, canon
  <2>2. Ledger!Accept(j)
    BY <2>1 DEF Ledger!Accept
  <2>. QED
    BY <2>2 DEF Ledger!Next
<1>4. ASSUME NEW q \in Requests, InsertRefused(q)
      PROVE  [Ledger!Next]_(Ledger!vars)
  BY <1>4, LedgerStutters DEF InsertRefused, TypeOK, RowsExist, Rows,
     jobRows, canon
<1>5. ASSUME NEW q \in Requests, RequestLaunches(q)
      PROVE  [Ledger!Next]_(Ledger!vars)
  BY <1>5, LedgerStutters DEF RequestLaunches, TypeOK, RowsExist, Rows,
     jobRows, canon
<1>6. ASSUME NEW q \in Requests, RequestLaunchFails(q)
      PROVE  [Ledger!Next]_(Ledger!vars)
  BY <1>6, LedgerStutters DEF RequestLaunchFails, TypeOK, RowsExist, Rows,
     jobRows, canon
<1>7. ASSUME NEW q \in Requests, RequestMarks(q)
      PROVE  [Ledger!Next]_(Ledger!vars)
  BY <1>7, LedgerStutters DEF RequestMarks, TypeOK, RowsExist, Rows,
     jobRows, canon
<1>8. ASSUME NEW d \in Dispatchers, FetchUnpublished(d)
      PROVE  [Ledger!Next]_(Ledger!vars)
  BY <1>8, LedgerStutters DEF FetchUnpublished, TypeOK, RowsExist, Rows,
     jobRows, canon
<1>9. ASSUME NEW d \in Dispatchers, NEW j \in Jobs, DispatchLaunches(d, j)
      PROVE  [Ledger!Next]_(Ledger!vars)
  BY <1>9, LedgerStutters DEF DispatchLaunches, TypeOK, RowsExist, Rows,
     jobRows, canon
<1>10. ASSUME NEW d \in Dispatchers, NEW j \in Jobs, DispatchLaunchFails(d,
             j)
      PROVE  [Ledger!Next]_(Ledger!vars)
  BY <1>10, LedgerStutters DEF DispatchLaunchFails, TypeOK, RowsExist, Rows,
     jobRows, canon
<1>11. ASSUME NEW d \in Dispatchers, DispatchMarks(d)
      PROVE  [Ledger!Next]_(Ledger!vars)
  BY <1>11, LedgerStutters DEF DispatchMarks, TypeOK, RowsExist, Rows,
     jobRows, canon
<1>12. ASSUME NEW r \in Runs, Claim(r)
      PROVE  [Ledger!Next]_(Ledger!vars)
  BY <1>12, LedgerStutters DEF Claim, Claimable, TypeOK, RowsExist, Rows,
     canon
<1>13. ASSUME NEW r \in Runs, NotClaimable(r)
      PROVE  [Ledger!Next]_(Ledger!vars)
  BY <1>13, LedgerStutters DEF NotClaimable, TypeOK, RowsExist, Rows,
     jobRows, canon
<1>14. ASSUME NEW r \in Runs, ReadContext(r)
      PROVE  [Ledger!Next]_(Ledger!vars)
  BY <1>14, LedgerStutters DEF ReadContext, TypeOK, RowsExist, Rows,
     jobRows, canon
<1>15. ASSUME NEW r \in Runs, AgentTurn(r)
      PROVE  [Ledger!Next]_(Ledger!vars)
  BY <1>15, LedgerStutters DEF AgentTurn, TypeOK, RowsExist, Rows, jobRows
<1>16. ASSUME NEW r \in Runs, Draft(r)
      PROVE  [Ledger!Next]_(Ledger!vars)
  BY <1>16, LedgerStutters DEF Draft, TypeOK, RowsExist, Rows, jobRows
<1>17. ASSUME NEW r \in Runs, Evaluate(r)
      PROVE  [Ledger!Next]_(Ledger!vars)
  BY <1>17, LedgerStutters DEF Evaluate, TypeOK, RowsExist, Rows, jobRows
<1>18. ASSUME NEW r \in Runs, Redraft(r)
      PROVE  [Ledger!Next]_(Ledger!vars)
  BY <1>18, LedgerStutters DEF Redraft, TypeOK, RowsExist, Rows, jobRows,
     canon
<1>19. ASSUME NEW r \in Runs, StageCandidate(r)
      PROVE  [Ledger!Next]_(Ledger!vars)
  BY <1>19, LedgerStutters DEF StageCandidate, TypeOK, RowsExist, Rows,
     jobRows, canon
<1>20. ASSUME NEW r \in Runs, CommitCandidate(r)
      PROVE  [Ledger!Next]_(Ledger!vars)
  <2>1. Rows' = Rows
    BY <1>20 DEF CommitCandidate, jobRows, Rows
  <2>2. CASE chapters' = chapters
    BY <2>1, <2>2, LedgerStutters
  <2>3. CASE chapters' # chapters
    <3>1. PICK j \in Jobs : j = run[r].job /\ j \in Rows
      BY <1>20 DEF CommitCandidate, RowsExist, Rows
    <3>2. PICK b \in Branches : b = branch[j]
      BY <3>1 DEF RowsExist, Rows
    <3>3. PICK c \in ChapterRow :
            /\ c.branch = b /\ c.index = run[r].index /\ c.job = j
            /\ ChapterFree(b, c.index) /\ chapters' = chapters \cup {c}
      BY <1>20, <2>3, <3>1, <3>2 DEF CommitCandidate, ChapterRow, TypeOK,
         RunState
    <3>4. PICK n \in Nat : Numbered(b, n) /\ c.index \in 1 .. n + 1
      BY <1>20, <3>1, <3>2, <3>3 DEF CommitCandidate, Contiguous
    <3>5. c.index = n + 1
      BY <3>3, <3>4 DEF Numbered, ChapterFree, IndicesOf
    <3>6. \A d \in chapters : d.job # j
      BY <1>20, <3>1 DEF CommitCandidate, ChapterHasCandidate
    <3>. DEFINE e == [branch |-> c.branch, index |-> c.index, job |-> c.job]
                L == {[branch |-> d.branch, index |-> d.index,
                       job |-> d.job] : d \in chapters}
    <3>7. L' = L \cup {e}
      BY <3>3
    <3>8. \A d \in L : d.job # j
      BY <3>6
    <3>9. Ledger!IndicesOf(e.branch) = 1 .. e.index - 1
      BY <3>3, <3>4, <3>5, LedgerIndices DEF Numbered
    <3>10. Ledger!Publish(j)
      BY <2>1, <3>1, <3>3, <3>7, <3>8, <3>9 DEF Ledger!Publish
    <3>. QED
      BY <3>10 DEF Ledger!Next
  <2>. QED
    BY <2>2, <2>3
<1>21. ASSUME NEW r \in Runs, Release(r)
      PROVE  [Ledger!Next]_(Ledger!vars)
  BY <1>21, LedgerStutters DEF Release, ReleaseJob, TypeOK, RowsExist, Rows,
     canon
<1>22. ASSUME NEW r \in Runs, Fail(r)
      PROVE  [Ledger!Next]_(Ledger!vars)
  BY <1>22, LedgerStutters DEF Fail, ReleaseJob, TypeOK, RowsExist, Rows,
     Working, canon
<1>23. ASSUME NEW j \in Jobs, LeaseExpires(j)
      PROVE  [Ledger!Next]_(Ledger!vars)
  BY <1>23, LedgerStutters DEF LeaseExpires, TypeOK, RowsExist, Rows, canon
<1>24. ASSUME NEW r \in Runs, WorkerCrash(r)
      PROVE  [Ledger!Next]_(Ledger!vars)
  BY <1>24, LedgerStutters DEF WorkerCrash, TypeOK, RowsExist, Rows,
     jobRows, canon
<1>25. ASSUME NEW d \in Dispatchers, DispatcherCrash(d)
      PROVE  [Ledger!Next]_(Ledger!vars)
  BY <1>25, LedgerStutters DEF DispatcherCrash, TypeOK, RowsExist, Rows,
     jobRows, canon
<1>26. ASSUME NEW j \in Jobs, ReleaseStuckJob(j)
      PROVE  [Ledger!Next]_(Ledger!vars)
  BY <1>26, LedgerStutters DEF ReleaseStuckJob, Active, TypeOK, RowsExist,
     Rows, canon
<1>27. ASSUME NEW q \in Requests, RequestMarkFails(q)
      PROVE  [Ledger!Next]_(Ledger!vars)
  BY <1>27, LedgerStutters DEF RequestMarkFails, TypeOK, RowsExist, Rows,
     jobRows, canon
<1>28. CASE UNCHANGED vars
  BY <1>28, LedgerStutters DEF vars, TypeOK, RowsExist, Rows, jobRows, canon
<1>. QED
  BY <1>1, <1>2, <1>3, <1>4, <1>5, <1>6, <1>7, <1>8, <1>9, <1>10, <1>11,
     <1>12, <1>13, <1>14, <1>15, <1>16, <1>17, <1>18, <1>19, <1>20, <1>21,
     <1>22, <1>23, <1>24, <1>25, <1>26, <1>27, <1>28 DEF Next, RequestStep,
     PollStep, WorkerStep

-----------------------------------------------------------------------------
(* The inductive invariant and the theorems.                               *)

\* IInv holds in every reachable state.  TypeOK alone is not inductive: that
\* the next chapter number is a number needs Contiguous, and that a job has a
\* branch needs RowsExist.
IInv == TypeOK /\ RowsExist /\ Contiguous /\ Claims /\ ChapterHasCandidate

\* The invariant holds at the start.
LEMMA InitIInv == Init => IInv
<1>. SUFFICES ASSUME Init PROVE IInv
  OBVIOUS
<1>1. TypeOK
  BY InitTypeOK
<1>2. RowsExist
  BY DEF Init, RowsExist, Rows, FreshRun, IdleRequest, IdleDispatcher
<1>3. Contiguous
  <2>1. \A b \in Branches : Numbered(b, 0)
    BY DEF Init, Numbered, IndicesOf
  <2>2. \A r \in Runs : run[r].pc # "commit"
    BY DEF Init, FreshRun
  <2>. QED
    BY <2>1, <2>2 DEF Contiguous
<1>4. Claims
  BY DEF Init, Claims, OneWorkerPerJob, FreshRun
<1>5. ChapterHasCandidate
  BY DEF Init, ChapterHasCandidate
<1>. QED
  BY <1>1, <1>2, <1>3, <1>4, <1>5 DEF IInv

\* Every step preserves the invariant.
LEMMA NextIInv == IInv /\ [Next]_vars => IInv'
  BY TypeStep, RowsStep, ContiguousStep, ClaimsStep, OneChapterStep DEF IInv

\* The invariant holds throughout.
THEOREM Invariance == Spec => []IInv
  BY InitIInv, NextIInv, PTL DEF Spec

\* Every value the jobs, handlers, pollers and workers hold has its type; in
\* particular MAX(chapter_index) + 1 is always a chapter number.
THEOREM TypeCorrect == Spec => []TypeOK
<1>1. IInv => TypeOK
  BY DEF IInv
<1>. QED
  BY Invariance, <1>1, PTL

\* However often the outbox delivers a job, claim_job lets one worker pass,
\* for any number of calls, pollers, workers, crashes and releases.
THEOREM ClaimedOnce == Spec => []OneWorkerPerJob
<1>1. IInv => OneWorkerPerJob
  BY DEF IInv, Claims
<1>. QED
  BY Invariance, <1>1, PTL

\* Generation implements the chapter ledger: each accepted request adds at
\* most one chapter, at the end of one branch, and no chapter ever changes,
\* although MAX(chapter_index) is read before the insert.
THEOREM Refinement == Spec => ImplementsLedger
<1>1. Init => Ledger!Init
  BY DEF Init, Ledger!Init, Rows
<1>2. IInv /\ [Next]_vars => [Ledger!Next]_(Ledger!vars)
  BY LedgerStep DEF IInv
<1>. QED
  BY <1>1, <1>2, Invariance, PTL DEF Spec, ImplementsLedger, Ledger!Spec
=============================================================================
