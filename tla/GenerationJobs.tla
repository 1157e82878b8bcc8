--------------------------- MODULE GenerationJobs ---------------------------
(***************************************************************************)
(* Chapter generation, from the author's request to the published chapter: *)
(*                                                                         *)
(*   api/routes/progression.py   a request queues a job (one transaction   *)
(*   api/routes/archive.py       with its outbox row), or retries one      *)
(*   services/job_dispatcher.py  polls the outbox and launches workers     *)
(*   workers/generation_job.py   claims the job, runs the agents, publishes *)
(*   workers/queue.py, outbox.py the SQL on generation_jobs and outbox     *)
(*   migrations 0005, 0010       unique indexes, publication function      *)
(*   scripts/release_stuck_job.py  an operator's manual recovery           *)
(*                                                                         *)
(* One action is one database transaction, one external call, or one read  *)
(* whose result is used after another process may have written.  The       *)
(* database runs at READ COMMITTED, so each statement of a transaction     *)
(* sees what was committed when it started.  All jobs are one author's.    *)
(* Prose is abstract: what a chapter keeps of its text is the number the   *)
(* model was told it was writing.                                          *)
(***************************************************************************)
EXTENDS Naturals, FiniteSets, FiniteSetsExt

CONSTANTS
    Requests,       \* HTTP calls of the author (progression or retry)
    Keys,           \* idempotency keys a progression call may carry
    Branches,       \* branch ids
    Main,           \* the branch that exists from the start
    Dispatchers,    \* pollers running dispatch_pending
    Runs,           \* worker processes the job platform may start
    None,           \* no branch: the call asks for a child branch
    QuotaLimit,     \* DEFAULT_LIMITS[CONCURRENT_GENERATION_JOBS]
    BatchLimit,     \* limit of fetch_unpublished
    Turns,          \* agent turns before the first draft (3 in the code)
    MaxAttempts,    \* MAX_EVALUATOR_ATTEMPTS
    MaxJobs,        \* bound: job rows
    MaxCrashes,     \* bound: processes that die
    MaxReleases     \* bound: uses of release_stuck_job.py

Jobs == 1 .. MaxJobs    \* in order of created_at

ASSUME ConstantsOK ==
    /\ MaxJobs \in Nat /\ Turns \in Nat /\ MaxAttempts \in Nat \ {0}
    /\ QuotaLimit \in Nat /\ BatchLimit \in Nat
    /\ MaxCrashes \in Nat /\ MaxReleases \in Nat
    /\ Main \in Branches /\ None \notin Branches
    /\ Keys \cap Jobs = {}

VARIABLES
    status, lease, key, branch,   \* generation_jobs rows
    outbox,      \* the outbox row of each job
    branches,    \* branch rows
    events,      \* generation_events rows of each job
    candidate,   \* candidate_chapters row of each job
    chapters,    \* published chapter rows
    request,     \* handler state of each HTTP call
    dispatcher,  \* local state of each dispatch_pending call
    run,         \* local state of each worker
    crashes, releases,
    hasty        \* the operator once released a job whose worker was alive

jobRows == <<status, lease, key, branch>>
canon   == <<events, candidate, chapters>>
procs   == <<request, dispatcher, run>>
faults  == <<crashes, releases, hasty>>
vars    == <<jobRows, outbox, branches, canon, procs, faults>>

Terminal    == {"SUCCEEDED", "FAILED", "BLOCKED"}
Statuses    == {"none", "QUEUED", "RUNNING"} \cup Terminal
EventStatus == {"GENERATING", "EVALUATING", "PUBLISHED", "BLOCKED"}
Working     == {"context", "agents", "evaluate", "verdict", "commit",
                "release"}
ChapterRow  == [branch : Branches, index : Nat \ {0}, job : Jobs,
                writtenAs : Nat \ {0}]

FreshRun == [pc |-> "free", job |-> 0, claimed |-> FALSE, seq |-> 0,
             attempt |-> 1, approved |-> FALSE, told |-> 1, index |-> 1]
IdleDispatcher == [batch |-> {}, locking |-> FALSE, launched |-> 0]
IdleRequest    == [pc |-> "idle", key |-> None, target |-> None, job |-> 0]

RequestState ==
    [pc : {"idle", "insert", "launch", "mark", "done"},
     key : Keys \cup Jobs \cup {None}, target : Branches \cup {None},
     job : Jobs \cup {0}]
DispatcherState ==
    [batch : SUBSET Jobs, locking : BOOLEAN, launched : Jobs \cup {0}]
RunState ==
    [pc : {"free", "launched", "done"} \cup Working, job : Jobs \cup {0},
     claimed : BOOLEAN, seq : Nat, attempt : 1 .. MaxAttempts,
     approved : BOOLEAN, told : Nat \ {0}, index : Nat \ {0}]

TypeOK ==
    /\ status \in [Jobs -> Statuses]
    /\ lease \in [Jobs -> {"null", "live", "expired"}]
    /\ key \in [Jobs -> Keys \cup Jobs \cup {None}]
    /\ branch \in [Jobs -> Branches \cup {None}]
    /\ outbox \in [Jobs -> {"none", "pending", "published"}]
    /\ branches \subseteq Branches
    /\ events \in [Jobs -> SUBSET [seq : Nat, status : EventStatus]]
    /\ candidate \in [Jobs -> {"none", "APPROVED", "REJECTED"}]
    /\ chapters \subseteq ChapterRow
    /\ request \in [Requests -> RequestState]
    /\ dispatcher \in [Dispatchers -> DispatcherState]
    /\ run \in [Runs -> RunState]
    /\ crashes \in Nat /\ releases \in Nat /\ hasty \in BOOLEAN

Init ==
    /\ status = [j \in Jobs |-> "none"]
    /\ lease = [j \in Jobs |-> "null"]
    /\ key = [j \in Jobs |-> None]
    /\ branch = [j \in Jobs |-> None]
    /\ outbox = [j \in Jobs |-> "none"]
    /\ branches = {Main}
    /\ events = [j \in Jobs |-> {}]
    /\ candidate = [j \in Jobs |-> "none"]
    /\ chapters = {}
    /\ request = [q \in Requests |-> IdleRequest]
    /\ dispatcher = [d \in Dispatchers |-> IdleDispatcher]
    /\ run = [r \in Runs |-> FreshRun]
    /\ crashes = 0 /\ releases = 0 /\ hasty = FALSE

-----------------------------------------------------------------------------
(* The generation_jobs table, its indexes and the quota count.             *)

Rows == {j \in Jobs : status[j] # "none"}

Active(j) == status[j] \in {"QUEUED", "RUNNING"}

\* Mutant: the partial index covers QUEUED rows only.
BranchFreeOfQueued(b) == \A j \in Jobs : status[j] = "QUEUED" => branch[j] # b

\* generation_jobs_one_active_branch_idx
BranchFree(b) == \A j \in Jobs : Active(j) => branch[j] # b

\* UNIQUE (requested_by_user_id, idempotency_key)
KeyFree(k) == \A j \in Rows : key[j] # k

\* A RUNNING job whose lease ran out no longer counts against the quota.
CountsForQuota(j) ==
    \/ status[j] = "QUEUED"
    \/ status[j] = "RUNNING" /\ lease[j] # "expired"

QuotaUsed == Cardinality({j \in Jobs : CountsForQuota(j)})

-----------------------------------------------------------------------------
(* Launching: run_now starts a worker for the job, now or later.  The      *)
(* caller only learns that the call was accepted.                          *)

StartWorker(j) ==
    \E r \in Runs :
        /\ run[r].pc = "free"
        /\ run' = [run EXCEPT ![r].pc = "launched", ![r].job = j]

\* A worker's local state ends with it; job and claimed are kept as history.
Exit(r) ==
    run' = [run EXCEPT ![r] = [FreshRun EXCEPT !.pc = "done",
                                               !.job = run[r].job,
                                               !.claimed = run[r].claimed]]

-----------------------------------------------------------------------------
(* POST /branches/{id}/progression and POST /generation-jobs/{id}/retry.   *)

Goto(q, pc) == request' = [request EXCEPT ![q].pc = pc]

\* The response is sent; the handler's local state is gone.
Answer(q) ==
    request' = [request EXCEPT ![q] = [IdleRequest EXCEPT !.pc = "done"]]

\* The replay check returns an existing job with this key as it is; then the
\* quota check answers 429.  A target of None is EDIT_TRAITS or REWIND: a
\* child branch is to be made.
Submit(q, k, b) ==
    /\ request[q].pc = "idle"
    /\ b \in branches \cup {None}
    /\ IF KeyFree(k) /\ QuotaUsed < QuotaLimit
       THEN request' = [request EXCEPT ![q] =
                          [pc |-> "insert", key |-> k, target |-> b,
                           job |-> 0]]
       ELSE Answer(q)
    /\ UNCHANGED <<jobRows, outbox, branches, canon, dispatcher, run,
                   faults>>

\* A retry reads the failed job and inserts under the key retry-{job}; it
\* checks no quota.
RetryLookup(q, j) ==
    /\ request[q].pc = "idle"
    /\ status[j] \in {"BLOCKED", "FAILED"}
    /\ request' = [request EXCEPT ![q] =
                     [pc |-> "insert", key |-> j, target |-> branch[j],
                      job |-> 0]]
    /\ UNCHANGED <<jobRows, outbox, branches, canon, dispatcher, run,
                   faults>>

\* The job row, its outbox row and, for a fork, the child branch are one
\* transaction.  A progression goes on to launch; a retry returns.
InsertJob(q, j, b) ==
    /\ request[q].pc = "insert"
    /\ status[j] = "none" /\ \A i \in Jobs : i < j => status[i] # "none"
    /\ \/ b = request[q].target /\ b \in branches
       \/ request[q].target = None /\ b \in Branches \ branches
    /\ KeyFree(request[q].key) /\ BranchFree(b)
    /\ status' = [status EXCEPT ![j] = "QUEUED"]
    /\ key' = [key EXCEPT ![j] = request[q].key]
    /\ branch' = [branch EXCEPT ![j] = b]
    /\ outbox' = [outbox EXCEPT ![j] = "pending"]
    /\ branches' = branches \cup {b}
    /\ IF request[q].key \in Jobs
       THEN Answer(q)
       ELSE request' = [request EXCEPT ![q].pc = "launch", ![q].job = j]
    /\ UNCHANGED <<lease, canon, dispatcher, run, faults>>

\* Mutant: a key collision is not caught and the call hangs.
InsertRefusedByBranchOnly(q) ==
    /\ request[q].pc = "insert"
    /\ \/ request[q].target # None /\ ~BranchFree(request[q].target)
       \/ request[q].target = None
    /\ Answer(q)
    /\ UNCHANGED <<jobRows, outbox, branches, canon, dispatcher, run,
                   faults>>

\* A unique index refuses the row (409 or 500), or the child branch's name
\* is taken; the transaction leaves nothing behind.
InsertRefused(q) ==
    /\ request[q].pc = "insert"
    /\ \/ ~KeyFree(request[q].key)
       \/ request[q].target # None /\ ~BranchFree(request[q].target)
       \/ request[q].target = None
    /\ Answer(q)
    /\ UNCHANGED <<jobRows, outbox, branches, canon, dispatcher, run,
                   faults>>

RequestLaunches(q) ==
    /\ request[q].pc = "launch"
    /\ StartWorker(request[q].job)
    /\ Goto(q, "mark")
    /\ UNCHANGED <<jobRows, outbox, branches, canon, dispatcher, faults>>

\* Mutant: the outbox row is marked although the launch failed.
RequestMarksFailedLaunch(q) ==
    /\ request[q].pc = "launch"
    /\ outbox' = [outbox EXCEPT ![request[q].job] = "published"]
    /\ Answer(q)
    /\ UNCHANGED <<jobRows, branches, canon, dispatcher, run, faults>>

\* JobLaunchError: 503, and the outbox row stays for the dispatcher.  A
\* run_now that raises may have been accepted.  The handler's process dying
\* after its commit looks the same.
RequestLaunchFails(q) ==
    /\ request[q].pc = "launch"
    /\ StartWorker(request[q].job) \/ UNCHANGED run
    /\ Answer(q)
    /\ UNCHANGED <<jobRows, outbox, branches, canon, dispatcher, faults>>

\* Row locks an unfinished dispatch_pending transaction holds.
LockedBy(d) == IF dispatcher[d].locking THEN dispatcher[d].batch ELSE {}

\* The update waits for the row while a poll holds it.
RequestMarks(q) ==
    /\ request[q].pc = "mark"
    /\ \A d \in Dispatchers : request[q].job \notin LockedBy(d)
    /\ outbox' = [outbox EXCEPT ![request[q].job] = "published"]
    /\ Answer(q)
    /\ UNCHANGED <<jobRows, branches, canon, dispatcher, run, faults>>

\* The update runs after the commit that dropped app.user_id, so the
\* row-level policy of migration 0017 may hide the row from it: then no row
\* is updated and nothing is reported.  Or the handler's process dies here.
RequestMarkFails(q) ==
    /\ request[q].pc = "mark"
    /\ Answer(q)
    /\ UNCHANGED <<jobRows, outbox, branches, canon, dispatcher, run,
                   faults>>

-----------------------------------------------------------------------------
(* dispatch_pending: one poll of the outbox.                               *)

Oldest(S, n) == {j \in S : Cardinality({i \in S : i < j}) < n}

Unpublished(j) == outbox[j] = "pending"

\* FOR UPDATE SKIP LOCKED: the batch's rows stay locked until this
\* connection next commits.
FetchUnpublished(d) ==
    LET unlocked ==
          {j \in Jobs : /\ Unpublished(j)
                        /\ \A e \in Dispatchers : j \notin LockedBy(e)}
    IN  /\ dispatcher[d] = IdleDispatcher
        /\ unlocked # {}
        /\ dispatcher' = [dispatcher EXCEPT ![d] =
                            [batch |-> Oldest(unlocked, BatchLimit),
                             locking |-> TRUE, launched |-> 0]]
        /\ UNCHANGED <<jobRows, outbox, branches, canon, request, run,
                       faults>>

\* Entries are taken in created_at order.
NextEntry(d, j) ==
    /\ j \in dispatcher[d].batch
    /\ \A i \in dispatcher[d].batch : j <= i

DispatchLaunches(d, j) ==
    /\ dispatcher[d].launched = 0
    /\ NextEntry(d, j)
    /\ StartWorker(j)
    /\ dispatcher' = [dispatcher EXCEPT ![d].launched = j]
    /\ UNCHANGED <<jobRows, outbox, branches, canon, request, faults>>

\* The loop goes on without the entry; after the last one the caller's
\* connection ends and with it the row locks.
WithoutEntry(d, j, locking) ==
    LET rest == dispatcher[d].batch \ {j}
    IN  [batch |-> rest, locking |-> locking /\ rest # {}, launched |-> 0]

DispatchLaunchFails(d, j) ==
    /\ dispatcher[d].launched = 0
    /\ NextEntry(d, j)
    /\ StartWorker(j) \/ UNCHANGED run
    /\ dispatcher' = [dispatcher EXCEPT ![d] =
                        WithoutEntry(d, j, dispatcher[d].locking)]
    /\ UNCHANGED <<jobRows, outbox, branches, canon, request, faults>>

\* mark_published commits, which releases the locks of the whole batch.
DispatchMarks(d) ==
    LET j == dispatcher[d].launched
    IN  /\ j # 0
        /\ \A e \in Dispatchers \ {d} : j \notin LockedBy(e)
        /\ outbox' = [outbox EXCEPT ![j] = "published"]
        /\ dispatcher' = [dispatcher EXCEPT ![d] = WithoutEntry(d, j, FALSE)]
        /\ UNCHANGED <<jobRows, branches, canon, request, run, faults>>

-----------------------------------------------------------------------------
(* run_generation_job.                                                     *)

\* Mutants: the claim also takes over an expired lease, or a failed job.
ClaimableWhenExpired(j) ==
    \/ status[j] = "QUEUED"
    \/ status[j] = "RUNNING" /\ lease[j] = "expired"
ClaimableAfterFailure(j) == status[j] \in {"QUEUED", "FAILED"}

\* claim_job takes the job only while it is QUEUED, under a row lock.
Claimable(j) == status[j] = "QUEUED"

Claim(r) ==
    LET j == run[r].job
    IN  /\ run[r].pc = "launched"
        /\ Claimable(j)
        /\ status' = [status EXCEPT ![j] = "RUNNING"]
        /\ lease' = [lease EXCEPT ![j] = "live"]
        /\ run' = [run EXCEPT ![r].pc = "context", ![r].claimed = TRUE]
        /\ UNCHANGED <<key, branch, outbox, branches, canon, request,
                       dispatcher, faults>>

\* SKIP LOCKED: a worker also gives up when another one is just claiming.
NotClaimable(r) ==
    /\ run[r].pc = "launched"
    /\ \/ ~Claimable(run[r].job)
       \/ \E s \in Runs \ {r} :
            run[s].pc = "launched" /\ run[s].job = run[r].job
    /\ Exit(r)
    /\ UNCHANGED <<jobRows, outbox, branches, canon, request, dispatcher,
                   faults>>

IndicesOf(b) == {c.index : c \in {d \in chapters : d.branch = b}}

\* Mutant: the + 1 is missing.
LastIndex(b) == Max(IndicesOf(b) \cup {0})

\* COALESCE(MAX(chapter_index), 0) + 1
NextIndex(b) == Max(IndicesOf(b) \cup {0}) + 1

\* The branch's published chapters are read once, before any model call;
\* the prompt says which chapter this will be.
ReadContext(r) ==
    /\ run[r].pc = "context"
    /\ run' = [run EXCEPT ![r].pc = "agents",
                          ![r].told = NextIndex(branch[run[r].job])]
    /\ UNCHANGED <<jobRows, outbox, branches, canon, request, dispatcher,
                   faults>>

\* Mutant: events are numbered from 0.
WriteEventFromZero(r, s) ==
    LET j == run[r].job
        n == run[r].seq
    IN  /\ \A e \in events[j] : e.seq # n
        /\ events' = [events EXCEPT ![j] = @ \cup {[seq |-> n, status |-> s]}]

\* Each event commits on its own; UNIQUE (job_id, sequence).
WriteEvent(r, s) ==
    LET j == run[r].job
        n == run[r].seq + 1
    IN  /\ \A e \in events[j] : e.seq # n
        /\ events' = [events EXCEPT ![j] = @ \cup {[seq |-> n, status |-> s]}]

\* character, director and world speak in turn ...
AgentTurn(r) ==
    /\ run[r].pc = "agents" /\ run[r].seq < Turns
    /\ WriteEvent(r, "GENERATING")
    /\ run' = [run EXCEPT ![r].seq = @ + 1]
    /\ UNCHANGED <<jobRows, outbox, branches, candidate, chapters, request,
                   dispatcher, faults>>

\* Mutant: the draft goes on without its review.
DraftWithoutReview(r) ==
    /\ run[r].pc = "agents" /\ run[r].seq >= Turns
    /\ WriteEvent(r, "GENERATING")
    /\ run' = [run EXCEPT ![r].pc = "verdict", ![r].seq = @ + 1]
    /\ UNCHANGED <<jobRows, outbox, branches, candidate, chapters, request,
                   dispatcher, faults>>

\* ... and then the storyteller drafts.
Draft(r) ==
    /\ run[r].pc = "agents" /\ run[r].seq >= Turns
    /\ WriteEvent(r, "GENERATING")
    /\ run' = [run EXCEPT ![r].pc = "evaluate", ![r].seq = @ + 1]
    /\ UNCHANGED <<jobRows, outbox, branches, candidate, chapters, request,
                   dispatcher, faults>>

Evaluate(r) ==
    /\ run[r].pc = "evaluate"
    /\ WriteEvent(r, "EVALUATING")
    /\ run' = [run EXCEPT ![r].pc = "verdict", ![r].seq = @ + 1]
    /\ UNCHANGED <<jobRows, outbox, branches, candidate, chapters, request,
                   dispatcher, faults>>

\* Mutant: one attempt is never made.
AttemptsLeftButOne(r) == run[r].attempt + 1 < MaxAttempts

AttemptsLeft(r) == run[r].attempt < MaxAttempts

\* A rejection is fed back to the next draft until the attempts are used up.
Redraft(r) ==
    /\ run[r].pc = "verdict"
    /\ AttemptsLeft(r)
    /\ run' = [run EXCEPT ![r].pc = "agents", ![r].attempt = @ + 1]
    /\ UNCHANGED <<jobRows, outbox, branches, canon, request, dispatcher,
                   faults>>

\* APPROVE, or the last rejection, ends the loop and opens the publishing
\* transaction, which reads MAX(chapter_index) ...
StageCandidate(r) ==
    /\ run[r].pc = "verdict"
    /\ \E approved \in BOOLEAN :
         /\ approved \/ ~AttemptsLeft(r)
         /\ run' = [run EXCEPT ![r].pc = "commit", ![r].approved = approved,
                               ![r].index = NextIndex(branch[run[r].job])]
    /\ UNCHANGED <<jobRows, outbox, branches, canon, request, dispatcher,
                   faults>>

\* Mutant: chapters have no UNIQUE (branch_id, chapter_index).
AnyChapterFits(b, n) == TRUE

\* ... and commits candidate, report, chapter and last event together, unless
\* UNIQUE (job_id), (branch_id, chapter_index) or (job_id, sequence) objects.
ChapterFree(b, n) == \A c \in chapters : ~(c.branch = b /\ c.index = n)

CommitCandidate(r) ==
    LET j == run[r].job
        b == branch[j]
    IN  /\ run[r].pc = "commit"
        /\ candidate[j] = "none"
        /\ \/ /\ run[r].approved
              /\ ChapterFree(b, run[r].index)
              /\ chapters' = chapters \cup
                   {[branch |-> b, index |-> run[r].index, job |-> j,
                     writtenAs |-> run[r].told]}
              /\ candidate' = [candidate EXCEPT ![j] = "APPROVED"]
              /\ WriteEvent(r, "PUBLISHED")
           \/ /\ ~run[r].approved
              /\ candidate' = [candidate EXCEPT ![j] = "REJECTED"]
              /\ WriteEvent(r, "BLOCKED")
              /\ UNCHANGED chapters
        /\ run' = [run EXCEPT ![r].pc = "release", ![r].seq = @ + 1]
        /\ UNCHANGED <<jobRows, outbox, branches, request, dispatcher,
                       faults>>

\* release_job sets the status whatever it is now.
ReleaseJob(j, s) ==
    /\ status' = [status EXCEPT ![j] = s]
    /\ lease' = [lease EXCEPT ![j] = "null"]

\* Mutant: a blocked candidate is reported as a success.
ReleaseAsSuccess(r) ==
    /\ run[r].pc = "release"
    /\ ReleaseJob(run[r].job, "SUCCEEDED")
    /\ Exit(r)
    /\ UNCHANGED <<key, branch, outbox, branches, canon, request, dispatcher,
                   faults>>

Release(r) ==
    /\ run[r].pc = "release"
    /\ ReleaseJob(run[r].job,
                  IF run[r].approved THEN "SUCCEEDED" ELSE "BLOCKED")
    /\ Exit(r)
    /\ UNCHANGED <<key, branch, outbox, branches, canon, request, dispatcher,
                   faults>>

\* Mutant: the failure is raised without releasing the job.
FailWithoutRelease(r) ==
    /\ run[r].pc \in Working
    /\ Exit(r)
    /\ UNCHANGED <<jobRows, outbox, branches, canon, request, dispatcher,
                   faults>>

\* Any exception after the claim: a model call, the policy gate, an empty
\* cast, a refused insert, a lost statement.  Roll back, release as FAILED.
Fail(r) ==
    /\ run[r].pc \in Working
    /\ ReleaseJob(run[r].job, "FAILED")
    /\ Exit(r)
    /\ UNCHANGED <<key, branch, outbox, branches, canon, request, dispatcher,
                   faults>>

-----------------------------------------------------------------------------
(* Time, crashes and the operator.                                         *)

\* DEFAULT_LEASE_SECONDS pass; no worker renews its lease.
LeaseExpires(j) ==
    /\ status[j] = "RUNNING" /\ lease[j] = "live"
    /\ lease' = [lease EXCEPT ![j] = "expired"]
    /\ UNCHANGED <<status, key, branch, outbox, branches, canon, procs,
                   faults>>

\* A worker dies, before its claim (no secret, the platform skips the run)
\* or after it; an open transaction is rolled back.
WorkerCrash(r) ==
    /\ run[r].pc \in Working \cup {"launched"}
    /\ crashes < MaxCrashes
    /\ crashes' = crashes + 1
    /\ Exit(r)
    /\ UNCHANGED <<jobRows, outbox, branches, canon, request, dispatcher,
                   releases, hasty>>

DispatcherCrash(d) ==
    /\ dispatcher[d] # IdleDispatcher
    /\ crashes < MaxCrashes
    /\ crashes' = crashes + 1
    /\ dispatcher' = [dispatcher EXCEPT ![d] = IdleDispatcher]
    /\ UNCHANGED <<jobRows, outbox, branches, canon, request, run, releases,
                   hasty>>

LiveWorker(j) == \E r \in Runs : run[r].job = j /\ run[r].pc \in Working

\* scripts/release_stuck_job.py.  The runbook has the operator check first
\* that no worker is running; hasty records that this was not so.
ReleaseStuckJob(j) ==
    /\ Active(j)
    /\ releases < MaxReleases
    /\ releases' = releases + 1
    /\ hasty' = (hasty \/ LiveWorker(j))
    /\ status' = [status EXCEPT ![j] = "FAILED"]
    /\ UNCHANGED <<lease, key, branch, outbox, branches, canon, procs,
                   crashes>>

-----------------------------------------------------------------------------

RequestStep(q) ==
    \/ \E j \in Jobs, b \in Branches : InsertJob(q, j, b)
    \/ InsertRefused(q)
    \/ RequestLaunches(q)
    \/ RequestLaunchFails(q)
    \/ RequestMarks(q)

\* A poll that has fetched its batch.
PollStep(d) ==
    \/ \E j \in Jobs : DispatchLaunches(d, j)
    \/ \E j \in Jobs : DispatchLaunchFails(d, j)
    \/ DispatchMarks(d)

WorkerStep(r) ==
    \/ Claim(r)
    \/ NotClaimable(r)
    \/ ReadContext(r)
    \/ AgentTurn(r)
    \/ Draft(r)
    \/ Evaluate(r)
    \/ Redraft(r)
    \/ StageCandidate(r)
    \/ CommitCandidate(r)
    \/ Release(r)
    \/ Fail(r)

Next ==
    \/ \E q \in Requests :
         \/ \E k \in Keys, b \in Branches \cup {None} : Submit(q, k, b)
         \/ \E j \in Jobs : RetryLookup(q, j)
         \/ RequestStep(q) \/ RequestMarkFails(q)
    \/ \E d \in Dispatchers :
         FetchUnpublished(d) \/ PollStep(d) \/ DispatcherCrash(d)
    \/ \E r \in Runs : WorkerStep(r) \/ WorkerCrash(r)
    \/ \E j \in Jobs : LeaseExpires(j) \/ ReleaseStuckJob(j)

Spec == Init /\ [][Next]_vars

\* Started handlers, workers and polls run on.  A handler that waits for a
\* row lock is in the lock's queue, ahead of every later poll, which skips
\* the row; so it gets the row in the end.  Nothing makes an author call, a
\* poll begin, an operator act or a process die.
Fairness ==
    /\ \A q \in Requests :
         WF_vars(RequestStep(q)) /\ SF_vars(RequestMarks(q))
    /\ \A r \in Runs : WF_vars(WorkerStep(r))
    /\ \A d \in Dispatchers : WF_vars(PollStep(d))

FairSpec == Spec /\ Fairness

-----------------------------------------------------------------------------
(* Safety.                                                                 *)

\* However often a job is launched, at most one worker ever gets past
\* claim_job: neither a duplicate delivery nor a retry reopens it.
OneWorkerPerJob ==
    \A r, s \in Runs :
        run[r].claimed /\ run[s].claimed /\ run[r].job = run[s].job => r = s

\* A chapter takes the place its prompt announced: what the model was told
\* of the branch before the long model calls is still true at publication.
WrittenForItsPlace == ~hasty => \A c \in chapters : c.writtenAs = c.index

\* What a finished job reports is what canon holds.
OutcomeMatchesCanon ==
    \A j \in Jobs :
        /\ status[j] = "SUCCEEDED" => \E c \in chapters : c.job = j
        /\ status[j] = "BLOCKED" => \A c \in chapters : c.job # j

EventAt(j, n, s) == [seq |-> n, status |-> s] \in events[j]

\* A published chapter was drafted and then reviewed in the attempt that was
\* published, and the publication is the job's last event.
ReviewedBeforePublished ==
    \A c \in chapters : \E n \in 1 .. Turns + 2 * MaxAttempts + 1 :
        /\ EventAt(c.job, n, "PUBLISHED")
        /\ EventAt(c.job, n - 1, "EVALUATING")
        /\ EventAt(c.job, n - 2, "GENERATING")
        /\ \A e \in events[c.job] : e.seq <= n

\* A job is blocked only after every attempt was drafted and reviewed.
BlockedAfterAllAttempts ==
    \A j \in Jobs : status[j] = "BLOCKED" =>
        Cardinality({e \in events[j] : e.status = "EVALUATING"}) = MaxAttempts

\* An outbox row leaves the poller's sight only after a worker was launched,
\* so a crash between the two repeats the launch and never skips it.
LaunchedBeforePublished ==
    \A j \in Jobs : outbox[j] = "published" => \E r \in Runs : run[r].job = j

\* While no process has died, a RUNNING job has a worker that will release
\* it, whatever exception that worker meets.
RunningHasWorker ==
    ~hasty /\ crashes = 0 =>
        \A j \in Jobs : status[j] = "RUNNING" => LiveWorker(j)

\* A finished job stays as it finished: no late release_job overwrites it.
FinalIsFinal ==
    [][~hasty =>
         \A j \in Jobs : status[j] \in Terminal => status'[j] = status[j]]_vars

\* Generation implements the ledger: every accepted request adds at most one
\* chapter, at the end of a branch, and published chapters never change.
Ledger == INSTANCE ChapterLedger
            WITH accepted <- Rows,
                 ledger <- {[branch |-> c.branch, index |-> c.index,
                             job |-> c.job] : c \in chapters}

ImplementsLedger == Ledger!Spec

\* What a job reports to the readers of its events.
Reported(j) == IF status[j] \notin Terminal THEN "open"
               ELSE IF LiveWorker(j) THEN "abandoned" ELSE "final"

\* The events of a job implement the log that event streams read: numbered
\* without a gap over all drafts of all attempts, and none is written once
\* the job reports its end, unless an operator released it too early.
EventsOf == INSTANCE EventLog
              WITH log <- [j \in Jobs |-> {e.seq : e \in events[j]}],
                   state <- [j \in Jobs |-> Reported(j)]

ImplementsEventLog == EventsOf!LogSpec

-----------------------------------------------------------------------------
(* Liveness, under FairSpec.                                               *)

\* Without crashes a job for which a worker was started ends, whichever of
\* its workers gives way to which and whatever exception the last one meets.
LaunchedSettles ==
    \A j \in Jobs :
        (\E r \in Runs : run[r].pc = "launched" /\ run[r].job = j)
            ~> status[j] \in Terminal

\* Every call is answered: neither a race for a branch or a key, nor a mark
\* that waits for a row which polls take again and again, holds it for good.
RequestsAnswered ==
    \A q \in Requests : request[q].pc # "idle" ~> request[q].pc = "done"

-----------------------------------------------------------------------------
(* What documents of the repository say and the code does not do.          *)

\* workers/queue.py: "a second worker may reclaim an expired lease."
ExpiredLeaseIsReclaimed ==
    \A j \in Jobs : status[j] = "RUNNING" /\ lease[j] = "expired"
                     ~> status[j] # "RUNNING" \/ lease[j] = "live"

\* design.md: "Every job is idempotent, observable, resumable, and
\* retryable": a retry repeats a job that published nothing.
RetryRepeatsNothing ==
    \A c, d \in chapters : key[d.job] # c.job
=============================================================================
