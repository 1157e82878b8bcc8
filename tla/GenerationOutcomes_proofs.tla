---------------------- MODULE GenerationOutcomes_proofs ----------------------
(***************************************************************************)
(* What a job reports, where its chapter stands and what its events say:   *)
(* proofs of the safety properties of GenerationJobs that rest on the      *)
(* invariant IInv of GenerationJobs_proofs, and of its refinement of       *)
(* EventLog.                                                               *)
(*                                                                         *)
(* Half of the actions touch none of the variables these properties read;  *)
(* StepKinds sorts the steps once, and each property then has one case per *)
(* kind.                                                                   *)
(***************************************************************************)
EXTENDS GenerationJobs_proofs, FiniteSetTheorems

\* The variables that the properties of this module read, except run.
published == <<status, branch, chapters, candidate, hasty>>

\* A step of a handler or poller, or of time.
Still == UNCHANGED <<published, run>> /\ crashes' \in {crashes, crashes + 1}

\* A worker is started.
Launches ==
    /\ \E j \in Jobs : StartWorker(j)
    /\ UNCHANGED <<published, crashes>>

Thinking == {"agents", "evaluate", "verdict"}

\* A worker goes on between the read of its context and its verdict.
Thinks(r) ==
    /\ run[r].pc \in Thinking
    /\ run'[r].pc \in Thinking
    /\ run'[r].job = run[r].job
    /\ run'[r].claimed = run[r].claimed
    /\ run'[r].told = run[r].told
    /\ \A s \in Runs \ {r} : run'[s] = run[s]
    /\ UNCHANGED <<published, crashes>>

\* A worker ends without having claimed, or dies.
Stops(r) ==
    /\ Exit(r)
    /\ run[r].pc \in Working => crashes' = crashes + 1
    /\ crashes' \in {crashes, crashes + 1}
    /\ UNCHANGED published

\* A worker ends and reports s.
Ends(r, s) ==
    /\ run[r].pc \in Working
    /\ ReleaseJob(run[r].job, s)
    /\ Exit(r)
    /\ UNCHANGED <<branch, chapters, candidate, hasty, crashes>>

\* Every step is of one of these kinds.
LEMMA StepKinds ==
    ASSUME TypeOK, RowsExist, [Next]_vars
    PROVE  \/ Still
           \/ Launches
           \/ \E q \in Requests, j \in Jobs, b \in Branches :
                InsertJob(q, j, b)
           \/ \E r \in Runs :
                \/ Claim(r) \/ ReadContext(r) \/ Thinks(r)
                \/ StageCandidate(r) \/ CommitCandidate(r) \/ Stops(r)
                \/ Ends(r, "FAILED")
                \/ Release(r)
           \/ \E j \in Jobs : ReleaseStuckJob(j)
<1>. USE DEF published, jobRows, canon, procs, faults
<1>1. ASSUME NEW q \in Requests, NEW k \in Keys,
             NEW b \in Branches \cup {None}, Submit(q, k, b)
      PROVE  Still
  BY <1>1 DEF Submit, Still
<1>2. ASSUME NEW q \in Requests, NEW j \in Jobs, RetryLookup(q, j)
      PROVE  Still
  BY <1>2 DEF RetryLookup, Still
<1>3. ASSUME NEW q \in Requests,
             \/ InsertRefused(q)
             \/ RequestMarks(q)
             \/ RequestMarkFails(q)
      PROVE  Still
  BY <1>3 DEF InsertRefused, RequestMarks, RequestMarkFails, Still
<1>4. ASSUME NEW q \in Requests,
             RequestLaunches(q) \/ RequestLaunchFails(q)
      PROVE  Launches \/ Still
  BY <1>4 DEF RequestLaunches, RequestLaunchFails, Launches, Still,
     RowsExist, Rows
<1>5. ASSUME NEW d \in Dispatchers, NEW j \in Jobs,
             DispatchLaunchFails(d, j)
      PROVE  Launches \/ Still
  BY <1>5 DEF DispatchLaunchFails, Launches, Still
<1>6. ASSUME NEW d \in Dispatchers,
             \/ FetchUnpublished(d)
             \/ DispatchMarks(d)
             \/ DispatcherCrash(d)
      PROVE  Still
  BY <1>6 DEF FetchUnpublished, DispatchMarks, DispatcherCrash, Still
<1>7. ASSUME NEW d \in Dispatchers, NEW j \in Jobs, DispatchLaunches(d, j)
      PROVE  Launches
  BY <1>7 DEF DispatchLaunches, Launches
<1>8. ASSUME NEW r \in Runs,
             \/ AgentTurn(r)
             \/ Draft(r)
             \/ Evaluate(r)
             \/ Redraft(r)
      PROVE  Thinks(r)
  BY <1>8 DEF AgentTurn, Draft, Evaluate, Redraft, Thinks, Thinking, TypeOK,
     RunState
<1>9. ASSUME NEW r \in Runs, NotClaimable(r) \/ WorkerCrash(r)
      PROVE  Stops(r)
  BY <1>9 DEF NotClaimable, WorkerCrash, Stops, Working
<1>10. ASSUME NEW r \in Runs, Fail(r)
      PROVE  Ends(r, "FAILED")
  BY <1>10 DEF Fail, Ends
<1>11. ASSUME NEW j \in Jobs, LeaseExpires(j)
      PROVE  Still
  BY <1>11 DEF LeaseExpires, Still
<1>12. CASE UNCHANGED vars
  BY <1>12 DEF vars, Still
<1>. QED
  BY <1>1, <1>2, <1>3, <1>4, <1>5, <1>6, <1>7, <1>8, <1>9, <1>10, <1>11,
     <1>12 DEF Next, RequestStep, PollStep, WorkerStep

\* A worker that ends keeps its job and claim; the others are as they were.
LEMMA ExitState ==
    ASSUME TypeOK, NEW r \in Runs, Exit(r)
    PROVE  /\ run'[r].pc = "done"
           /\ run'[r].job = run[r].job
           /\ run'[r].claimed = run[r].claimed
           /\ \A s \in Runs \ {r} : run'[s] = run[s]
  BY DEF Exit, FreshRun, TypeOK, RunState

\* Reading the context and staging the candidate change one worker: what it
\* was told, or what it is about to publish.
LEMMA MoveState ==
    ASSUME TypeOK, NEW r \in Runs, ReadContext(r) \/ StageCandidate(r)
    PROVE  /\ run'[r].pc = IF run[r].pc = "context" THEN "agents"
                           ELSE "commit"
           /\ run[r].pc \in {"context", "verdict"}
           /\ run'[r].job = run[r].job
           /\ run'[r].claimed = run[r].claimed
           /\ \A s \in Runs \ {r} : run'[s] = run[s]
<1>1. CASE ReadContext(r)
  BY <1>1 DEF ReadContext, TypeOK, RunState
<1>2. CASE StageCandidate(r)
  <2>. DEFINE n == NextIndex(branch[run[r].job])
              staged(ok) == [run[r] EXCEPT !.pc = "commit", !.approved = ok,
                                           !.index = n]
  <2>1. \E ok \in BOOLEAN : run' = [run EXCEPT ![r] = staged(ok)]
    BY <1>2 DEF StageCandidate
  <2>2. run[r] \in RunState
    BY DEF TypeOK
  <2>. HIDE DEF n
  <2>3. \A ok \in BOOLEAN : /\ staged(ok).pc = "commit"
                            /\ staged(ok).job = run[r].job
                            /\ staged(ok).claimed = run[r].claimed
    BY <2>2 DEF RunState
  <2>. HIDE DEF staged
  <2>. QED
    BY <1>2, <2>1, <2>3 DEF StageCandidate, TypeOK
<1>. QED
  BY <1>1, <1>2

\* The worker's own report is one of the ways to end.
LEMMA ReleaseEnds ==
    ASSUME NEW r \in Runs, Release(r)
    PROVE  Ends(r, IF run[r].approved THEN "SUCCEEDED" ELSE "BLOCKED")
  BY DEF Release, Ends, Working, canon, faults

-----------------------------------------------------------------------------
(* What a finished job reports.                                            *)

\* The candidate row decides the outcome: APPROVED stands for a chapter of the
\* job, and a worker about to release its job reports what the row says.
Outcome ==
    /\ \A c \in chapters : c.job \in Jobs /\ candidate[c.job] = "APPROVED"
    /\ \A j \in Jobs :
         candidate[j] = "APPROVED" => \E c \in chapters : c.job = j
    /\ \A r \in Runs : run[r].pc = "release" =>
         /\ run[r].job \in Jobs
         /\ candidate[run[r].job] =
              IF run[r].approved THEN "APPROVED" ELSE "REJECTED"
    /\ \A j \in Jobs :
         /\ status[j] = "SUCCEEDED" => candidate[j] = "APPROVED"
         /\ status[j] = "BLOCKED" => candidate[j] = "REJECTED"

\* A step that writes no candidate, finishes no job but as FAILED and brings
\* no worker to its release keeps Outcome.
LEMMA OutcomeFrame ==
    ASSUME Outcome, UNCHANGED <<candidate, chapters>>,
           \A j \in Jobs : status'[j] \in {"SUCCEEDED", "BLOCKED"} =>
               status'[j] = status[j],
           \A r \in Runs : run'[r].pc = "release" => run'[r] = run[r]
    PROVE  Outcome'
  BY DEF Outcome

\* Every step keeps Outcome.
LEMMA OutcomeStep ==
    ASSUME TypeOK, RowsExist, Outcome, [Next]_vars
    PROVE  Outcome'
<1>1. CASE Still
  BY <1>1, OutcomeFrame DEF Still, published
<1>2. CASE Launches
  <2>1. \A r \in Runs : run'[r].pc = "release" => run'[r] = run[r]
    BY <1>2 DEF Launches, StartWorker, TypeOK, RunState
  <2>. QED
    BY <1>2, <2>1, OutcomeFrame DEF Launches, published
<1>3. ASSUME NEW q \in Requests, NEW j \in Jobs, NEW b \in Branches,
             InsertJob(q, j, b)
      PROVE  Outcome'
  BY <1>3, OutcomeFrame DEF InsertJob, canon, TypeOK
<1>4. ASSUME NEW r \in Runs, Claim(r)
      PROVE  Outcome'
  <2>1. \A s \in Runs : run'[s].pc = "release" => run'[s] = run[s]
    BY <1>4 DEF Claim, TypeOK, RunState
  <2>. QED
    BY <1>4, <2>1, OutcomeFrame DEF Claim, canon, TypeOK
<1>5. ASSUME NEW r \in Runs, ReadContext(r) \/ StageCandidate(r)
      PROVE  Outcome'
  <2>1. run'[r].pc # "release" /\ \A s \in Runs \ {r} : run'[s] = run[s]
    BY <1>5, MoveState
  <2>. QED
    BY <1>5, <2>1, OutcomeFrame DEF ReadContext, StageCandidate, jobRows,
       canon
<1>6. ASSUME NEW r \in Runs, Thinks(r)
      PROVE  Outcome'
  <2>1. \A s \in Runs : run'[s].pc = "release" => run'[s] = run[s]
    BY <1>6 DEF Thinks, Thinking
  <2>. QED
    BY <1>6, <2>1, OutcomeFrame DEF Thinks, published
<1>7. ASSUME NEW r \in Runs, CommitCandidate(r)
      PROVE  Outcome'
  <2>. DEFINE j == run[r].job
  <2>1. /\ j \in Jobs /\ candidate[j] = "none"
        /\ run'[r].job = j /\ run'[r].approved = run[r].approved
        /\ \A s \in Runs \ {r} : run'[s] = run[s]
        /\ status' = status
    BY <1>7 DEF CommitCandidate, TypeOK, RunState, RowsExist, Rows, jobRows
  <2>2. /\ status[j] \notin {"SUCCEEDED", "BLOCKED"}
        /\ \A s \in Runs : run[s].pc = "release" => run[s].job # j
        /\ \A c \in chapters : c.job # j
    BY <2>1 DEF Outcome
  <2>3. CASE run[r].approved
    <3>1. /\ candidate' = [candidate EXCEPT ![j] = "APPROVED"]
          /\ \E c : c.job = j /\ chapters' = chapters \cup {c}
      BY <1>7, <2>3 DEF CommitCandidate
    <3>2. PICK c : c.job = j /\ chapters' = chapters \cup {c}
      BY <3>1
    <3>3. /\ candidate'[j] = "APPROVED"
          /\ \A i \in Jobs \ {j} : candidate'[i] = candidate[i]
      BY <2>1, <3>1 DEF TypeOK
    <3>4. \A d \in chapters' :
            d.job \in Jobs /\ candidate'[d.job] = "APPROVED"
      BY <2>1, <2>2, <3>2, <3>3 DEF Outcome
    <3>5. \A i \in Jobs :
            candidate'[i] = "APPROVED" => \E d \in chapters' : d.job = i
      BY <3>2, <3>3 DEF Outcome
    <3>6. \A t \in Runs : run'[t].pc = "release" =>
            /\ run'[t].job \in Jobs
            /\ candidate'[run'[t].job] =
                 IF run'[t].approved THEN "APPROVED" ELSE "REJECTED"
      <4>1. ASSUME NEW t \in Runs \ {r}, run'[t].pc = "release"
            PROVE  /\ run[t].job \in Jobs \ {j}
                   /\ candidate[run[t].job] =
                        IF run[t].approved THEN "APPROVED" ELSE "REJECTED"
        BY <2>1, <2>2, <4>1 DEF Outcome
      <4>2. (IF run'[r].approved THEN "APPROVED" ELSE "REJECTED")
              = "APPROVED"
        <5>1. run'[r].approved
          BY <2>1, <2>3, Zenon
        <5>. QED
          BY <5>1, Zenon
      <4>. QED
        BY <2>1, <3>3, <4>1, <4>2
    <3>7. \A i \in Jobs :
            /\ status'[i] = "SUCCEEDED" => candidate'[i] = "APPROVED"
            /\ status'[i] = "BLOCKED" => candidate'[i] = "REJECTED"
      BY <2>1, <2>2, <3>3 DEF Outcome
    <3>. QED
      BY <3>4, <3>5, <3>6, <3>7 DEF Outcome
  <2>4. CASE ~run[r].approved
    <3>1. /\ candidate' = [candidate EXCEPT ![j] = "REJECTED"]
          /\ chapters' = chapters
      BY <1>7, <2>4 DEF CommitCandidate
    <3>. QED
      BY <2>1, <2>2, <2>4, <3>1 DEF Outcome, TypeOK
  <2>. QED
    BY <2>3, <2>4
<1>8. ASSUME NEW r \in Runs, Stops(r)
      PROVE  Outcome'
  BY <1>8, ExitState, OutcomeFrame DEF Stops, published
<1>9. ASSUME NEW r \in Runs, Ends(r, "FAILED")
      PROVE  Outcome'
  BY <1>9, ExitState, OutcomeFrame DEF Ends, ReleaseJob, TypeOK
<1>10. ASSUME NEW r \in Runs, Release(r)
      PROVE  Outcome'
  <2>. DEFINE j == run[r].job
              s == IF run[r].approved THEN "SUCCEEDED" ELSE "BLOCKED"
  <2>1. /\ j \in Jobs
        /\ candidate[j] = IF run[r].approved THEN "APPROVED" ELSE "REJECTED"
    BY <1>10 DEF Release, Outcome
  <2>2. /\ status' = [status EXCEPT ![j] = s]
        /\ UNCHANGED <<candidate, chapters>>
    BY <1>10 DEF Release, ReleaseJob, canon
  <2>3. \A t \in Runs : run'[t].pc = "release" => run'[t] = run[t]
    BY <1>10, ExitState DEF Release
  <2>. QED
    BY <2>1, <2>2, <2>3 DEF Outcome, TypeOK
<1>11. ASSUME NEW j \in Jobs, ReleaseStuckJob(j)
      PROVE  Outcome'
  BY <1>11, OutcomeFrame DEF ReleaseStuckJob, canon, procs, TypeOK
<1>. QED
  BY <1>1, <1>2, <1>3, <1>4, <1>5, <1>6, <1>7, <1>8, <1>9, <1>10, <1>11,
     StepKinds

\* A job that reports SUCCEEDED has published its chapter, and one that reports
\* BLOCKED has none, also when an operator or a crash interfered.
THEOREM OutcomeIsCanon == Spec => []OutcomeMatchesCanon
<1>1. Init => Outcome
  BY DEF Init, Outcome, FreshRun
<1>2. IInv /\ Outcome /\ [Next]_vars => Outcome'
  BY OutcomeStep DEF IInv
<1>3. Outcome => OutcomeMatchesCanon
  BY DEF Outcome, OutcomeMatchesCanon
<1>. QED
  BY <1>1, <1>2, <1>3, Invariance, PTL DEF Spec

-----------------------------------------------------------------------------
(* Workers and the jobs they run.                                          *)

\* A working worker has claimed its job, and unless an operator released a
\* job too early, the job is RUNNING as long as its worker works.
Diligent ==
    \A r \in Runs : run[r].pc \in Working =>
        /\ run[r].claimed /\ run[r].job \in Jobs
        /\ ~hasty => status[run[r].job] = "RUNNING"

\* A step that starts no worker's work and leaves the status of jobs being
\* worked on keeps Diligent.
LEMMA DiligentFrame ==
    ASSUME Diligent, ~hasty' => ~hasty,
           \A r \in Runs : run'[r].pc \in Working =>
               /\ run[r].pc \in Working
               /\ run'[r].job = run[r].job
               /\ run'[r].claimed = run[r].claimed
               /\ ~hasty' /\ status[run[r].job] = "RUNNING" =>
                    status'[run[r].job] = "RUNNING"
    PROVE  Diligent'
  BY DEF Diligent

\* When a worker ends its job, no other worker works on it.
LEMMA EndsAlone ==
    ASSUME TypeOK, RowsExist, Claims, Diligent, NEW r \in Runs, Exit(r),
           run[r].pc \in Working,
           NEW s \in Runs, run'[s].pc \in Working
    PROVE  s # r /\ run'[s] = run[s] /\ run[s].job # run[r].job
<1>1. s # r /\ run'[s] = run[s]
  BY ExitState DEF Working
<1>. QED
  BY <1>1 DEF Claims, OneWorkerPerJob, Diligent

\* Every step keeps Diligent.
LEMMA DiligentStep ==
    ASSUME TypeOK, RowsExist, Claims, Diligent, [Next]_vars
    PROVE  Diligent'
<1>1. CASE Still
  BY <1>1, DiligentFrame DEF Still, published
<1>2. CASE Launches
  <2>1. \A r \in Runs : run'[r].pc \in Working => run'[r] = run[r]
    BY <1>2 DEF Launches, StartWorker, TypeOK, RunState, Working
  <2>. QED
    BY <1>2, <2>1, DiligentFrame DEF Launches, published
<1>3. ASSUME NEW q \in Requests, NEW j \in Jobs, NEW b \in Branches,
             InsertJob(q, j, b)
      PROVE  Diligent'
  <2>1. /\ run' = run /\ hasty' = hasty /\ status[j] = "none"
        /\ \A i \in Jobs \ {j} : status'[i] = status[i]
    BY <1>3 DEF InsertJob, TypeOK, faults
  <2>. QED
    BY <2>1, DiligentFrame DEF Diligent
<1>4. ASSUME NEW r \in Runs, Claim(r)
      PROVE  Diligent'
  <2>1. /\ run[r].job \in Jobs
        /\ run'[r].claimed /\ run'[r].job = run[r].job
        /\ \A s \in Runs \ {r} : run'[s] = run[s]
    BY <1>4 DEF Claim, TypeOK, RunState, RowsExist, Rows
  <2>2. /\ status'[run[r].job] = "RUNNING" /\ hasty' = hasty
        /\ \A i \in Jobs \ {run[r].job} : status'[i] = status[i]
    BY <1>4, <2>1 DEF Claim, TypeOK, faults
  <2>. QED
    BY <2>1, <2>2 DEF Diligent
<1>5. ASSUME NEW r \in Runs, ReadContext(r) \/ StageCandidate(r)
      PROVE  Diligent'
  <2>1. UNCHANGED <<status, hasty>>
    BY <1>5 DEF ReadContext, StageCandidate, jobRows, faults
  <2>. QED
    BY <1>5, <2>1, MoveState, DiligentFrame DEF Working
<1>6. ASSUME NEW r \in Runs, Thinks(r)
      PROVE  Diligent'
  BY <1>6, DiligentFrame DEF Thinks, Thinking, Working, published
<1>7. ASSUME NEW r \in Runs, CommitCandidate(r)
      PROVE  Diligent'
  <2>1. /\ UNCHANGED <<status, hasty>>
        /\ run[r].pc = "commit" /\ run'[r].pc = "release"
        /\ run'[r].job = run[r].job /\ run'[r].claimed = run[r].claimed
        /\ \A s \in Runs \ {r} : run'[s] = run[s]
    BY <1>7 DEF CommitCandidate, TypeOK, RunState, jobRows, faults
  <2>. QED
    BY <2>1, DiligentFrame DEF Working
<1>8. ASSUME NEW r \in Runs, Stops(r)
      PROVE  Diligent'
  BY <1>8, ExitState, DiligentFrame DEF Stops, published, Working
<1>9. ASSUME NEW r \in Runs, NEW s, Ends(r, s)
      PROVE  Diligent'
  <2>1. /\ hasty' = hasty
        /\ status' = [status EXCEPT ![run[r].job] = s]
    BY <1>9 DEF Ends, ReleaseJob
  <2>2. \A t \in Runs : run'[t].pc \in Working =>
          run'[t] = run[t] /\ run[t].job # run[r].job
    BY <1>9, EndsAlone DEF Ends
  <2>3. \A t \in Runs : run'[t].pc \in Working =>
          status'[run[t].job] = status[run[t].job]
    BY <2>1, <2>2 DEF Diligent, TypeOK
  <2>. QED
    BY <2>1, <2>2, <2>3, DiligentFrame
<1>10. ASSUME NEW r \in Runs, Release(r)
      PROVE  Diligent'
  BY <1>9, <1>10, ReleaseEnds
<1>11. ASSUME NEW j \in Jobs, ReleaseStuckJob(j)
      PROVE  Diligent'
  <2>1. /\ run' = run
        /\ hasty' = (hasty \/ LiveWorker(j))
        /\ \A i \in Jobs \ {j} : status'[i] = status[i]
    BY <1>11 DEF ReleaseStuckJob, procs, TypeOK
  <2>2. ~hasty' => ~hasty /\ ~LiveWorker(j)
    BY <2>1
  <2>. QED
    BY <2>1, <2>2, DiligentFrame DEF Diligent, LiveWorker
<1>. QED
  BY <1>1, <1>2, <1>3, <1>4, <1>5, <1>6, <1>7, <1>8, <1>9, <1>10, <1>11,
     StepKinds

\* The joint invariant, and that it holds throughout.
DInv == IInv /\ Diligent

LEMMA DiligentAlways == Spec => []DInv
<1>1. Init => Diligent
  BY DEF Init, Diligent, FreshRun, Working
<1>2. IInv /\ Diligent /\ [Next]_vars => Diligent'
  BY DiligentStep DEF IInv
<1>. QED
  BY <1>1, <1>2, Invariance, PTL DEF Spec, DInv

\* Once a job reports its end, no late release_job of a slow or duplicate
\* worker changes the report, unless an operator released the job too early.
THEOREM ReportsAreFinal == Spec => FinalIsFinal
<1>1. ASSUME DInv, [Next]_vars
      PROVE  ~hasty => \A j \in Jobs : status[j] \in Terminal =>
                                          status'[j] = status[j]
  <2>. SUFFICES ASSUME ~hasty, NEW j \in Jobs, status[j] \in Terminal
                PROVE  status'[j] = status[j]
    OBVIOUS
  <2>. USE DEF DInv, IInv, Terminal
  <2>1. CASE Still \/ Launches
    BY <1>1, <2>1 DEF Still, Launches, published
  <2>2. ASSUME NEW q \in Requests, NEW i \in Jobs, NEW b \in Branches,
               InsertJob(q, i, b)
        PROVE  status'[j] = status[j]
    BY <1>1, <2>2 DEF InsertJob, TypeOK
  <2>3. ASSUME NEW r \in Runs, Claim(r)
        PROVE  status'[j] = status[j]
    BY <1>1, <2>3 DEF Claim, Claimable, TypeOK
  <2>4. ASSUME NEW r \in Runs, ReadContext(r) \/ StageCandidate(r)
                                \/ CommitCandidate(r)
        PROVE  status'[j] = status[j]
    BY <1>1, <2>4 DEF ReadContext, StageCandidate, CommitCandidate, jobRows
  <2>5. ASSUME NEW r \in Runs, Thinks(r) \/ Stops(r)
        PROVE  status'[j] = status[j]
    BY <1>1, <2>5 DEF Thinks, Stops, published
  <2>6. ASSUME NEW r \in Runs, NEW s, Ends(r, s)
        PROVE  status'[j] = status[j]
    <3>1. status[run[r].job] = "RUNNING"
      BY <1>1, <2>6 DEF Ends, Diligent
    <3>. QED
      BY <1>1, <2>6, <3>1 DEF Ends, ReleaseJob, TypeOK
  <2>7. ASSUME NEW i \in Jobs, ReleaseStuckJob(i)
        PROVE  status'[j] = status[j]
    BY <1>1, <2>7 DEF ReleaseStuckJob, Active, TypeOK
  <2>. QED
    BY <1>1, <2>1, <2>2, <2>3, <2>4, <2>5, <2>6, <2>7, StepKinds,
       ReleaseEnds
<1>. QED
  BY <1>1, DiligentAlways, PTL DEF Spec, FinalIsFinal

\* A step that makes no job RUNNING and takes no worker from a RUNNING job
\* keeps RunningHasWorker.
LEMMA AttendedFrame ==
    ASSUME RunningHasWorker,
           ~hasty' /\ crashes' = 0 => ~hasty /\ crashes = 0,
           \A j \in Jobs : status'[j] = "RUNNING" => status[j] = "RUNNING",
           \A r \in Runs :
               /\ run[r].pc \in Working
               /\ status'[run[r].job] = "RUNNING"
               /\ ~hasty' /\ crashes' = 0
               => run'[r].pc \in Working /\ run'[r].job = run[r].job
    PROVE  RunningHasWorker'
  BY DEF RunningHasWorker, LiveWorker

\* Every step keeps RunningHasWorker.
LEMMA AttendedStep ==
    ASSUME TypeOK, RowsExist, Diligent, RunningHasWorker, [Next]_vars
    PROVE  RunningHasWorker'
<1>0. crashes \in Nat
  BY DEF TypeOK
<1>1. CASE Still
  BY <1>0, <1>1, AttendedFrame DEF Still, published
<1>2. CASE Launches
  <2>1. \A r \in Runs : run[r].pc \in Working => run'[r] = run[r]
    BY <1>2 DEF Launches, StartWorker, TypeOK, RunState, Working
  <2>. QED
    BY <1>2, <2>1, AttendedFrame DEF Launches, published
<1>3. ASSUME NEW q \in Requests, NEW j \in Jobs, NEW b \in Branches,
             InsertJob(q, j, b)
      PROVE  RunningHasWorker'
  <2>1. /\ UNCHANGED <<run, hasty, crashes>>
        /\ status' = [status EXCEPT ![j] = "QUEUED"]
    BY <1>3 DEF InsertJob, faults
  <2>2. \A i \in Jobs : status'[i] = "RUNNING" => status[i] = "RUNNING"
    BY <2>1 DEF TypeOK
  <2>. QED
    BY <2>1, <2>2, AttendedFrame
<1>4. ASSUME NEW r \in Runs, Claim(r)
      PROVE  RunningHasWorker'
  <2>1. /\ UNCHANGED <<hasty, crashes>>
        /\ run[r].pc = "launched"
        /\ run'[r].pc \in Working /\ run'[r].job = run[r].job
        /\ \A s \in Runs \ {r} : run'[s] = run[s]
    BY <1>4 DEF Claim, TypeOK, RunState, Working, faults
  <2>2. \A i \in Jobs \ {run[r].job} : status'[i] = status[i]
    BY <1>4 DEF Claim, TypeOK
  <2>. QED
    BY <2>1, <2>2 DEF RunningHasWorker, LiveWorker, Working
<1>5. ASSUME NEW r \in Runs, ReadContext(r) \/ StageCandidate(r)
      PROVE  RunningHasWorker'
  <2>1. UNCHANGED <<status, hasty, crashes>>
    BY <1>5 DEF ReadContext, StageCandidate, jobRows, faults
  <2>. QED
    BY <1>5, <2>1, MoveState, AttendedFrame DEF Working
<1>6. ASSUME NEW r \in Runs, Thinks(r)
      PROVE  RunningHasWorker'
  BY <1>6, AttendedFrame DEF Thinks, Thinking, Working, published
<1>7. ASSUME NEW r \in Runs, CommitCandidate(r)
      PROVE  RunningHasWorker'
  <2>1. /\ UNCHANGED <<status, hasty, crashes>>
        /\ run'[r].pc = "release" /\ run'[r].job = run[r].job
        /\ \A s \in Runs \ {r} : run'[s] = run[s]
    BY <1>7 DEF CommitCandidate, TypeOK, RunState, jobRows, faults
  <2>. QED
    BY <2>1, AttendedFrame DEF Working
<1>8. ASSUME NEW r \in Runs, Stops(r)
      PROVE  RunningHasWorker'
  <2>1. UNCHANGED <<status, hasty>>
    BY <1>8 DEF Stops, published
  <2>2. crashes' = 0 => crashes = 0 /\ run[r].pc \notin Working
    BY <1>0, <1>8 DEF Stops
  <2>3. \A s \in Runs \ {r} : run'[s] = run[s]
    BY <1>8, ExitState DEF Stops
  <2>. QED
    BY <2>1, <2>2, <2>3, AttendedFrame
<1>9. ASSUME NEW r \in Runs, NEW s \in {"SUCCEEDED", "FAILED", "BLOCKED"},
             Ends(r, s)
      PROVE  RunningHasWorker'
  <2>1. /\ UNCHANGED <<hasty, crashes>>
        /\ run[r].pc \in Working
        /\ status' = [status EXCEPT ![run[r].job] = s]
    BY <1>9 DEF Ends, ReleaseJob
  <2>2. run[r].job \in Jobs
    BY <2>1 DEF Diligent
  <2>3. /\ status'[run[r].job] # "RUNNING"
        /\ \A j \in Jobs \ {run[r].job} : status'[j] = status[j]
    BY <2>1, <2>2 DEF TypeOK
  <2>4. \A t \in Runs \ {r} : run'[t] = run[t]
    BY <1>9, ExitState DEF Ends
  <2>. QED
    BY <2>1, <2>3, <2>4, AttendedFrame
<1>10. ASSUME NEW r \in Runs, Release(r)
      PROVE  RunningHasWorker'
  BY <1>9, <1>10, ReleaseEnds
<1>11. ASSUME NEW j \in Jobs, ReleaseStuckJob(j)
      PROVE  RunningHasWorker'
  <2>1. /\ UNCHANGED <<run, crashes>>
        /\ hasty' = (hasty \/ LiveWorker(j))
        /\ status' = [status EXCEPT ![j] = "FAILED"]
    BY <1>11 DEF ReleaseStuckJob, procs
  <2>2. ~hasty' => ~hasty
    BY <2>1
  <2>3. \A i \in Jobs : status'[i] = "RUNNING" => status[i] = "RUNNING"
    BY <2>1 DEF TypeOK
  <2>. QED
    BY <2>1, <2>2, <2>3, AttendedFrame
<1>. QED
  BY <1>1, <1>2, <1>3, <1>4, <1>5, <1>6, <1>7, <1>8, <1>9, <1>10, <1>11,
     StepKinds

\* Whatever exception a worker meets after its claim, a RUNNING job has a
\* worker that will release it, as long as no process died.
THEOREM RunningIsAttended == Spec => []RunningHasWorker
<1>1. Init => RunningHasWorker
  BY DEF Init, RunningHasWorker
<1>2. DInv /\ RunningHasWorker /\ [Next]_vars => RunningHasWorker'
  BY AttendedStep DEF DInv, IInv
<1>. QED
  BY <1>1, <1>2, DiligentAlways, PTL DEF Spec

-----------------------------------------------------------------------------
(* The place of a chapter.                                                 *)

\* generation_jobs_one_active_branch_idx: a branch has one active job.
OneActive ==
    \A i, j \in Jobs :
        Active(i) /\ Active(j) /\ branch[i] = branch[j] => i = j

\* From the read of the branch's chapters to the publication, the branch ends
\* before the chapter the model was told to write.
InPlace ==
    ~hasty =>
        /\ \A r \in Runs : run[r].pc \in Thinking \cup {"commit"} =>
             Numbered(branch[run[r].job], run[r].told - 1)
        /\ \A r \in Runs : run[r].pc = "commit" =>
             run[r].index = run[r].told
        /\ \A c \in chapters : c.writtenAs = c.index

\* Every step keeps a branch to one active job.
LEMMA OneActiveStep ==
    ASSUME TypeOK, RowsExist, Diligent, OneActive, [Next]_vars
    PROVE  OneActive'
<1>1. ASSUME NEW q \in Requests, NEW j \in Jobs, NEW b \in Branches,
             InsertJob(q, j, b)
      PROVE  OneActive'
  <2>1. /\ branch'[j] = b
        /\ \A i \in Jobs \ {j} : /\ branch'[i] = branch[i]
                                 /\ status'[i] = status[i]
        /\ \A i \in Jobs : Active(i) => branch[i] # b
    BY <1>1 DEF InsertJob, BranchFree, TypeOK
  <2>. QED
    BY <2>1 DEF OneActive, Active
<1>2. ASSUME branch' = branch, \A j \in Jobs : Active(j)' => Active(j)
      PROVE  OneActive'
  BY <1>2 DEF OneActive
<1>3. CASE Still \/ Launches
  BY <1>2, <1>3 DEF Still, Launches, published, Active
<1>4. ASSUME NEW r \in Runs, Claim(r)
      PROVE  OneActive'
  BY <1>2, <1>4 DEF Claim, Claimable, Active, TypeOK
<1>5. ASSUME NEW r \in Runs,
             ReadContext(r) \/ StageCandidate(r) \/ CommitCandidate(r)
      PROVE  OneActive'
  BY <1>2, <1>5 DEF ReadContext, StageCandidate, CommitCandidate, jobRows,
     Active
<1>6. ASSUME NEW r \in Runs, Thinks(r) \/ Stops(r)
      PROVE  OneActive'
  BY <1>2, <1>6 DEF Thinks, Stops, published, Active
<1>7. ASSUME NEW r \in Runs, NEW s \in {"SUCCEEDED", "FAILED", "BLOCKED"},
             Ends(r, s)
      PROVE  OneActive'
  BY <1>2, <1>7 DEF Ends, ReleaseJob, Diligent, Active, TypeOK
<1>8. ASSUME NEW j \in Jobs, ReleaseStuckJob(j)
      PROVE  OneActive'
  BY <1>2, <1>8 DEF ReleaseStuckJob, Active, TypeOK
<1>. QED
  BY <1>1, <1>3, <1>4, <1>5, <1>6, <1>7, <1>8, StepKinds, ReleaseEnds

\* A step that publishes nothing, tells no worker anything and keeps the
\* branches of jobs being worked on keeps InPlace.
LEMMA PlaceFrame ==
    ASSUME InPlace, chapters' = chapters, ~hasty' => ~hasty,
           \A r \in Runs : run'[r].pc \in Thinking \cup {"commit"} =>
               /\ run[r].pc \in Thinking \cup {"commit"}
               /\ run'[r].told = run[r].told
               /\ branch'[run'[r].job] = branch[run[r].job],
           \A r \in Runs : run'[r].pc = "commit" =>
               run[r].pc = "commit" /\ run'[r].index = run[r].index
    PROVE  InPlace'
  BY DEF InPlace, Numbered, IndicesOf

\* What a worker reads is the place of the next chapter.
LEMMA ReadPlace ==
    ASSUME TypeOK, Contiguous, NEW b \in Branches
    PROVE  Numbered(b, NextIndex(b) - 1)
<1>1. PICK n \in Nat : Numbered(b, n)
  BY DEF Contiguous
<1>2. NextIndex(b) = n + 1
  BY <1>1, NextIndexIs
<1>. QED
  BY <1>1, <1>2

\* Reading the context puts the worker in place.
LEMMA ReadContextInPlace ==
    ASSUME TypeOK, RowsExist, Contiguous, InPlace,
           NEW r \in Runs, ReadContext(r)
    PROVE  InPlace'
<1>. DEFINE b == branch[run[r].job]
<1>1. b \in Branches
  BY DEF ReadContext, RowsExist, Rows
<1>2. /\ UNCHANGED <<chapters, hasty, branch>>
      /\ run'[r].pc = "agents" /\ run'[r].told = NextIndex(b)
      /\ run'[r].job = run[r].job
      /\ \A s \in Runs \ {r} : run'[s] = run[s]
  BY DEF ReadContext, jobRows, canon, faults, TypeOK, RunState
<1>3. Numbered(b, NextIndex(b) - 1)
  BY <1>1, ReadPlace
<1>. HIDE DEF b
<1>4. \A s \in Runs : run'[s].pc \in Thinking \cup {"commit"} /\ ~hasty =>
        Numbered(branch[run'[s].job], run'[s].told - 1)
  BY <1>2, <1>3 DEF InPlace, b
<1>. QED
  BY <1>2, <1>4 DEF InPlace, Numbered, IndicesOf

\* The second read of MAX(chapter_index) finds what the first one found.
LEMMA StageInPlace ==
    ASSUME TypeOK, RowsExist, InPlace, NEW r \in Runs, StageCandidate(r)
    PROVE  InPlace'
<1>. DEFINE b == branch[run[r].job]
            n == NextIndex(b)
            staged(ok) == [run[r] EXCEPT !.pc = "commit", !.approved = ok,
                                         !.index = n]
<1>1. /\ UNCHANGED <<chapters, hasty, branch>>
      /\ run[r].pc = "verdict"
      /\ \E ok \in BOOLEAN : run' = [run EXCEPT ![r] = staged(ok)]
  BY DEF StageCandidate, jobRows, canon, faults
<1>2. run[r] \in RunState
  BY DEF TypeOK
<1>3. ~hasty => n = run[r].told
  <2>. SUFFICES ASSUME ~hasty PROVE n = run[r].told
    OBVIOUS
  <2>1. Numbered(b, run[r].told - 1)
    BY <1>1 DEF InPlace, Thinking
  <2>2. run[r].told - 1 \in Nat /\ run[r].told \in Nat
    BY <1>2 DEF RunState
  <2>3. n = run[r].told - 1 + 1
    BY <2>1, <2>2, NextIndexIs
  <2>. QED
    BY <2>2, <2>3
<1>. HIDE DEF n
<1>4. \A ok \in BOOLEAN : /\ staged(ok).pc = "commit"
                          /\ staged(ok).job = run[r].job
                          /\ staged(ok).told = run[r].told
                          /\ staged(ok).index = n
  BY <1>2 DEF RunState
<1>. HIDE DEF staged
<1>5. /\ run'[r].pc = "commit" /\ run'[r].job = run[r].job
      /\ run'[r].told = run[r].told /\ run'[r].index = n
      /\ \A s \in Runs \ {r} : run'[s] = run[s]
  BY <1>1, <1>4 DEF TypeOK
<1>6. \A s \in Runs : run'[s].pc \in Thinking \cup {"commit"} /\ ~hasty =>
        Numbered(branch[run'[s].job], run'[s].told - 1)
  BY <1>1, <1>5 DEF InPlace, Thinking
<1>7. \A s \in Runs : run'[s].pc = "commit" /\ ~hasty =>
        run'[s].index = run'[s].told
  BY <1>3, <1>5 DEF InPlace
<1>. QED
  BY <1>1, <1>6, <1>7 DEF InPlace, Numbered, IndicesOf

\* A publication leaves the other workers in place, for they work on other
\* branches.
LEMMA CommitInPlace ==
    ASSUME TypeOK, RowsExist, Claims, Diligent, OneActive, InPlace,
           NEW r \in Runs, CommitCandidate(r)
    PROVE  InPlace'
<1>. SUFFICES ASSUME ~hasty'
              PROVE  InPlace'
  BY DEF InPlace
<1>. DEFINE j == run[r].job
            b == branch[j]
<1>1. /\ UNCHANGED <<hasty, branch>>
      /\ run[r].pc = "commit" /\ run'[r].pc = "release"
      /\ \A s \in Runs \ {r} : run'[s] = run[s]
  BY DEF CommitCandidate, jobRows, faults, TypeOK, RunState
<1>2. ~hasty
  BY <1>1
<1>3. \/ chapters' = chapters
      \/ chapters' = chapters \cup {[branch |-> b, index |-> run[r].index,
                                    job |-> j, writtenAs |-> run[r].told]}
  BY DEF CommitCandidate
<1>4. run[r].index = run[r].told
  BY <1>1, <1>2 DEF InPlace
<1>5. \A c \in chapters' : c.writtenAs = c.index
  BY <1>2, <1>3, <1>4 DEF InPlace
<1>6. \A s \in Runs \ {r} : run[s].pc \in Thinking \cup {"commit"} =>
        branch[run[s].job] # b
  <2>. SUFFICES ASSUME NEW s \in Runs \ {r},
                       run[s].pc \in Thinking \cup {"commit"},
                       branch[run[s].job] = b
                PROVE  FALSE
    OBVIOUS
  <2>1. /\ run[s].claimed /\ run[s].job \in Jobs
        /\ status[run[s].job] = "RUNNING"
    BY <1>2 DEF Diligent, Thinking, Working
  <2>2. run[r].claimed /\ j \in Jobs /\ status[j] = "RUNNING"
    BY <1>1, <1>2 DEF Diligent, Working
  <2>3. run[s].job = j
    BY <2>1, <2>2 DEF OneActive, Active
  <2>. QED
    BY <2>1, <2>2, <2>3 DEF Claims, OneWorkerPerJob
<1>7. \A s \in Runs : run'[s].pc \in Thinking \cup {"commit"} =>
        /\ s # r /\ run'[s] = run[s]
        /\ IndicesOf(branch[run[s].job])' = IndicesOf(branch[run[s].job])
  <2>. SUFFICES ASSUME NEW s \in Runs,
                       run'[s].pc \in Thinking \cup {"commit"}
                PROVE  /\ s # r /\ run'[s] = run[s]
                       /\ IndicesOf(branch[run[s].job])'
                            = IndicesOf(branch[run[s].job])
    OBVIOUS
  <2>1. s # r /\ run'[s] = run[s]
    BY <1>1 DEF Thinking
  <2>2. branch[run[s].job] # b
    BY <1>6, <2>1
  <2>. QED
    BY <1>1, <1>3, <2>1, <2>2 DEF IndicesOf
<1>8. \A s \in Runs : run'[s].pc \in Thinking \cup {"commit"} =>
        Numbered(branch[run[s].job], run[s].told - 1)'
  BY <1>1, <1>2, <1>7 DEF InPlace, Numbered
<1>9. \A s \in Runs : run'[s].pc = "commit" => run'[s].index = run'[s].told
  BY <1>1, <1>2 DEF InPlace
<1>. QED
  BY <1>5, <1>8, <1>9 DEF InPlace

\* Every step keeps InPlace.
LEMMA InPlaceStep ==
    ASSUME TypeOK, RowsExist, Contiguous, Claims, Diligent, OneActive,
           InPlace, [Next]_vars
    PROVE  InPlace'
<1>1. CASE Still
  BY <1>1, PlaceFrame DEF Still, published
<1>2. CASE Launches
  <2>1. \A r \in Runs :
          run'[r].pc \in Thinking \cup {"commit"} => run'[r] = run[r]
    BY <1>2 DEF Launches, StartWorker, TypeOK, RunState, Thinking
  <2>. QED
    BY <1>2, <2>1, PlaceFrame DEF Launches, published
<1>3. ASSUME NEW q \in Requests, NEW j \in Jobs, NEW b \in Branches,
             InsertJob(q, j, b)
      PROVE  InPlace'
  <2>1. /\ UNCHANGED <<run, hasty, chapters>>
        /\ status[j] = "none"
        /\ \A i \in Jobs \ {j} : branch'[i] = branch[i]
    BY <1>3 DEF InsertJob, canon, faults, TypeOK
  <2>2. \A r \in Runs : run[r].pc \in Thinking \cup {"commit"} =>
          run[r].job \in Jobs \ {j}
    BY <2>1 DEF Claims, Diligent, Thinking, Working
  <2>. QED
    BY <2>1, <2>2, PlaceFrame
<1>4. ASSUME NEW r \in Runs, Claim(r)
      PROVE  InPlace'
  <2>1. /\ UNCHANGED <<branch, chapters, hasty>>
        /\ run'[r].pc = "context"
        /\ \A s \in Runs \ {r} : run'[s] = run[s]
    BY <1>4 DEF Claim, canon, faults, TypeOK, RunState
  <2>. QED
    BY <2>1, PlaceFrame DEF Thinking
<1>5. ASSUME NEW r \in Runs, ReadContext(r)
      PROVE  InPlace'
  BY <1>5, ReadContextInPlace
<1>6. ASSUME NEW r \in Runs, Thinks(r)
      PROVE  InPlace'
  BY <1>6, PlaceFrame DEF Thinks, Thinking, published
<1>7. ASSUME NEW r \in Runs, StageCandidate(r)
      PROVE  InPlace'
  BY <1>7, StageInPlace
<1>8. ASSUME NEW r \in Runs, CommitCandidate(r)
      PROVE  InPlace'
  BY <1>8, CommitInPlace
<1>9. ASSUME NEW r \in Runs, Exit(r), UNCHANGED <<branch, chapters, hasty>>
      PROVE  InPlace'
  BY <1>9, ExitState, PlaceFrame DEF Thinking
<1>10. ASSUME NEW r \in Runs, Stops(r) \/ Ends(r, "FAILED") \/ Release(r)
      PROVE  InPlace'
  BY <1>9, <1>10 DEF Stops, Ends, Release, published, canon, faults
<1>11. ASSUME NEW j \in Jobs, ReleaseStuckJob(j)
      PROVE  InPlace'
  <2>1. /\ UNCHANGED <<run, branch, chapters>>
        /\ hasty' = (hasty \/ LiveWorker(j))
    BY <1>11 DEF ReleaseStuckJob, canon, procs
  <2>2. ~hasty' => ~hasty
    BY <2>1
  <2>. QED
    BY <2>1, <2>2, PlaceFrame
<1>. QED
  BY <1>1, <1>2, <1>3, <1>4, <1>5, <1>6, <1>7, <1>8, <1>10, <1>11, StepKinds

\* A chapter takes the place that the model was told it would have, however
\* long the model calls took and whoever else was generating, unless an
\* operator released a job too early.
THEOREM WrittenInPlace == Spec => []WrittenForItsPlace
<1>. DEFINE PInv == OneActive /\ InPlace
<1>1. Init => PInv
  BY DEF Init, OneActive, Active, InPlace, FreshRun, Thinking
<1>2. DInv /\ PInv /\ [Next]_vars => PInv'
  BY OneActiveStep, InPlaceStep DEF DInv, IInv
<1>3. PInv => WrittenForItsPlace
  BY DEF InPlace, WrittenForItsPlace
<1>. HIDE DEF PInv
<1>. QED
  BY <1>1, <1>2, <1>3, DiligentAlways, PTL DEF Spec

-----------------------------------------------------------------------------
(* The outbox.                                                             *)

Started(j) == \E r \in Runs : run[r].job = j

\* Whoever is about to mark an outbox row, or has marked it, launched a
\* worker for its job before.
Delivered ==
    /\ \A j \in Jobs : outbox[j] = "published" => Started(j)
    /\ \A d \in Dispatchers :
         dispatcher[d].launched # 0 => Started(dispatcher[d].launched)
    /\ \A q \in Requests :
         request[q].pc = "mark" => Started(request[q].job)
    /\ \A r \in Runs : run[r].pc = "free" => run[r].job = 0

\* StartWorker leaves a worker for its job.
LEMMA StartedNow ==
    ASSUME TypeOK, NEW j, StartWorker(j)
    PROVE  \E r \in Runs : run'[r].job = j
<1>1. PICK r \in Runs :
        run' = [run EXCEPT ![r].pc = "launched", ![r].job = j]
  BY DEF StartWorker
<1>2. run'[r].job = j
  BY <1>1 DEF TypeOK, RunState
<1>. QED
  BY <1>2

\* A worker that was started is never reused for another job, so that it was
\* started stays true.
LEMMA JobsStay ==
    ASSUME TypeOK, RowsExist, Delivered, [Next]_vars, NEW r \in Runs
    PROVE  /\ run'[r].pc = "free" => run'[r].job = 0
           /\ run[r].job # 0 => run'[r].job = run[r].job
<1>1. CASE Still
  BY <1>1 DEF Still, Delivered
<1>2. CASE Launches
  <2>1. PICK j \in Jobs, s \in Runs :
          /\ run[s].pc = "free"
          /\ run' = [run EXCEPT ![s].pc = "launched", ![s].job = j]
    BY <1>2 DEF Launches, StartWorker
  <2>2. run'[s].pc = "launched" /\ run[s].job = 0
    BY <2>1 DEF Delivered, TypeOK, RunState
  <2>3. r # s => run'[r] = run[r]
    BY <2>1 DEF TypeOK
  <2>. QED
    BY <2>2, <2>3 DEF Delivered
<1>3. ASSUME NEW q \in Requests, NEW j \in Jobs, NEW b \in Branches,
             InsertJob(q, j, b)
      PROVE  run' = run
  BY <1>3 DEF InsertJob
<1>4. ASSUME NEW s \in Runs, Claim(s)
      PROVE  /\ run'[s].pc = "context" /\ run'[s].job = run[s].job
             /\ \A t \in Runs \ {s} : run'[t] = run[t]
  BY <1>4 DEF Claim, TypeOK, RunState
<1>5. ASSUME NEW s \in Runs, CommitCandidate(s)
      PROVE  /\ run'[s].pc = "release" /\ run'[s].job = run[s].job
             /\ \A t \in Runs \ {s} : run'[t] = run[t]
  BY <1>5 DEF CommitCandidate, TypeOK, RunState
<1>6. ASSUME NEW s \in Runs,
             \/ Stops(s) \/ Ends(s, "FAILED") \/ Release(s)
      PROVE  /\ run'[s].pc = "done" /\ run'[s].job = run[s].job
             /\ \A t \in Runs \ {s} : run'[t] = run[t]
  BY <1>6, ExitState DEF Stops, Ends, Release
<1>7. ASSUME NEW s \in Runs,
             \/ Claim(s) \/ ReadContext(s) \/ Thinks(s)
             \/ StageCandidate(s) \/ CommitCandidate(s) \/ Stops(s)
             \/ Ends(s, "FAILED") \/ Release(s)
      PROVE  /\ run'[s].pc # "free" /\ run'[s].job = run[s].job
             /\ \A t \in Runs \ {s} : run'[t] = run[t]
  BY <1>4, <1>5, <1>6, <1>7, MoveState DEF Thinks, Thinking
<1>8. ASSUME NEW j \in Jobs, ReleaseStuckJob(j)
      PROVE  run' = run
  BY <1>8 DEF ReleaseStuckJob, procs
<1>. QED
  BY <1>1, <1>2, <1>3, <1>7, <1>8, StepKinds DEF Delivered

\* A step that marks and launches nothing without a worker to show for it
\* keeps Delivered.
LEMMA DeliveredFrame ==
    ASSUME TypeOK, RowsExist, Delivered, [Next]_vars,
           \A j \in Jobs : outbox'[j] = "published" =>
               outbox[j] = "published" \/ \E r \in Runs : run'[r].job = j,
           \A d \in Dispatchers :
               \/ dispatcher'[d].launched \in {0, dispatcher[d].launched}
               \/ \E r \in Runs : run'[r].job = dispatcher'[d].launched,
           \A q \in Requests : request'[q].pc = "mark" =>
               \/ request'[q] = request[q]
               \/ \E r \in Runs : run'[r].job = request'[q].job
    PROVE  Delivered'
<1>1. 0 \notin Jobs
  BY ConstantsOK DEF Jobs
<1>2. \A j \in Jobs : Started(j) => \E r \in Runs : run'[r].job = j
  BY <1>1, JobsStay DEF Started
<1>3. \A d \in Dispatchers : dispatcher[d].launched # 0 =>
        \E r \in Runs : run'[r].job = dispatcher[d].launched
  BY <1>2 DEF Delivered, RowsExist, Rows
<1>4. \A q \in Requests : request[q].pc = "mark" =>
        \E r \in Runs : run'[r].job = request[q].job
  BY <1>2 DEF Delivered, RowsExist, Rows
<1>5. \A j \in Jobs : outbox'[j] = "published" => Started(j)'
  BY <1>2 DEF Delivered, Started
<1>6. \A d \in Dispatchers :
        dispatcher'[d].launched # 0 => Started(dispatcher[d].launched)'
  BY <1>3 DEF Started
<1>7. \A q \in Requests :
        request'[q].pc = "mark" => Started(request[q].job)'
  BY <1>4 DEF Started
<1>8. \A r \in Runs : run'[r].pc = "free" => run'[r].job = 0
  BY JobsStay
<1>. QED
  BY <1>5, <1>6, <1>7, <1>8 DEF Delivered

\* Every step keeps Delivered.
LEMMA DeliveredStep ==
    ASSUME TypeOK, RowsExist, Delivered, [Next]_vars
    PROVE  Delivered'
<1>1. ASSUME NEW q \in Requests, NEW k \in Keys,
             NEW b \in Branches \cup {None}, Submit(q, k, b)
      PROVE  Delivered'
  BY <1>1, DeliveredFrame DEF Submit, Answer, IdleRequest, TypeOK
<1>2. ASSUME NEW q \in Requests, NEW j \in Jobs, RetryLookup(q, j)
      PROVE  Delivered'
  BY <1>2, DeliveredFrame DEF RetryLookup, TypeOK
<1>3. ASSUME NEW q \in Requests, NEW j \in Jobs, NEW b \in Branches,
             InsertJob(q, j, b)
      PROVE  Delivered'
  <2>1. /\ dispatcher' = dispatcher
        /\ outbox' = [outbox EXCEPT ![j] = "pending"]
    BY <1>3 DEF InsertJob
  <2>2. \A p \in Requests :
          request'[p].pc = "mark" => request'[p] = request[p]
    BY <1>3 DEF InsertJob, Answer, IdleRequest, TypeOK, RequestState
  <2>3. \A i \in Jobs : outbox'[i] = "published" => outbox[i] = "published"
    BY <2>1 DEF TypeOK
  <2>. QED
    BY <2>1, <2>2, <2>3, DeliveredFrame
<1>4. ASSUME NEW q \in Requests,
             \/ InsertRefused(q) \/ RequestLaunchFails(q)
             \/ RequestMarkFails(q)
      PROVE  Delivered'
  BY <1>4, DeliveredFrame DEF InsertRefused, RequestLaunchFails,
     RequestMarkFails, Answer, IdleRequest, TypeOK
<1>5. ASSUME NEW q \in Requests, RequestLaunches(q)
      PROVE  Delivered'
  <2>1. /\ UNCHANGED <<outbox, dispatcher>>
        /\ \A p \in Requests \ {q} : request'[p] = request[p]
        /\ request'[q].job = request[q].job
    BY <1>5 DEF RequestLaunches, Goto, TypeOK, RequestState
  <2>2. \E r \in Runs : run'[r].job = request[q].job
    BY <1>5, StartedNow DEF RequestLaunches
  <2>. QED
    BY <2>1, <2>2, DeliveredFrame
<1>6. ASSUME NEW q \in Requests, RequestMarks(q)
      PROVE  Delivered'
  <2>1. /\ UNCHANGED <<dispatcher, run>> /\ request[q].pc = "mark"
        /\ outbox' = [outbox EXCEPT ![request[q].job] = "published"]
    BY <1>6 DEF RequestMarks, procs
  <2>2. \A p \in Requests :
          request'[p].pc = "mark" => request'[p] = request[p]
    BY <1>6 DEF RequestMarks, Answer, IdleRequest, TypeOK
  <2>3. \A i \in Jobs : outbox'[i] = "published" =>
          outbox[i] = "published" \/ Started(i)
    BY <2>1 DEF TypeOK, Delivered
  <2>. QED
    BY <2>1, <2>2, <2>3, DeliveredFrame DEF Started
<1>7. ASSUME NEW d \in Dispatchers, NEW j \in Jobs, DispatchLaunches(d, j)
      PROVE  Delivered'
  <2>1. /\ UNCHANGED <<outbox, request>>
        /\ \A e \in Dispatchers \ {d} : dispatcher'[e] = dispatcher[e]
        /\ dispatcher'[d].launched = j
    BY <1>7 DEF DispatchLaunches, TypeOK, DispatcherState
  <2>2. \E r \in Runs : run'[r].job = j
    BY <1>7, StartedNow DEF DispatchLaunches
  <2>. QED
    BY <2>1, <2>2, DeliveredFrame
<1>8. ASSUME NEW d \in Dispatchers, DispatchMarks(d)
      PROVE  Delivered'
  <2>1. /\ UNCHANGED <<request, run>> /\ dispatcher[d].launched # 0
        /\ outbox' = [outbox EXCEPT ![dispatcher[d].launched] = "published"]
        /\ \A e \in Dispatchers :
             dispatcher'[e].launched \in {0, dispatcher[e].launched}
    BY <1>8 DEF DispatchMarks, WithoutEntry, TypeOK
  <2>2. \A i \in Jobs : outbox'[i] = "published" =>
          outbox[i] = "published" \/ Started(i)
    BY <2>1 DEF TypeOK, Delivered
  <2>. QED
    BY <2>1, <2>2, DeliveredFrame DEF Started
<1>9. ASSUME NEW d \in Dispatchers,
             \/ FetchUnpublished(d) \/ DispatcherCrash(d)
             \/ \E j \in Jobs : DispatchLaunchFails(d, j)
      PROVE  Delivered'
  <2>1. /\ UNCHANGED <<request, outbox>>
        /\ \A e \in Dispatchers :
             dispatcher'[e].launched \in {0, dispatcher[e].launched}
    BY <1>9 DEF FetchUnpublished, DispatcherCrash, DispatchLaunchFails,
       WithoutEntry, IdleDispatcher, TypeOK
  <2>. QED
    BY <2>1, DeliveredFrame
<1>10. ASSUME UNCHANGED <<outbox, request, dispatcher>>
       PROVE  Delivered'
  BY <1>10, DeliveredFrame
<1>11. ASSUME NEW r \in Runs, WorkerStep(r) \/ WorkerCrash(r)
       PROVE  Delivered'
  BY <1>10, <1>11 DEF WorkerStep, WorkerCrash, Claim, NotClaimable,
     ReadContext, AgentTurn, Draft, Evaluate, Redraft, StageCandidate,
     CommitCandidate, Release, Fail
<1>12. ASSUME NEW j \in Jobs, LeaseExpires(j) \/ ReleaseStuckJob(j)
       PROVE  Delivered'
  BY <1>10, <1>12 DEF LeaseExpires, ReleaseStuckJob, procs
<1>13. CASE UNCHANGED vars
  BY <1>10, <1>13 DEF vars, procs
<1>. QED
  BY <1>1, <1>2, <1>3, <1>4, <1>5, <1>6, <1>7, <1>8, <1>9, <1>11, <1>12,
     <1>13 DEF Next, RequestStep, PollStep

\* An outbox row leaves the poller's sight only after a worker was launched for
\* its job: a crash between launch and mark repeats a launch, none is lost.
THEOREM NoLaunchIsLost == Spec => []LaunchedBeforePublished
<1>1. Init => Delivered
  BY DEF Init, Delivered, FreshRun, IdleDispatcher, IdleRequest
<1>2. IInv /\ Delivered /\ [Next]_vars => Delivered'
  BY DeliveredStep DEF IInv
<1>3. Delivered => LaunchedBeforePublished
  BY DEF Delivered, LaunchedBeforePublished, Started
<1>. QED
  BY <1>1, <1>2, <1>3, Invariance, PTL DEF Spec

-----------------------------------------------------------------------------
(* The events of a job.                                                    *)

Seqs(j) == {e.seq : e \in events[j]}

Reviews(j) == {e \in events[j] : e.status = "EVALUATING"}

\* Where worker r is, told from the events of its job: the turns of the first
\* attempt, then a draft and a review for each attempt.
WrittenBy(r) ==
    LET j == run[r].job
        n == run[r].seq
        a == run[r].attempt
        pc == run[r].pc
    IN  /\ Seqs(j) = 1 .. n
        /\ IsFiniteSet(Reviews(j))
        /\ Cardinality(Reviews(j)) =
             IF pc \in {"context", "agents", "evaluate"} THEN a - 1 ELSE a
        /\ pc = "context" => n = 0 /\ a = 1
        /\ pc = "agents" =>
             IF a = 1 THEN n <= Turns ELSE n = Turns + 2 * (a - 1)
        /\ pc = "evaluate" =>
             n = Turns + 2 * a - 1 /\ EventAt(j, n, "GENERATING")
        /\ pc \in {"verdict", "commit"} =>
             /\ n = Turns + 2 * a
             /\ EventAt(j, n, "EVALUATING")
             /\ EventAt(j, n - 1, "GENERATING")
        /\ pc \in {"commit", "release"} /\ ~run[r].approved =>
             a = MaxAttempts
        /\ pc # "release" => candidate[j] = "none"

\* No worker ever got past claim_job for j.
Unclaimed(j) == \A r \in Runs : run[r].claimed => run[r].job # j

\* A job's events are its worker's, and stay as they are when it is gone.
EventInv ==
    /\ \A r \in Runs : run[r].pc \in {"free", "launched"} =>
         run[r].seq = 0 /\ run[r].attempt = 1
    /\ \A j \in Jobs : Unclaimed(j) =>
         events[j] = {} /\ candidate[j] = "none"
    /\ \A r \in Runs : run[r].pc \in Working => WrittenBy(r)
    /\ \A j \in Jobs : \E n \in Nat : Seqs(j) = 1 .. n
    /\ \A j \in Jobs : status[j] = "BLOCKED" => ~LiveWorker(j)
    /\ ReviewedBeforePublished
    /\ BlockedAfterAllAttempts

\* A step that writes no event, blocks no job and moves no worker but to its
\* end keeps EventInv.
LEMMA EventFrame ==
    ASSUME EventInv, UNCHANGED <<events, candidate, chapters>>,
           \A j \in Jobs : status'[j] = "BLOCKED" => status[j] = "BLOCKED",
           \A r \in Runs : run'[r].pc \in Working => run'[r] = run[r],
           \A r \in Runs : run'[r].pc \in {"free", "launched"} =>
               run'[r].seq = 0 /\ run'[r].attempt = 1,
           \A r \in Runs : run[r].claimed =>
               run'[r].claimed /\ run'[r].job = run[r].job
    PROVE  EventInv'
<1>1. \A j \in Jobs : Unclaimed(j)' => Unclaimed(j)
  BY DEF Unclaimed
<1>2. \A j \in Jobs : Unclaimed(j)' =>
        events'[j] = {} /\ candidate'[j] = "none"
  BY <1>1 DEF EventInv
<1>3. ASSUME NEW r \in Runs, run'[r].pc \in Working
      PROVE  WrittenBy(r)'
  <2>1. WrittenBy(r) /\ run'[r] = run[r]
    BY <1>3 DEF EventInv
  <2>. QED
    BY <2>1 DEF WrittenBy, Seqs, Reviews, EventAt
<1>4. \A j \in Jobs : \E n \in Nat : Seqs(j)' = 1 .. n
  BY DEF EventInv, Seqs
<1>5. \A j \in Jobs : LiveWorker(j)' => LiveWorker(j)
  BY DEF LiveWorker
<1>6. \A j \in Jobs : status'[j] = "BLOCKED" => ~LiveWorker(j)'
  BY <1>5 DEF EventInv
<1>7. ReviewedBeforePublished'
  BY DEF EventInv, ReviewedBeforePublished, EventAt
<1>8. BlockedAfterAllAttempts'
  BY DEF EventInv, BlockedAfterAllAttempts
<1>. QED
  BY <1>2, <1>3, <1>4, <1>6, <1>7, <1>8 DEF EventInv

\* A step by which worker r goes on with its own job keeps EventInv if it keeps
\* what the events say of r.
LEMMA OwnStep ==
    ASSUME TypeOK, RowsExist, Claims, ChapterHasCandidate, Diligent, EventInv,
           NEW r \in Runs,
           run[r].pc \in Working \ {"release"}, run'[r].pc \in Working,
           run'[r].job = run[r].job, run'[r].claimed = run[r].claimed,
           \A s \in Runs \ {r} : run'[s] = run[s],
           UNCHANGED <<status, candidate, chapters>>,
           \A i \in Jobs \ {run[r].job} : events'[i] = events[i],
           WrittenBy(r)', run'[r].seq \in Nat
    PROVE  EventInv'
<1>. DEFINE j == run[r].job
<1>1. run[r].claimed /\ j \in Jobs /\ candidate[j] = "none" /\ LiveWorker(j)
  BY DEF Diligent, EventInv, WrittenBy, LiveWorker
<1>2. \A s \in Runs \ {r} : run[s].claimed => run[s].job # j
  BY <1>1 DEF Claims, OneWorkerPerJob
<1>3. \A i \in Jobs : Unclaimed(i)' => i # j /\ Unclaimed(i)
  BY <1>1 DEF Unclaimed
<1>4. \A i \in Jobs : Unclaimed(i)' =>
        events'[i] = {} /\ candidate'[i] = "none"
  BY <1>3 DEF EventInv
<1>5. ASSUME NEW s \in Runs, run'[s].pc \in Working
      PROVE  WrittenBy(s)'
  <2>1. CASE s = r
    BY <2>1
  <2>2. CASE s # r
    <3>1. /\ WrittenBy(s) /\ run'[s] = run[s]
          /\ run[s].job \in Jobs \ {j}
      BY <1>2, <1>5, <2>2 DEF EventInv, Diligent
    <3>2. events'[run[s].job] = events[run[s].job]
      BY <3>1
    <3>. QED
      BY <3>1, <3>2 DEF WrittenBy, Seqs, Reviews, EventAt
  <2>. QED
    BY <2>1, <2>2
<1>6. \A i \in Jobs : \E n \in Nat : Seqs(i)' = 1 .. n
  <2>1. Seqs(j)' = 1 .. run'[r].seq
    BY DEF WrittenBy
  <2>2. \A i \in Jobs \ {j} : Seqs(i)' = Seqs(i)
    BY DEF Seqs
  <2>. QED
    BY <2>1, <2>2 DEF EventInv
<1>7. \A i \in Jobs : LiveWorker(i)' => LiveWorker(i)
  BY <1>1 DEF LiveWorker
<1>8. \A i \in Jobs : status'[i] = "BLOCKED" => i # j /\ ~LiveWorker(i)'
  BY <1>1, <1>7 DEF EventInv
<1>9. ReviewedBeforePublished'
  <2>1. \A c \in chapters' : c.job \in Jobs \ {j}
    BY <1>1 DEF ChapterHasCandidate, Rows
  <2>2. \A c \in chapters' : events'[c.job] = events[c.job]
    BY <2>1
  <2>. QED
    BY <2>2 DEF EventInv, ReviewedBeforePublished, EventAt
<1>10. BlockedAfterAllAttempts'
  BY <1>8 DEF EventInv, BlockedAfterAllAttempts
<1>11. \A s \in Runs : run'[s].pc \in {"free", "launched"} =>
         run'[s].seq = 0 /\ run'[s].attempt = 1
  BY DEF EventInv, Working
<1>. QED
  BY <1>4, <1>5, <1>6, <1>8, <1>9, <1>10, <1>11 DEF EventInv

\* What WriteEvent does to the events of its job.
LEMMA Written ==
    ASSUME TypeOK, EventInv, NEW r \in Runs, NEW s \in EventStatus,
           run[r].pc \in Working, WriteEvent(r, s),
           NEW j \in Jobs, j = run[r].job, NEW n \in Nat, n = run[r].seq + 1
    PROVE  /\ \A i \in Jobs \ {j} : events'[i] = events[i]
           /\ \A m, t : EventAt(j, m, t) => EventAt(j, m, t)'
           /\ EventAt(j, n, s)'
           /\ Seqs(j)' = 1 .. n
           /\ IsFiniteSet(Reviews(j)')
           /\ Cardinality(Reviews(j)') =
                Cardinality(Reviews(j)) + IF s = "EVALUATING" THEN 1 ELSE 0
<1>. DEFINE e == [seq |-> n, status |-> s]
<1>1. /\ \A f \in events[j] : f.seq # n
      /\ events' = [events EXCEPT ![j] = @ \cup {e}]
  BY DEF WriteEvent
<1>2. /\ events'[j] = events[j] \cup {e}
      /\ \A i \in Jobs \ {j} : events'[i] = events[i]
  BY <1>1 DEF TypeOK
<1>3. Seqs(j) = 1 .. run[r].seq /\ IsFiniteSet(Reviews(j))
  BY DEF EventInv, WrittenBy
<1>4. e.seq = n /\ e.status = s /\ e \notin events[j]
  BY <1>1
<1>5. EventAt(j, n, s)' /\ \A m, t : EventAt(j, m, t) => EventAt(j, m, t)'
  BY <1>2 DEF EventAt
<1>. HIDE DEF e
<1>6. Seqs(j)' = Seqs(j) \cup {n}
  BY <1>2, <1>4 DEF Seqs
<1>7. Seqs(j)' = 1 .. n
  <2>1. run[r].seq \in Nat
    BY DEF TypeOK, RunState
  <2>. QED
    BY <1>3, <1>6, <2>1
<1>8. /\ IsFiniteSet(Reviews(j)')
      /\ Cardinality(Reviews(j)') =
           Cardinality(Reviews(j)) + IF s = "EVALUATING" THEN 1 ELSE 0
  <2>1. CASE s = "EVALUATING"
    <3>1. Reviews(j)' = Reviews(j) \cup {e} /\ e \notin Reviews(j)
      BY <1>2, <1>4, <2>1 DEF Reviews
    <3>2. /\ IsFiniteSet(Reviews(j) \cup {e})
          /\ Cardinality(Reviews(j) \cup {e}) = Cardinality(Reviews(j)) + 1
      BY <1>3, <3>1, FS_AddElement
    <3>. QED
      BY <2>1, <3>1, <3>2
  <2>2. CASE s # "EVALUATING"
    <3>1. Reviews(j)' = Reviews(j)
      BY <1>2, <1>4, <2>2 DEF Reviews
    <3>2. Cardinality(Reviews(j)) \in Nat
      BY <1>3, FS_CardinalityType
    <3>. QED
      BY <1>3, <2>2, <3>1, <3>2
  <2>. QED
    BY <2>1, <2>2
<1>. QED
  BY <1>2, <1>5, <1>7, <1>8

\* A worker that writes an event goes on as the events say.
LEMMA WritesOn ==
    ASSUME TypeOK, RowsExist, Claims, ChapterHasCandidate, Diligent, EventInv,
           NEW r \in Runs, AgentTurn(r) \/ Draft(r) \/ Evaluate(r)
    PROVE  EventInv'
<1>1. PICK j \in Jobs : j = run[r].job
  BY DEF AgentTurn, Draft, Evaluate, Diligent, Working
<1>2. PICK n \in Nat : n = run[r].seq + 1
  BY DEF TypeOK, RunState
<1>3. PICK s \in {"GENERATING", "EVALUATING"} :
        /\ WriteEvent(r, s)
        /\ s = IF run[r].pc = "evaluate" THEN "EVALUATING" ELSE "GENERATING"
        /\ run[r].pc \in {"agents", "evaluate"}
  BY DEF AgentTurn, Draft, Evaluate
<1>4. /\ \A i \in Jobs \ {j} : events'[i] = events[i]
      /\ \A m, t : EventAt(j, m, t) => EventAt(j, m, t)'
      /\ EventAt(j, n, s)'
      /\ Seqs(j)' = 1 .. n
      /\ IsFiniteSet(Reviews(j)')
      /\ Cardinality(Reviews(j)') =
           Cardinality(Reviews(j)) + IF s = "EVALUATING" THEN 1 ELSE 0
  <2>1. s \in EventStatus /\ run[r].pc \in Working
    BY <1>3 DEF EventStatus, Working
  <2>. QED
    BY <1>1, <1>2, <1>3, <2>1, Written
<1>5. /\ run'[r].job = j /\ run'[r].seq = n
      /\ run'[r].claimed = run[r].claimed
      /\ run'[r].attempt = run[r].attempt
      /\ \A t \in Runs \ {r} : run'[t] = run[t]
      /\ UNCHANGED <<status, candidate, chapters>>
  BY <1>1, <1>2 DEF AgentTurn, Draft, Evaluate, TypeOK, RunState, jobRows
<1>6. /\ run[r].seq \in Nat /\ run[r].attempt \in Nat /\ Turns \in Nat
      /\ run[r].attempt >= 1
  BY ConstantsOK DEF TypeOK, RunState
<1>7. WrittenBy(r)
  BY <1>3 DEF EventInv, Working
<1>8. Cardinality(Reviews(j)) = run[r].attempt - 1 /\ candidate'[j] = "none"
  BY <1>1, <1>3, <1>5, <1>7 DEF WrittenBy
<1>9. WrittenBy(r)' /\ run'[r].pc \in Working
  <2>1. CASE AgentTurn(r)
    <3>1. /\ run'[r].pc = "agents" /\ s = "GENERATING"
          /\ run[r].attempt = 1 /\ n <= Turns
      BY <1>2, <1>3, <1>6, <1>7, <2>1
         DEF AgentTurn, WrittenBy, TypeOK, RunState
    <3>2. Cardinality(Reviews(j)') = run[r].attempt - 1
      BY <1>4, <1>6, <1>8, <3>1
    <3>. QED
      BY <1>4, <1>5, <1>8, <3>1, <3>2 DEF WrittenBy, Working
  <2>2. CASE Draft(r)
    <3>1. /\ run'[r].pc = "evaluate" /\ s = "GENERATING"
          /\ n = Turns + 2 * run[r].attempt - 1
      BY <1>2, <1>3, <1>6, <1>7, <2>2
         DEF Draft, WrittenBy, TypeOK, RunState
    <3>2. Cardinality(Reviews(j)') = run[r].attempt - 1
      BY <1>4, <1>6, <1>8, <3>1
    <3>. QED
      BY <1>4, <1>5, <1>8, <3>1, <3>2 DEF WrittenBy, Working
  <2>3. CASE Evaluate(r)
    <3>1. /\ run'[r].pc = "verdict" /\ s = "EVALUATING"
          /\ n = Turns + 2 * run[r].attempt
          /\ EventAt(j, n - 1, "GENERATING")
      BY <1>1, <1>2, <1>3, <1>6, <1>7, <2>3
         DEF Evaluate, WrittenBy, TypeOK, RunState
    <3>2. Cardinality(Reviews(j)') = run[r].attempt
      BY <1>4, <1>6, <1>8, <3>1
    <3>3. EventAt(j, n, "EVALUATING")' /\ EventAt(j, n - 1, "GENERATING")'
      BY <1>4, <3>1
    <3>. QED
      BY <1>4, <1>5, <1>8, <3>1, <3>2, <3>3 DEF WrittenBy, Working
  <2>. QED
    BY <2>1, <2>2, <2>3
<1>10. run[r].pc \in Working \ {"release"}
  BY <1>3 DEF Working
<1>. QED
  BY <1>1, <1>4, <1>5, <1>9, <1>10, OwnStep

\* So does one that moves on without writing.
LEMMA MovesOn ==
    ASSUME TypeOK, RowsExist, Claims, ChapterHasCandidate, Diligent, EventInv,
           TypeOK', NEW r \in Runs,
           ReadContext(r) \/ Redraft(r) \/ StageCandidate(r)
    PROVE  EventInv'
<1>1. /\ run[r].pc \in {"context", "verdict"}
      /\ UNCHANGED <<status, events, candidate, chapters>>
  BY DEF ReadContext, Redraft, StageCandidate, jobRows, canon
<1>2. /\ run'[r].job = run[r].job
      /\ run'[r].claimed = run[r].claimed
      /\ \A s \in Runs \ {r} : run'[s] = run[s]
  <2>1. CASE ReadContext(r) \/ StageCandidate(r)
    BY <2>1, MoveState
  <2>2. CASE Redraft(r)
    BY <2>2 DEF Redraft, TypeOK, RunState
  <2>. QED
    BY <2>1, <2>2
<1>3. WrittenBy(r)
  BY <1>1 DEF EventInv, Working
<1>4. /\ run[r].attempt \in Nat /\ run[r].attempt <= MaxAttempts
      /\ MaxAttempts \in Nat /\ Turns \in Nat
  BY ConstantsOK DEF TypeOK, RunState
<1>5. WrittenBy(r)' /\ run'[r].pc \in Working
  <2>1. CASE ReadContext(r)
    <3>1. /\ run[r].pc = "context" /\ run'[r].pc = "agents"
          /\ run'[r].seq = run[r].seq /\ run'[r].attempt = run[r].attempt
      BY <2>1 DEF ReadContext, TypeOK, RunState
    <3>. QED
      BY <1>1, <1>2, <1>3, <1>4, <3>1
         DEF WrittenBy, Working, Seqs, Reviews, EventAt
  <2>2. CASE Redraft(r)
    <3>1. /\ run[r].pc = "verdict" /\ run'[r].pc = "agents"
          /\ run'[r].seq = run[r].seq
          /\ run'[r].attempt = run[r].attempt + 1 /\ run[r].attempt >= 1
      BY <2>2 DEF Redraft, TypeOK, RunState
    <3>2. /\ run'[r].seq = Turns + 2 * (run'[r].attempt - 1)
          /\ run'[r].attempt # 1
          /\ Cardinality(Reviews(run[r].job)) = run'[r].attempt - 1
      BY <1>3, <1>4, <3>1 DEF WrittenBy
    <3>. QED
      BY <1>1, <1>2, <1>3, <3>1, <3>2
         DEF WrittenBy, Working, Seqs, Reviews, EventAt
  <2>3. CASE StageCandidate(r)
    <3>1. PICK ok \in BOOLEAN :
            /\ ok \/ ~AttemptsLeft(r)
            /\ run' = [run EXCEPT ![r].pc = "commit", ![r].approved = ok,
                         ![r].index = NextIndex(branch[run[r].job])]
      BY <2>3 DEF StageCandidate
    <3>2. PICK i : i = NextIndex(branch[run[r].job])
      OBVIOUS
    <3>3. /\ run[r].pc = "verdict" /\ run'[r].pc = "commit"
          /\ run'[r].seq = run[r].seq /\ run'[r].attempt = run[r].attempt
          /\ run'[r].approved = ok
      <4>1. run'[r] = [run[r] EXCEPT !.pc = "commit", !.approved = ok,
                                     !.index = i]
        BY <3>1, <3>2 DEF TypeOK
      <4>2. run[r] \in RunState /\ run[r].pc = "verdict"
        BY <2>3 DEF StageCandidate, TypeOK
      <4>. QED
        BY <4>1, <4>2 DEF RunState
    <3>4. ~run'[r].approved => run[r].attempt = MaxAttempts
      BY <1>4, <3>1, <3>3 DEF AttemptsLeft
    <3>. QED
      BY <1>1, <1>2, <1>3, <3>3, <3>4
         DEF WrittenBy, Working, Seqs, Reviews, EventAt
  <2>. QED
    BY <2>1, <2>2, <2>3
<1>6. run[r].pc \in Working \ {"release"} /\ run'[r].seq \in Nat
  BY <1>1 DEF Working, TypeOK, RunState
<1>. QED
  BY <1>1, <1>2, <1>5, <1>6, OwnStep

\* A claim starts on a job that no event was written for.
LEMMA ClaimStarts ==
    ASSUME TypeOK, RowsExist, Claims, EventInv, NEW r \in Runs, Claim(r)
    PROVE  EventInv'
<1>1. PICK j \in Jobs : j = run[r].job /\ status[j] = "QUEUED"
  BY DEF Claim, Claimable, RowsExist, Rows
<1>2. /\ run'[r].pc = "context" /\ run'[r].job = j /\ run'[r].claimed
      /\ run'[r].seq = run[r].seq /\ run'[r].attempt = run[r].attempt
      /\ \A s \in Runs \ {r} : run'[s] = run[s]
      /\ run[r].pc = "launched"
      /\ UNCHANGED <<events, candidate, chapters>>
      /\ status'[j] = "RUNNING"
      /\ \A i \in Jobs \ {j} : status'[i] = status[i]
  BY <1>1 DEF Claim, TypeOK, RunState, canon
<1>3. Unclaimed(j)
  BY <1>1 DEF Claims, Unclaimed
<1>4. /\ run[r].seq = 0 /\ run[r].attempt = 1
      /\ events[j] = {} /\ candidate[j] = "none"
  BY <1>2, <1>3 DEF EventInv
<1>5. Seqs(j)' = {} /\ Reviews(j)' = {}
  BY <1>2, <1>4 DEF Seqs, Reviews
<1>6. WrittenBy(r)'
  <2>1. /\ Seqs(j)' = 1 .. 0
        /\ IsFiniteSet(Reviews(j)') /\ Cardinality(Reviews(j)') = 0
    BY <1>5, FS_EmptySet
  <2>. QED
    BY <1>2, <1>4, <2>1 DEF WrittenBy
<1>7. ASSUME NEW s \in Runs, run'[s].pc \in Working
      PROVE  WrittenBy(s)'
  <2>1. CASE s = r
    BY <1>6, <2>1
  <2>2. CASE s # r
    <3>1. WrittenBy(s) /\ run'[s] = run[s]
      BY <1>2, <1>7, <2>2 DEF EventInv
    <3>. QED
      BY <1>2, <3>1 DEF WrittenBy, Seqs, Reviews, EventAt
  <2>. QED
    BY <2>1, <2>2
<1>8. \A i \in Jobs : Unclaimed(i)' => Unclaimed(i)
  BY <1>2 DEF Unclaimed, Claims
<1>9. \A i \in Jobs : Unclaimed(i)' =>
        events'[i] = {} /\ candidate'[i] = "none"
  BY <1>2, <1>8 DEF EventInv
<1>10. \A i \in Jobs : \E n \in Nat : Seqs(i)' = 1 .. n
  BY <1>2 DEF EventInv, Seqs
<1>11. \A i \in Jobs : status'[i] = "BLOCKED" =>
         status[i] = "BLOCKED" /\ ~LiveWorker(i)'
  BY <1>2 DEF EventInv, LiveWorker
<1>12. ReviewedBeforePublished' /\ BlockedAfterAllAttempts'
  BY <1>2, <1>11
     DEF EventInv, ReviewedBeforePublished, BlockedAfterAllAttempts, EventAt
<1>13. \A s \in Runs : run'[s].pc \in {"free", "launched"} =>
         run'[s].seq = 0 /\ run'[s].attempt = 1
  BY <1>2 DEF EventInv
<1>. QED
  BY <1>7, <1>9, <1>10, <1>11, <1>12, <1>13 DEF EventInv

\* The publishing transaction writes the job's last event, after the review.
LEMMA CommitWrites ==
    ASSUME TypeOK, RowsExist, Claims, ChapterHasCandidate, Diligent, EventInv,
           NEW r \in Runs, CommitCandidate(r)
    PROVE  EventInv'
<1>1. PICK j \in Jobs : j = run[r].job /\ run[r].claimed
  BY DEF CommitCandidate, Diligent, Working
<1>2. PICK n \in Nat : n = run[r].seq + 1
  BY DEF TypeOK, RunState
<1>3. PICK s \in {"PUBLISHED", "BLOCKED"} :
        /\ WriteEvent(r, s)
        /\ run[r].pc = "commit" /\ candidate[j] = "none"
        /\ s = IF run[r].approved THEN "PUBLISHED" ELSE "BLOCKED"
        /\ \A c \in chapters' :
             c \in chapters \/ (c.job = j /\ s = "PUBLISHED")
        /\ \E x : candidate' = [candidate EXCEPT ![j] = x]
  BY <1>1 DEF CommitCandidate
<1>4. /\ run'[r].job = j /\ run'[r].pc = "release" /\ run'[r].seq = n
      /\ run'[r].claimed = run[r].claimed
      /\ run'[r].attempt = run[r].attempt
      /\ run'[r].approved = run[r].approved
      /\ \A t \in Runs \ {r} : run'[t] = run[t]
      /\ status' = status
  BY <1>1, <1>2 DEF CommitCandidate, TypeOK, RunState, jobRows
<1>5. /\ \A i \in Jobs \ {j} : events'[i] = events[i]
      /\ \A m, t : EventAt(j, m, t) => EventAt(j, m, t)'
      /\ EventAt(j, n, s)'
      /\ Seqs(j)' = 1 .. n
      /\ IsFiniteSet(Reviews(j)')
      /\ Cardinality(Reviews(j)') =
           Cardinality(Reviews(j)) + IF s = "EVALUATING" THEN 1 ELSE 0
  <2>1. s \in EventStatus /\ run[r].pc \in Working /\ WriteEvent(r, s)
    BY <1>3 DEF EventStatus, Working
  <2>. QED
    BY <1>1, <1>2, <2>1, Written
<1>6. WrittenBy(r)
  BY <1>3 DEF EventInv, Working
<1>7. /\ run[r].seq \in Nat /\ run[r].attempt \in 1 .. MaxAttempts
      /\ Turns \in Nat /\ MaxAttempts \in Nat
  BY ConstantsOK DEF TypeOK, RunState
<1>8. /\ n - 1 = Turns + 2 * run[r].attempt
      /\ EventAt(j, n - 1, "EVALUATING") /\ EventAt(j, n - 2, "GENERATING")
      /\ Cardinality(Reviews(j)) = run[r].attempt
      /\ ~run[r].approved => run[r].attempt = MaxAttempts
  <2>1. n - 1 = run[r].seq /\ n - 2 = run[r].seq - 1
    BY <1>2, <1>7
  <2>. QED
    BY <1>1, <1>3, <1>6, <2>1 DEF WrittenBy
<1>9. EventAt(j, n - 1, "EVALUATING")' /\ EventAt(j, n - 2, "GENERATING")'
  BY <1>5, <1>8
<1>10. Cardinality(Reviews(j)') = run[r].attempt
  BY <1>3, <1>5, <1>7, <1>8
<1>11. WrittenBy(r)'
  BY <1>4, <1>5, <1>8, <1>10 DEF WrittenBy
<1>12. \A i \in Jobs \ {j} : candidate'[i] = candidate[i]
  BY <1>3 DEF TypeOK
<1>13. ASSUME NEW t \in Runs, run'[t].pc \in Working
       PROVE  WrittenBy(t)'
  <2>1. CASE t = r
    BY <1>11, <2>1
  <2>2. CASE t # r
    <3>1. /\ WrittenBy(t) /\ run'[t] = run[t]
          /\ run[t].job \in Jobs \ {j}
      BY <1>1, <1>4, <1>13, <2>2
         DEF EventInv, Diligent, Claims, OneWorkerPerJob
    <3>2. /\ events'[run[t].job] = events[run[t].job]
          /\ candidate'[run[t].job] = candidate[run[t].job]
      BY <1>5, <1>12, <3>1
    <3>. QED
      BY <3>1, <3>2 DEF WrittenBy, Seqs, Reviews, EventAt
  <2>. QED
    BY <2>1, <2>2
<1>14. \A i \in Jobs : Unclaimed(i)' => i # j /\ Unclaimed(i)
  BY <1>1, <1>4 DEF Unclaimed
<1>15. \A i \in Jobs : Unclaimed(i)' =>
         events'[i] = {} /\ candidate'[i] = "none"
  BY <1>5, <1>12, <1>14 DEF EventInv
<1>16. \A i \in Jobs : \E m \in Nat : Seqs(i)' = 1 .. m
  <2>1. \A i \in Jobs \ {j} : Seqs(i)' = Seqs(i)
    BY <1>5 DEF Seqs
  <2>. QED
    BY <1>5, <2>1 DEF EventInv
<1>17. LiveWorker(j) /\ \A i \in Jobs : LiveWorker(i)' => LiveWorker(i)
  BY <1>1, <1>3, <1>4 DEF LiveWorker, Working
<1>18. \A i \in Jobs : status'[i] = "BLOCKED" => i # j /\ ~LiveWorker(i)'
  BY <1>4, <1>17 DEF EventInv
<1>19. BlockedAfterAllAttempts'
  BY <1>4, <1>5, <1>18 DEF EventInv, BlockedAfterAllAttempts
<1>20. ReviewedBeforePublished'
  <2>1. ASSUME NEW c \in chapters', c \in chapters
        PROVE  c.job \in Jobs \ {j}
    BY <1>3, <2>1 DEF ChapterHasCandidate, Rows
  <2>2. ASSUME NEW c \in chapters', c \in chapters
        PROVE  events'[c.job] = events[c.job]
    BY <1>5, <2>1, <2>2
  <2>3. ASSUME NEW c \in chapters', c \in chapters
        PROVE  \E m \in 1 .. Turns + 2 * MaxAttempts + 1 :
                 /\ [seq |-> m, status |-> "PUBLISHED"] \in events'[c.job]
                 /\ [seq |-> m - 1, status |-> "EVALUATING"] \in events'[c.job]
                 /\ [seq |-> m - 2, status |-> "GENERATING"] \in events'[c.job]
                 /\ \A e \in events'[c.job] : e.seq <= m
    BY <2>2, <2>3 DEF EventInv, ReviewedBeforePublished, EventAt
  <2>4. n \in 1 .. Turns + 2 * MaxAttempts + 1
    BY <1>7, <1>8
  <2>5. \A e \in events'[j] : e.seq <= n
    <3>1. \A e \in events'[j] : e.seq \in 1 .. n
      BY <1>5 DEF Seqs
    <3>. QED
      BY <3>1
  <2>6. s = "PUBLISHED" =>
          /\ [seq |-> n, status |-> "PUBLISHED"] \in events'[j]
          /\ [seq |-> n - 1, status |-> "EVALUATING"] \in events'[j]
          /\ [seq |-> n - 2, status |-> "GENERATING"] \in events'[j]
    BY <1>5, <1>9 DEF EventAt
  <2>. QED
    BY <1>3, <2>3, <2>4, <2>5, <2>6 DEF ReviewedBeforePublished, EventAt
<1>21. \A t \in Runs : run'[t].pc \in {"free", "launched"} =>
         run'[t].seq = 0 /\ run'[t].attempt = 1
  BY <1>4 DEF EventInv
<1>. QED
  BY <1>13, <1>15, <1>16, <1>18, <1>19, <1>20, <1>21 DEF EventInv

\* A job is reported BLOCKED by the worker that reviewed every attempt.
LEMMA ReleaseReports ==
    ASSUME TypeOK, RowsExist, Claims, Diligent, EventInv,
           NEW r \in Runs, Release(r)
    PROVE  EventInv'
<1>1. PICK j \in Jobs : j = run[r].job /\ run[r].claimed
  BY DEF Release, Diligent, Working
<1>2. /\ UNCHANGED <<events, candidate, chapters>>
      /\ status' = [status EXCEPT ![j] =
                      IF run[r].approved THEN "SUCCEEDED" ELSE "BLOCKED"]
      /\ run[r].pc = "release"
  BY <1>1 DEF Release, ReleaseJob, canon
<1>3. /\ run'[r].pc = "done" /\ run'[r].job = j /\ run'[r].claimed
      /\ \A s \in Runs \ {r} : run'[s] = run[s]
  BY <1>1, ExitState DEF Release
<1>4. \A s \in Runs : run'[s].pc \in Working =>
        run'[s] = run[s] /\ run[s].job # j
  BY <1>1, <1>3 DEF Working, Claims, OneWorkerPerJob, Diligent
<1>5. \A i \in Jobs : LiveWorker(i)' => LiveWorker(i) /\ i # j
  BY <1>4 DEF LiveWorker
<1>6. status'[j] = "BLOCKED" => Cardinality(Reviews(j)) = MaxAttempts
  <2>1. WrittenBy(r)
    BY <1>2 DEF EventInv, Working
  <2>2. CASE ~run[r].approved
    BY <1>1, <1>2, <2>1, <2>2 DEF WrittenBy
  <2>3. CASE run[r].approved
    BY <1>2, <2>3 DEF TypeOK
  <2>. QED
    BY <2>2, <2>3
<1>7. \A i \in Jobs \ {j} : status'[i] = status[i]
  BY <1>2 DEF TypeOK
<1>8. BlockedAfterAllAttempts'
  <2>1. ASSUME NEW i \in Jobs, status'[i] = "BLOCKED"
        PROVE  Cardinality(Reviews(i)) = MaxAttempts
    BY <1>6, <1>7, <2>1 DEF EventInv, BlockedAfterAllAttempts, Reviews
  <2>. QED
    BY <1>2, <2>1 DEF BlockedAfterAllAttempts, Reviews
<1>9. \A i \in Jobs : status'[i] = "BLOCKED" => ~LiveWorker(i)'
  BY <1>5, <1>7 DEF EventInv
<1>10. ASSUME NEW s \in Runs, run'[s].pc \in Working
       PROVE  WrittenBy(s)'
  <2>1. WrittenBy(s) /\ run'[s] = run[s]
    BY <1>4, <1>10 DEF EventInv
  <2>. QED
    BY <1>2, <2>1 DEF WrittenBy, Seqs, Reviews, EventAt
<1>11. \A i \in Jobs : Unclaimed(i)' => Unclaimed(i)
  BY <1>1, <1>3 DEF Unclaimed
<1>12. \A i \in Jobs : Unclaimed(i)' =>
         events'[i] = {} /\ candidate'[i] = "none"
  BY <1>2, <1>11 DEF EventInv
<1>13. \A i \in Jobs : \E n \in Nat : Seqs(i)' = 1 .. n
  BY <1>2 DEF EventInv, Seqs
<1>14. ReviewedBeforePublished'
  BY <1>2 DEF EventInv, ReviewedBeforePublished, EventAt
<1>15. \A s \in Runs : run'[s].pc \in {"free", "launched"} =>
         run'[s].seq = 0 /\ run'[s].attempt = 1
  BY <1>3 DEF EventInv
<1>. QED
  BY <1>8, <1>9, <1>10, <1>12, <1>13, <1>14, <1>15 DEF EventInv

\* The variables that EventInv reads, except run.
written == <<status, events, candidate, chapters>>

\* The steps, sorted by what they do to workers and events.
LEMMA EventKinds ==
    ASSUME TypeOK, RowsExist, [Next]_vars
    PROVE  \/ UNCHANGED <<written, run>>
           \/ (\E j \in Jobs : StartWorker(j)) /\ UNCHANGED written
           \/ \E q \in Requests, j \in Jobs, b \in Branches :
                InsertJob(q, j, b)
           \/ \E r \in Runs :
                \/ Claim(r) \/ CommitCandidate(r) \/ Release(r) \/ Fail(r)
                \/ AgentTurn(r) \/ Draft(r) \/ Evaluate(r)
                \/ ReadContext(r) \/ Redraft(r) \/ StageCandidate(r)
                \/ Exit(r) /\ UNCHANGED written
           \/ \E j \in Jobs : ReleaseStuckJob(j)
<1>. USE DEF written, jobRows, canon, procs, faults
<1>1. ASSUME NEW q \in Requests, NEW k \in Keys,
             NEW b \in Branches \cup {None}, Submit(q, k, b)
      PROVE  UNCHANGED <<written, run>>
  BY <1>1 DEF Submit
<1>2. ASSUME NEW q \in Requests, NEW j \in Jobs, RetryLookup(q, j)
      PROVE  UNCHANGED <<written, run>>
  BY <1>2 DEF RetryLookup
<1>3. ASSUME NEW q \in Requests,
             InsertRefused(q) \/ RequestMarks(q) \/ RequestMarkFails(q)
      PROVE  UNCHANGED <<written, run>>
  BY <1>3 DEF InsertRefused, RequestMarks, RequestMarkFails
<1>4. ASSUME NEW q \in Requests,
             RequestLaunches(q) \/ RequestLaunchFails(q)
      PROVE  /\ UNCHANGED written
             /\ UNCHANGED run \/ \E j \in Jobs : StartWorker(j)
  BY <1>4 DEF RequestLaunches, RequestLaunchFails, RowsExist, Rows
<1>5. ASSUME NEW d \in Dispatchers,
             FetchUnpublished(d) \/ DispatchMarks(d) \/ DispatcherCrash(d)
      PROVE  UNCHANGED <<written, run>>
  BY <1>5 DEF FetchUnpublished, DispatchMarks, DispatcherCrash
<1>6. ASSUME NEW d \in Dispatchers, NEW j \in Jobs,
             DispatchLaunches(d, j) \/ DispatchLaunchFails(d, j)
      PROVE  UNCHANGED written /\ (UNCHANGED run \/ StartWorker(j))
  BY <1>6 DEF DispatchLaunches, DispatchLaunchFails
<1>7. ASSUME NEW r \in Runs, NotClaimable(r) \/ WorkerCrash(r)
      PROVE  Exit(r) /\ UNCHANGED written
  BY <1>7 DEF NotClaimable, WorkerCrash
<1>8. ASSUME NEW j \in Jobs, LeaseExpires(j)
      PROVE  UNCHANGED <<written, run>>
  BY <1>8 DEF LeaseExpires
<1>9. CASE UNCHANGED vars
  BY <1>9 DEF vars
<1>. QED
  BY <1>1, <1>2, <1>3, <1>4, <1>5, <1>6, <1>7, <1>8, <1>9
     DEF Next, RequestStep, PollStep, WorkerStep

\* What a launch does to the workers.
LEMMA LaunchState ==
    ASSUME TypeOK, NEW j \in Jobs, StartWorker(j)
    PROVE  \E r \in Runs :
             /\ run[r].pc = "free" /\ run'[r].pc = "launched"
             /\ run'[r].seq = run[r].seq /\ run'[r].attempt = run[r].attempt
             /\ \A s \in Runs \ {r} : run'[s] = run[s]
<1>1. PICK r \in Runs :
        /\ run[r].pc = "free"
        /\ run' = [run EXCEPT ![r].pc = "launched", ![r].job = j]
  BY DEF StartWorker
<1>. QED
  BY <1>1 DEF TypeOK, RunState

\* Every step keeps EventInv.
LEMMA EventStep ==
    ASSUME TypeOK, RowsExist, Contiguous, Claims, ChapterHasCandidate,
           Diligent, EventInv, [Next]_vars
    PROVE  EventInv'
<1>1. CASE UNCHANGED <<written, run>>
  BY <1>1, EventFrame DEF written, EventInv
<1>2. ASSUME NEW j \in Jobs, StartWorker(j), UNCHANGED written
      PROVE  EventInv'
  <2>1. PICK r \in Runs :
          /\ run[r].pc = "free" /\ run'[r].pc = "launched"
          /\ run'[r].seq = run[r].seq /\ run'[r].attempt = run[r].attempt
          /\ \A s \in Runs \ {r} : run'[s] = run[s]
    BY <1>2, LaunchState
  <2>2. run[r].claimed = FALSE
    BY <2>1 DEF Claims, TypeOK, RunState
  <2>. QED
    BY <1>2, <2>1, <2>2, EventFrame DEF written, EventInv, Working
<1>3. ASSUME NEW q \in Requests, NEW j \in Jobs, NEW b \in Branches,
             InsertJob(q, j, b)
      PROVE  EventInv'
  BY <1>3, EventFrame DEF InsertJob, canon, TypeOK, EventInv
<1>4. ASSUME NEW r \in Runs, AgentTurn(r) \/ Draft(r) \/ Evaluate(r)
      PROVE  EventInv'
  BY <1>4, WritesOn
<1>5. ASSUME NEW r \in Runs, ReadContext(r) \/ Redraft(r) \/ StageCandidate(r)
      PROVE  EventInv'
  <2>1. TypeOK'
    BY TypeStep
  <2>. QED
    BY <1>5, <2>1, MovesOn
<1>6. ASSUME NEW r \in Runs, Claim(r) \/ CommitCandidate(r) \/ Release(r)
      PROVE  EventInv'
  BY <1>6, ClaimStarts, CommitWrites, ReleaseReports
<1>7. ASSUME NEW r \in Runs, Fail(r) \/ (Exit(r) /\ UNCHANGED written)
      PROVE  EventInv'
  <2>1. /\ run'[r].pc = "done" /\ run'[r].job = run[r].job
        /\ run'[r].claimed = run[r].claimed
        /\ \A s \in Runs \ {r} : run'[s] = run[s]
    BY <1>7, ExitState DEF Fail
  <2>2. /\ UNCHANGED <<events, candidate, chapters>>
        /\ \A j \in Jobs : status'[j] = "BLOCKED" => status[j] = "BLOCKED"
    BY <1>7 DEF Fail, ReleaseJob, canon, written, TypeOK
  <2>. QED
    BY <2>1, <2>2, EventFrame DEF EventInv, Working
<1>8. ASSUME NEW j \in Jobs, ReleaseStuckJob(j)
      PROVE  EventInv'
  BY <1>8, EventFrame DEF ReleaseStuckJob, canon, procs, TypeOK, EventInv
<1>. QED
  BY <1>1, <1>2, <1>3, <1>4, <1>5, <1>6, <1>7, <1>8, EventKinds

LEMMA InitEventInv == Init => EventInv
<1>. SUFFICES ASSUME Init PROVE EventInv
  OBVIOUS
<1>1. \A j \in Jobs : Seqs(j) = 1 .. 0
  BY DEF Init, Seqs
<1>2. \A j \in Jobs : \E n \in Nat : Seqs(j) = 1 .. n
  BY <1>1
<1>. QED
  BY <1>2 DEF Init, EventInv, FreshRun, Working, ReviewedBeforePublished,
     BlockedAfterAllAttempts

\* The joint invariant, and that it holds throughout.
LEMMA EventsAlways == Spec => [](DInv /\ EventInv)
<1>1. Init => EventInv
  BY InitEventInv
<1>2. DInv /\ EventInv /\ [Next]_vars => EventInv'
  BY EventStep DEF DInv, IInv
<1>. QED
  BY <1>1, <1>2, DiligentAlways, PTL DEF Spec

\* A chapter's job drafted and reviewed it in the attempt that it published,
\* and its publication is the job's last event: no event follows it, from this
\* worker or another, through crashes, failures and early releases.
THEOREM PublishedWasReviewed == Spec => []ReviewedBeforePublished
<1>1. EventInv => ReviewedBeforePublished
  BY DEF EventInv
<1>. QED
  BY <1>1, EventsAlways, PTL

\* A job that reports BLOCKED had every one of its attempts reviewed, for any
\* number of attempts: none is skipped or counted twice.
THEOREM BlockedAfterAll == Spec => []BlockedAfterAllAttempts
<1>1. EventInv => BlockedAfterAllAttempts
  BY DEF EventInv
<1>. QED
  BY <1>1, EventsAlways, PTL

-----------------------------------------------------------------------------
(* Refinement of EventLog.                                                 *)

\* The log a refinement maps to counts its events as the tables do.
LEMMA LogCounts ==
    ASSUME NEW S
    PROVE  EventsOf!Cardinality(S) = Cardinality(S)
  BY DEF EventsOf!Cardinality, Cardinality, EventsOf!IsFiniteSet, IsFiniteSet

\* A step that writes nothing and changes at most what job j reports, from
\* something that is not final to an end, is Finish(j) or a stutter.
LEMMA LogFinish ==
    ASSUME UNCHANGED events, NEW j \in Jobs,
           \A i \in Jobs \ {j} : Reported(i)' = Reported(i),
           Reported(j)' = Reported(j)
             \/ (Reported(j) # "final" /\ Reported(j)' # "open")
    PROVE  [EventsOf!LogNext]_(EventsOf!logVars)
<1>. DEFINE log == [i \in Jobs |-> {e.seq : e \in events[i]}]
            state == [i \in Jobs |-> Reported(i)]
<1>1. log' = log
  OBVIOUS
<1>2. CASE Reported(j)' = Reported(j)
  <2>1. state' = state
    BY <1>2
  <2>. QED
    BY <1>1, <2>1 DEF EventsOf!logVars
<1>3. CASE Reported(j)' # Reported(j)
  <2>1. state' = [state EXCEPT ![j] = Reported(j)']
    OBVIOUS
  <2>2. Reported(j)' \in {"abandoned", "final"} \ {state[j]}
    BY <1>3 DEF Reported
  <2>3. state[j] # "final"
    BY <1>3
  <2>4. EventsOf!Finish(j)
    BY <1>1, <2>1, <2>2, <2>3 DEF EventsOf!Finish
  <2>. QED
    BY <2>4 DEF EventsOf!LogNext
<1>. QED
  BY <1>2, <1>3

\* The next event of a job whose worker is alive is WriteNext.
LEMMA LogWrites ==
    ASSUME NEW j \in Jobs, NEW n \in Nat,
           Seqs(j) = 1 .. n, Seqs(j)' = 1 .. n + 1,
           \A i \in Jobs \ {j} : events'[i] = events[i],
           \A i \in Jobs : Reported(i)' = Reported(i),
           Reported(j) # "final"
    PROVE  [EventsOf!LogNext]_(EventsOf!logVars)
<1>. DEFINE log == [i \in Jobs |-> {e.seq : e \in events[i]}]
            state == [i \in Jobs |-> Reported(i)]
<1>1. log[j] = 1 .. n /\ log'[j] = 1 .. n + 1
  BY DEF Seqs
<1>2. \A i \in Jobs \ {j} : log'[i] = log[i]
  OBVIOUS
<1>3. log' = [log EXCEPT ![j] = 1 .. n + 1]
  BY <1>1, <1>2
<1>4. Cardinality(log[j]) = n
  <2>1. Cardinality(1 .. n) = n
    BY FS_Interval
  <2>. HIDE DEF log
  <2>. QED
    BY <1>1, <2>1, Zenon
<1>5. state' = state /\ state[j] # "final"
  OBVIOUS
<1>6. /\ state[j] # "final"
      /\ log[j] = 1 .. Cardinality(log[j])
      /\ log' = [log EXCEPT ![j] = 1 .. Cardinality(log[j]) + 1]
      /\ state' = state
  <2>. HIDE DEF log, state
  <2>. QED
    BY <1>1, <1>3, <1>4, <1>5, Zenon
<1>7. EventsOf!WriteNext(j)
  BY <1>6, LogCounts DEF EventsOf!WriteNext
<1>. QED
  BY <1>7 DEF EventsOf!LogNext

\* What a job reports depends on its status and its live worker only.
LEMMA SameReport ==
    ASSUME NEW j \in Jobs, status'[j] = status[j],
           LiveWorker(j)' <=> LiveWorker(j)
    PROVE  Reported(j)' = Reported(j)
  BY DEF Reported

\* A step that writes nothing and changes no report is invisible in the log.
LEMMA LogStutters ==
    ASSUME UNCHANGED events, \A j \in Jobs : Reported(j)' = Reported(j)
    PROVE  [EventsOf!LogNext]_(EventsOf!logVars)
  BY DEF EventsOf!logVars

\* Workers write or move on, end, or are launched; every other step is a
\* stutter of the log.
LEMMA EventLogStep ==
    ASSUME TypeOK, RowsExist, Claims, Diligent, EventInv, EventInv',
           [Next]_vars
    PROVE  [EventsOf!LogNext]_(EventsOf!logVars)
<1>. DEFINE Done == [EventsOf!LogNext]_(EventsOf!logVars)
<1>1. CASE UNCHANGED <<written, run>>
  <2>1. UNCHANGED events /\ \A j \in Jobs : Reported(j)' = Reported(j)
    BY <1>1 DEF written, Reported, LiveWorker
  <2>. QED
    BY <2>1, LogStutters
<1>2. ASSUME NEW i \in Jobs, StartWorker(i), UNCHANGED written
      PROVE  Done
  <2>1. PICK r \in Runs :
          /\ run[r].pc = "free" /\ run'[r].pc = "launched"
          /\ \A s \in Runs \ {r} : run'[s] = run[s]
    BY <1>2, LaunchState
  <2>2. \A j \in Jobs : LiveWorker(j)' <=> LiveWorker(j)
    BY <2>1 DEF LiveWorker, Working
  <2>3. UNCHANGED <<events, status>>
    BY <1>2 DEF written
  <2>. QED
    BY <2>2, <2>3, SameReport, LogStutters
<1>3. ASSUME NEW q \in Requests, NEW i \in Jobs, NEW b \in Branches,
             InsertJob(q, i, b)
      PROVE  Done
  <2>1. /\ UNCHANGED <<events, run>>
        /\ status[i] = "none" /\ status'[i] = "QUEUED"
        /\ \A j \in Jobs \ {i} : status'[j] = status[j]
    BY <1>3 DEF InsertJob, canon, TypeOK
  <2>2. \A j \in Jobs : LiveWorker(j)' <=> LiveWorker(j)
    BY <2>1 DEF LiveWorker
  <2>3. Reported(i)' = Reported(i)
    BY <2>1 DEF Reported, Terminal
  <2>. QED
    BY <2>1, <2>2, <2>3, SameReport, LogStutters
<1>4. ASSUME NEW r \in Runs,
             \/ AgentTurn(r) \/ Draft(r) \/ Evaluate(r) \/ CommitCandidate(r)
      PROVE  Done
  <2>1. PICK j \in Jobs : j = run[r].job
    BY <1>4 DEF AgentTurn, Draft, Evaluate, CommitCandidate, Diligent, Working
  <2>2. PICK n \in Nat : n = run[r].seq
    BY DEF TypeOK, RunState
  <2>3. /\ run[r].pc \in Working /\ run'[r].pc \in Working
        /\ run'[r].job = j /\ run'[r].seq = n + 1
        /\ \A s \in Runs \ {r} : run'[s] = run[s]
        /\ status' = status
    BY <1>4, <2>1, <2>2 DEF AgentTurn, Draft, Evaluate, CommitCandidate,
       Working, TypeOK, RunState, jobRows
  <2>4. \A i \in Jobs \ {j} : events'[i] = events[i]
    BY <1>4, <2>1 DEF AgentTurn, Draft, Evaluate, CommitCandidate,
       WriteEvent, TypeOK
  <2>5. Seqs(j) = 1 .. n
    BY <2>1, <2>2, <2>3 DEF EventInv, WrittenBy
  <2>6. Seqs(j)' = 1 .. n + 1
    BY <2>3 DEF EventInv, WrittenBy
  <2>7. LiveWorker(j) /\ \A i \in Jobs : LiveWorker(i)' <=> LiveWorker(i)
    BY <2>1, <2>3 DEF LiveWorker
  <2>8. Reported(j) # "final" /\ \A i \in Jobs : Reported(i)' = Reported(i)
    BY <2>3, <2>7, SameReport DEF Reported
  <2>. QED
    BY <2>4, <2>5, <2>6, <2>8, LogWrites
<1>5. ASSUME NEW r \in Runs, ReadContext(r) \/ Redraft(r) \/ StageCandidate(r)
      PROVE  Done
  <2>1. /\ run[r].pc \in Working /\ run'[r].pc \in Working
        /\ run'[r].job = run[r].job
        /\ \A s \in Runs \ {r} : run'[s] = run[s]
        /\ UNCHANGED <<events, status>>
    <3>1. CASE Redraft(r)
      BY <3>1 DEF Redraft, Working, TypeOK, RunState, jobRows, canon
    <3>2. CASE ReadContext(r) \/ StageCandidate(r)
      BY <3>2, MoveState
         DEF ReadContext, StageCandidate, Working, jobRows, canon
    <3>. QED
      BY <1>5, <3>1, <3>2
  <2>2. \A j \in Jobs : LiveWorker(j)' <=> LiveWorker(j)
    BY <2>1 DEF LiveWorker
  <2>. QED
    BY <2>1, <2>2, SameReport, LogStutters
<1>6. ASSUME NEW r \in Runs, Claim(r)
      PROVE  Done
  <2>1. PICK j \in Jobs : j = run[r].job /\ status[j] = "QUEUED"
    BY <1>6 DEF Claim, Claimable, RowsExist, Rows
  <2>2. /\ run[r].pc \notin Working /\ run'[r].job = j
        /\ \A s \in Runs \ {r} : run'[s] = run[s]
        /\ status'[j] = "RUNNING"
        /\ \A i \in Jobs \ {j} : status'[i] = status[i]
        /\ events' = events
    BY <1>6, <2>1 DEF Claim, Working, TypeOK, RunState, canon
  <2>3. \A i \in Jobs \ {j} : LiveWorker(i)' <=> LiveWorker(i)
    BY <2>2 DEF LiveWorker
  <2>4. Reported(j)' = Reported(j)
    BY <2>1, <2>2 DEF Reported, Terminal
  <2>. QED
    BY <2>2, <2>3, <2>4, SameReport, LogStutters
<1>7. ASSUME NEW r \in Runs,
             Release(r) \/ Fail(r) \/ (Exit(r) /\ UNCHANGED written)
      PROVE  Done
  <2>1. /\ run'[r].pc = "done" /\ run'[r].job = run[r].job
        /\ \A s \in Runs \ {r} : run'[s] = run[s]
        /\ events' = events
    BY <1>7, ExitState DEF Release, Fail, canon, written
  <2>2. CASE run[r].pc \in Working
    <3>1. PICK j \in Jobs : j = run[r].job
      BY <2>2 DEF Diligent
    <3>2. \A i \in Jobs \ {j} : LiveWorker(i)' <=> LiveWorker(i)
      BY <2>1, <3>1 DEF LiveWorker
    <3>3. \A i \in Jobs \ {j} : status'[i] = status[i]
      BY <1>7, <3>1 DEF Release, Fail, ReleaseJob, written, TypeOK
    <3>4. status'[j] \in Terminal \/ status'[j] = status[j]
      BY <1>7, <3>1 DEF Release, Fail, ReleaseJob, written, TypeOK, Terminal
    <3>5. \A i \in Jobs \ {j} : Reported(i)' = Reported(i)
      BY <3>2, <3>3, SameReport
    <3>6. LiveWorker(j)
      BY <2>2, <3>1 DEF LiveWorker
    <3>7. \/ Reported(j)' = Reported(j)
          \/ Reported(j) # "final" /\ Reported(j)' # "open"
      BY <3>4, <3>6 DEF Reported
    <3>. QED
      BY <2>1, <3>5, <3>7, LogFinish
  <2>3. CASE run[r].pc \notin Working
    <3>1. \A i \in Jobs : LiveWorker(i)' <=> LiveWorker(i)
      BY <2>1, <2>3 DEF LiveWorker, Working
    <3>2. status' = status
      BY <1>7, <2>3 DEF Release, Fail, written, Working
    <3>. QED
      BY <2>1, <3>1, <3>2, SameReport, LogStutters
  <2>. QED
    BY <2>2, <2>3
<1>8. ASSUME NEW j \in Jobs, ReleaseStuckJob(j)
      PROVE  Done
  <2>1. /\ UNCHANGED <<events, run>>
        /\ status[j] \notin Terminal /\ status'[j] = "FAILED"
        /\ \A i \in Jobs \ {j} : status'[i] = status[i]
    BY <1>8 DEF ReleaseStuckJob, canon, procs, Active, Terminal, TypeOK
  <2>2. \A i \in Jobs : LiveWorker(i)' <=> LiveWorker(i)
    BY <2>1 DEF LiveWorker
  <2>3. \A i \in Jobs \ {j} : Reported(i)' = Reported(i)
    BY <2>1, <2>2, SameReport
  <2>4. Reported(j) # "final" /\ Reported(j)' # "open"
    BY <2>1 DEF Reported, Terminal
  <2>. QED
    BY <2>1, <2>3, <2>4, LogFinish
<1>. QED
  BY <1>1, <1>2, <1>3, <1>4, <1>5, <1>6, <1>7, <1>8, EventKinds

\* The events of the jobs implement the log that the streams read: numbered
\* without a gap over all drafts of all attempts, each written before the job
\* reports its end or by a worker that an operator abandoned.
THEOREM EventsAreALog == Spec => ImplementsEventLog
<1>1. Init => EventsOf!LogInit
  BY DEF Init, EventsOf!LogInit, Reported, Terminal
<1>2. /\ DInv /\ EventInv /\ (DInv /\ EventInv)'
      /\ [Next]_vars
      => [EventsOf!LogNext]_(EventsOf!logVars)
  BY EventLogStep DEF DInv, IInv
<1>. QED
  BY <1>1, <1>2, EventsAlways, PTL DEF Spec, ImplementsEventLog,
     EventsOf!LogSpec
=============================================================================
