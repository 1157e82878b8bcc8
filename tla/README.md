# Story engine: TLA+ models and proofs

TLA+ modules for the parts of this repository in which several processes
share state: the FastAPI handlers, the outbox poller, the job platform's workers,
the operator's scripts and the browser, which meet in the Lakebase (PostgreSQL)
tables, and in a few files and sockets. TLC checks small instances; TLAPS proves every safety
property of the runs, and both refinements, for all values of the constants. Paths below are relative to `src/`; `se/` stands for
`src/story_engine/`.

## 1. The system

An author owns stories; a story has branches (timelines), a branch has numbered,
immutable chapters. A request for the next chapter becomes a row in
`generation_jobs`; a worker process runs a chain of language-model agents and
publishes the chapter; the page follows the job's events. Once a chapter exists,
further background work may follow (storyboards, a memory graph, narration).

| component | state it keeps | operations | hard behaviour |
|---|---|---|---|
| progression and retry endpoints (`se/api/routes/progression.py`, `archive.py`) | job, outbox and branch rows | replay by idempotency key, quota check, fork, insert, launch, mark; retry of a failed job | check-then-insert races, failed launch after commit |
| job queue (`se/workers/queue.py`, migration 0005) | `status`, `lease_expires_at` | `claim_job`, `release_job` (`claim_next_job` is called by tests only) | duplicate workers, dead workers, late releases |
| outbox and dispatcher (`se/workers/outbox.py`, `se/services/job_dispatcher.py`) | outbox rows, row locks of a poll | fetch with SKIP LOCKED, launch, mark | crash between launch and mark, two pollers, the handler launching the same row |
| generation worker (`se/workers/generation_job.py`) | events, candidate, local attempt and sequence | claim, read context, three agent turns, draft/review up to 3 times, publish, release | minutes between a read and its use; failure after publication |
| publication function (migrations 0010, 0015) | `chapters` | `MAX(chapter_index) + 1`, insert | the maximum is read before the insert |
| event stream (`se/api/sse.py`, `se/api/routes/events.py`, `web/lib/generation-stream.ts`) | cursor of a stream, EventSource's last id, the page's list | poll events, poll status, yield, reconnect | two reads per poll, lost connections, bounded streams |
| operator scripts (`scripts/release_stuck_job.py`) | - | set an active job to FAILED | the worker may be alive |
| storyboard job (`se/workers/storyboard_job.py`, `se/api/routes/storyboards.py`, `se/storyboard/`, `web/components/features/workspace/StoryboardView.tsx`) | storyboard, scene and reference rows | request, launch, plan, draw, resume; the page's poll | no lease, a FAILED that overwrites, references shared by two chapters, two reads per poll |
| memory graph, compaction (`se/workers/memory_graph_index.py`, `memory_compaction.py`, `se/memory_graph/`) | facts with supersede/contest links; memory rows | index recent memories, compact old ones | jobs beside themselves, facts paired with themselves, merged rows that look recent |
| narration, voice clips (`se/services/narration_jobs.py`, `character_audio.py`, `voice_uploads.py`, `se/api/routes/character_voice.py`, `web/components/shared/ChapterNarrationTab.tsx`) | an in-process table mirrored to a JSON file; clips and their metadata file | start, narrate, poll, restart; upload, delete | two threads for a chapter, torn files, unlocked read-modify-write, a page that counts lines |
| dictation (`se/api/routes/voice.py`, `se/agents/voice_provider.py`, `web/lib/voice-stream.ts`, `VoiceInputButton.tsx`) | one hook state, one socket and recorder per recording; chunks heard | start, stop, transcribe, gate, hand over | sockets that outlive their recording, late answers, empty recordings |
| authoring endpoints (`se/api/routes/cast.py`, `endings.py`, `preferences.py`, `progression.py`, `world.py`, `revisions.py`, `se/workers/report_job.py`) | cast, endings, consent snapshots, branch names, canon requests, reports | short check-then-write transactions | READ COMMITTED races |
| migration runner (`scripts/migrate.py`) | applied versions | apply, record | a crash between the two |

Correctness, per component: a job is executed by at most one worker; every
accepted request adds at most one chapter, at the end of its branch; a job's
reported outcome agrees with what was published and never changes; no outbox row is
marked before a launch; every call is answered; the page shows each event once, in order.
A finished storyboard shows every line once and each character with one face; no
memory is lost and no superseded fact comes back; a narration says the script's
lines in order, in one voice per character; a dictated text is typed once, as far as its limit;
a key, version or name is used once, an ending stays chosen, the cast is not emptied.
`PROJECT.json` lists the remaining components, the hazards with their lines, and the
properties that answer each of them.

## 2. Modules

| module | role |
|---|---|
| `ChapterLedger` | abstract specification: requests are accepted, each publishes at most one chapter, appended to a branch |
| `GenerationJobs` | the endpoints, dispatcher, launcher, worker, queue SQL, publication function and operator script, in one state machine. Implements `ChapterLedger` and `EventLog` |
| `MCGenerationJobs` | symmetry |
| `GenerationJobs_proofs` | TLAPS: inductive invariant, types, claims, refinement of `ChapterLedger` |
| `GenerationOutcomes_proofs` | TLAPS: outcomes, finality, attended jobs, places of chapters, the outbox, reviews, the refinement of `EventLog` |
| `EventLog` | abstract specification of a job's event log: numbered without a gap, each event committed before the end is reported |
| `EventStream` | the stream endpoint and the page's EventSource, over a log that obeys `EventLog` |
| `EventStream_proofs` | TLAPS: types, the order of what is shown |
| `Storyboard`, `MCStoryboard` | one chapter's storyboard: handlers, worker, page, and the other chapters that share the reference images |
| `Storyboard_proofs` | TLAPS: types, complete and unchanged panels, one face per character |
| `Narration`, `MCNarration` | one chapter's narration: text, script, casting, threads, file, page, and the uploads it reads |
| `Narration_proofs` | TLAPS: voices, lines, the file, what the page shows |
| `StoryMemory`, `MCStoryMemory` | one character's memory rows and facts: compactions and indexings beside each other |
| `StoryMemory_proofs` | TLAPS: types, no memory lost, visibility, superseded facts |
| `Authoring`, `MCAuthoring` | the author's short transactions on one story, statement by statement, and the report job |
| `Authoring_proofs` | TLAPS: the four properties of `Authoring` |
| `VoiceInput`, `MCVoiceInput` | the dictation button, its sockets and the WebSocket handler |
| `VoiceInput_proofs` | TLAPS: what is typed, what is shown |

The `MC` modules hold constant values and symmetry only.

`GenerationJobs` and `EventStream` meet in `EventLog`: the first is checked to
implement it (`ImplementsEventLog`), the second uses its actions as the job. So the
product of both state spaces is never needed.

### GenerationJobs and the code

The unit of a step is a database transaction, an external call, or a read whose
result is used after others may have written. The database runs at READ COMMITTED.

| actions | code |
|---|---|
| `Submit`, `InsertJob`, `InsertRefused` | `submit_progression` up to its commit: replay and quota reads, then one transaction for branch, job and outbox row; unique indexes refuse. `Submit` merges the replay and quota reads (an outcome that mixes the two ends in the same insert or answer) |
| `RequestLaunches`, `RequestLaunchFails`, `RequestMarks`, `RequestMarkFails` | `submit_progression` after its commit. A launch that raises may have started a worker. The mark waits while a poll holds the row. `set_tenant_context` is transaction-local, so the mark runs without `app.user_id`; depending on the role's row-level policy it may update nothing: `RequestMarkFails` |
| `RetryLookup` | `retry_generation_job`; its insert is `InsertJob` with the key `retry-<job>` (modelled by the job id), no quota check and no launch |
| `FetchUnpublished`, `DispatchLaunches`, `DispatchLaunchFails`, `DispatchMarks` | `dispatch_pending`, which a deployment must call: no code under `src/` does, tests apart. The batch is locked until the first `mark_published` commits |
| `Claim`, `NotClaimable` | `claim_job` and the early return |
| `ReadContext` | the read of the branch's chapters, from which the prompt says which chapter this is |
| `AgentTurn`, `Draft`, `Evaluate`, `Redraft` | the agent chain and the review loop; every `_write_event` commits |
| `StageCandidate`, `CommitCandidate` | the publishing transaction: `MAX + 1` is read in the first step, candidate, report, chapter and last event become visible in the second |
| `Release`, `Fail` | `release_job` at the end and in the `except Exception` branch. A failure of that last release is `WorkerCrash` |
| `LeaseExpires` | `lease_expires_at` passes; nothing renews it |
| `WorkerCrash`, `DispatcherCrash`, `ReleaseStuckJob` | the environment |

State: `status`, `lease`, `key`, `branch` are the columns of `generation_jobs`,
indexed by job in order of `created_at`; `outbox`, `branches`, `events`,
`candidate`, `chapters` are the other tables; `request`, `dispatcher`, `run` are
the processes' local states. `hasty` is a history variable: the operator once
released a job whose worker was alive, which
`docs/runbooks/generation-failure.md` asks to rule out first. Properties that need that
care are conditioned on `~hasty`; `OneWorkerPerJob`, `OutcomeMatchesCanon`,
`LaunchedBeforePublished` and the refinements are not.

Abstractions: one author; prose, prompts, agent names and `agent_runs` are left out, a chapter
remembers the number its prompt announced (`writtenAs`); model calls and
the evaluator's verdict are choices; a child branch's name clash is a
nondeterministic refusal; a run the platform never starts or skips (no secret,
`max_concurrent_runs`) is `WorkerCrash` before the claim. `claim_job` runs without a
tenant, so the worker's role is assumed to see all jobs.

### EventStream and the code

`FetchEventsAfter` and `PollStatus` are the two statements of a poll (the yields
that follow are part of the second); `Connect` is the request with its
`Last-Event-ID`; `Receive` and `StreamEnds` are the page; `wire` holds what was
sent and not read. `PollFails`, `Disconnect` and `Remount` are a failing query, a
lost connection and a page left and reopened. Not modelled: sessions that are
revoked while streaming, demo mode, rows with unknown agent labels (the worker writes
none).

### Storyboard and the code

| actions | code |
|---|---|
| `PostReads`, `PostWrites`, `Launch`, `LaunchFails`, `MarkNotStarted` | `create_storyboard`: status read, upsert, launch after the commit, and FAILED if the launch raised. A launch that raises may have started a worker |
| `ClaimJob`, `LoadContext`, `LoadSavedPlan`, `EnsureCharacterReference`, `SavePlan`, `StartPanel`, `DrawPanel`, `Succeed`, `Fail` | `run_storyboard_job`, one action per transaction with the model call before it |
| `OtherChapterEnsures` | the same worker for another chapter, seen by this one in the table of references only |
| `GetReadsStatus`, `GetReadsScenes`, `TryAgain` | `get_storyboard`'s two reads, and the page |

`BuildTranscript`, `NormalizeSceneShapes`, `Acceptable` and `ParsePlan` are the pure
functions of `se/storyboard/`: which lines a plan is drawn from, and which plans are
refused. `Drafts` has a draft of every kind the parser refuses. An image is named by
the worker that drew it and the faces it was given. `LinesShown` is what a scene says it
shows; that a finished storyboard shows every line, once and in order, is said line by line.

### Narration and the code

`StartChecks`, `PutJob`, `Persist`, `Cast`, `SpeakLine`, `JoinTrack` and
`FailNarration` are `start_chapter_narration` and the thread of `start_job`;
`AfterWrite` says what a thread does after each write of the file. A start or a poll
that finds no job in memory reads the file in a second step (`StartReadsFile`,
`PollReadsFile`), as `get_status` does without the lock; `Caches` keeps what it read
unless a job is there by then. `PollReads`, `PollAnswers`, `StartAnswers` and `Apply`
are the page. `LoadMetadata`, `UnlinkClip`
and `SaveVoice` are an upload or a deletion; a reader may find the metadata file half
written (`MetaRead`). Uploads run on the event loop, one at a time; deletions and
reads run in threads. `Text`, `Script`, `CastVoices` and `MatchVoice` translate the
pure functions that make lines and voices of a chapter.

### StoryMemory and the code

A run is one transaction; its start, its reads and its commit are steps
(`BeginCompaction`, `ReadOverflow`, `WriteMerged`; `ReadPassage`, `InsertFacts`, `ResolveConflicts`), because other
transactions commit between them. `now()` is the start of a transaction (`clock`),
so a merged row is as new as the compaction that wrote it, and a memory told between
its start and its read is newer. `RowsValid` is the
table's CHECK: an update it refuses takes the run's facts with it. `ORDER BY created_at
DESC` appears as what it decides: a row is over the threshold when enough rows are
`Newer`, and the first of the overflow is the `Newest`. `Resolved` applies the updates
one after the other (`Update`). Which triples a model
extracts and which pairs it calls conflicts are choices.

### Authoring and the code

A call is a transaction and a step a statement. A number or row read by one statement
is used by the next, after others may have committed; unique indexes and row locks
are what stands in between (`SameName`: a branch's name is its parent's, the chapter and a
letter, which counts the forks of every parent): `KeyUnused`, `NameFree`, the version check in
`InsertSnapshot`, `Outcome`, `LockedByOthers`. The evaluator of canon requests and
`world_commit_canon_event` have no caller in the repository and are external.

### VoiceInput and the code

A recording has a socket and a recorder; the hook has one `state`, `socketRef` and
`recorderRef`. `Start`, `Stop`, `MicGranted`, `Opens`, `CannotRecord`, `DataAvailable`,
`Receive`, `ConnectionEnds`, `Leave` are the callbacks of `voice-stream.ts`; `TakeFinal` is the
effect of the button; `HandleChunk`, `ChunkFails`, `EmitFinal`, `Refuses` are
`transcribe`. Messages of a socket keep their order. `FullText` is what `_emit_final` makes
of the chunks: their first `_MAX_UTTERANCE_CHARS` characters (`Beginning`).

## 3. Runs

| run | checks | shows |
|---|---|---|
| `generation_safety` | invariants, `FinalIsFinal`, `ImplementsLedger`, `ImplementsEventLog` | duplicate launches, races of two calls, a crash anywhere and a manual release anywhere never break claims, numbering, outcomes or the log |
| `generation_liveness` | `LaunchedSettles`, `RequestsAnswered`, `BlockedAfterAllAttempts`, `ReviewedBeforePublished` | with the code's 3 turns and 3 attempts, and no poller assumed: every job that a worker was started for ends, every call is answered, also while polls hold its row, reviews precede publication |
| `event_stream` | `InOrderOnce`, `EventsArrive`, `EndIsReported` | through failed polls, lost connections, bounded streams and reloads the page sees a prefix of the log, each event arrives while the job runs, and the end arrives |
| `storyboard` | `SucceededIsComplete`, `OneFacePerCharacter`, `PanelsAreKept`, `StoryboardsEnd` | through a launch that is wrongly reported as failed, failures, a crash, retries and another chapter of the story, a finished storyboard is complete and shows one face per character; a retry redraws nothing unless two workers overlap; if no worker ends before its claim or dies after it, every storyboard ends |
| `narration` | `LinesAreTheScripts`, `DiskFollowsMemory`, `ShownInOrder`, `ProgressEnds` | two threads on a chapter never mix lines; a restart loses one line at most; the page shows lines in order, each once, and leaves "generating" |
| `voices` | `LinesAreTheScripts`, `VoicesAreKept` | clips replaced while a dialogue is narrated are never spoken with another's transcript, and a voice changes by its own requests unless two of them overlap |
| `memory` | `NothingForgotten`, `VisibilityKept`, `SupersededIsFinal` | two compactions and two indexings lose no memory and revive no superseded fact; the cutoff regresses in one known case |
| `authoring` | `KeyedOnce`, `NumberedApart`, `CastKept`, `EndingKept` | what indexes and locks protect holds under every interleaving of four calls; what only a count protects (the last cast member) fails in exactly one race |
| `voice_input` | `TypedIsSaid`, `RecordingIsShown`, `StoppingEnds` | each text is typed once, as far as the limit of a final text; no recorder runs unseen, except after an earlier socket's late failure; "stopping" ends except where the code forgets it |
| `expired_lease` (violation) | `ExpiredLeaseIsReclaimed` | the deployed worker claims QUEUED jobs only, so a job whose worker died stays RUNNING |
| `retry_after_failure` (violation) | `RetryRepeatsNothing` | publication and release are two transactions; a failure in between reports FAILED for a published chapter and the retry publishes another |
| `stream_gap` (violation) | `NoGap` | the last event and the release between the two reads of a poll: "complete" is sent, the event never is |

### What the models show beside the findings

Behaviours that the code has and that conditions in the properties stand for, or that
follow from the model at once:

* Generation. A launch is at least once: handler and poller may launch one row.
  The quota is counted in one statement and the job inserted in another, so two calls
  on two branches pass it together (`design.md:675` asks for the limit).
  No code outside the tests calls `dispatch_pending`, so the outbox row of a failed launch,
  and that of a retried job, is delivered by nobody, although "a failed launch leaves
  the row unpublished and therefore retryable on the next poll" (`se/workers/outbox.py:5`)
  and a "background poller" is said to run (`task.md:341`). Such a job stays
  QUEUED, holding its branch and the author's one quota slot. The answer to the call says
  "Please retry." (`progression.py:228`), but the retry endpoint refuses a QUEUED job,
  and the same key is answered with that job. So no property claims delivery.
* Storyboard. A worker that dies leaves RUNNING, one that ends before its claim leaves
  QUEUED, and no call restarts either (`StoryboardsEnd` excludes both). Two calls that both read FAILED, or a launch
  that succeeded although it raised, put two workers on one storyboard, and finished
  panels are drawn again (`overlapped`).
* Narration. The prefix "Scene n. " makes a speaker's cue of a short scene heading,
  prose of a longer one, and a longer name of a cue. A poll that reads the file while a new
  narration starts may report the one before as interrupted. No blank line separates a scene or a dialogue row from the paragraph
  before, so the last speaker announces the next scene.
* Voice clips. Two overlapping changes of the metadata file lose one (`crossed`).
* Memory. The merged row is the newest by `created_at`, so the next compaction
  counts it as recent, and may later take its cutoff for the newer rows it merges:
  "must never regress" (`memory_compaction.py:99`) then fails (`VisibilityKept` names
  the case). Facts are extracted again by each run; "earlier" in a pair is a place
  in a query without an order, not the order of chapters; a conflict flagged over a
  fact that a concurrent run superseded is refused and the whole run is lost.
* Authoring. Two removals that count the cast together empty it. A retry of an
  accepted call with its old If-Match gets 412, not its first answer. An evaluator
  may move a request between the unlocked read of `world_commit_canon_event` and its update;
  two commits of one request make two events.
* Dictation. A long dictation is cut to 8000 characters (`voice.py:194`) before the policy
  reads it, and nobody is told. A recorder that the browser cannot make (one type is
  asked for) or start leaves "connecting", and after a click "stopping", with the socket
  open (`CannotRecord`). A text dictated twice in a row is typed once (`answer` "same"). A
  recording without data, or whose connection closed cleanly, leaves the button at
  "stopping". The microphone's tracks are stopped through the latest recorder only,
  after an answer not at all. A socket stays open after its answer; if it fails during
  a later recording, that one is stopped, and a recorder that starts afterwards may run
  while the button says "error" (`crossed`).

### Bounds

`generation_safety`: 2 calls (one may be a retry of the other's job), 2 keys, 2
branches (continue and fork, or both on one branch), 2 jobs, 2 workers, 1 poller
with batches of 2, 1 crash, 1 manual release. Two jobs are needed for a race to one
branch and for a retry; two workers for a duplicate launch; the properties
relate at most two jobs or two workers of one job, so a third adds
interleavings but no new kind of conflict. Turns and attempts are cut to 0 and 1 here, because they
only lengthen a worker's private sequence; `generation_liveness` has the real
3 and 3, with 2 workers (two for one job, or one for each of two), 1 branch, 1 key, a
poller with batches of 1 and no crashes, and no symmetry, since it checks liveness. `MaxJobs`,
`MaxCrashes` and `MaxReleases` are the only counters that are capped; `Runs` bounds the launches.
`event_stream`: 4 events, streams of 3 polls, a heartbeat after 2 quiet
polls, 2 faults: enough for events before, between and after each of three
connections.

`storyboard`: 2 calls (so 2 workers, or one and its retry), 2 characters, a chapter
of 3 lines stored in both ways, 2 acceptable plans (of one and of two scenes) and 7 that are
refused, 1 crash. A third worker would repeat what a second can do; two scenes are needed for a
partial storyboard, two characters for a panel that shows one of them.
`narration`: 2 starts, one of them the page's, 2 lines, 1 poll on its way, 1 fault
(restart, failed write, failed poll). `voices`: a dialogue of 2 characters in 4 lines, one
start, 2 voice requests, 1 restart: two requests are what it takes to lose an update.
`memory`: 3 memories, 2 compactions and 2 indexings, 1 recent row kept, passages of 1 row,
at most 2 triples and 2 conflicts a run, and a fact of an earlier run: the second
compaction must be able to merge a merged row, and a pair to appear in both orders.
The symmetric constants are runs. `authoring`: 4 calls of any kind, 3 names, 3 options, 1
key, 1 chapter, 2 parent branches: letters are shared by the parents, names are not.
Two calls race, a third can commit between two steps of theirs, and the fourth
prepares the state (a lock, a first ending, a first row). `voice_input`: 3 recordings,
2 faults, 4 words, of which two are refused, one of them a long one that begins with an allowed
word, and recordings that are silent, too long or empty: an earlier, a current and a next one.

Bounds are the constants named `Max...` and the sizes of the sets of calls. Deadlock is
not checked: users may stop acting and the system then rests.

### Fairness

`FairSpec` of `GenerationJobs`: started handlers, workers and polls take their next step
(`WF`: they are sequential code with timeouts on external calls). A mark gets its row at
last although polls lock it again and again (`SF` on `RequestMarks`), because
PostgreSQL queues the waiting update and a later poll skips a locked row. No poll is
assumed to begin, since no code begins one, and no launch to be accepted. Nothing obliges an
author to call, a lease to expire, an operator to act or a process to die. `EventStream`: the generator polls until it
returns; an EventSource reads and reconnects by itself. The job has no fairness there.
`Storyboard`: handlers take their next step, and so do workers, a run that the platform accepted
included; nobody must ask or retry. `Narration`: threads run, polls
are sent by a timer, read the file if they must and are answered, as `setInterval` and the server do. `VoiceInput`: browser
callbacks and the server's loop run; the user need never click, nor answer the
microphone's prompt. `StoryMemory` and `Authoring` state safety only, without fairness.

## 4. Proofs

Every invariant and action property of the passing runs, and both refinements, are theorems
for all values of the constants. Each module assumes only the
named assumption on its constants (`ConstantsOK`, `StreamConstantsOK`, ...),
which TLC evaluates in every run. Those that are more than types: a page has finitely many
polls under way, a job read back from the file is nobody's start, a clip's name is no
placeholder, and that two triples are related does not depend on their order.

| module (`_proofs`) | theorem | statement |
|---|---|---|
| `GenerationJobs` | `Invariance` | `Spec => []IInv` |
| | `TypeCorrect` | `Spec => []TypeOK` |
| | `ClaimedOnce` | `Spec => []OneWorkerPerJob` |
| | `Refinement` | `Spec => ImplementsLedger` |
| `GenerationOutcomes` | `OutcomeIsCanon` | `Spec => []OutcomeMatchesCanon` |
| | `ReportsAreFinal` | `Spec => FinalIsFinal` |
| | `RunningIsAttended` | `Spec => []RunningHasWorker` |
| | `WrittenInPlace` | `Spec => []WrittenForItsPlace` |
| | `NoLaunchIsLost` | `Spec => []LaunchedBeforePublished` |
| | `PublishedWasReviewed` | `Spec => []ReviewedBeforePublished` |
| | `BlockedAfterAll` | `Spec => []BlockedAfterAllAttempts` |
| | `EventsAreALog` | `Spec => ImplementsEventLog` |
| `EventStream` | `StreamTypes`, `ShownInOrderOnce` | `Spec => []TypeOK`, `Spec => []InOrderOnce` |
| `Storyboard` | `StoryboardTypes`, `FinishedIsComplete`, `OneFace` | `Spec => []` of `TypeOK`, `SucceededIsComplete`, `OneFacePerCharacter` |
| | `FinishedPanelsStay` | `Spec => PanelsAreKept` |
| `StoryMemory` | `MemoriesStay`, `MemoryAndFactTypes` | `Spec => []NothingForgotten`, `Spec => []TypeOK` |
| | `VisibilityStays`, `SupersededStays` | `Spec => VisibilityKept`, `Spec => SupersededIsFinal` |
| `Narration` | `VoicesStay` | `Spec => VoicesAreKept` |
| | `LinesFollowTheScript`, `FileFollowsMemory`, `LinesShownInOrder` | `Spec => []` of `LinesAreTheScripts`, `DiskFollowsMemory`, `ShownInOrder` |
| `Authoring` | `EndingStays`, `CastStays` | `Spec => EndingKept`, `Spec => CastKept` |
| | `KeysAreUsedOnce`, `NumbersStayApart` | `Spec => []KeyedOnce`, `Spec => []NumberedApart` |
| `VoiceInput` | `TypedIsWhatWasSaid`, `RecordingIsAlwaysShown` | `Spec => []TypedIsSaid`, `Spec => []RecordingIsShown` |

Every invariant below was an invariant of a TLC run before it was proved. Most properties
are not inductive; what each needs is the argument for why the code is right.

### GenerationJobs

`IInv` adds:

* `RowsExist` - handlers, pollers, workers and outbox rows hold ids of inserted
  jobs. Without it a launch of "job 0" is a step one cannot exclude, and
  types fail.
* `Contiguous` - the chapters of a branch are numbered `1 .. n`, and the number a
  worker has read is at most `n + 1`. Chapters are only added, so a number read
  early can be too small, never too large; the unique index refuses
  the small ones. This is why `MAX + 1` without a lock is safe, and what the
  refinement needs.
* `Claims` - a worker past `claim_job` has a job that is no longer QUEUED,
  and no job returns to QUEUED, so a second claim is impossible whatever was launched, expired or
  released.
* `ChapterHasCandidate` - a chapter's job has its candidate row;
  `UNIQUE (job_id)` then shuts out a second chapter of the job.

Each conjunct has a lemma `...Step` with one case per action. `LedgerStep` maps each
step to `Accept`, `Publish` or a stutter.

`GenerationOutcomes_proofs` starts from `IInv`. `StepKinds` sorts the 27 kinds of
step into those that can matter for the properties and the rest; then each result
has an invariant of its own:

* `Outcome` - the candidate row decides: APPROVED stands for a chapter, and a
  worker about to release reports what its row says. The row is written once
  (`UNIQUE (job_id)`), so no retry or operator can make the report wrong.
* `Diligent` - a worker at work has claimed its job, and the job is RUNNING unless
  an operator released a job too early. With `Claims`, a job that reported
  its end has nobody left who could overwrite the report (`ReportsAreFinal`).
* `OneActive` and `InPlace` - a branch has one active job, so between a worker's
  read of the branch and its publication nobody else publishes there, and the
  second read of the maximum agrees with the first.
* `Delivered` - who is about to mark an outbox row, or has, launched a worker
  before. A crash can repeat a launch, not skip it.
* `EventInv` - a job's events are those of the one worker that claimed it
  (`WrittenBy`; none while it is `Unclaimed`): numbered `1 .. n`, `n` being the
  worker's local counter, with a draft and a refusal for every attempt it has
  behind it. It gives the reviews, the number of attempts, and each step of `EventLog`.

### Authoring

Each property has the invariant that says what a call has read.
A call's record is replaced as a whole by its own steps (`CallsKeptStep`), so a step
is one of a few kinds (`StepKinds` of that module) and the others leave both rows and records alone:

* `EndingKept` needs at most one selected option, which the index keeps.
* `CastInv` - a call about to delete has counted more than one member. If its
  deletion empties the cast, the cast had one member, so the count is out of date.
* `AskInv` - a request is named by a call that is over, and APPROVED leads nowhere,
  so an event's request stays approved.
* `VersionInv`, `BranchInv` - the rows are numbered `1 .. n`, and a number in hand
  is at most `n + 1` (as in `Contiguous`). Forks of several parents share the count, so
  their letters are within it and the index keeps one parent's apart; a trait edit holds
  its one letter.

### EventStream

`StreamInv` says of every message on the wire what the page will have read before
it: there is a `Chain` of positions that begins at the page's last id, which each
progress message extends by one, and at whose end the generator's cursor is. A connection that
is lost empties wire and chain together, and the next one begins at the page's id: so an event
is neither skipped nor repeated, wherever the connection broke. `BySequence` is
sorted by a formula and not by a sort, so that the proof can say which message is which.

### Storyboard

`SInv` has four parts beside the types:

* `ScenesInv` - the rows cover the transcript, a finished row has a panel, and a
  worker's plan has the places of the rows (`WorkerFits`), through every resume.
* `ShownInv` - a finished job, or a page that reads its scenes, has every panel: the
  page cannot show a storyboard with a hole.
* `FacesInv` - a worker's faces are the table's, which is written once per
  character, and a panel has the faces its worker held.
* `AloneInv` - until two workers overlap there is one at most, and it takes what
  is drawn for done, so nothing finished is drawn again (`FinishedPanelsStay`).

What the parser lets through (`Acceptable`, `ParsePlan`) is proved for drafts of any length.

### StoryMemory

`MemoryInv`: a row is `Bounded` by what was told; `InStep` says that rows
become visible further the later they are written, merged rows apart; `JobInv` that a
compaction's time is no other row's, and that the memories it leaves are visible as
far as those it holds (`LeftIsNewer` at the read). Its own time says nothing of that: it was taken
before the read. So
the row it inserts is not one it deletes, whichever compactions overlap, and the newest of
its overflow bounds the rest. `FactsInv` is the table's CHECK, and that a fact is replaced by one
that says something else. `Resolved` is a recursive function of the pairs found;
`UpdatesRun` is the induction on their number (by a least counterexample), each update
being refused or leaving a `Sound` list. The induction is over a number in the
naturals, so it needs no theorem with an operator parameter.

### Narration

Four invariants, each resting on those before it:

* `VoiceInv` - a file holds the clip it is named for, and a request in progress has read what is
  there unless another overlapped it.
* `JobInv` - a thread gives a speaker the voice it began with or no line at all
  (`ThreadInv`), and lines, in memory or in the file, follow the script
  (`LinesInv`), for any number of threads on a chapter.
* `DiskInv` - the thread that narrates alone has the chapter's job, and the file is
  `Behind` it by a line at most.
* `PageInv` - a page with one poll at a time knows the lines it shows, and the
  answer on its way goes on from there.

### VoiceInput

`TextInv` follows a recording's words: not sent, sent, handled, answered, over. Each is a
condition on the two queues and the chunks heard, and no step skips one, so a text is
handed over once. `ButtonInv`: recordings start in order, and unless an earlier socket
`crossed` a later recording, one is under way at most.

### Out of reach

Left to TLC: the liveness properties (`LaunchedSettles`, `RequestsAnswered`,
`EventsArrive`, `EndIsReported`, `StoryboardsEnd`, `ProgressEnds`,
`StoppingEnds`), because the provers handle neither fairness nor `ENABLED`. They cannot
instantiate operators with operator parameters either (`FoldLeft`, `SelectSeq`,
`SetToSortSeq`); where a proof needs an order, the module states it in first-order form (`InOrder`,
`Newest`, `BySequence`). What `BuildTranscript`, `Script` and `MatchVoice` compute
enters the proofs through their domains only: the
theorems hold whatever a chapter's lines are, and that those are the right
lines is for the code's unit tests.

## 5. Plan

Proofs of the properties checked today are complete. Next, in this order:

1. Abstract specifications: a versioned register for preference snapshots, which
   `Authoring` implements, and a storyboard drawn panel by panel, which `Storyboard`
   implements while no two workers overlap.
2. Theorems beyond the checked properties: which of the conditions (`~hasty`,
   `~overlapped`, `~crossed`) each result really needs.
3. The endpoints of the hazards without a property (`PROJECT.json`), where a model would
   say more than the hazard does.

## 6. Not modelled

* Language models, prompts and the parsing of their JSON: an answer is a choice.
* Text: wording of prose, regular expressions of the script parser and of the content
  policy, the derivation of an idempotency key from a request's body. Where a property depends on
  it (headings, cues, a refused text) it is a kind or a set.
* `se/services/endings.py` and `cast_proposal.py`: pure functions of one call over floats
  and free text, which their unit tests enumerate.
* `se/services/generation_pipeline.py`, `candidate_service.py`,
  `se/domain/state_machine.py`: an in-memory pipeline that no entry point reaches.
* `scripts/migrate.py`: one process in a loop over SQL files; what a crash leaves is a
  matter of each file's text.
* What If-Match compares: the refusal is in `Ask`, the hash is not.
* Archiving: `chapters.archived_at` is a flag no other code reads.
* Authentication, row-level security (one effect of it is
  `RequestMarkFails`), redaction, analytics, demo mode, presentation.
