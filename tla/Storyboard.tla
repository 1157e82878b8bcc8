------------------------------ MODULE Storyboard ------------------------------
(***************************************************************************)
(* The storyboard of one published chapter:                                *)
(*                                                                         *)
(*   api/routes/storyboards.py    the POST and GET handlers                *)
(*   workers/storyboard_job.py    the worker that plans and draws          *)
(*   storyboard/                  transcript, name lookup, plan parser     *)
(*   StoryboardView.tsx           the page that polls                      *)
(*                                                                         *)
(* One action is one database transaction, with the model call before it. *)
(* An image is named by the worker that drew it, a worker by the POST that *)
(* launched it.  The other chapters of the story have storyboards too; they *)
(* share one table with this one, the characters' reference images.        *)
(***************************************************************************)
EXTENDS Integers, Sequences, FiniteSets, FiniteSetsExt, SequencesExt

CONSTANTS
    Cast,         \* number of characters, oldest entity first
    CharacterOf,  \* name_lookup: the folded names of the cast
    Source,       \* the chapter's scene rows, as stored when it was published
    Drafts,       \* answers the planner may give
    Calls,        \* POSTs for the chapter
    NoImage, Photo, OtherChapter, Blank,
    MaxCrashes    \* bound: processes that die

Characters == 1 .. Cast
Missing == 0      \* a field the planner left out

ASSUME StoryboardConstantsOK ==
    /\ Cast \in Nat /\ MaxCrashes \in Nat
    /\ \A n \in DOMAIN CharacterOf : CharacterOf[n] \in Characters
    /\ Calls \cap {NoImage, Photo, OtherChapter} = {}
    /\ NoImage \notin {Photo, OtherChapter}
    /\ Drafts \subseteq Seq([number : Int, from : Int, to : Int,
                             names : SUBSET STRING])

VARIABLES
    job,        \* storyboard_jobs.status, "none" without a row
    scenes,     \* storyboard_scenes, in order
    reference,  \* the current character_visual_references image of a character
    call,       \* the handler behind a POST
    worker,     \* the process behind a launch
    page,       \* what StoryboardView shows
    crashes,
    overlapped  \* two workers have worked on the job at once (history)

aside == <<page, crashes>>
vars == <<job, scenes, reference, call, worker, aside, overlapped>>

Images == Calls \cup {NoImage, Photo, OtherChapter}
NoPanel == [by |-> NoImage, faces |-> <<>>]

-----------------------------------------------------------------------------
(* storyboard/: what the planner is told and how its answer is read.       *)

\* The source lines: dialogue where a scene has rows, else its summary.
BuildTranscript ==
    SelectSeq(FlattenSeq([i \in DOMAIN Source |->
                  IF Source[i].dialogue # <<>> THEN Source[i].dialogue
                                               ELSE Source[i].summary]),
              LAMBDA line : line # Blank)

NormalizeSceneShapes(draft) ==
    [i \in DOMAIN draft |->
        [draft[i] EXCEPT !.number = IF @ = Missing THEN i ELSE @]]

\* Mutant: the last scene may stop before the last line.
CoversSome(draft, lines) ==
    /\ draft # <<>>
    /\ \A i \in DOMAIN draft :
         /\ draft[i].from = IF i = 1 THEN 1 ELSE draft[i - 1].to + 1
         /\ draft[i].to \in draft[i].from .. lines

\* Scene ranges are contiguous and cover every line exactly once.
Covers(draft, lines) ==
    /\ draft # <<>>
    /\ \A i \in DOMAIN draft :
         /\ draft[i].from = IF i = 1 THEN 1 ELSE draft[i - 1].to + 1
         /\ draft[i].to \in draft[i].from .. lines
    /\ Last(draft).to = lines

\* parse_storyboard_plan returns, rather than raises.
Acceptable(draft, lines) ==
    /\ Covers(draft, lines)
    /\ \A i \in DOMAIN draft :
         /\ draft[i].number = i
         /\ draft[i].names # {} /\ draft[i].names \subseteq DOMAIN CharacterOf

ParsePlan(draft) ==
    [i \in DOMAIN draft |->
        [from |-> draft[i].from, to |-> draft[i].to,
         who |-> {CharacterOf[n] : n \in draft[i].names},
         status |-> "PLANNED", panel |-> NoPanel]]

Plans ==
    {ParsePlan(d) : d \in {e \in {NormalizeSceneShapes(f) : f \in Drafts} :
                              Acceptable(e, Len(BuildTranscript))}}

-----------------------------------------------------------------------------
NoCall == [pc |-> "new", seen |-> "none"]
NoWorker == [pc |-> "none", plan |-> <<>>, saved |-> FALSE, done |-> {},
             faces |-> [x \in Characters |-> NoImage]]

Statuses == {"none", "QUEUED", "RUNNING", "SUCCEEDED", "FAILED"}

Panel == [by : Calls,
          faces : UNION {[W -> Images \ {NoImage}] : W \in SUBSET Characters}]

SceneRow == [from : Nat, to : Nat, who : SUBSET Characters,
             status : {"PLANNED", "GENERATING", "SUCCEEDED"},
             panel : Panel \cup {NoPanel}]

WorkerState == [pc : {"none", "new", "context", "plan", "references",
                      "panel", "draw", "ended"},
                plan : Seq(SceneRow), saved : BOOLEAN, done : SUBSET Nat,
                faces : [Characters -> Images]]

TypeOK ==
    /\ job \in Statuses
    /\ scenes \in Seq(SceneRow)
    /\ reference \in [Characters -> Images]
    /\ call \in [Calls -> [pc : {"new", "write", "launch", "mark", "ended"},
                           seen : Statuses]]
    /\ worker \in [Calls -> WorkerState]
    /\ \A w \in Calls : worker[w].done \subseteq DOMAIN worker[w].plan
    /\ page \in {"waiting", "reading", "failed", "complete", "incomplete"}
    /\ crashes \in 0 .. MaxCrashes
    /\ overlapped \in BOOLEAN

\* create_story has stored the photos the author gave; the page starts to load.
Init ==
    /\ job = "none"
    /\ scenes = <<>>
    /\ reference \in [Characters -> {NoImage, Photo}]
    /\ call = [c \in Calls |-> NoCall]
    /\ worker = [w \in Calls |-> NoWorker]
    /\ page = "waiting"
    /\ crashes = 0
    /\ overlapped = FALSE

-----------------------------------------------------------------------------
(* create_storyboard.                                                      *)

CallGoes(c, pc) == call' = [call EXCEPT ![c] = [NoCall EXCEPT !.pc = pc]]

PostReads(c) ==
    /\ call[c].pc = "new"
    /\ call' = [call EXCEPT ![c] = [pc |-> "write", seen |-> job]]
    /\ UNCHANGED <<job, scenes, reference, worker, aside, overlapped>>

\* What the handler read decides, whatever the status is by now.
Starts(seen) == seen \in {"none", "FAILED"}

\* The insert of a second caller is refused by UNIQUE (chapter_id).
PostWrites(c) ==
    /\ call[c].pc = "write"
    /\ \/ /\ Starts(call[c].seen) /\ (call[c].seen = "none" => job = "none")
          /\ job' = "QUEUED"
          /\ CallGoes(c, "launch")
       \/ /\ call[c].seen = "none" => job # "none"
          /\ call[c].seen # "FAILED"
          /\ CallGoes(c, "ended")
          /\ UNCHANGED job
    /\ UNCHANGED <<scenes, reference, worker, aside, overlapped>>

Started(c) == worker' = [worker EXCEPT ![c].pc = "new"]

Launch(c) ==
    /\ call[c].pc = "launch"
    /\ Started(c)
    /\ CallGoes(c, "ended")
    /\ UNCHANGED <<job, scenes, reference, aside, overlapped>>

\* run_now raised; the platform may have accepted the run all the same.
LaunchFails(c) ==
    /\ call[c].pc = "launch"
    /\ Started(c) \/ UNCHANGED worker
    /\ CallGoes(c, "mark")
    /\ UNCHANGED <<job, scenes, reference, aside, overlapped>>

\* FAILED is written whatever the status is by now.
MarkNotStarted(c) ==
    /\ call[c].pc = "mark"
    /\ job' = "FAILED"
    /\ CallGoes(c, "ended")
    /\ UNCHANGED <<scenes, reference, worker, aside, overlapped>>

-----------------------------------------------------------------------------
(* run_storyboard_job.                                                     *)

Working == {"context", "plan", "references", "panel", "draw"}

WorkerEnds(w) == worker' = [worker EXCEPT ![w] = [NoWorker EXCEPT !.pc = "ended"]]

ClaimJob(w) ==
    /\ worker[w].pc = "new"
    /\ \/ /\ job = "QUEUED"
          /\ job' = "RUNNING"
          /\ worker' = [worker EXCEPT ![w].pc = "context"]
          /\ overlapped' = (overlapped \/ \E v \in Calls : worker[v].pc \in Working)
       \/ /\ job # "QUEUED"
          /\ WorkerEnds(w)
          /\ UNCHANGED <<job, overlapped>>
    /\ UNCHANGED <<scenes, reference, call, aside>>

Keeps == UNCHANGED <<call, aside, overlapped>>

\* build_transcript raises for a chapter without text.
LoadContext(w) ==
    /\ worker[w].pc = "context"
    /\ BuildTranscript # <<>>
    /\ worker' = [worker EXCEPT ![w].pc = "plan", ![w].faces = reference]
    /\ UNCHANGED <<job, scenes, reference>> /\ Keeps

\* Mutant: no panel of a saved plan counts as finished.
NoneCompleted(rows) == {}

Completed(rows) == {i \in DOMAIN rows : rows[i].status = "SUCCEEDED"}

\* The saved plan, or one that the planner makes and the parser accepts.
LoadSavedPlan(w) ==
    /\ worker[w].pc = "plan"
    /\ \E plan \in IF scenes # <<>> THEN {scenes} ELSE Plans :
         worker' = [worker EXCEPT ![w].pc = "references", ![w].plan = plan,
                                  ![w].saved = (scenes # <<>>),
                                  ![w].done = Completed(scenes)]
    /\ UNCHANGED <<job, scenes, reference>> /\ Keeps

\* Mutant: a reference is made sure of for the first character only.
FirstWithNoFace(w) == {x \in {1} : worker[w].faces[x] = NoImage}

NoFace(w) == {x \in Characters : worker[w].faces[x] = NoImage}

\* Mutant: ON CONFLICT DO NOTHING; the worker goes on with its own image.
ReferenceFreeOrIgnored(x) == TRUE

\* UNIQUE (story_id, entity_id, version): version 1 can be inserted once.
ReferenceFree(x) == reference[x] = NoImage

\* Characters without a reference get one, oldest first, each in a commit.
EnsureCharacterReference(w) ==
    LET x == Min(NoFace(w))
    IN  /\ worker[w].pc = "references" /\ NoFace(w) # {}
        /\ ReferenceFree(x)
        /\ reference' = [reference EXCEPT ![x] = IF @ = NoImage THEN w ELSE @]
        /\ worker' = [worker EXCEPT ![w].faces[x] = w]
        /\ UNCHANGED <<job, scenes>> /\ Keeps

\* The same insert by the worker of another chapter.
OtherChapterEnsures(x) ==
    /\ ReferenceFree(x)
    /\ reference' = [reference EXCEPT ![x] = OtherChapter]
    /\ UNCHANGED <<job, scenes, worker>> /\ Keeps

\* UNIQUE (job_id, scene_index) refuses the plan of a second worker.
SavePlan(w) ==
    /\ worker[w].pc = "references" /\ NoFace(w) = {}
    /\ \/ worker[w].saved /\ UNCHANGED scenes
       \/ /\ ~worker[w].saved /\ scenes = <<>>
          /\ scenes' = worker[w].plan
    /\ worker' = [worker EXCEPT ![w].pc = "panel"]
    /\ UNCHANGED <<job, reference>> /\ Keeps

Remaining(w) == DOMAIN worker[w].plan \ worker[w].done

StartPanel(w) ==
    /\ worker[w].pc = "panel" /\ Remaining(w) # {}
    /\ scenes' = [scenes EXCEPT ![Min(Remaining(w))].status = "GENERATING"]
    /\ worker' = [worker EXCEPT ![w].pc = "draw"]
    /\ UNCHANGED <<job, reference>> /\ Keeps

\* An image is made from the references sent along, or the call raises (Fail).
Generate(w, references) == [by |-> w, faces |-> references]

DrawPanel(w) ==
    LET i     == Min(Remaining(w))
        faces == Restrict(worker[w].faces, worker[w].plan[i].who)
    IN  /\ worker[w].pc = "draw"
        /\ scenes' = [scenes EXCEPT ![i].status = "SUCCEEDED",
                                    ![i].panel = Generate(w, faces)]
        /\ worker' = [worker EXCEPT ![w].pc = "panel", ![w].done = @ \cup {i}]
        /\ UNCHANGED <<job, reference>> /\ Keeps

Succeed(w) ==
    /\ worker[w].pc = "panel" /\ Remaining(w) = {}
    /\ job' = "SUCCEEDED"
    /\ WorkerEnds(w)
    /\ UNCHANGED <<scenes, reference>> /\ Keeps

\* Mutant: the exception handler does not write a status.
FailUnseen(w) ==
    /\ worker[w].pc \in Working
    /\ WorkerEnds(w)
    /\ UNCHANGED <<job, scenes, reference>> /\ Keeps

\* Any model call or statement raised, a refused insert among them: rollback
\* and FAILED, whatever the status is by now.
Fail(w) ==
    /\ worker[w].pc \in Working
    /\ job' = "FAILED"
    /\ WorkerEnds(w)
    /\ UNCHANGED <<scenes, reference>> /\ Keeps

-----------------------------------------------------------------------------
(* get_storyboard and the page.                                            *)

PageTurns(from, to) ==
    /\ page = from /\ page' = to
    /\ UNCHANGED <<job, scenes, reference, call, worker, crashes, overlapped>>

\* The page polls every two seconds while it is told QUEUED or RUNNING.
GetReadsStatus ==
    \/ job = "SUCCEEDED" /\ PageTurns("waiting", "reading")
    \/ job = "FAILED" /\ PageTurns("waiting", "failed")

EveryPanel(rows) == rows # <<>> /\ \A i \in DOMAIN rows : rows[i].panel # NoPanel

\* The numbers of the lines shown with panel i, a slice of the source lines.
LinesShown(i) ==
    (scenes[i].from .. scenes[i].to) \cap (1 .. Len(BuildTranscript))

\* The scenes are read in a later statement than the status.
GetReadsScenes ==
    PageTurns("reading", IF EveryPanel(scenes) THEN "complete" ELSE "incomplete")

\* "Try again" is a POST; its answer makes the page poll again.
TryAgain == PageTurns("failed", "waiting")

-----------------------------------------------------------------------------
(* A process dies.  No lease and no timeout ever takes its job back.       *)

Crash == crashes < MaxCrashes /\ crashes' = crashes + 1

HandlerCrash(c) ==
    /\ Crash
    /\ call[c].pc \in {"launch", "mark"}
    /\ CallGoes(c, "ended")
    /\ UNCHANGED <<job, scenes, reference, worker, page, overlapped>>

\* A worker ends before its claim, because its key, its settings or the
\* database cannot be had, and leaves the job QUEUED; or it dies after it.
WorkerCrash(w) ==
    /\ Crash
    /\ worker[w].pc \in Working \cup {"new"}
    /\ WorkerEnds(w)
    /\ UNCHANGED <<job, scenes, reference, call, page, overlapped>>

-----------------------------------------------------------------------------

HandlerStep(c) == PostWrites(c) \/ Launch(c) \/ LaunchFails(c) \/ MarkNotStarted(c)

WorkerStep(w) ==
    \/ ClaimJob(w) \/ LoadContext(w) \/ LoadSavedPlan(w)
    \/ EnsureCharacterReference(w) \/ SavePlan(w)
    \/ StartPanel(w) \/ DrawPanel(w) \/ Succeed(w) \/ Fail(w)

Next ==
    \/ \E c \in Calls : PostReads(c) \/ HandlerStep(c) \/ HandlerCrash(c)
    \/ \E w \in Calls : WorkerStep(w) \/ WorkerCrash(w)
    \/ \E x \in Characters : OtherChapterEnsures(x)
    \/ GetReadsStatus \/ GetReadsScenes \/ TryAgain

Spec == Init /\ [][Next]_vars

\* A handler and a started run go on by themselves.
FairSpec ==
    Spec /\ \A c \in Calls : WF_vars(HandlerStep(c)) /\ WF_vars(WorkerStep(c))

-----------------------------------------------------------------------------

\* A storyboard that reports SUCCEEDED has a panel for every scene, and its
\* scenes together show the chapter's lines, each once and in order, however
\* often it was retried and whoever else was drawing it.  A page that was told
\* so shows all panels, though it reads the scenes after the status.
SucceededIsComplete ==
    /\ job = "SUCCEEDED" =>
         /\ EveryPanel(scenes)
         /\ \A n \in 1 .. Len(BuildTranscript) :
              \E i \in DOMAIN scenes : n \in LinesShown(i)
         /\ \A i, j \in DOMAIN scenes : i < j =>
              \A m \in LinesShown(i), n \in LinesShown(j) : m < n
    /\ page # "incomplete"

\* Every panel shows a character with the one reference image the story keeps
\* for it, though two chapters may draw their first storyboards at once.
OneFacePerCharacter ==
    \A i \in DOMAIN scenes :
        LET panel == scenes[i].panel
        IN  panel # NoPanel =>
              panel.faces = Restrict(reference, scenes[i].who)

PanelsStay ==
    \A i \in DOMAIN scenes :
        scenes[i].panel # NoPanel => scenes'[i].panel = scenes[i].panel

\* A retry draws no finished panel again, unless two workers were on the
\* storyboard at once: after two calls that both read FAILED, or after a launch
\* that was wrongly reported as failed.
PanelsAreKept == [][~overlapped => PanelsStay]_vars

\* If no process dies, before its claim or after it, a requested storyboard ends.
StoryboardsEnd ==
    [](crashes = 0) => (job \in {"QUEUED", "RUNNING"} ~> job \in {"SUCCEEDED", "FAILED"})
=============================================================================
