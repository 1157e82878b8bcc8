------------------------------- MODULE Narration -------------------------------
(***************************************************************************)
(* The spoken narration of one chapter:                                    *)
(*                                                                         *)
(*   services/narration_jobs.py     jobs in memory, mirrored to a file     *)
(*   services/character_audio.py    the thread's work: one clip per line   *)
(*   services/narration.py, script_parser.py   its text, and the lines     *)
(*   services/voice_casting.py      a voice for every character            *)
(*   services/voice_uploads.py      the author's clips and their metadata  *)
(*   api/routes/character_voice.py  the handlers                           *)
(*   ChapterNarrationTab.tsx        the page that polls                    *)
(*                                                                         *)
(* A clip is named by the request that uploaded it and a line by its place *)
(* in the script.  A file is written in one action, and a restart or a     *)
(* second writer may find it half written.                                 *)
(***************************************************************************)
EXTENDS Naturals, Sequences, FiniteSets, FiniteSetsExt, SequencesExt

CONSTANTS
    Scenes,      \* the chapter: paragraphs of a summary, and dialogue rows
    Library,     \* the voices with a verified transcript
    Archetypes,  \* what the model may say of the characters it is asked about
    Starts,      \* POSTs that start a narration
    PageStarts,  \* those sent by the page
    Polls,       \* polls of the page that may be on their way at once
    VoiceCalls,  \* requests that upload or delete a voice
    None, OldClip, Narrator,
    MaxFaults    \* bound: restarts of the server, writes and polls that fail

Recovered == "recovered"

ASSUME NarrationConstantsOK ==
    /\ PageStarts \subseteq Starts /\ MaxFaults \in Nat /\ IsFiniteSet(Polls)
    /\ Recovered \notin Starts \cup {None}
    /\ VoiceCalls \cap {None, OldClip} = {} /\ None # OldClip
    /\ None \notin Starts /\ Library # {}

-----------------------------------------------------------------------------
(* published_chapter_text, parse_script, speaking_characters, match_voice.  *)
(* A paragraph is its first line and whether there are more.               *)

\* "Scene 2. " in front is two more words, and a full stop: a heading is none
\* any more, and passes for a cue if it is short.
Numbered(p) ==
    [p EXCEPT !.first = IF @ = "heading" THEN "cue" ELSE @,
              !.name = <<"Scene", "n.">> \o @]

\* Line by line: no blank line separates a scene from what goes before.
JoinScene(text, scene) ==
    LET first == Numbered(Head(scene.summary))
        whole == IF text = <<>> THEN <<first>> \o Tail(scene.summary)
                 ELSE Front(text) \o <<[Last(text) EXCEPT !.more = TRUE]>> \o Tail(scene.summary)
    IN  IF scene.dialogue = 0 THEN whole
        ELSE Front(whole) \o <<[Last(whole) EXCEPT !.more = TRUE]>>

Text == FoldLeft(JoinScene, <<>>, Scenes)

IsHeading(p) == p.first = "heading" /\ ~p.more

\* A name of up to four words; with nothing under it, it yields no line.
IsCue(p) == p.first = "cue" /\ Len(p.name) <= 4

Unit(p) ==
    CASE IsHeading(p) -> [kind |-> "scene_heading", speaker |-> None]
      [] IsCue(p)     -> [kind |-> "dialogue", speaker |-> p.name]
      [] OTHER        -> [kind |-> "action", speaker |-> None]

Script ==
    LET kept == SelectSeq(Text, LAMBDA p : IsCue(p) => p.more)
    IN  [i \in DOMAIN kept |-> Unit(kept[i])]

Speakers == {Script[i].speaker : i \in DOMAIN Script} \ {None}

Score(voice, archetype) ==
    (IF archetype.gender # "neutral" /\ voice.gender = archetype.gender THEN 2 ELSE 0)
    + (IF voice.age = archetype.age THEN 1 ELSE 0)

\* The best score, and the largest id among equals.
MatchVoice(archetype) ==
    CHOOSE v \in Library : \A u \in Library \ {v} :
        \/ Score(v, archetype) > Score(u, archetype)
        \/ Score(v, archetype) = Score(u, archetype) /\ v.id > u.id

Fallback == [gender |-> "neutral", age |-> "adult"]

\* A character the answer leaves out, or all when it is unusable, falls back.
CastVoices(answer, names) ==
    [s \in names |-> MatchVoice(IF s \in DOMAIN answer THEN answer[s] ELSE Fallback).id]

-----------------------------------------------------------------------------
VARIABLES
    jobs,     \* the NarrationJob of a start, made or read, and the one recovered
    live,     \* _jobs: the start whose job the chapter has, or Recovered, or None
    thread,   \* a start: its handler, then its thread
    disk,     \* the chapter's JSON file
    meta,     \* metadata.json: character -> the clip's file and transcript
    files,    \* the clips: file -> the upload whose audio it holds
    voice,    \* requests that change a voice
    page,     \* ChapterNarrationTab
    poll,     \* polls on their way
    faults,
    doubled,  \* two threads have narrated at once (history)
    unsaved,  \* a write of the job's file has failed (history)
    crossed   \* two voice requests have overlapped (history)

jobVars   == <<jobs, live, thread, disk>>
voiceVars == <<meta, files, voice>>
pageVars  == <<page, poll>>
history   == <<faults, doubled, unsaved, crossed>>
vars == <<jobVars, voiceVars, pageVars, history>>

Torn      == [status |-> "torn", lines |-> <<>>]
NotStarted == [status |-> "not_started", lines |-> <<>>]
NoEntry   == [file |-> None, text |-> None]
NoPoll    == [pc |-> "idle", of |-> None, status |-> "not_started", since |-> 0,
              new |-> <<>>, total |-> 0]
IdleStart == [pc |-> "new", found |-> None, overrides |-> <<>>, cast |-> <<>>]
IdleVoice == [pc |-> "new", name |-> None, upload |-> FALSE, read |-> <<>>]

\* A character may have a clip from an earlier visit.
Init ==
    /\ jobs = [j \in Starts \cup {Recovered} |-> NotStarted]
    /\ live = None /\ disk = NotStarted
    /\ thread = [j \in Starts |-> IdleStart]
    /\ meta \in {[s \in Speakers |-> IF s = owner THEN [file |-> OldClip, text |-> OldClip]
                                                  ELSE NoEntry] : owner \in Speakers \cup {None}}
    /\ files = [f \in {OldClip} \cup VoiceCalls |->
                    IF f = OldClip THEN OldClip ELSE None]
    /\ voice = [r \in VoiceCalls |-> IdleVoice]
    /\ page = [status |-> "unknown", shown |-> <<>>, known |-> 0, posting |-> None]
    /\ poll = [p \in Polls |-> NoPoll]
    /\ faults = 0 /\ doubled = FALSE /\ unsaved = FALSE /\ crossed = FALSE

-----------------------------------------------------------------------------
(* get_status.                                                             *)

\* Mutant: a narration found running is taken to be running still.
LoadFromDiskAsIs(file) == IF file.status = "torn" THEN NotStarted ELSE file

\* A running narration whose process is gone was interrupted; its lines stay.
LoadFromDisk(file) ==
    IF file.status = "torn" THEN NotStarted
    ELSE IF file.status = "generating" THEN [file EXCEPT !.status = "failed"]
    ELSE file

Writing == {"first", "saved", "final"}

\* What a reader of the file finds: a file being written may be half there.
DiskRead == {disk} \cup (IF \E j \in Starts : thread[j].pc \in Writing THEN {Torn} ELSE {})

\* A request that finds no job in memory reads the file, without the lock, and
\* keeps what it says in memory unless a job is there by now.
Caches(found) ==
    IF found.status # "not_started" /\ live = None
    THEN jobs' = [jobs EXCEPT ![Recovered] = found] /\ live' = Recovered
    ELSE UNCHANGED <<jobs, live>>

-----------------------------------------------------------------------------
(* voice_uploads.py.  Uploads run on the event loop, one at a time; the     *)
(* other handlers run beside them.                                         *)

Nothing == [s \in Speakers |-> NoEntry]

\* What a reader finds: nothing, while another request rewrites the file.
MetaRead(r) ==
    {meta} \cup (IF \E o \in VoiceCalls \ {r} : voice[o].pc = "save" THEN {Nothing}
                                                                    ELSE {})

\* list_character_voices: the characters whose clip is there.
CharacterVoices(read) ==
    [s \in {t \in Speakers : read[t] # NoEntry /\ files[read[t].file] # None} |-> read[s]]

\* Mutant: the file is named after the character.
FilenameOfCharacter(r) == OldClip

\* A fresh name for every upload.
Filename(r) == r

InProgress(o) == voice[o].pc \in {"unlink", "save"}

LoadMetadata(r, name, upload) ==
    /\ voice[r].pc = "new"
    /\ upload => ~ \E o \in VoiceCalls : InProgress(o) /\ voice[o].upload
    /\ \E read \in MetaRead(r) :
         /\ upload \/ read[name] # NoEntry
         /\ voice' = [voice EXCEPT ![r] = [pc |-> "unlink", name |-> name,
                                           upload |-> upload, read |-> read]]
    /\ crossed' = (crossed \/ \E o \in VoiceCalls : InProgress(o))
    /\ UNCHANGED <<jobVars, meta, files, pageVars, faults, doubled, unsaved>>

\* The old clip goes before the new one and the metadata are written.
UnlinkClip(r) ==
    LET entry == voice[r].read[voice[r].name]
    IN  /\ voice[r].pc = "unlink"
        /\ files' = IF entry = NoEntry THEN files
                    ELSE [files EXCEPT ![entry.file] = None]
        /\ voice' = [voice EXCEPT ![r].pc = "save"]
        /\ UNCHANGED <<jobVars, meta, pageVars, history>>

\* Mutant: the metadata is written from this request's voice alone.
SavedAlone(r, entry) == [Nothing EXCEPT ![voice[r].name] = entry]

Saved(r, entry) == [voice[r].read EXCEPT ![voice[r].name] = entry]

SaveVoice(r) ==
    LET f == Filename(r)
    IN  /\ voice[r].pc = "save"
        /\ \/ /\ voice[r].upload
              /\ files' = [files EXCEPT ![f] = r]
              /\ meta' = Saved(r, [file |-> f, text |-> r])
           \/ /\ ~voice[r].upload
              /\ meta' = Saved(r, NoEntry)
              /\ UNCHANGED files
        /\ voice' = [voice EXCEPT ![r] = [IdleVoice EXCEPT !.pc = "done"]]
        /\ UNCHANGED <<jobVars, pageVars, history>>

-----------------------------------------------------------------------------
(* start_chapter_narration and start_job.                                  *)

Beside == UNCHANGED <<meta, files, voice, poll, faults, crossed>>
Goes(j, pc) == thread' = [thread EXCEPT ![j].pc = pc]

\* The button is there before a narration and after a failed one.  The page
\* forgets its lines and waits for the answer.
PageAsks(j) ==
    page' = IF j \in PageStarts
            THEN [page EXCEPT !.shown = <<>>, !.known = 0, !.posting = j] ELSE page

Narrated == {"generating", "ready"}

\* Without the lock: nothing keeps a second call from finding the same.
StartChecks(j) ==
    /\ thread[j].pc = "new"
    /\ j \in PageStarts => page.status \in {"not_started", "failed"} /\ page.posting = None
    /\ IF live # None /\ jobs[live].status \in Narrated
       THEN thread' = [thread EXCEPT ![j].pc = "done", ![j].found = live]
       ELSE \E read \in MetaRead(None) :
              thread' = [thread EXCEPT ![j].pc = IF live = None THEN "file" ELSE "put",
                                       ![j].overrides = CharacterVoices(read)]
    /\ PageAsks(j)
    /\ UNCHANGED <<jobs, live, disk, doubled, unsaved>> /\ Beside

\* A finished job in the file is answered as it was read.
StartReadsFile(j) ==
    /\ thread[j].pc = "file"
    /\ \E file \in DiskRead :
         LET found == LoadFromDisk(file)
         IN  IF found.status \in Narrated
             THEN /\ jobs' = [jobs EXCEPT ![j] = found,
                                          ![Recovered] = IF live = None THEN found ELSE @]
                  /\ live' = IF live = None THEN Recovered ELSE live
                  /\ Goes(j, "done")
             ELSE Caches(found) /\ Goes(j, "put")
    /\ UNCHANGED <<disk, page, doubled, unsaved>> /\ Beside

PutJob(j) ==
    /\ thread[j].pc = "put"
    /\ jobs' = [jobs EXCEPT ![j].status = "generating"]
    /\ live' = j
    /\ Goes(j, "first")
    /\ doubled' = (doubled \/ \E k \in Starts : thread[k].pc \in
                                {"first", "cast", "line", "saved", "final"})
    /\ UNCHANGED <<disk, page, unsaved>> /\ Beside

AfterWrite(t) ==
    CASE t.pc = "first" -> [t EXCEPT !.pc = "cast"]
      [] t.pc = "saved" -> [t EXCEPT !.pc = "line"]
      [] t.pc = "final" -> [IdleStart EXCEPT !.pc = "done"]

\* write_text; two threads that write at once may leave a mixture.
Persist(j) ==
    /\ thread[j].pc \in Writing
    /\ disk' \in {jobs[j]} \cup (IF \E k \in Starts \ {j} : thread[k].pc \in Writing
                                  THEN {Torn} ELSE {})
    /\ thread' = [thread EXCEPT ![j] = AfterWrite(@)]
    /\ UNCHANGED <<jobs, live, page, doubled, unsaved>> /\ Beside

-----------------------------------------------------------------------------
(* _run and synthesize_script_audio.                                       *)

Cast(j) ==
    LET names == Speakers \ DOMAIN thread[j].overrides
    IN  /\ thread[j].pc = "cast"
        /\ \E known \in SUBSET names : \E answer \in [known -> Archetypes] :
             thread' = [thread EXCEPT ![j].pc = "line",
                                      ![j].cast = CastVoices(answer, names)]
        /\ UNCHANGED <<jobs, live, disk, page, doubled, unsaved>> /\ Beside

\* An upload wins; its clip is read when the line is spoken.
Reference(j, speaker) ==
    IF speaker = None THEN [audio |-> Narrator, text |-> Narrator]
    ELSE IF speaker \in DOMAIN thread[j].overrides
    THEN LET entry == thread[j].overrides[speaker]
         IN  [audio |-> files[entry.file], text |-> entry.text]
    ELSE [audio |-> thread[j].cast[speaker], text |-> thread[j].cast[speaker]]

\* Mutant: the line goes to the chapter's job, not to the thread's own.
OwnerIsLive(j) == live

\* on_line appends to the job the thread was started for.
Owner(j) == j

\* Mutant: the line is not written to the file.
AfterLineUnsaved == "line"

AfterLine == "saved"

SpeakLine(j) ==
    LET i   == Len(jobs[j].lines) + 1
        ref == Reference(j, Script[i].speaker)
    IN  /\ thread[j].pc = "line" /\ i \in DOMAIN Script
        /\ ref.audio # None
        /\ jobs' = [jobs EXCEPT ![Owner(j)].lines =
                       Append(@, [line |-> i, audio |-> ref.audio, text |-> ref.text])]
        /\ Goes(j, AfterLine)
        /\ UNCHANGED <<live, disk, page, doubled, unsaved>> /\ Beside

Ends(j, status) ==
    /\ jobs' = [jobs EXCEPT ![j].status = status]
    /\ Goes(j, "final")
    /\ UNCHANGED <<live, disk, page, doubled, unsaved>> /\ Beside

AllSpoken(j) == Len(jobs[j].lines) = Len(Script)

JoinTrack(j) == thread[j].pc = "line" /\ Script # <<>> /\ AllSpoken(j) /\ Ends(j, "ready")

\* A model call raised, a clip was gone, or the script was empty.
FailNarration(j) == thread[j].pc \in {"cast", "line"} /\ Ends(j, "failed")

-----------------------------------------------------------------------------
(* ChapterNarrationTab.                                                    *)

Elsewhere == UNCHANGED <<thread, disk, voiceVars, history>>

\* Mutant: polling goes on from the first line.
SinceStart == 0

Since == page.known

\* The lines from number since on, with the job or the status to answer.
Copied(of, status, lines, since) ==
    [pc |-> "answer", of |-> of, status |-> status, since |-> since, total |-> Len(lines),
     new |-> [i \in 1 .. Len(SubSeq(lines, since + 1, Len(lines))) |-> lines[since + i].line]]

\* A poll looks the job up and copies the lines it has.
PollReads(p) ==
    /\ poll[p].pc = "idle"
    /\ page.status \in {"unknown", "generating"}
    /\ poll' = [poll EXCEPT ![p] =
                  IF live = None THEN [NoPoll EXCEPT !.pc = "file", !.since = Since]
                  ELSE Copied(live, "not_started", jobs[live].lines, Since)]
    /\ UNCHANGED <<jobs, live, page>> /\ Elsewhere

\* It answers what it read, though another job be there by now.
PollReadsFile(p) ==
    /\ poll[p].pc = "file"
    /\ \E file \in DiskRead :
         LET found == LoadFromDisk(file)
         IN  /\ Caches(found)
             /\ poll' = [poll EXCEPT ![p] =
                            Copied(None, found.status, found.lines, poll[p].since)]
    /\ UNCHANGED page /\ Elsewhere

Apply(status, new, total) ==
    page' = [page EXCEPT !.status = status, !.shown = @ \o new, !.known = total]

\* The status is read after the lines; the page appends what it was sent.
PollAnswers(p) ==
    /\ poll[p].pc = "answer"
    /\ Apply(IF poll[p].of = None THEN poll[p].status ELSE jobs[poll[p].of].status,
             poll[p].new, poll[p].total)
    /\ poll' = [poll EXCEPT ![p] = NoPoll]
    /\ UNCHANGED <<jobs, live>> /\ Elsewhere

\* The job a start answers with: its own, or the one that was there.
AnswerOf(j) == IF thread[j].found = None THEN j ELSE thread[j].found

\* The answer to the page's POST.
StartAnswers ==
    /\ page.posting # None
    /\ thread[page.posting].pc \notin {"new", "file", "put", "first"}
    /\ LET job == jobs[AnswerOf(page.posting)]
       IN  page' = [page EXCEPT !.status = job.status, !.posting = None,
                        !.shown = [i \in DOMAIN job.lines |-> job.lines[i].line],
                        !.known = Len(job.lines)]
    /\ UNCHANGED <<jobs, live, poll>> /\ Elsewhere

-----------------------------------------------------------------------------
(* Faults.                                                                 *)

Fault == faults < MaxFaults /\ faults' = faults + 1

\* The write raised OSError, which _persist ignores.
PersistFails(j) ==
    /\ Fault
    /\ thread[j].pc \in Writing
    /\ disk' \in {disk, Torn}
    /\ thread' = [thread EXCEPT ![j] = AfterWrite(@)]
    /\ unsaved' = TRUE
    /\ UNCHANGED <<jobs, live, voiceVars, pageVars, doubled, crossed>>

PollFails(p) ==
    /\ Fault
    /\ poll[p].pc = "answer"
    /\ poll' = [poll EXCEPT ![p] = NoPoll]
    /\ UNCHANGED <<jobVars, voiceVars, page, doubled, unsaved, crossed>>

\* Memory, threads and requests go; a file that was being written is torn.
Restart ==
    /\ Fault
    /\ live' = None
    /\ jobs' = [j \in DOMAIN jobs |-> NotStarted]
    /\ thread' = [j \in Starts |-> IF thread[j].pc = "new" THEN thread[j]
                                   ELSE [IdleStart EXCEPT !.pc = "done"]]
    /\ disk' \in DiskRead
    /\ meta' \in MetaRead(None)
    /\ voice' = [r \in VoiceCalls |-> IF voice[r].pc = "new" THEN voice[r]
                                      ELSE [IdleVoice EXCEPT !.pc = "done"]]
    /\ poll' = [p \in Polls |-> NoPoll]
    /\ page' = [page EXCEPT !.posting = None]
    /\ UNCHANGED <<files, doubled, unsaved, crossed>>

-----------------------------------------------------------------------------

ThreadStep(j) == StartReadsFile(j) \/ PutJob(j) \/ Persist(j) \/ Cast(j) \/ SpeakLine(j)
                 \/ JoinTrack(j) \/ FailNarration(j)

Next ==
    \/ \E j \in Starts : StartChecks(j) \/ ThreadStep(j) \/ PersistFails(j)
    \/ \E r \in VoiceCalls :
         \/ \E s \in Speakers, upload \in BOOLEAN : LoadMetadata(r, s, upload)
         \/ UnlinkClip(r) \/ SaveVoice(r)
    \/ StartAnswers
    \/ \E p \in Polls :
         PollReads(p) \/ PollReadsFile(p) \/ PollAnswers(p) \/ PollFails(p)
    \/ Restart

Spec == Init /\ [][Next]_vars

\* A thread runs and the page polls; nobody has to ask for anything.
FairSpec ==
    /\ Spec
    /\ \A j \in Starts : WF_vars(ThreadStep(j))
    /\ \A p \in Polls : WF_vars(PollReads(p)) /\ WF_vars(PollReadsFile(p))
                        /\ WF_vars(PollAnswers(p))
    /\ WF_vars(StartAnswers)

-----------------------------------------------------------------------------

\* A job's lines are the script's, in order and each once, an uploaded clip is
\* used with its own transcript, and one character has one voice in it; READY
\* means all lines.  So it is for what a restart reads from the file, and with
\* two threads on one chapter or voices replaced while it is narrated.
LinesAreTheScripts ==
    \A job \in {jobs[j] : j \in DOMAIN jobs} \cup {disk} :
        /\ \A i \in DOMAIN job.lines :
             /\ job.lines[i].line = i
             /\ job.lines[i].audio = job.lines[i].text
             /\ \A k \in DOMAIN job.lines : Script[i].speaker = Script[k].speaker
                                             => job.lines[i].audio = job.lines[k].audio
        /\ job.status = "ready" => Len(job.lines) = Len(Script)

\* A restart loses at most the line that is being written: while one thread
\* narrates and writes succeed, the file follows the job in memory.
DiskFollowsMemory ==
    LET job == jobs[live]
    IN  live \in Starts /\ thread[live].pc # "first" /\ ~doubled /\ ~unsaved =>
          /\ thread[live].pc \notin Writing => disk = job
          /\ IsPrefix(disk.lines, job.lines)
          /\ Len(job.lines) <= Len(disk.lines) + 1

\* While its polls do not overlap and nobody else starts a narration of the
\* chapter, the page shows the lines in order, each once: through polls that
\* fail, a restart, and a file that has fewer lines than the page knows.
ShownInOrder ==
    Cardinality(Polls) = 1 /\ (\A j \in Starts \ PageStarts : thread[j].pc = "new") =>
        page.shown = [i \in 1 .. Len(page.shown) |-> i]

\* A page that shows a narration in progress learns how it ended, whatever
\* restarted in between.
ProgressEnds == page.status = "generating" ~> page.status # "generating"

\* A voice changes only when its own character's is uploaded or deleted, if no
\* two such requests overlap and the server does not die in one.
VoicesAreKept ==
    [][\A s \in Speakers : meta'[s] # meta[s] =>
          \/ crossed \/ faults' # faults
          \/ \E r \in VoiceCalls : voice[r].pc = "save" /\ voice'[r].pc = "done"
                                    /\ voice[r].name = s
      ]_vars
=============================================================================
