-------------------------- MODULE Narration_proofs --------------------------
(***************************************************************************)
(* Proofs about Narration, for all values of its constants.                *)
(*                                                                         *)
(* Four inductive invariants, each resting on those before it.  VoiceInv:  *)
(* a request that changes a voice has read what is there unless another    *)
(* overlapped it, and a clip's file holds what its name says.  JobInv: a   *)
(* thread gives a speaker the voice it started with or no line at all,     *)
(* and its job is empty until then.  DiskInv: the thread that narrates     *)
(* alone has the chapter's job, and the file is behind by a line at most.  *)
(* PageInv: a page that polls knows the lines it shows, and an answer on   *)
(* its way goes on from there; a start answers with the chapter's job.     *)
(***************************************************************************)
EXTENDS Narration, FiniteSetTheorems, TLAPS

-----------------------------------------------------------------------------
(* The voices: the invariant.                                              *)

Clips == {OldClip} \cup VoiceCalls

\* A clip and its transcript, from one upload.
Uploaded == {[file |-> f, text |-> f] : f \in Clips}

Metadata == [Speakers -> Uploaded \cup {NoEntry}]

VoiceState == [pc : {"new", "unlink", "save", "done"},
               name : Speakers \cup {None}, upload : BOOLEAN,
               read : {<<>>} \cup Metadata]

VoiceTypes ==
    /\ meta \in Metadata /\ voice \in [VoiceCalls -> VoiceState]
    /\ files \in [Clips -> Clips \cup {None}]
    /\ crossed \in BOOLEAN /\ faults \in Nat

\* A file holds the clip it is named for.
FilesInv == \A f \in Clips : files[f] \in {f, None}

\* What a request has read is what is there while it is alone.
ReadsInv ==
    \A r \in VoiceCalls : InProgress(r) =>
        /\ voice[r].read \in Metadata /\ voice[r].name \in Speakers
        /\ crossed \/ /\ voice[r].read = meta
                      /\ \A o \in VoiceCalls : InProgress(o) => o = r

VoiceInv == VoiceTypes /\ FilesInv /\ ReadsInv

\* The steps that touch no voice.
OtherStep == UNCHANGED <<meta, files, voice, crossed>> /\ faults' \in {faults, faults + 1}

LEMMA OtherKeepsVoices ==
    ASSUME VoiceInv, OtherStep
    PROVE  VoiceInv'
<1>1. VoiceTypes'
  BY DEF VoiceInv, VoiceTypes, OtherStep, Metadata, VoiceState, Clips, Uploaded
<1>2. FilesInv'
  BY DEF VoiceInv, FilesInv, OtherStep, Clips
<1>3. ReadsInv'
  BY DEF VoiceInv, ReadsInv, OtherStep, InProgress
<1>. QED
  BY <1>1, <1>2, <1>3 DEF VoiceInv

LEMMA InitVoiceInv == Init => VoiceInv
<1>. SUFFICES ASSUME Init PROVE VoiceInv
  OBVIOUS
<1>1. meta \in Metadata
  BY DEF Init, Metadata, Uploaded, Clips
<1>2. /\ files \in [Clips -> Clips \cup {None}]
      /\ \A f \in Clips : files[f] \in {f, None}
  BY DEF Init, Clips
<1>3. IdleVoice \in VoiceState
  BY DEF IdleVoice, VoiceState
<1>4. voice \in [VoiceCalls -> VoiceState]
  BY <1>3 DEF Init
<1>5. \A r \in VoiceCalls : ~InProgress(r)
  BY DEF Init, InProgress, IdleVoice
<1>6. crossed \in BOOLEAN /\ faults \in Nat
  BY DEF Init
<1>. QED
  BY <1>1, <1>2, <1>4, <1>5, <1>6 DEF VoiceInv, VoiceTypes, FilesInv, ReadsInv

\* A reader finds some metadata, and the metadata if nobody rewrites it.
LEMMA MetaReadIs ==
    ASSUME VoiceInv, NEW r, NEW read \in MetaRead(r)
    PROVE  /\ read \in Metadata
           /\ (\A o \in VoiceCalls : ~InProgress(o)) => read = meta
<1>1. Nothing \in Metadata
  BY DEF Nothing, Metadata
<1>2. read = meta \/ (read = Nothing /\ \E o \in VoiceCalls : voice[o].pc = "save")
  BY DEF MetaRead
<1>. QED
  BY <1>1, <1>2 DEF VoiceInv, VoiceTypes, InProgress

LEMMA LoadMetadataStep ==
    ASSUME VoiceInv, NEW r \in VoiceCalls, NEW s \in Speakers, NEW upload \in BOOLEAN,
           LoadMetadata(r, s, upload)
    PROVE  VoiceInv'
<1>1. PICK read \in MetaRead(r) :
        voice' = [voice EXCEPT ![r] = [pc |-> "unlink", name |-> s,
                                       upload |-> upload, read |-> read]]
  BY DEF LoadMetadata
<1>2. read \in Metadata /\ ((\A o \in VoiceCalls : ~InProgress(o)) => read = meta)
  BY MetaReadIs
<1>3. UNCHANGED <<meta, files, faults>>
  BY DEF LoadMetadata
<1>4. crossed' = (crossed \/ \E o \in VoiceCalls : InProgress(o))
  BY DEF LoadMetadata
<1>5. [pc |-> "unlink", name |-> s, upload |-> upload, read |-> read] \in VoiceState
  BY <1>2 DEF VoiceState
<1>6. voice' \in [VoiceCalls -> VoiceState]
  BY <1>1, <1>5 DEF VoiceInv, VoiceTypes
<1>7. crossed' \in BOOLEAN
  BY <1>4 DEF VoiceInv, VoiceTypes
<1>8. VoiceTypes'
  BY <1>3, <1>6, <1>7 DEF VoiceInv, VoiceTypes, Metadata, VoiceState, Clips, Uploaded
<1>9. FilesInv'
  BY <1>3 DEF VoiceInv, FilesInv, Clips
<1>10. \A o \in VoiceCalls : o # r => voice'[o] = voice[o]
  BY <1>1 DEF VoiceInv, VoiceTypes
<1>11. voice'[r].read = read /\ voice'[r].name = s
  BY <1>1 DEF VoiceInv, VoiceTypes
<1>12. ASSUME NEW o \in VoiceCalls, InProgress(o)'
       PROVE  /\ voice'[o].read \in Metadata /\ voice'[o].name \in Speakers
              /\ ~crossed' => voice'[o].read = meta
              /\ ~crossed' => \A q \in VoiceCalls : InProgress(q)' => q = o
  <2>1. \A q \in VoiceCalls : q # r => (InProgress(q)' <=> InProgress(q))
    BY <1>10 DEF InProgress
  <2>2. CASE o = r
    <3>1. ~crossed' => \A q \in VoiceCalls : ~InProgress(q)
      BY <1>4
    <3>2. voice'[o].read = read /\ voice'[o].name = s
      BY <1>11, <2>2
    <3>3. ~crossed' => \A q \in VoiceCalls : InProgress(q)' => q = o
      BY <2>1, <2>2, <3>1
    <3>. QED
      BY <1>2, <3>1, <3>2, <3>3
  <2>3. CASE o # r
    <3>1. InProgress(o) /\ voice'[o] = voice[o]
      BY <1>10, <1>12, <2>1, <2>3
    <3>2. crossed'
      BY <1>4, <3>1
    <3>. QED
      BY <3>1, <3>2 DEF VoiceInv, ReadsInv
  <2>. QED
    BY <2>2, <2>3
<1>13. ReadsInv'
  <2>1. Metadata' = Metadata
    BY DEF Metadata, Uploaded, Clips
  <2>. QED
    BY <1>3, <1>12, <2>1 DEF ReadsInv
<1>. QED
  BY <1>8, <1>9, <1>13 DEF VoiceInv

LEMMA UnlinkClipStep ==
    ASSUME VoiceInv, NEW r \in VoiceCalls, UnlinkClip(r)
    PROVE  VoiceInv'
<1>1. /\ voice[r].pc = "unlink" /\ voice' = [voice EXCEPT ![r].pc = "save"]
      /\ UNCHANGED <<meta, crossed, faults>>
  BY DEF UnlinkClip, history
<1>2. PICK entry : entry = voice[r].read[voice[r].name]
  OBVIOUS
<1>3. entry \in Uploaded \cup {NoEntry}
  <2>1. voice[r].read \in Metadata /\ voice[r].name \in Speakers
    BY <1>1 DEF VoiceInv, ReadsInv, InProgress
  <2>. QED
    BY <1>2, <2>1 DEF Metadata
<1>4. files' = IF entry = NoEntry THEN files ELSE [files EXCEPT ![entry.file] = None]
  BY <1>2 DEF UnlinkClip
<1>5. /\ files' \in [Clips -> Clips \cup {None}]
      /\ \A f \in Clips : files'[f] \in {f, None}
  BY <1>3, <1>4 DEF VoiceInv, VoiceTypes, FilesInv, Uploaded
<1>6. voice' \in [VoiceCalls -> VoiceState]
  BY <1>1 DEF VoiceInv, VoiceTypes, VoiceState
<1>7. VoiceTypes'
  BY <1>1, <1>5, <1>6 DEF VoiceInv, VoiceTypes, Metadata, VoiceState, Clips, Uploaded
<1>8. FilesInv'
  BY <1>5 DEF FilesInv, Clips
<1>9. \A o \in VoiceCalls : /\ voice'[o].read = voice[o].read
                            /\ voice'[o].name = voice[o].name
                            /\ voice'[o].pc \in {"unlink", "save"} <=>
                                 voice[o].pc \in {"unlink", "save"}
  BY <1>1 DEF VoiceInv, VoiceTypes, VoiceState
<1>10. ReadsInv'
  <2>1. Metadata' = Metadata
    BY DEF Metadata, Uploaded, Clips
  <2>. QED
    BY <1>1, <1>9, <2>1 DEF VoiceInv, ReadsInv, InProgress
<1>. QED
  BY <1>7, <1>8, <1>10 DEF VoiceInv

LEMMA SaveVoiceStep ==
    ASSUME VoiceInv, NEW r \in VoiceCalls, SaveVoice(r)
    PROVE  VoiceInv'
<1>1. /\ voice[r].pc = "save"
      /\ voice' = [voice EXCEPT ![r] = [IdleVoice EXCEPT !.pc = "done"]]
      /\ UNCHANGED <<crossed, faults>>
  BY DEF SaveVoice, history
<1>2. voice[r].read \in Metadata /\ voice[r].name \in Speakers
  BY <1>1 DEF VoiceInv, ReadsInv, InProgress
<1>3. meta' \in Metadata
  <2>1. [file |-> r, text |-> r] \in Uploaded /\ Filename(r) = r
    BY DEF Uploaded, Clips, Filename
  <2>2. \A entry \in Uploaded \cup {NoEntry} : Saved(r, entry) \in Metadata
    BY <1>2 DEF Saved, Metadata
  <2>. QED
    BY <2>1, <2>2 DEF SaveVoice
<1>4. /\ files' \in [Clips -> Clips \cup {None}]
      /\ \A f \in Clips : files'[f] \in {f, None}
  BY DEF SaveVoice, Filename, VoiceInv, VoiceTypes, FilesInv, Clips
<1>5. voice' \in [VoiceCalls -> VoiceState]
  BY <1>1 DEF VoiceInv, VoiceTypes, VoiceState, IdleVoice
<1>6. VoiceTypes'
  BY <1>1, <1>3, <1>4, <1>5
  DEF VoiceInv, VoiceTypes, Metadata, VoiceState, Clips, Uploaded
<1>7. FilesInv'
  BY <1>4 DEF FilesInv, Clips
<1>8. ReadsInv'
  <2>1. \A o \in VoiceCalls : InProgress(o)' => InProgress(o) /\ o # r
    BY <1>1 DEF InProgress, IdleVoice, VoiceInv, VoiceTypes
  <2>2. \A o \in VoiceCalls : o # r => voice'[o] = voice[o]
    BY <1>1 DEF VoiceInv, VoiceTypes
  <2>3. \A o \in VoiceCalls : InProgress(o)' => crossed
    BY <1>1, <2>1 DEF VoiceInv, ReadsInv, InProgress
  <2>4. Metadata' = Metadata
    BY DEF Metadata, Uploaded, Clips
  <2>. QED
    BY <1>1, <2>1, <2>2, <2>3, <2>4 DEF VoiceInv, ReadsInv
<1>. QED
  BY <1>6, <1>7, <1>8 DEF VoiceInv

LEMMA RestartVoiceStep ==
    ASSUME VoiceInv, Restart
    PROVE  VoiceInv'
<1>1. meta' \in Metadata
  BY MetaReadIs DEF Restart
<1>2. /\ voice' = [r \in VoiceCalls |-> IF voice[r].pc = "new" THEN voice[r]
                                        ELSE [IdleVoice EXCEPT !.pc = "done"]]
      /\ faults' = faults + 1 /\ UNCHANGED <<files, crossed>>
  BY DEF Restart, Fault
<1>3. [IdleVoice EXCEPT !.pc = "done"] \in VoiceState
  BY DEF IdleVoice, VoiceState
<1>4. voice' \in [VoiceCalls -> VoiceState]
  BY <1>2, <1>3 DEF VoiceInv, VoiceTypes
<1>5. VoiceTypes'
  <2>1. crossed' \in BOOLEAN /\ faults' \in Nat
    BY <1>2 DEF VoiceInv, VoiceTypes
  <2>2. /\ Metadata' = Metadata /\ VoiceState' = VoiceState
        /\ Clips' = Clips
    BY DEF Metadata, VoiceState, Clips, Uploaded
  <2>. QED
    BY <1>1, <1>2, <1>4, <2>1, <2>2 DEF VoiceInv, VoiceTypes
<1>6. FilesInv'
  BY <1>2 DEF VoiceInv, FilesInv, Clips
<1>7. \A r \in VoiceCalls : ~InProgress(r)'
  BY <1>2 DEF InProgress, IdleVoice
<1>8. ReadsInv'
  BY <1>7 DEF ReadsInv
<1>. QED
  BY <1>5, <1>6, <1>8 DEF VoiceInv

\* Which steps are which.
LEMMA VoiceSteps ==
    ASSUME [Next]_vars
    PROVE  \/ OtherStep
           \/ \E r \in VoiceCalls : SaveVoice(r) \/ UnlinkClip(r)
           \/ \E r \in VoiceCalls, s \in Speakers, upload \in BOOLEAN :
                 LoadMetadata(r, s, upload)
           \/ Restart
<1>1. ASSUME NEW j \in Starts, StartChecks(j) \/ ThreadStep(j)
      PROVE  OtherStep
  BY <1>1 DEF StartChecks, ThreadStep, StartReadsFile, PutJob, Persist, Cast,
              SpeakLine, JoinTrack, FailNarration, Ends, Beside, OtherStep
<1>2. ASSUME NEW j \in Starts, PersistFails(j)
      PROVE  OtherStep
  BY <1>2 DEF PersistFails, Fault, voiceVars, OtherStep
<1>3. ASSUME StartAnswers
      PROVE  OtherStep
  BY <1>3 DEF StartAnswers, Elsewhere, voiceVars, history, OtherStep
<1>4. ASSUME NEW p \in Polls,
             PollReads(p) \/ PollReadsFile(p) \/ PollAnswers(p) \/ PollFails(p)
      PROVE  OtherStep
  BY <1>4 DEF PollReads, PollReadsFile, PollAnswers, PollFails, Elsewhere, Fault, voiceVars, history,
              OtherStep
<1>5. ASSUME UNCHANGED vars
      PROVE  OtherStep
  BY <1>5 DEF vars, voiceVars, history, OtherStep
<1>. QED
  BY <1>1, <1>2, <1>3, <1>4, <1>5 DEF Next

LEMMA VoiceStep ==
    ASSUME VoiceInv, [Next]_vars
    PROVE  VoiceInv'
  BY OtherKeepsVoices, SaveVoiceStep, UnlinkClipStep, LoadMetadataStep,
     RestartVoiceStep, VoiceSteps

LEMMA VoicesAlways == Spec => []VoiceInv
<1>1. VoiceInv /\ [Next]_vars => VoiceInv'
  BY VoiceStep
<1>. QED
  BY <1>1, InitVoiceInv, PTL DEF Spec

\* A voice changes only by a request about its own character, unless requests
\* have overlapped or the server dies in one.
THEOREM VoicesStay == Spec => VoicesAreKept
<1>. DEFINE Kept ==
       \A s \in Speakers : meta'[s] # meta[s] =>
          \/ crossed \/ faults' # faults
          \/ \E r \in VoiceCalls : voice[r].pc = "save" /\ voice'[r].pc = "done"
                                    /\ voice[r].name = s
<1>1. ASSUME VoiceInv, [Next]_vars
      PROVE  Kept \/ UNCHANGED vars
  <2>1. ASSUME NEW r \in VoiceCalls, SaveVoice(r)
        PROVE  Kept
    <3>1. voice[r].pc = "save" /\ voice'[r].pc = "done"
      BY <1>1, <2>1 DEF SaveVoice, IdleVoice, VoiceInv, VoiceTypes
    <3>2. /\ voice[r].read \in Metadata /\ voice[r].name \in Speakers
          /\ crossed \/ voice[r].read = meta
      BY <1>1, <3>1 DEF VoiceInv, ReadsInv, InProgress
    <3>3. \E entry : meta' = [voice[r].read EXCEPT ![voice[r].name] = entry]
      BY <2>1 DEF SaveVoice, Saved
    <3>4. \A s \in Speakers : s # voice[r].name => meta'[s] = voice[r].read[s]
      BY <3>2, <3>3 DEF Metadata
    <3>. QED
      BY <3>1, <3>2, <3>4
  <2>2. ASSUME Restart
        PROVE  Kept
    BY <1>1, <2>2 DEF Restart, Fault, VoiceInv, VoiceTypes
  <2>3. ASSUME meta' = meta
        PROVE  Kept
    BY <2>3
  <2>. HIDE DEF Kept
  <2>4. ASSUME NEW r \in VoiceCalls,
               UnlinkClip(r) \/ \E s \in Speakers, upload \in BOOLEAN :
                                   LoadMetadata(r, s, upload)
        PROVE  Kept
    BY <2>3, <2>4 DEF UnlinkClip, LoadMetadata
  <2>5. ASSUME OtherStep
        PROVE  Kept
    BY <2>3, <2>5 DEF OtherStep
  <2>. QED
    BY <1>1, <2>1, <2>2, <2>4, <2>5, VoiceSteps
<1>2. VoiceInv /\ [Next]_vars => [Kept]_vars
  BY <1>1
<1>. QED
  BY <1>2, VoicesAlways, PTL DEF Spec, VoicesAreKept

-----------------------------------------------------------------------------
(* The jobs: the invariant.                                                *)

CastIds == {MatchVoice(a).id : a \in Archetypes \cup {Fallback}}

Overrides == UNION {[S -> Uploaded] : S \in SUBSET Speakers}
Casts     == UNION {[S -> CastIds] : S \in SUBSET Speakers}

Sounds == {Narrator} \cup Clips \cup CastIds
Line == [line : Nat, audio : Sounds, text : Sounds]

JobStatus == {"not_started", "generating", "failed", "ready"}
Job  == [status : JobStatus, lines : Seq(Line)]
File == [status : JobStatus \cup {"torn"}, lines : Seq(Line)]

Pcs == {"new", "file", "put", "first", "cast", "line", "saved", "final", "done"}

Thread == [pc : Pcs, found : Starts \cup {Recovered, None},
           overrides : Overrides \cup {<<>>}, cast : Casts \cup {<<>>}]

JobTypes ==
    /\ jobs \in [Starts \cup {Recovered} -> Job] /\ disk \in File
    /\ live \in Starts \cup {Recovered, None}
    /\ thread \in [Starts -> Thread]

\* The voice that a thread gives a speaker, whatever is uploaded meanwhile.
VoiceFor(j, s) ==
    IF s = None THEN Narrator
    ELSE IF s \in DOMAIN thread[j].overrides THEN thread[j].overrides[s].text
    ELSE thread[j].cast[s]

ThreadInv(j) ==
    /\ thread[j].pc \notin {"new", "done"} => thread[j].overrides \in Overrides
    /\ thread[j].pc \in {"new", "file", "put", "first", "cast"} => jobs[j].lines = <<>>
    /\ thread[j].pc \in {"first", "cast", "line", "saved"} =>
          jobs[j].status = "generating"
    /\ thread[j].pc \in {"line", "saved"} =>
          /\ thread[j].cast \in [Speakers \ DOMAIN thread[j].overrides -> CastIds]
          /\ \A i \in DOMAIN jobs[j].lines :
                jobs[j].lines[i].audio = VoiceFor(j, Script[i].speaker)

\* LinesAreTheScripts, of one job.
LinesInv(job) ==
    /\ \A i \in DOMAIN job.lines :
         /\ job.lines[i].line = i
         /\ job.lines[i].audio = job.lines[i].text
         /\ \A k \in DOMAIN job.lines : Script[i].speaker = Script[k].speaker
                                         => job.lines[i].audio = job.lines[k].audio
    /\ job.status = "ready" => Len(job.lines) = Len(Script)

JobInv ==
    /\ JobTypes
    /\ \A j \in Starts : ThreadInv(j)
    /\ \A j \in Starts \cup {Recovered} : LinesInv(jobs[j])
    /\ LinesInv(disk)
    /\ jobs[Recovered].status # "generating"

\* Nothing that the invariant is about changes.
LEMMA JobsKept ==
    ASSUME JobInv, UNCHANGED jobVars
    PROVE  JobInv'
<1>1. JobTypes'
  BY DEF JobInv, JobTypes, jobVars
<1>2. \A j \in Starts : ThreadInv(j)'
  BY DEF JobInv, ThreadInv, VoiceFor, jobVars
<1>3. /\ \A j \in Starts \cup {Recovered} : LinesInv(jobs'[j])
      /\ LinesInv(disk') /\ jobs'[Recovered].status # "generating"
  BY DEF JobInv, jobVars
<1>. QED
  BY <1>1, <1>2, <1>3 DEF JobInv

LEMMA IdleThread ==
    /\ IdleStart \in Thread /\ [IdleStart EXCEPT !.pc = "done"] \in Thread
    /\ IdleStart.pc = "new" /\ [IdleStart EXCEPT !.pc = "done"].pc = "done"
  BY DEF IdleStart, Thread, Pcs

LEMMA EmptyJobs ==
    /\ NotStarted \in Job /\ NotStarted \in File /\ Torn \in File
    /\ LinesInv(NotStarted) /\ LinesInv(Torn)
    /\ NotStarted.lines = <<>> /\ NotStarted.status = "not_started"
<1>1. <<>> \in Seq(Line)
  OBVIOUS
<1>2. NotStarted \in Job /\ NotStarted \in File /\ Torn \in File
  BY <1>1 DEF NotStarted, Torn, Job, File, JobStatus
<1>3. LinesInv(NotStarted) /\ LinesInv(Torn)
  BY DEF NotStarted, Torn, LinesInv
<1>. QED
  BY <1>2, <1>3 DEF NotStarted

\* A thread that has not begun, and one that has ended, ask little.
LEMMA RestingThread ==
    ASSUME NEW j \in Starts,
           \/ thread[j].pc = "new" /\ jobs[j].lines = <<>>
           \/ thread[j].pc = "done"
    PROVE  ThreadInv(j)
  BY DEF ThreadInv

LEMMA InitJobInv == Init => JobInv
<1>. SUFFICES ASSUME Init PROVE JobInv
  OBVIOUS
<1>1. JobTypes
  BY IdleThread, EmptyJobs DEF Init, JobTypes
<1>2. \A j \in Starts : ThreadInv(j)
  BY RestingThread, EmptyJobs, IdleThread DEF Init
<1>. QED
  BY <1>1, <1>2, EmptyJobs DEF Init, JobInv

\* What the file says is a job of its own.
LEMMA LoadedIs ==
    ASSUME NEW file \in File, LinesInv(file)
    PROVE  /\ LoadFromDisk(file) \in Job /\ LinesInv(LoadFromDisk(file))
           /\ LoadFromDisk(file).status # "generating"
<1>1. CASE file.status = "torn"
  BY <1>1, EmptyJobs DEF LoadFromDisk
<1>2. CASE file.status = "generating"
  <2>1. PICK failed : failed = [file EXCEPT !.status = "failed"]
    OBVIOUS
  <2>2. failed \in Job /\ failed.status = "failed" /\ failed.lines = file.lines
    BY <2>1 DEF File, Job, JobStatus
  <2>3. LinesInv(failed)
    BY <2>2 DEF LinesInv
  <2>. QED
    BY <1>2, <2>1, <2>2, <2>3 DEF LoadFromDisk
<1>3. CASE file.status \notin {"torn", "generating"}
  BY <1>3 DEF LoadFromDisk, File, Job
<1>. QED
  BY <1>1, <1>2, <1>3

\* A reader finds the file, or a file that says nothing.
LEMMA ReadIs ==
    ASSUME JobInv, NEW file \in DiskRead
    PROVE  /\ LoadFromDisk(file) \in Job /\ LinesInv(LoadFromDisk(file))
           /\ LoadFromDisk(file).status # "generating"
<1>1. file \in File /\ LinesInv(file)
  BY EmptyJobs DEF DiskRead, JobInv, JobTypes
<1>. QED
  BY <1>1, LoadedIs

\* A job read from the file may go into memory, in place of no other.
LEMMA CachesIs ==
    ASSUME JobInv, NEW found \in Job, LinesInv(found), found.status # "generating",
           \/ UNCHANGED <<jobs, live>>
           \/ /\ live = None /\ live' = Recovered
              /\ jobs' = [jobs EXCEPT ![Recovered] = found]
    PROVE  /\ jobs' \in [Starts \cup {Recovered} -> Job]
           /\ \A j \in Starts : jobs'[j] = jobs[j]
           /\ LinesInv(jobs'[Recovered]) /\ jobs'[Recovered].status # "generating"
           /\ live' \in Starts \cup {Recovered, None}
           /\ live \in Starts \/ live' \in Starts => live' = live
<1>1. Recovered \notin Starts /\ Recovered # None /\ None \notin Starts
  BY NarrationConstantsOK
<1>2. CASE UNCHANGED <<jobs, live>>
  BY <1>2 DEF JobInv, JobTypes
<1>3. CASE /\ live = None /\ live' = Recovered
           /\ jobs' = [jobs EXCEPT ![Recovered] = found]
  <2>1. jobs' \in [Starts \cup {Recovered} -> Job]
    BY <1>3 DEF JobInv, JobTypes
  <2>2. jobs'[Recovered] = found /\ \A j \in Starts : jobs'[j] = jobs[j]
    BY <1>1, <1>3 DEF JobInv, JobTypes
  <2>. QED
    BY <1>1, <1>3, <2>1, <2>2
<1>. QED
  BY <1>2, <1>3

\* A thread goes to another place and changes nothing else of its own.
LEMMA GoesIs ==
    ASSUME JobTypes, NEW j \in Starts, NEW pc \in Pcs, Goes(j, pc)
    PROVE  /\ thread' \in [Starts -> Thread]
           /\ \A k \in Starts : k # j => thread'[k] = thread[k]
           /\ thread'[j].pc = pc /\ thread'[j].overrides = thread[j].overrides
           /\ thread'[j].cast = thread[j].cast /\ thread'[j].found = thread[j].found
<1>1. thread[j] \in Thread /\ thread \in [Starts -> Thread]
  BY DEF JobTypes
<1>2. PICK new : new = [thread[j] EXCEPT !.pc = pc]
  OBVIOUS
<1>3. /\ new \in Thread /\ new.pc = pc /\ new.overrides = thread[j].overrides
      /\ new.cast = thread[j].cast /\ new.found = thread[j].found
  BY <1>1, <1>2 DEF Thread
<1>4. thread' = [thread EXCEPT ![j] = new]
  BY <1>2 DEF Goes
<1>. QED
  BY <1>1, <1>3, <1>4

\* One start changes its thread and its job, and leaves the others theirs.
LEMMA OneStartKeeps ==
    ASSUME JobInv, JobTypes', NEW j \in Starts, ThreadInv(j)', LinesInv(jobs'[j]),
           \A k \in Starts : k # j => thread'[k] = thread[k] /\ jobs'[k] = jobs[k],
           LinesInv(jobs'[Recovered]), jobs'[Recovered].status # "generating",
           LinesInv(disk')
    PROVE  JobInv'
<1>1. ASSUME NEW k \in Starts
      PROVE  ThreadInv(k)' /\ LinesInv(jobs'[k])
  <2>1. CASE k = j
    BY <2>1
  <2>2. CASE k # j
    <3>1. thread'[k] = thread[k] /\ jobs'[k] = jobs[k]
      BY <2>2
    <3>2. ThreadInv(k) /\ LinesInv(jobs[k])
      BY DEF JobInv
    <3>3. ThreadInv(k)'
      BY <3>1, <3>2 DEF ThreadInv, VoiceFor
    <3>. QED
      BY <3>1, <3>2, <3>3
  <2>. QED
    BY <2>1, <2>2
<1>. QED
  BY <1>1 DEF JobInv

\* The clips a narration starts with, and the voices it casts.
LEMMA CharacterVoicesAre ==
    ASSUME NEW read \in Metadata
    PROVE  CharacterVoices(read) \in Overrides
<1>1. PICK S \in SUBSET Speakers :
        /\ \A s \in S : read[s] # NoEntry
        /\ CharacterVoices(read) = [s \in S |-> read[s]]
  BY DEF CharacterVoices
<1>2. \A s \in S : read[s] \in Uploaded
  BY <1>1 DEF Metadata
<1>3. CharacterVoices(read) \in [S -> Uploaded]
  BY <1>1, <1>2
<1>. QED
  BY <1>3 DEF Overrides

LEMMA CastVoicesAre ==
    ASSUME NEW names, NEW known \in SUBSET names, NEW answer \in [known -> Archetypes]
    PROVE  CastVoices(answer, names) \in [names -> CastIds]
<1>1. \A s \in names :
        MatchVoice(IF s \in DOMAIN answer THEN answer[s] ELSE Fallback).id \in CastIds
  BY DEF CastIds
<1>. QED
  BY <1>1 DEF CastVoices

\* A start that looks the job up ends, or goes on with the clips it found.
LEMMA StartChecksIs ==
    ASSUME VoiceInv, JobInv, NEW j \in Starts, StartChecks(j)
    PROVE  /\ thread' \in [Starts -> Thread]
           /\ \A k \in Starts : k # j => thread'[k] = thread[k]
           /\ \/ thread'[j].pc = "done" /\ thread'[j].found = live /\ live # None
              \/ /\ thread'[j].pc \in {"file", "put"}
                 /\ thread'[j].found = thread[j].found
                 /\ thread'[j].overrides \in Overrides
<1>1. thread[j] \in Thread /\ thread \in [Starts -> Thread]
  BY DEF JobInv, JobTypes
<1>2. CASE /\ live # None
           /\ thread' = [thread EXCEPT ![j].pc = "done", ![j].found = live]
  <2>1. PICK done : done = [thread[j] EXCEPT !.pc = "done", !.found = live]
    OBVIOUS
  <2>2. done \in Thread /\ done.pc = "done" /\ done.found = live
    BY <1>1, <2>1 DEF Thread, Pcs, JobInv, JobTypes
  <2>3. thread' = [thread EXCEPT ![j] = done]
    BY <1>2, <2>1
  <2>. QED
    BY <1>1, <1>2, <2>2, <2>3
<1>3. ASSUME NEW read \in MetaRead(None),
             thread' = [thread EXCEPT ![j].pc = IF live = None THEN "file" ELSE "put",
                                      ![j].overrides = CharacterVoices(read)]
      PROVE  /\ thread' \in [Starts -> Thread]
             /\ \A k \in Starts : k # j => thread'[k] = thread[k]
             /\ thread'[j].pc \in {"file", "put"} /\ thread'[j].found = thread[j].found
             /\ thread'[j].overrides \in Overrides
  <2>1. PICK overrides \in Overrides : overrides = CharacterVoices(read)
    BY MetaReadIs, CharacterVoicesAre
  <2>2. PICK pc \in {"file", "put"} : pc = IF live = None THEN "file" ELSE "put"
    OBVIOUS
  <2>3. PICK goes : goes = [thread[j] EXCEPT !.pc = pc, !.overrides = overrides]
    OBVIOUS
  <2>4. /\ goes \in Thread /\ goes.pc = pc /\ goes.overrides = overrides
        /\ goes.found = thread[j].found
    BY <1>1, <2>3 DEF Thread, Pcs
  <2>5. thread' = [thread EXCEPT ![j] = goes]
    BY <1>3, <2>1, <2>2, <2>3
  <2>. QED
    BY <1>1, <2>4, <2>5
<1>. QED
  BY <1>2, <1>3 DEF StartChecks

LEMMA StartChecksJobs ==
    ASSUME VoiceInv, JobInv, NEW j \in Starts, StartChecks(j)
    PROVE  JobInv'
<1>1. thread[j].pc = "new" /\ jobs[j].lines = <<>> /\ UNCHANGED <<jobs, live, disk>>
  BY DEF StartChecks, JobInv, ThreadInv
<1>2. /\ thread' \in [Starts -> Thread]
      /\ \A k \in Starts : k # j => thread'[k] = thread[k]
      /\ \/ thread'[j].pc = "done"
         \/ thread'[j].pc \in {"file", "put"} /\ thread'[j].overrides \in Overrides
  BY StartChecksIs
<1>3. JobTypes'
  BY <1>1, <1>2 DEF JobInv, JobTypes
<1>4. ThreadInv(j)'
  BY <1>1, <1>2 DEF ThreadInv
<1>. QED
  BY <1>1, <1>2, <1>3, <1>4, OneStartKeeps DEF JobInv

\* A start that reads the file ends with a copy of a finished job, or goes on.
LEMMA StartReadsFileIs ==
    ASSUME JobInv, NEW j \in Starts, StartReadsFile(j)
    PROVE  /\ jobs' \in [Starts \cup {Recovered} -> Job]
           /\ \A k \in Starts : k # j => jobs'[k] = jobs[k]
           /\ LinesInv(jobs'[Recovered]) /\ jobs'[Recovered].status # "generating"
           /\ LinesInv(jobs'[j])
           /\ live' \in Starts \cup {Recovered, None}
           /\ live \in Starts \/ live' \in Starts => live' = live
           /\ \/ Goes(j, "done") /\ jobs'[j].status # "generating"
              \/ Goes(j, "put") /\ jobs'[j] = jobs[j]
<1>1. PICK file \in DiskRead :
        IF LoadFromDisk(file).status \in Narrated
        THEN /\ jobs' = [jobs EXCEPT ![j] = LoadFromDisk(file),
                           ![Recovered] = IF live = None THEN LoadFromDisk(file) ELSE @]
             /\ live' = IF live = None THEN Recovered ELSE live
             /\ Goes(j, "done")
        ELSE Caches(LoadFromDisk(file)) /\ Goes(j, "put")
  BY DEF StartReadsFile
<1>2. PICK found \in Job : /\ found = LoadFromDisk(file) /\ LinesInv(found)
                           /\ found.status # "generating"
  BY ReadIs
<1>3. CASE found.status \in Narrated
  <2>1. /\ jobs' = [jobs EXCEPT ![j] = found,
                                ![Recovered] = IF live = None THEN found ELSE @]
        /\ live' = IF live = None THEN Recovered ELSE live
        /\ Goes(j, "done")
    BY <1>1, <1>2, <1>3
  <2>2. /\ jobs \in [Starts \cup {Recovered} -> Job] /\ j # Recovered
        /\ live \in Starts \cup {Recovered, None}
        /\ None \notin Starts /\ Recovered \notin Starts
    BY NarrationConstantsOK DEF JobInv, JobTypes
  <2>3. PICK kept \in Job : /\ kept = (IF live = None THEN found ELSE jobs[Recovered])
                             /\ LinesInv(kept) /\ kept.status # "generating"
    BY <1>2, <2>2 DEF JobInv
  <2>4. jobs' = [jobs EXCEPT ![j] = found, ![Recovered] = kept]
    BY <2>1, <2>2, <2>3
  <2>5. /\ jobs' \in [Starts \cup {Recovered} -> Job]
        /\ jobs'[j] = found /\ jobs'[Recovered] = kept
        /\ \A k \in Starts : k # j => jobs'[k] = jobs[k]
    BY <2>2, <2>4
  <2>. QED
    BY <1>2, <2>1, <2>2, <2>3, <2>5
<1>4. CASE found.status \notin Narrated
  <2>1. Goes(j, "put") /\ Caches(found)
    BY <1>1, <1>2, <1>4
  <2>2. \/ UNCHANGED <<jobs, live>>
        \/ /\ live = None /\ live' = Recovered
           /\ jobs' = [jobs EXCEPT ![Recovered] = found]
    BY <2>1 DEF Caches
  <2>3. LinesInv(jobs[j])
    BY DEF JobInv
  <2>. QED
    BY <1>2, <2>1, <2>2, <2>3, CachesIs
<1>. QED
  BY <1>3, <1>4

LEMMA StartReadsFileJobs ==
    ASSUME JobInv, NEW j \in Starts, StartReadsFile(j)
    PROVE  JobInv'
<1>1. thread[j].pc = "file" /\ disk' = disk
  BY DEF StartReadsFile
<1>2. /\ jobs' \in [Starts \cup {Recovered} -> Job]
      /\ \A k \in Starts : k # j => jobs'[k] = jobs[k]
      /\ LinesInv(jobs'[Recovered]) /\ jobs'[Recovered].status # "generating"
      /\ LinesInv(jobs'[j]) /\ live' \in Starts \cup {Recovered, None}
      /\ Goes(j, "done") \/ (Goes(j, "put") /\ jobs'[j] = jobs[j])
  BY StartReadsFileIs
<1>3. /\ thread' \in [Starts -> Thread]
      /\ \A k \in Starts : k # j => thread'[k] = thread[k]
      /\ thread'[j].overrides = thread[j].overrides
      /\ thread'[j].pc = "done" \/ (thread'[j].pc = "put" /\ jobs'[j] = jobs[j])
  BY <1>2, GoesIs DEF JobInv, Pcs
<1>4. JobTypes'
  BY <1>1, <1>2, <1>3 DEF JobInv, JobTypes
<1>5. thread[j].overrides \in Overrides /\ jobs[j].lines = <<>>
  BY <1>1 DEF JobInv, ThreadInv
<1>6. ThreadInv(j)'
  BY <1>3, <1>5 DEF ThreadInv
<1>. QED
  BY <1>1, <1>2, <1>3, <1>4, <1>6, OneStartKeeps DEF JobInv

\* A thread changes the status of its job and goes to another place.
LEMMA StatusChanges ==
    ASSUME JobTypes, NEW j \in Starts, NEW status \in JobStatus,
           jobs' = [jobs EXCEPT ![j].status = status]
    PROVE  /\ jobs' \in [Starts \cup {Recovered} -> Job]
           /\ \A k \in Starts \cup {Recovered} : k # j => jobs'[k] = jobs[k]
           /\ jobs'[j].status = status /\ jobs'[j].lines = jobs[j].lines
<1>1. jobs[j] \in Job /\ jobs \in [Starts \cup {Recovered} -> Job]
  BY DEF JobTypes
<1>2. PICK new : new = [jobs[j] EXCEPT !.status = status]
  OBVIOUS
<1>3. new \in Job /\ new.status = status /\ new.lines = jobs[j].lines
  BY <1>1, <1>2 DEF Job
<1>4. jobs' = [jobs EXCEPT ![j] = new]
  BY <1>2
<1>. QED
  BY <1>1, <1>3, <1>4

LEMMA PutJobJobs ==
    ASSUME JobInv, NEW j \in Starts, PutJob(j)
    PROVE  JobInv'
<1>1. /\ thread[j].pc = "put" /\ jobs' = [jobs EXCEPT ![j].status = "generating"]
      /\ live' = j /\ Goes(j, "first") /\ disk' = disk
  BY DEF PutJob
<1>2. /\ jobs' \in [Starts \cup {Recovered} -> Job]
      /\ \A k \in Starts \cup {Recovered} : k # j => jobs'[k] = jobs[k]
      /\ jobs'[j].status = "generating" /\ jobs'[j].lines = jobs[j].lines
  BY <1>1, StatusChanges DEF JobInv, JobStatus
<1>3. /\ thread' \in [Starts -> Thread]
      /\ \A k \in Starts : k # j => thread'[k] = thread[k]
      /\ thread'[j].pc = "first" /\ thread'[j].overrides = thread[j].overrides
  BY <1>1, GoesIs DEF JobInv, Pcs
<1>4. JobTypes'
  BY <1>1, <1>2, <1>3 DEF JobInv, JobTypes
<1>5. thread[j].overrides \in Overrides /\ jobs[j].lines = <<>>
  BY <1>1 DEF JobInv, ThreadInv
<1>6. ThreadInv(j)'
  BY <1>2, <1>3, <1>5 DEF ThreadInv
<1>7. LinesInv(jobs'[j])
  BY <1>2, <1>5 DEF LinesInv
<1>8. jobs'[Recovered] = jobs[Recovered]
  BY <1>2, NarrationConstantsOK
<1>. QED
  BY <1>1, <1>2, <1>3, <1>4, <1>6, <1>7, <1>8, OneStartKeeps DEF JobInv

LEMMA EndsJobs ==
    ASSUME JobInv, NEW j \in Starts, NEW status \in {"ready", "failed"},
           thread[j].pc \in {"cast", "line"}, Ends(j, status),
           status = "ready" => AllSpoken(j)
    PROVE  JobInv'
<1>1. /\ jobs' = [jobs EXCEPT ![j].status = status] /\ Goes(j, "final")
      /\ UNCHANGED <<live, disk>>
  BY DEF Ends
<1>2. /\ jobs' \in [Starts \cup {Recovered} -> Job]
      /\ \A k \in Starts \cup {Recovered} : k # j => jobs'[k] = jobs[k]
      /\ jobs'[j].status = status /\ jobs'[j].lines = jobs[j].lines
  BY <1>1, StatusChanges DEF JobInv, JobStatus
<1>3. /\ thread' \in [Starts -> Thread]
      /\ \A k \in Starts : k # j => thread'[k] = thread[k]
      /\ thread'[j].pc = "final" /\ thread'[j].overrides = thread[j].overrides
  BY <1>1, GoesIs DEF JobInv, Pcs
<1>4. JobTypes'
  BY <1>1, <1>2, <1>3 DEF JobInv, JobTypes
<1>5. thread[j].overrides \in Overrides /\ LinesInv(jobs[j])
  BY DEF JobInv, ThreadInv
<1>6. ThreadInv(j)'
  BY <1>2, <1>3, <1>5 DEF ThreadInv
<1>7. LinesInv(jobs'[j])
  BY <1>2, <1>5 DEF LinesInv, AllSpoken
<1>8. jobs'[Recovered] = jobs[Recovered]
  BY <1>2, NarrationConstantsOK
<1>. QED
  BY <1>1, <1>2, <1>3, <1>4, <1>6, <1>7, <1>8, OneStartKeeps DEF JobInv

\* A write, whether the file gets the job, a mixture or nothing.
LEMMA WriteJobs ==
    ASSUME JobInv, NEW j \in Starts, thread[j].pc \in Writing,
           disk' \in {jobs[j], disk, Torn}, UNCHANGED <<jobs, live>>,
           thread' = [thread EXCEPT ![j] = AfterWrite(@)]
    PROVE  JobInv'
<1>1. thread[j] \in Thread /\ ThreadInv(j)
  BY DEF JobInv, JobTypes
<1>2. PICK new \in Thread :
        /\ thread' = [thread EXCEPT ![j] = new]
        /\ \/ new.pc = "done"
           \/ /\ thread[j].pc = "first" /\ new.pc = "cast"
              /\ new.overrides = thread[j].overrides
           \/ /\ thread[j].pc = "saved" /\ new.pc = "line"
              /\ new.overrides = thread[j].overrides /\ new.cast = thread[j].cast
  <2>1. PICK cast : cast = [thread[j] EXCEPT !.pc = "cast"]
    OBVIOUS
  <2>2. /\ cast \in Thread /\ cast.pc = "cast"
        /\ cast.overrides = thread[j].overrides
    BY <1>1, <2>1 DEF Thread, Pcs
  <2>3. PICK line : line = [thread[j] EXCEPT !.pc = "line"]
    OBVIOUS
  <2>4. /\ line \in Thread /\ line.pc = "line"
        /\ line.overrides = thread[j].overrides /\ line.cast = thread[j].cast
    BY <1>1, <2>3 DEF Thread, Pcs
  <2>5. CASE thread[j].pc = "first"
    <3>1. AfterWrite(thread[j]) = cast
      BY <2>1, <2>5 DEF AfterWrite
    <3>. QED
      BY <2>2, <2>5, <3>1
  <2>6. CASE thread[j].pc = "saved"
    <3>1. AfterWrite(thread[j]) = line
      BY <2>3, <2>6 DEF AfterWrite
    <3>. QED
      BY <2>4, <2>6, <3>1
  <2>7. CASE thread[j].pc = "final"
    <3>1. AfterWrite(thread[j]) = [IdleStart EXCEPT !.pc = "done"]
      BY <2>7 DEF AfterWrite
    <3>. QED
      BY <3>1, IdleThread
  <2>. QED
    BY <2>5, <2>6, <2>7 DEF Writing
<1>3. /\ thread' \in [Starts -> Thread] /\ thread'[j] = new
      /\ \A k \in Starts : k # j => thread'[k] = thread[k]
  BY <1>2 DEF JobInv, JobTypes
<1>4. disk' \in File /\ LinesInv(disk')
  BY EmptyJobs DEF JobInv, JobTypes, Job, File
<1>5. JobTypes'
  BY <1>3, <1>4 DEF JobInv, JobTypes
<1>6. ThreadInv(j)'
  BY <1>1, <1>2, <1>3 DEF ThreadInv, VoiceFor
<1>. QED
  BY <1>3, <1>4, <1>5, <1>6, OneStartKeeps DEF JobInv

LEMMA CastJobs ==
    ASSUME JobInv, NEW j \in Starts, Cast(j)
    PROVE  JobInv'
<1>1. thread[j].pc = "cast" /\ UNCHANGED <<jobs, live, disk>>
  BY DEF Cast
<1>2. PICK names : names = Speakers \ DOMAIN thread[j].overrides
  OBVIOUS
<1>3. PICK cast \in [names -> CastIds] :
        thread' = [thread EXCEPT ![j].pc = "line", ![j].cast = cast]
  BY <1>2, CastVoicesAre DEF Cast
<1>4. cast \in Casts
  BY <1>2 DEF Casts
<1>5. thread[j] \in Thread /\ ThreadInv(j)
  BY DEF JobInv, JobTypes
<1>6. PICK new : new = [thread[j] EXCEPT !.pc = "line", !.cast = cast]
  OBVIOUS
<1>7. /\ new \in Thread /\ new.pc = "line" /\ new.cast = cast
      /\ new.overrides = thread[j].overrides
  BY <1>4, <1>5, <1>6 DEF Thread, Pcs
<1>8. /\ thread' \in [Starts -> Thread] /\ thread'[j] = new
      /\ \A k \in Starts : k # j => thread'[k] = thread[k]
  BY <1>3, <1>6, <1>7 DEF JobInv, JobTypes
<1>9. JobTypes'
  BY <1>1, <1>8 DEF JobInv, JobTypes
<1>10. jobs[j].lines = <<>> /\ jobs[j].status = "generating"
  BY <1>1, <1>5 DEF ThreadInv
<1>11. ThreadInv(j)'
  <2>1. thread[j].overrides \in Overrides
    BY <1>1, <1>5 DEF ThreadInv
  <2>2. /\ thread'[j].pc = "line" /\ thread'[j].cast = cast
        /\ thread'[j].overrides = thread[j].overrides
    BY <1>7, <1>8
  <2>3. thread'[j].cast \in [Speakers \ DOMAIN thread'[j].overrides -> CastIds]
    BY <1>2, <2>2
  <2>4. jobs'[j].status = "generating" /\ \A i \in DOMAIN jobs'[j].lines : FALSE
    BY <1>1, <1>10
  <2>. QED
    BY <2>1, <2>2, <2>3, <2>4 DEF ThreadInv
<1>. QED
  BY <1>1, <1>8, <1>9, <1>11, OneStartKeeps DEF JobInv

\* The clip that is read is the one the thread started with, if it is there.
LEMMA ReferenceIs ==
    ASSUME VoiceInv, JobInv, NEW j \in Starts, thread[j].pc = "line",
           NEW s \in Speakers \cup {None}, Reference(j, s).audio # None
    PROVE  /\ Reference(j, s).audio = VoiceFor(j, s)
           /\ Reference(j, s).text = VoiceFor(j, s)
           /\ VoiceFor(j, s) \in Sounds
<1>1. /\ thread[j].overrides \in Overrides
      /\ thread[j].cast \in [Speakers \ DOMAIN thread[j].overrides -> CastIds]
  BY DEF JobInv, ThreadInv
<1>2. CASE s = None
  BY <1>2 DEF Reference, VoiceFor, Sounds
<1>3. CASE s # None /\ s \in DOMAIN thread[j].overrides
  <2>1. PICK entry : entry = thread[j].overrides[s]
    OBVIOUS
  <2>2. entry \in Uploaded
    BY <1>1, <1>3, <2>1 DEF Overrides
  <2>3. Reference(j, s) = [audio |-> files[entry.file], text |-> entry.text]
    BY <1>3, <2>1 DEF Reference
  <2>4. VoiceFor(j, s) = entry.text
    BY <1>3, <2>1 DEF VoiceFor
  <2>5. entry.file \in Clips /\ entry.text = entry.file
    BY <2>2 DEF Uploaded
  <2>6. files[entry.file] \in {entry.file, None}
    BY <2>5 DEF VoiceInv, FilesInv
  <2>. QED
    BY <2>3, <2>4, <2>5, <2>6 DEF Sounds
<1>4. CASE s # None /\ s \notin DOMAIN thread[j].overrides
  <2>1. thread[j].cast[s] \in CastIds
    BY <1>1, <1>4
  <2>. QED
    BY <1>4, <2>1 DEF Reference, VoiceFor, Sounds
<1>. QED
  BY <1>2, <1>3, <1>4

\* What a spoken line adds.
LEMMA SpokenIs ==
    ASSUME VoiceInv, JobInv, NEW j \in Starts, SpeakLine(j)
    PROVE  \E spoken \in Line :
             /\ spoken.line = Len(jobs[j].lines) + 1 /\ spoken.text = spoken.audio
             /\ spoken.audio = VoiceFor(j, Script[Len(jobs[j].lines) + 1].speaker)
             /\ jobs' = [jobs EXCEPT ![j].lines = Append(@, spoken)]
             /\ thread[j].pc = "line" /\ Goes(j, "saved") /\ UNCHANGED <<live, disk>>
<1>1. PICK i : i = Len(jobs[j].lines) + 1
  OBVIOUS
<1>2. PICK s : s = Script[i].speaker
  OBVIOUS
<1>3. /\ thread[j].pc = "line" /\ i \in DOMAIN Script /\ Reference(j, s).audio # None
      /\ jobs' = [jobs EXCEPT ![j].lines =
                    Append(@, [line |-> i, audio |-> Reference(j, s).audio,
                               text |-> Reference(j, s).text])]
      /\ Goes(j, "saved") /\ UNCHANGED <<live, disk>>
  BY <1>1, <1>2 DEF SpeakLine, Owner, AfterLine
<1>4. s \in Speakers \cup {None}
  BY <1>2, <1>3 DEF Speakers
<1>5. /\ Reference(j, s).audio = VoiceFor(j, s)
      /\ Reference(j, s).text = VoiceFor(j, s) /\ VoiceFor(j, s) \in Sounds
  BY <1>3, <1>4, ReferenceIs
<1>6. PICK sound \in Sounds : sound = VoiceFor(j, s)
  BY <1>5
<1>7. i \in Nat
  BY <1>1 DEF JobInv, JobTypes, Job
<1>8. [line |-> i, audio |-> sound, text |-> sound] \in Line
  BY <1>6, <1>7 DEF Line
<1>9. jobs' = [jobs EXCEPT ![j].lines =
                 Append(@, [line |-> i, audio |-> sound, text |-> sound])]
  BY <1>3, <1>5, <1>6
<1>. QED
  BY <1>1, <1>2, <1>3, <1>6, <1>8, <1>9

LEMMA SpeakLineJobs ==
    ASSUME VoiceInv, JobInv, NEW j \in Starts, SpeakLine(j)
    PROVE  JobInv'
<1>1. PICK spoken \in Line :
        /\ spoken.line = Len(jobs[j].lines) + 1 /\ spoken.text = spoken.audio
        /\ spoken.audio = VoiceFor(j, Script[Len(jobs[j].lines) + 1].speaker)
        /\ jobs' = [jobs EXCEPT ![j].lines = Append(@, spoken)]
        /\ thread[j].pc = "line" /\ Goes(j, "saved") /\ UNCHANGED <<live, disk>>
  BY SpokenIs
<1>2. PICK old \in Seq(Line) : old = jobs[j].lines
  BY DEF JobInv, JobTypes, Job
<1>3. PICK lines \in Seq(Line) : lines = Append(old, spoken)
  <2>1. Append(old, spoken) \in Seq(Line)
    OBVIOUS
  <2>. QED
    BY <2>1
<1>4. /\ DOMAIN lines = 1 .. Len(old) + 1 /\ Len(lines) = Len(old) + 1
      /\ \A i \in 1 .. Len(old) : lines[i] = old[i]
      /\ lines[Len(old) + 1] = spoken
  BY <1>3
<1>5. PICK new : new = [jobs[j] EXCEPT !.lines = lines]
  OBVIOUS
<1>6. new \in Job /\ new.status = jobs[j].status /\ new.lines = lines
  BY <1>5 DEF JobInv, JobTypes, Job
<1>7. jobs' = [jobs EXCEPT ![j] = new]
  BY <1>1, <1>2, <1>3, <1>5
<1>8. /\ jobs' \in [Starts \cup {Recovered} -> Job] /\ jobs'[j] = new
      /\ \A k \in Starts \cup {Recovered} : k # j => jobs'[k] = jobs[k]
  BY <1>6, <1>7 DEF JobInv, JobTypes
<1>9. /\ thread' \in [Starts -> Thread] /\ thread'[j].pc = "saved"
      /\ \A k \in Starts : k # j => thread'[k] = thread[k]
      /\ thread'[j].overrides = thread[j].overrides /\ thread'[j].cast = thread[j].cast
  BY <1>1, GoesIs DEF JobInv, Pcs
<1>10. JobTypes'
  BY <1>1, <1>8, <1>9 DEF JobInv, JobTypes
<1>11. /\ jobs[j].status = "generating" /\ thread[j].overrides \in Overrides
       /\ thread[j].cast \in [Speakers \ DOMAIN thread[j].overrides -> CastIds]
       /\ \A i \in 1 .. Len(old) : old[i].audio = VoiceFor(j, Script[i].speaker)
       /\ LinesInv(jobs[j])
  <2>1. ThreadInv(j) /\ LinesInv(jobs[j])
    BY DEF JobInv
  <2>2. DOMAIN jobs[j].lines = 1 .. Len(old)
    BY <1>2
  <2>3. \A i \in DOMAIN jobs[j].lines :
          jobs[j].lines[i].audio = VoiceFor(j, Script[i].speaker)
    BY <1>1, <2>1 DEF ThreadInv
  <2>4. /\ jobs[j].status = "generating" /\ thread[j].overrides \in Overrides
        /\ thread[j].cast \in [Speakers \ DOMAIN thread[j].overrides -> CastIds]
    BY <1>1, <2>1 DEF ThreadInv
  <2>. QED
    BY <1>2, <2>1, <2>2, <2>3, <2>4
<1>12. \A i \in DOMAIN lines : lines[i].audio = VoiceFor(j, Script[i].speaker)
  <2>1. TAKE i \in DOMAIN lines
  <2>2. CASE i = Len(old) + 1
    BY <1>1, <1>2, <1>4, <2>2
  <2>3. CASE i # Len(old) + 1
    BY <1>4, <1>11, <2>3
  <2>. QED
    BY <2>2, <2>3
<1>13. \A s : VoiceFor(j, s)' = VoiceFor(j, s)
  BY <1>9 DEF VoiceFor
<1>14. ThreadInv(j)'
  <2>1. \A i \in DOMAIN jobs'[j].lines :
          jobs'[j].lines[i].audio = VoiceFor(j, Script[i].speaker)'
    BY <1>6, <1>8, <1>12, <1>13
  <2>. QED
    BY <1>6, <1>8, <1>9, <1>11, <2>1 DEF ThreadInv
<1>15. LinesInv(new)
  <2>1. \A i \in DOMAIN lines : lines[i].line = i /\ lines[i].audio = lines[i].text
    <3>1. TAKE i \in DOMAIN lines
    <3>2. CASE i = Len(old) + 1
      BY <1>1, <1>2, <1>4, <3>2
    <3>3. CASE i # Len(old) + 1
      BY <1>2, <1>4, <1>11, <3>3 DEF LinesInv
    <3>. QED
      BY <3>2, <3>3
  <2>2. \A i, k \in DOMAIN lines : Script[i].speaker = Script[k].speaker =>
          lines[i].audio = lines[k].audio
    BY <1>12
  <2>. QED
    BY <1>6, <1>11, <2>1, <2>2 DEF LinesInv
<1>16. jobs'[Recovered] = jobs[Recovered]
  BY <1>8, NarrationConstantsOK
<1>. QED
  BY <1>1, <1>8, <1>9, <1>10, <1>14, <1>15, <1>16, OneStartKeeps DEF JobInv

LEMMA RestartJobs ==
    ASSUME JobInv, Restart
    PROVE  JobInv'
<1>1. /\ jobs' = [j \in DOMAIN jobs |-> NotStarted] /\ live' = None
      /\ thread' = [j \in Starts |-> IF thread[j].pc = "new" THEN thread[j]
                                     ELSE [IdleStart EXCEPT !.pc = "done"]]
      /\ disk' \in {disk, Torn}
  BY DEF Restart, DiskRead
<1>2. jobs' = [j \in Starts \cup {Recovered} |-> NotStarted]
  BY <1>1 DEF JobInv, JobTypes
<1>3. thread' \in [Starts -> Thread]
  BY <1>1, IdleThread DEF JobInv, JobTypes
<1>4. disk' \in File /\ LinesInv(disk')
  BY <1>1, EmptyJobs DEF JobInv, JobTypes
<1>5. JobTypes'
  BY <1>1, <1>2, <1>3, <1>4, EmptyJobs DEF JobTypes
<1>6. \A j \in Starts : thread'[j].pc \in {"new", "done"} /\ jobs'[j].lines = <<>>
  BY <1>1, <1>2, IdleThread, EmptyJobs
<1>7. ASSUME NEW j \in Starts
      PROVE  ThreadInv(j)'
  <2>1. CASE thread'[j].pc = "new"
    BY <1>6, <2>1 DEF ThreadInv
  <2>2. CASE thread'[j].pc = "done"
    BY <1>6, <2>2 DEF ThreadInv
  <2>. QED
    BY <1>6, <2>1, <2>2
<1>8. /\ \A j \in Starts \cup {Recovered} : LinesInv(jobs'[j])
      /\ jobs'[Recovered].status # "generating"
  BY <1>2, EmptyJobs
<1>. QED
  BY <1>4, <1>5, <1>7, <1>8 DEF JobInv

LEMMA PollReadsFileJobs ==
    ASSUME JobInv, NEW p \in Polls, PollReadsFile(p)
    PROVE  /\ JobInv' /\ \A j \in Starts : jobs'[j] = jobs[j]
           /\ live \in Starts \/ live' \in Starts => live' = live
<1>1. PICK file \in DiskRead : Caches(LoadFromDisk(file))
  BY DEF PollReadsFile
<1>2. UNCHANGED <<thread, disk>>
  BY DEF PollReadsFile, Elsewhere
<1>3. PICK found \in Job : /\ found = LoadFromDisk(file) /\ LinesInv(found)
                           /\ found.status # "generating"
  BY ReadIs
<1>4. \/ UNCHANGED <<jobs, live>>
      \/ /\ live = None /\ live' = Recovered
         /\ jobs' = [jobs EXCEPT ![Recovered] = found]
  BY <1>1, <1>3 DEF Caches
<1>5. /\ jobs' \in [Starts \cup {Recovered} -> Job]
      /\ \A k \in Starts : jobs'[k] = jobs[k]
      /\ LinesInv(jobs'[Recovered]) /\ jobs'[Recovered].status # "generating"
      /\ live' \in Starts \cup {Recovered, None}
      /\ live \in Starts \/ live' \in Starts => live' = live
  BY <1>3, <1>4, CachesIs
<1>6. JobTypes'
  BY <1>2, <1>5 DEF JobInv, JobTypes
<1>7. ASSUME NEW j \in Starts
      PROVE  ThreadInv(j)' /\ LinesInv(jobs'[j])
  <2>1. ThreadInv(j) /\ LinesInv(jobs[j])
    BY DEF JobInv
  <2>2. jobs'[j] = jobs[j] /\ thread' = thread
    BY <1>2, <1>5
  <2>. QED
    BY <2>1, <2>2 DEF ThreadInv, VoiceFor
<1>8. LinesInv(disk')
  BY <1>2 DEF JobInv
<1>. QED
  BY <1>5, <1>6, <1>7, <1>8 DEF JobInv

\* Every other step leaves the jobs alone.
LEMMA JobStep ==
    ASSUME VoiceInv, JobInv, [Next]_vars
    PROVE  JobInv'
<1>1. ASSUME NEW j \in Starts, ThreadStep(j)
      PROVE  JobInv'
  <2>1. ASSUME Persist(j)
        PROVE  JobInv'
    BY <2>1, WriteJobs DEF Persist
  <2>2. ASSUME JoinTrack(j) \/ FailNarration(j)
        PROVE  JobInv'
    BY <2>2, EndsJobs DEF JoinTrack, FailNarration
  <2>. QED
    BY <1>1, <2>1, <2>2, StartReadsFileJobs, PutJobJobs, CastJobs, SpeakLineJobs
    DEF ThreadStep
<1>2. ASSUME NEW j \in Starts, PersistFails(j)
      PROVE  JobInv'
  BY <1>2, WriteJobs DEF PersistFails
<1>3. ASSUME NEW r \in VoiceCalls,
             \/ \E s \in Speakers, upload \in BOOLEAN : LoadMetadata(r, s, upload)
             \/ UnlinkClip(r) \/ SaveVoice(r)
      PROVE  JobInv'
  BY <1>3, JobsKept DEF LoadMetadata, UnlinkClip, SaveVoice
<1>4. ASSUME NEW p \in Polls, PollReads(p) \/ PollAnswers(p) \/ PollFails(p)
      PROVE  JobInv'
  BY <1>4, JobsKept DEF PollReads, PollAnswers, PollFails, Elsewhere, jobVars
<1>5. ASSUME StartAnswers \/ UNCHANGED vars
      PROVE  JobInv'
  BY <1>5, JobsKept DEF StartAnswers, Elsewhere, vars, jobVars
<1>. QED
  BY <1>1, <1>2, <1>3, <1>4, <1>5, StartChecksJobs, PollReadsFileJobs, RestartJobs
  DEF Next

LEMMA JobsAlways == Spec => [](VoiceInv /\ JobInv)
<1>1. Init => VoiceInv /\ JobInv
  BY InitVoiceInv, InitJobInv
<1>2. VoiceInv /\ JobInv /\ [Next]_vars => VoiceInv' /\ JobInv'
  BY VoiceStep, JobStep
<1>. QED
  BY <1>1, <1>2, PTL DEF Spec

\* The lines of a job, in memory or read from the file, are the script's, in
\* the voices its characters had when the narration started.
THEOREM LinesFollowTheScript == Spec => []LinesAreTheScripts
<1>1. VoiceInv /\ JobInv => LinesAreTheScripts
  <2>. SUFFICES ASSUME JobInv PROVE LinesAreTheScripts
    OBVIOUS
  <2>1. DOMAIN jobs = Starts \cup {Recovered}
    BY DEF JobInv, JobTypes
  <2>2. \A job \in {jobs[j] : j \in DOMAIN jobs} \cup {disk} : LinesInv(job)
    BY <2>1 DEF JobInv
  <2>. QED
    BY <2>2 DEF LinesInv, LinesAreTheScripts
<1>. QED
  BY <1>1, JobsAlways, PTL

-----------------------------------------------------------------------------
(* The file: the invariant.                                                *)

Busy == {"first", "cast", "line", "saved", "final"}

\* How far the file is behind the job of a thread that has written it once.
Behind(j) ==
    CASE thread[j].pc = "saved" -> \E line \in Line :
                                       jobs[j].lines = Append(disk.lines, line)
      [] thread[j].pc = "final" -> disk.lines = jobs[j].lines
      [] OTHER                  -> disk = jobs[j]

\* While no two threads have narrated at once, the one that does has the
\* chapter's job.
DiskInv ==
    /\ doubled \in BOOLEAN /\ unsaved \in BOOLEAN
    /\ \A j \in Starts :
         /\ live = j => thread[j].pc \notin {"new", "file", "put"}
         /\ thread[j].pc \in Busy => doubled \/ live = j
         /\ live = j /\ thread[j].pc # "first" => doubled \/ unsaved \/ Behind(j)


LEMMA InitDiskInv == Init => DiskInv
<1>. SUFFICES ASSUME Init PROVE DiskInv
  OBVIOUS
<1>1. \A j \in Starts : thread[j].pc = "new" /\ live # j
  BY IdleThread, NarrationConstantsOK DEF Init
<1>2. doubled \in BOOLEAN /\ unsaved \in BOOLEAN
  BY DEF Init
<1>. QED
  BY <1>1, <1>2 DEF DiskInv, Busy

\* A start whose thread and job stay as they are, with the file.
LEMMA SameStart ==
    ASSUME NEW j \in Starts, thread'[j] = thread[j], jobs'[j] = jobs[j], disk' = disk
    PROVE  Behind(j)' <=> Behind(j)
  BY DEF Behind

LEMMA DiskKept ==
    ASSUME DiskInv, UNCHANGED <<thread, disk, doubled, unsaved>>,
           \A j \in Starts : jobs'[j] = jobs[j],
           live \in Starts \/ live' \in Starts => live' = live
    PROVE  DiskInv'
<1>1. ASSUME NEW j \in Starts
      PROVE  /\ live' = j => thread'[j].pc \notin {"new", "file", "put"}
             /\ thread'[j].pc \in Busy => doubled' \/ live' = j
             /\ live' = j /\ thread'[j].pc # "first" =>
                  doubled' \/ unsaved' \/ Behind(j)'
  <2>1. live' = j <=> live = j
    OBVIOUS
  <2>2. Behind(j)' <=> Behind(j)
    BY SameStart
  <2>3. /\ live = j => thread[j].pc \notin {"new", "file", "put"}
        /\ thread[j].pc \in Busy => doubled \/ live = j
        /\ live = j /\ thread[j].pc # "first" => doubled \/ unsaved \/ Behind(j)
    BY DEF DiskInv
  <2>. QED
    BY <2>1, <2>2, <2>3
<1>2. doubled' \in BOOLEAN /\ unsaved' \in BOOLEAN
  BY DEF DiskInv
<1>. QED
  BY <1>1, <1>2 DEF DiskInv

\* A busy thread goes on, and its file is as far behind as it may be.
LEMMA BusyGoesOn ==
    ASSUME DiskInv, NEW j \in Starts, thread[j].pc \in Busy,
           thread'[j].pc \in Busy \ {"first"},
           \A k \in Starts : k # j => thread'[k] = thread[k] /\ jobs'[k] = jobs[k],
           UNCHANGED <<live, disk, doubled, unsaved>>,
           (live = j /\ ~doubled /\ ~unsaved) => Behind(j)'
    PROVE  DiskInv'
<1>1. ASSUME NEW k \in Starts
      PROVE  /\ live' = k => thread'[k].pc \notin {"new", "file", "put"}
             /\ thread'[k].pc \in Busy => doubled' \/ live' = k
             /\ live' = k /\ thread'[k].pc # "first" =>
                  doubled' \/ unsaved' \/ Behind(k)'
  <2>1. /\ live = k => thread[k].pc \notin {"new", "file", "put"}
        /\ thread[k].pc \in Busy => doubled \/ live = k
        /\ live = k /\ thread[k].pc # "first" => doubled \/ unsaved \/ Behind(k)
    BY DEF DiskInv
  <2>2. CASE k = j
    BY <2>1, <2>2 DEF Busy
  <2>3. CASE k # j
    <3>1. thread'[k] = thread[k] /\ (Behind(k)' <=> Behind(k))
      BY <2>3, SameStart
    <3>. QED
      BY <2>1, <3>1
  <2>. QED
    BY <2>2, <2>3
<1>2. doubled' \in BOOLEAN /\ unsaved' \in BOOLEAN
  BY DEF DiskInv
<1>. QED
  BY <1>1, <1>2 DEF DiskInv

LEMMA StartDisk ==
    ASSUME VoiceInv, JobInv, DiskInv, NEW j \in Starts, StartChecks(j) \/ StartReadsFile(j)
    PROVE  DiskInv'
<1>1. thread[j].pc \in {"new", "file"} /\ UNCHANGED <<disk, doubled, unsaved>>
  BY DEF StartChecks, StartReadsFile
<1>2. /\ \A k \in Starts : k # j => jobs'[k] = jobs[k]
      /\ live \in Starts \/ live' \in Starts => live' = live
  BY StartReadsFileIs DEF StartChecks
<1>3. live # j /\ live' # j
  BY <1>1, <1>2 DEF DiskInv
<1>4. /\ \A k \in Starts : k # j => thread'[k] = thread[k]
      /\ thread'[j].pc \in {"file", "put", "done"}
  <2>1. CASE StartChecks(j)
    BY <2>1, StartChecksIs
  <2>2. CASE StartReadsFile(j)
    <3>1. Goes(j, "done") \/ Goes(j, "put")
      BY <2>2, StartReadsFileIs
    <3>. QED
      BY <3>1, GoesIs DEF JobInv, Pcs
  <2>. QED
    BY <2>1, <2>2
<1>5. ASSUME NEW k \in Starts
      PROVE  /\ live' = k => thread'[k].pc \notin {"new", "file", "put"}
             /\ thread'[k].pc \in Busy => doubled' \/ live' = k
             /\ live' = k /\ thread'[k].pc # "first" =>
                  doubled' \/ unsaved' \/ Behind(k)'
  <2>1. CASE k = j
    BY <1>3, <1>4, <2>1 DEF Busy
  <2>2. CASE k # j
    <3>1. thread'[k] = thread[k] /\ (Behind(k)' <=> Behind(k))
      BY <1>1, <1>2, <1>4, <2>2, SameStart
    <3>2. live' = k <=> live = k
      BY <1>2
    <3>3. /\ live = k => thread[k].pc \notin {"new", "file", "put"}
          /\ thread[k].pc \in Busy => doubled \/ live = k
          /\ live = k /\ thread[k].pc # "first" => doubled \/ unsaved \/ Behind(k)
      BY DEF DiskInv
    <3>. QED
      BY <1>1, <3>1, <3>2, <3>3
  <2>. QED
    BY <2>1, <2>2
<1>6. doubled' \in BOOLEAN /\ unsaved' \in BOOLEAN
  BY <1>1 DEF DiskInv
<1>. QED
  BY <1>5, <1>6 DEF DiskInv

LEMMA PutJobDisk ==
    ASSUME JobInv, DiskInv, NEW j \in Starts, PutJob(j)
    PROVE  DiskInv'
<1>1. /\ live' = j /\ Goes(j, "first") /\ unsaved' = unsaved
      /\ doubled' = (doubled \/ \E k \in Starts : thread[k].pc \in Busy)
  BY DEF PutJob, Busy
<1>2. /\ \A k \in Starts : k # j => thread'[k] = thread[k]
      /\ thread'[j].pc = "first"
  BY <1>1, GoesIs DEF JobInv, Pcs
<1>3. doubled' \in BOOLEAN /\ unsaved' \in BOOLEAN
  BY <1>1 DEF DiskInv
<1>4. \A k \in Starts : thread'[k].pc \in Busy => doubled' \/ live' = k
  BY <1>1, <1>2
<1>5. \A k \in Starts : live' = k => thread'[k].pc = "first"
  BY <1>1, <1>2
<1>. QED
  BY <1>3, <1>4, <1>5 DEF DiskInv

LEMMA WriteDisk ==
    ASSUME JobInv, DiskInv, NEW j \in Starts, Persist(j) \/ PersistFails(j)
    PROVE  DiskInv'
<1>1. /\ thread[j].pc \in Writing /\ thread' = [thread EXCEPT ![j] = AfterWrite(@)]
      /\ UNCHANGED <<jobs, live, doubled>> /\ unsaved' \in BOOLEAN
      /\ unsaved => unsaved'
  BY DEF Persist, PersistFails, DiskInv
<1>2. \A k \in Starts : k # j => thread'[k] = thread[k]
  BY <1>1 DEF JobInv, JobTypes
<1>3. thread'[j].pc \in {"cast", "line", "done"}
  <2>1. thread[j] \in Thread /\ thread'[j] = AfterWrite(thread[j])
    BY <1>1 DEF JobInv, JobTypes
  <2>2. CASE thread[j].pc = "first"
    <3>1. AfterWrite(thread[j]) = [thread[j] EXCEPT !.pc = "cast"]
      BY <2>2 DEF AfterWrite
    <3>. QED
      BY <2>1, <3>1 DEF Thread
  <2>3. CASE thread[j].pc = "saved"
    <3>1. AfterWrite(thread[j]) = [thread[j] EXCEPT !.pc = "line"]
      BY <2>3 DEF AfterWrite
    <3>. QED
      BY <2>1, <3>1 DEF Thread
  <2>4. CASE thread[j].pc = "final"
    <3>1. AfterWrite(thread[j]) = [IdleStart EXCEPT !.pc = "done"]
      BY <2>4 DEF AfterWrite
    <3>. QED
      BY <2>1, <3>1, IdleThread
  <2>. QED
    BY <1>1, <2>2, <2>3, <2>4 DEF Writing
<1>4. doubled \/ /\ live = j
                 /\ \A k \in Starts : k # j => thread[k].pc \notin Busy
  BY <1>1 DEF DiskInv, Busy, Writing
<1>5. doubled \/ unsaved' \/ disk' = jobs[j]
  <2>1. CASE PersistFails(j)
    BY <2>1 DEF PersistFails
  <2>2. CASE Persist(j) /\ ~doubled
    <3>1. ~ \E k \in Starts \ {j} : thread[k].pc \in Writing
      BY <1>4, <2>2 DEF Busy, Writing
    <3>. QED
      BY <2>2, <3>1 DEF Persist
  <2>. QED
    BY <2>1, <2>2
<1>6. Behind(j)' <=> disk' = jobs'[j]
  BY <1>3 DEF Behind
<1>7. ASSUME NEW k \in Starts
      PROVE  /\ live' = k => thread'[k].pc \notin {"new", "file", "put"}
             /\ thread'[k].pc \in Busy => doubled' \/ live' = k
             /\ live' = k /\ thread'[k].pc # "first" =>
                  doubled' \/ unsaved' \/ Behind(k)'
  <2>1. CASE k = j
    BY <1>1, <1>3, <1>4, <1>5, <1>6, <2>1
  <2>2. CASE k # j
    <3>1. thread'[k] = thread[k] /\ live' = live /\ doubled' = doubled
      BY <1>1, <1>2, <2>2
    <3>2. live = k => thread[k].pc \notin {"new", "file", "put"} /\ doubled
      BY <1>4, <2>2 DEF DiskInv
    <3>3. thread[k].pc \in Busy => doubled \/ live = k
      BY DEF DiskInv
    <3>. QED
      BY <3>1, <3>2, <3>3
  <2>. QED
    BY <2>1, <2>2
<1>. QED
  BY <1>1, <1>7 DEF DiskInv

LEMMA CastDisk ==
    ASSUME JobInv, DiskInv, NEW j \in Starts, Cast(j)
    PROVE  DiskInv'
<1>1. thread[j].pc = "cast" /\ UNCHANGED <<jobs, live, disk, doubled, unsaved>>
  BY DEF Cast
<1>2. PICK cast : thread' = [thread EXCEPT ![j].pc = "line", ![j].cast = cast]
  BY DEF Cast
<1>3. /\ \A k \in Starts : k # j => thread'[k] = thread[k]
      /\ thread'[j].pc = "line"
  BY <1>2 DEF JobInv, JobTypes, Thread
<1>4. (live = j /\ ~doubled /\ ~unsaved) => Behind(j)
  BY <1>1 DEF DiskInv
<1>5. Behind(j) => Behind(j)'
  BY <1>1, <1>3 DEF Behind
<1>. QED
  BY <1>1, <1>3, <1>4, <1>5, BusyGoesOn DEF Busy

LEMMA EndsDisk ==
    ASSUME JobInv, DiskInv, NEW j \in Starts, NEW status \in {"ready", "failed"},
           thread[j].pc \in {"cast", "line"}, Ends(j, status)
    PROVE  DiskInv'
<1>1. /\ jobs' = [jobs EXCEPT ![j].status = status] /\ Goes(j, "final")
      /\ UNCHANGED <<live, disk, doubled, unsaved>>
  BY DEF Ends
<1>2. /\ \A k \in Starts \cup {Recovered} : k # j => jobs'[k] = jobs[k]
      /\ jobs'[j].lines = jobs[j].lines
  BY <1>1, StatusChanges DEF JobInv, JobStatus
<1>3. /\ \A k \in Starts : k # j => thread'[k] = thread[k]
      /\ thread'[j].pc = "final"
  BY <1>1, GoesIs DEF JobInv, Pcs
<1>4. (live = j /\ ~doubled /\ ~unsaved) => Behind(j)
  BY DEF DiskInv
<1>5. Behind(j) => Behind(j)'
  <2>1. Behind(j) => disk.lines = jobs[j].lines
    BY DEF Behind
  <2>2. disk'.lines = jobs'[j].lines => Behind(j)'
    BY <1>3 DEF Behind
  <2>. QED
    BY <1>1, <1>2, <2>1, <2>2
<1>. QED
  BY <1>1, <1>2, <1>3, <1>4, <1>5, BusyGoesOn DEF Busy

LEMMA SpeakLineDisk ==
    ASSUME VoiceInv, JobInv, DiskInv, NEW j \in Starts, SpeakLine(j)
    PROVE  DiskInv'
<1>1. PICK spoken \in Line :
        /\ jobs' = [jobs EXCEPT ![j].lines = Append(@, spoken)]
        /\ thread[j].pc = "line" /\ Goes(j, "saved") /\ UNCHANGED <<live, disk>>
  BY SpokenIs
<1>2. UNCHANGED <<doubled, unsaved>>
  BY DEF SpeakLine
<1>3. /\ \A k \in Starts : k # j => jobs'[k] = jobs[k]
      /\ jobs'[j].lines = Append(jobs[j].lines, spoken)
  BY <1>1 DEF JobInv, JobTypes, Job
<1>4. /\ \A k \in Starts : k # j => thread'[k] = thread[k]
      /\ thread'[j].pc = "saved"
  BY <1>1, GoesIs DEF JobInv, Pcs
<1>5. (live = j /\ ~doubled /\ ~unsaved) => Behind(j)
  BY <1>1 DEF DiskInv
<1>6. Behind(j) => Behind(j)'
  <2>1. Behind(j) => disk = jobs[j]
    BY <1>1 DEF Behind
  <2>2. jobs'[j].lines = Append(disk'.lines, spoken) => Behind(j)'
    BY <1>4 DEF Behind
  <2>. QED
    BY <1>1, <1>3, <2>1, <2>2
<1>. QED
  BY <1>1, <1>2, <1>3, <1>4, <1>5, <1>6, BusyGoesOn DEF Busy

LEMMA RestartDisk ==
    ASSUME DiskInv, Restart
    PROVE  DiskInv'
<1>1. /\ live' = None /\ UNCHANGED <<doubled, unsaved>>
      /\ thread' = [j \in Starts |-> IF thread[j].pc = "new" THEN thread[j]
                                     ELSE [IdleStart EXCEPT !.pc = "done"]]
  BY DEF Restart
<1>2. \A j \in Starts : thread'[j].pc \in {"new", "done"} /\ live' # j
  BY <1>1, IdleThread, NarrationConstantsOK
<1>. QED
  BY <1>1, <1>2 DEF DiskInv, Busy

LEMMA DiskStep ==
    ASSUME VoiceInv, JobInv, DiskInv, [Next]_vars
    PROVE  DiskInv'
<1>1. ASSUME NEW j \in Starts, ThreadStep(j) \/ PersistFails(j)
      PROVE  DiskInv'
  <2>1. ASSUME JoinTrack(j) \/ FailNarration(j)
        PROVE  DiskInv'
    BY <2>1, EndsDisk DEF JoinTrack, FailNarration
  <2>. QED
    BY <1>1, <2>1, StartDisk, PutJobDisk, WriteDisk, CastDisk, SpeakLineDisk
    DEF ThreadStep
<1>2. ASSUME NEW p \in Polls, PollReadsFile(p)
      PROVE  DiskInv'
  <2>1. /\ \A k \in Starts : jobs'[k] = jobs[k]
        /\ live \in Starts \/ live' \in Starts => live' = live
    BY <1>2, PollReadsFileJobs
  <2>2. UNCHANGED <<thread, disk, doubled, unsaved>>
    BY <1>2 DEF PollReadsFile, Elsewhere, history
  <2>. QED
    BY <2>1, <2>2, DiskKept
<1>3. ASSUME UNCHANGED <<jobVars, doubled, unsaved>>
      PROVE  DiskInv'
  BY <1>3, DiskKept DEF jobVars
<1>4. ASSUME NEW r \in VoiceCalls,
             \/ \E s \in Speakers, upload \in BOOLEAN : LoadMetadata(r, s, upload)
             \/ UnlinkClip(r) \/ SaveVoice(r)
      PROVE  DiskInv'
  BY <1>3, <1>4 DEF LoadMetadata, UnlinkClip, SaveVoice, history
<1>5. ASSUME NEW p \in Polls, PollReads(p) \/ PollAnswers(p) \/ PollFails(p)
      PROVE  DiskInv'
  BY <1>3, <1>5 DEF PollReads, PollAnswers, PollFails, Elsewhere, jobVars, history
<1>6. ASSUME StartAnswers \/ UNCHANGED vars
      PROVE  DiskInv'
  BY <1>3, <1>6 DEF StartAnswers, Elsewhere, vars, jobVars, history
<1>. QED
  BY <1>1, <1>2, <1>4, <1>5, <1>6, StartDisk, RestartDisk DEF Next

\* A restart loses at most the line that is being written.
THEOREM FileFollowsMemory == Spec => []DiskFollowsMemory
<1>1. Init => DiskInv
  BY InitDiskInv
<1>2. (VoiceInv /\ JobInv) /\ DiskInv /\ [Next]_vars => DiskInv'
  BY DiskStep
<1>3. (VoiceInv /\ JobInv) /\ DiskInv => DiskFollowsMemory
  <2>. SUFFICES ASSUME JobInv, DiskInv, live \in Starts, thread[live].pc # "first",
                       ~doubled, ~unsaved
                PROVE  /\ thread[live].pc \notin Writing => disk = jobs[live]
                       /\ IsPrefix(disk.lines, jobs[live].lines)
                       /\ Len(jobs[live].lines) <= Len(disk.lines) + 1
    BY DEF DiskFollowsMemory
  <2>1. Behind(live)
    BY DEF DiskInv
  <2>2. PICK old \in Seq(Line), lines \in Seq(Line) :
          old = disk.lines /\ lines = jobs[live].lines
    BY DEF JobInv, JobTypes, Job, File
  <2>3. thread[live].pc \notin Writing => disk = jobs[live]
    BY <2>1 DEF Behind, Writing
  <2>4. old = lines \/ \E line \in Line : lines = Append(old, line)
    BY <2>1, <2>2 DEF Behind
  <2>5. CASE old = lines
    <3>1. IsPrefix(old, lines)
      BY <2>5 DEF IsPrefix
    <3>. QED
      BY <2>2, <2>3, <2>5, <3>1
  <2>6. ASSUME NEW line \in Line, lines = Append(old, line)
        PROVE  IsPrefix(old, lines) /\ Len(lines) <= Len(old) + 1
    BY <2>6 DEF IsPrefix
  <2>. QED
    BY <2>2, <2>3, <2>4, <2>5, <2>6
<1>. QED
  BY <1>1, <1>2, <1>3, JobsAlways, PTL DEF Spec

-----------------------------------------------------------------------------
(* The page: the invariant.                                                *)

Polling == page.status \in {"unknown", "generating"}

PageState == [status : JobStatus \cup {"unknown"}, shown : Seq(Nat),
              known : Nat, posting : Starts \cup {None}]
PollState == [pc : {"idle", "file", "answer"}, of : Starts \cup {Recovered, None},
              status : JobStatus \ {"generating"}, since : Nat,
              new : Seq(Nat), total : Nat]

PageTypes == page \in PageState /\ poll \in [Polls -> PollState]

\* The page is the only one to start a narration.
OnlyPage == \A j \in Starts \ PageStarts : thread[j].pc = "new"

\* Only a start that has ended answers with a job it found.
FoundInv == \A j \in Starts : thread[j].pc # "done" => thread[j].found = None

Deciding == {"file", "put"}

\* The job a start answers with is the chapter's if it is in progress.
Answered(j) ==
    thread[j].pc \notin {"new"} \cup Deciding =>
        AnswerOf(j) = live \/ jobs[AnswerOf(j)].status # "generating"

\* A page that polls shows what it knows, and its chapter's job has no fewer
\* lines; a thread that has not written yet is the one it waits for.
FollowsInv ==
    /\ \A i \in 1 .. Len(page.shown) : page.shown[i] = i
    /\ \A j \in Starts : thread[j].pc \in Deciding \cup {"first"} => page.posting = j
    /\ \A j \in Starts : page.posting = j => Answered(j)
    /\ page.posting # None => ~Polling
    /\ Polling => /\ Len(page.shown) = page.known
                  /\ live \in Starts => page.known <= Len(jobs[live].lines)

\* A poll asks for the lines the page does not know, and its answer goes on
\* where the page is.
AnswerInv(p) ==
    /\ poll[p].pc # "idle" => Polling
    /\ poll[p].pc = "file" => poll[p].since = page.known
    /\ poll[p].pc = "answer" =>
        /\ \A i \in 1 .. Len(poll[p].new) : poll[p].new[i] = page.known + i
        /\ poll[p].of \in Starts => /\ poll[p].of = live
                                    /\ poll[p].total = page.known + Len(poll[p].new)
                                    /\ poll[p].total <= Len(jobs[live].lines)

PageInv ==
    /\ PageTypes /\ FoundInv
    /\ \A p \in Polls : Polls = {p} /\ OnlyPage => FollowsInv /\ AnswerInv(p)

LEMMA NoPollIs == NoPoll \in PollState /\ NoPoll.pc = "idle"
<1>1. <<>> \in Seq(Nat) /\ 0 \in Nat
  OBVIOUS
<1>. QED
  BY <1>1 DEF NoPoll, PollState, JobStatus

LEMMA InitPageInv == Init => PageInv
<1>. SUFFICES ASSUME Init PROVE PageInv
  OBVIOUS
<1>1. PICK none : none = <<>>
  OBVIOUS
<1>2. none \in Seq(Nat) /\ Len(none) = 0
  BY <1>1
<1>3. page = [status |-> "unknown", shown |-> none, known |-> 0, posting |-> None]
  BY <1>1 DEF Init
<1>4. page \in PageState
  BY <1>2, <1>3 DEF PageState
<1>5. poll \in [Polls -> PollState]
  BY NoPollIs DEF Init
<1>6. PageTypes
  BY <1>4, <1>5 DEF PageTypes, PageState, PollState
<1>7. FollowsInv
  <2>1. page.posting = None /\ live = None /\ page.known = 0 /\ Len(page.shown) = 0
    BY <1>2, <1>3 DEF Init
  <2>2. \A j \in Starts : thread[j].pc = "new"
    BY IdleThread DEF Init
  <2>. QED
    BY <2>1, <2>2, NarrationConstantsOK DEF FollowsInv, Deciding
<1>8. \A p \in Polls : AnswerInv(p)
  BY NoPollIs DEF Init, AnswerInv
<1>9. FoundInv
  BY DEF Init, IdleStart, FoundInv
<1>. QED
  BY <1>6, <1>7, <1>8, <1>9 DEF PageInv

\* A thread rests, ends, or goes on without becoming new again.
LEMMA ThreadMoves ==
    ASSUME VoiceInv, JobInv, [Next]_vars, NEW j \in Starts
    PROVE  \/ thread'[j] = thread[j] \/ thread'[j].pc = "done"
           \/ /\ thread[j].pc # "done" /\ thread'[j].pc # "new"
              /\ thread'[j].found = thread[j].found
<1>. DEFINE Moves == \/ thread'[j] = thread[j] \/ thread'[j].pc = "done"
                     \/ /\ thread[j].pc # "done" /\ thread'[j].pc # "new"
                        /\ thread'[j].found = thread[j].found
<1>1. ASSUME NEW k \in Starts, NEW pc \in Pcs \ {"new"}, Goes(k, pc),
             thread[k].pc # "done"
      PROVE  Moves
  BY <1>1, GoesIs DEF JobInv
<1>2. ASSUME NEW k \in Starts, Persist(k) \/ PersistFails(k)
      PROVE  Moves
  <2>1. thread[k].pc \in Writing /\ thread' = [thread EXCEPT ![k] = AfterWrite(@)]
    BY <1>2 DEF Persist, PersistFails
  <2>2. /\ thread[k] \in Thread /\ thread'[k] = AfterWrite(thread[k])
        /\ j # k => thread'[j] = thread[j]
    BY <2>1 DEF JobInv, JobTypes
  <2>3. \/ AfterWrite(thread[k]) = [IdleStart EXCEPT !.pc = "done"]
        \/ \E pc \in {"cast", "line"} : AfterWrite(thread[k]) = [thread[k] EXCEPT !.pc = pc]
    BY <2>1 DEF AfterWrite, Writing
  <2>4. \A pc \in {"cast", "line"} :
           /\ [thread[k] EXCEPT !.pc = pc].pc = pc
           /\ [thread[k] EXCEPT !.pc = pc].found = thread[k].found
    BY <2>2 DEF Thread, Pcs
  <2>5. \/ thread'[k].pc = "done"
        \/ thread'[k].pc # "new" /\ thread'[k].found = thread[k].found
    <3>1. CASE thread'[k] = [IdleStart EXCEPT !.pc = "done"]
      BY <3>1, IdleThread
    <3>2. ASSUME NEW pc \in {"cast", "line"}, thread'[k] = [thread[k] EXCEPT !.pc = pc]
          PROVE  thread'[k].pc # "new" /\ thread'[k].found = thread[k].found
      BY <2>4, <3>2
    <3>. QED
      BY <2>2, <2>3, <3>1, <3>2
  <2>. QED
    BY <2>1, <2>2, <2>5 DEF Writing
<1>3. ASSUME NEW k \in Starts, StartChecks(k)
      PROVE  Moves
  <2>1. thread[k].pc = "new"
    BY <1>3 DEF StartChecks
  <2>. QED
    BY <1>3, <2>1, StartChecksIs
<1>4. ASSUME NEW k \in Starts, Cast(k)
      PROVE  Moves
  <2>1. j # k => thread'[j] = thread[j]
    BY <1>4 DEF Cast, JobInv, JobTypes
  <2>2. /\ thread[k].pc = "cast" /\ thread'[k].pc = "line"
        /\ thread'[k].found = thread[k].found
    BY <1>4 DEF Cast, JobInv, JobTypes, Thread
  <2>. QED
    BY <2>1, <2>2
<1>5. ASSUME NEW k \in Starts, ThreadStep(k)
      PROVE  Moves
  <2>. HIDE DEF Moves
  <2>1. ASSUME PutJob(k) \/ SpeakLine(k) \/ JoinTrack(k) \/ FailNarration(k)
        PROVE  /\ thread[k].pc # "done"
               /\ Goes(k, "first") \/ Goes(k, "saved") \/ Goes(k, "final")
    BY <2>1 DEF PutJob, SpeakLine, JoinTrack, FailNarration, Ends, AfterLine
  <2>2. ASSUME StartReadsFile(k)
        PROVE  thread[k].pc # "done" /\ (Goes(k, "done") \/ Goes(k, "put"))
    BY <2>2 DEF StartReadsFile
  <2>. QED
    BY <1>1, <1>2, <1>4, <1>5, <2>1, <2>2 DEF ThreadStep, Pcs
<1>6. ASSUME Restart
      PROVE  Moves
  BY <1>6, IdleThread DEF Restart
<1>7. ASSUME thread' = thread
      PROVE  Moves
  BY <1>7
<1>. HIDE DEF Moves
<1>8. ASSUME NEW r \in VoiceCalls,
             \/ \E s \in Speakers, upload \in BOOLEAN : LoadMetadata(r, s, upload)
             \/ UnlinkClip(r) \/ SaveVoice(r)
      PROVE  Moves
  BY <1>7, <1>8 DEF LoadMetadata, UnlinkClip, SaveVoice, jobVars
<1>9. ASSUME NEW p \in Polls,
             PollReads(p) \/ PollReadsFile(p) \/ PollAnswers(p) \/ PollFails(p)
      PROVE  Moves
  BY <1>7, <1>9 DEF PollReads, PollReadsFile, PollAnswers, PollFails, Elsewhere, jobVars
<1>10. ASSUME StartAnswers \/ UNCHANGED vars
       PROVE  Moves
  BY <1>7, <1>10 DEF StartAnswers, Elsewhere, vars, jobVars
<1>11. Moves
  BY <1>2, <1>3, <1>5, <1>6, <1>8, <1>9, <1>10 DEF Next
<1>. QED
  BY <1>11 DEF Moves

LEMMA FoundStep ==
    ASSUME VoiceInv, JobInv, FoundInv, [Next]_vars
    PROVE  FoundInv'
<1>. SUFFICES ASSUME NEW j \in Starts, thread'[j].pc # "done"
              PROVE  thread'[j].found = None
  BY DEF FoundInv
<1>. QED
  BY ThreadMoves DEF FoundInv

\* A start's answer stays the one it was while no other start decides.
LEMMA AnsweredStays ==
    ASSUME JobInv, live' = live, NEW i \in Starts, Answered(i),
           thread'[i].found = thread[i].found,
           thread[i].pc \in {"new"} \cup Deciding =>
               thread'[i].pc \in {"new"} \cup Deciding,
           \A k \in Starts \cup {Recovered} :
               jobs[k].status # "generating" => jobs'[k].status # "generating"
    PROVE  Answered(i)'
<1>1. AnswerOf(i)' = AnswerOf(i) /\ AnswerOf(i) \in Starts \cup {Recovered}
  BY DEF AnswerOf, JobInv, JobTypes, Thread
<1>. QED
  BY <1>1 DEF Answered

\* The steps in which the page has no part: no thread of the page's own begins,
\* and the chapter's job gets no fewer lines.
Aside ==
    /\ UNCHANGED <<page, poll>>
    /\ \A j \in Starts : thread'[j].pc \in Deciding \cup {"first"} =>
                           thread[j].pc \in Deciding \cup {"first"}
    /\ \A j \in Starts : Answered(j) =>
          Answered(j)' \/ \E k \in Starts \ {j} : thread[k].pc \in Deciding
    /\ \/ \E j \in Starts : thread[j].pc \in Deciding
       \/ /\ live' = live
          /\ \A j \in Starts : Len(jobs[j].lines) <= Len(jobs'[j].lines)

LEMMA AsideKeepsPage ==
    ASSUME PageInv, FoundInv', JobInv, JobInv', Aside, OnlyPage' => OnlyPage
    PROVE  PageInv'
<1>1. PageTypes'
  BY DEF PageInv, PageTypes, PageState, PollState, Aside
<1>2. ASSUME NEW p \in Polls, Polls = {p}, OnlyPage'
      PROVE  FollowsInv' /\ AnswerInv(p)'
  <2>1. FollowsInv /\ AnswerInv(p)
    BY <1>2 DEF PageInv
  <2>2. page' = page /\ poll' = poll /\ (Polling' <=> Polling)
    BY DEF Aside, Polling
  <2>3. Polling => ~ \E j \in Starts : thread[j].pc \in Deciding
    BY <2>1, NarrationConstantsOK DEF FollowsInv
  <2>4. Polling => /\ live' = live
                   /\ \A j \in Starts : Len(jobs[j].lines) <= Len(jobs'[j].lines)
    BY <2>3 DEF Aside
  <2>5. \A j \in Starts : Len(jobs[j].lines) \in Nat /\ Len(jobs'[j].lines) \in Nat
    BY DEF JobInv, JobTypes, Job
  <2>6. page.known \in Nat /\ poll[p].total \in Nat
    BY DEF PageInv, PageTypes, PageState, PollState
  <2>7. Polling /\ live' \in Starts => page.known <= Len(jobs'[live'].lines)
    BY <2>1, <2>4, <2>5, <2>6 DEF FollowsInv
  <2>8. FollowsInv'
    <3>1. \A j \in Starts : thread'[j].pc \in Deciding \cup {"first"} => page.posting = j
      BY <2>1 DEF FollowsInv, Aside
    <3>2. ASSUME NEW j \in Starts, page.posting = j
          PROVE  Answered(j)'
      <4>1. Answered(j) /\ \A k \in Starts : thread[k].pc \in Deciding => k = j
        BY <2>1, <3>2 DEF FollowsInv
      <4>. QED
        BY <4>1 DEF Aside
    <3>. QED
      BY <2>1, <2>2, <2>7, <3>1, <3>2 DEF FollowsInv
  <2>9. AnswerInv(p)'
    <3>1. ASSUME poll[p].pc = "answer", poll[p].of \in Starts
          PROVE  /\ poll[p].of = live' /\ poll[p].total <= Len(jobs'[live'].lines)
                 /\ poll[p].total = page.known + Len(poll[p].new)
      <4>1. /\ poll[p].of = live /\ poll[p].total <= Len(jobs[live].lines)
            /\ poll[p].total = page.known + Len(poll[p].new) /\ Polling
        BY <2>1, <3>1 DEF AnswerInv
      <4>. QED
        BY <2>4, <2>5, <2>6, <3>1, <4>1
    <3>. QED
      BY <2>1, <2>2, <3>1 DEF AnswerInv
  <2>. QED
    BY <2>8, <2>9
<1>. QED
  BY <1>1, <1>2 DEF PageInv

\* A thread's steps.
LEMMA ThreadAside ==
    ASSUME VoiceInv, JobInv, JobInv', FoundInv, FoundInv', NEW j \in Starts,
           ThreadStep(j) \/ PersistFails(j)
    PROVE  Aside
<1>1. UNCHANGED <<page, poll>>
  BY DEF ThreadStep, StartReadsFile, PutJob, Persist, Cast, SpeakLine, JoinTrack,
         FailNarration, Ends, PersistFails, Beside, pageVars
<1>2. \A k \in Starts : Len(jobs[k].lines) \in Nat
  BY DEF JobInv, JobTypes, Job
<1>3. ASSUME StartReadsFile(j) \/ PutJob(j)
      PROVE  Aside
  <2>1. /\ thread[j].pc \in Deciding
        /\ Goes(j, "done") \/ Goes(j, "put") \/ Goes(j, "first")
    BY <1>3 DEF StartReadsFile, PutJob, Deciding
  <2>2. /\ \A k \in Starts : k # j => thread'[k] = thread[k]
        /\ thread'[j].found = thread[j].found
    BY <2>1, GoesIs DEF JobInv, Pcs
  <2>3. AnswerOf(j)' = j
    BY <2>1, <2>2 DEF AnswerOf, FoundInv, Deciding
  <2>4. Answered(j)'
    <3>1. CASE PutJob(j)
      BY <2>3, <3>1 DEF Answered, PutJob
    <3>2. CASE StartReadsFile(j) /\ Goes(j, "put")
      BY <3>2, GoesIs DEF Answered, Deciding, JobInv, Pcs
    <3>3. CASE StartReadsFile(j) /\ jobs'[j].status # "generating"
      BY <2>3, <3>3 DEF Answered
    <3>. QED
      BY <1>3, <3>1, <3>2, <3>3, StartReadsFileIs
  <2>. QED
    BY <1>1, <2>1, <2>2, <2>4 DEF Aside
<1>4. ASSUME thread[j].pc \notin {"new", "done"} \cup Deciding,
             thread'[j].pc \notin Deciding \cup {"first"}, live' = live,
             \A k \in Starts : k # j => thread'[k] = thread[k],
             thread'[j].found = None,
             \A k \in Starts : Len(jobs[k].lines) <= Len(jobs'[k].lines),
             \A k \in Starts \cup {Recovered} :
                jobs[k].status # "generating" => jobs'[k].status # "generating"
      PROVE  Aside
  <2>1. thread'[j].found = thread[j].found
    BY <1>4 DEF FoundInv
  <2>2. ASSUME NEW k \in Starts, Answered(k)
        PROVE  Answered(k)'
    <3>1. thread'[k].found = thread[k].found
      BY <1>4, <2>1
    <3>2. thread[k].pc \in {"new"} \cup Deciding =>
            thread'[k].pc \in {"new"} \cup Deciding
      BY <1>4
    <3>. QED
      BY <1>4, <2>2, <3>1, <3>2, AnsweredStays
  <2>. QED
    BY <1>1, <1>4, <2>2 DEF Aside
<1>5. ASSUME NEW status \in {"ready", "failed"}, thread[j].pc \in {"cast", "line"},
             Ends(j, status)
      PROVE  Aside
  <2>1. /\ jobs' = [jobs EXCEPT ![j].status = status] /\ Goes(j, "final") /\ live' = live
    BY <1>5 DEF Ends
  <2>2. /\ \A k \in Starts \cup {Recovered} : k # j => jobs'[k] = jobs[k]
        /\ jobs'[j].lines = jobs[j].lines /\ jobs'[j].status = status
    BY <2>1, StatusChanges DEF JobInv, JobStatus
  <2>3. /\ \A k \in Starts : k # j => thread'[k] = thread[k]
        /\ thread'[j].pc = "final" /\ thread'[j].found = thread[j].found
    BY <2>1, GoesIs DEF JobInv, Pcs
  <2>4. thread'[j].found = None
    BY <1>5, <2>3 DEF FoundInv
  <2>5. \A k \in Starts \cup {Recovered} :
           jobs[k].status # "generating" => jobs'[k].status # "generating"
    BY <2>2
  <2>6. \A k \in Starts : Len(jobs[k].lines) <= Len(jobs'[k].lines)
    BY <1>2, <2>2
  <2>. QED
    BY <1>4, <1>5, <2>1, <2>3, <2>4, <2>5, <2>6 DEF Deciding
<1>6. ASSUME SpeakLine(j)
      PROVE  Aside
  <2>1. PICK spoken \in Line :
          /\ jobs' = [jobs EXCEPT ![j].lines = Append(@, spoken)]
          /\ thread[j].pc = "line" /\ Goes(j, "saved") /\ UNCHANGED <<live, disk>>
    BY <1>6, SpokenIs
  <2>2. \A k \in Starts \cup {Recovered} : k # j => jobs'[k] = jobs[k]
    BY <2>1 DEF JobInv, JobTypes
  <2>3. Len(jobs'[j].lines) = Len(jobs[j].lines) + 1 /\ jobs'[j].status = jobs[j].status
    BY <2>1 DEF JobInv, JobTypes, Job
  <2>4. \A k \in Starts : Len(jobs[k].lines) <= Len(jobs'[k].lines)
    BY <1>2, <2>2, <2>3
  <2>5. /\ \A k \in Starts : k # j => thread'[k] = thread[k]
        /\ thread'[j].pc = "saved" /\ thread'[j].found = thread[j].found
    BY <2>1, GoesIs DEF JobInv, Pcs
  <2>6. thread'[j].found = None
    BY <2>1, <2>5 DEF FoundInv
  <2>7. \A k \in Starts \cup {Recovered} :
           jobs[k].status # "generating" => jobs'[k].status # "generating"
    BY <2>2, <2>3
  <2>. QED
    BY <1>4, <2>1, <2>4, <2>5, <2>6, <2>7 DEF Deciding
<1>7. ASSUME Cast(j)
      PROVE  Aside
  <2>1. /\ thread[j].pc = "cast" /\ thread'[j].pc = "line"
        /\ \A k \in Starts : k # j => thread'[k] = thread[k]
        /\ UNCHANGED <<jobs, live>>
    BY <1>7 DEF Cast, JobInv, JobTypes, Thread
  <2>2. thread'[j].found = None
    BY <2>1 DEF FoundInv
  <2>3. \A k \in Starts : Len(jobs[k].lines) <= Len(jobs'[k].lines)
    BY <1>2, <2>1
  <2>. QED
    BY <1>4, <2>1, <2>2, <2>3 DEF Deciding
<1>8. ASSUME Persist(j) \/ PersistFails(j)
      PROVE  Aside
  <2>1. /\ thread[j].pc \in Writing /\ thread' = [thread EXCEPT ![j] = AfterWrite(@)]
        /\ UNCHANGED <<jobs, live>>
    BY <1>8 DEF Persist, PersistFails
  <2>2. thread[j] \in Thread /\ thread'[j] = AfterWrite(thread[j])
    BY <2>1 DEF JobInv, JobTypes
  <2>3. AfterWrite(thread[j]) \in {[thread[j] EXCEPT !.pc = "cast"],
                                   [thread[j] EXCEPT !.pc = "line"],
                                   [IdleStart EXCEPT !.pc = "done"]}
    BY <2>1 DEF AfterWrite, Writing
  <2>4. thread[j].found = None
    BY <2>1 DEF FoundInv, Writing
  <2>5. thread'[j].pc \in {"cast", "line", "done"} /\ thread'[j].found = None
    BY <2>2, <2>3, <2>4 DEF Thread, IdleStart
  <2>6. \A k \in Starts : k # j => thread'[k] = thread[k]
    BY <2>1 DEF JobInv, JobTypes
  <2>7. \A k \in Starts : Len(jobs[k].lines) <= Len(jobs'[k].lines)
    BY <1>2, <2>1
  <2>. QED
    BY <1>4, <2>1, <2>5, <2>6, <2>7 DEF Deciding, Writing
<1>9. ASSUME JoinTrack(j) \/ FailNarration(j)
       PROVE  Aside
  BY <1>5, <1>9 DEF JoinTrack, FailNarration
<1>. QED
  BY <1>3, <1>6, <1>7, <1>8, <1>9 DEF ThreadStep

LEMMA StartChecksPage ==
    ASSUME VoiceInv, JobInv, PageInv, FoundInv', NEW j \in Starts, StartChecks(j),
           OnlyPage' => OnlyPage
    PROVE  PageInv'
<1>1. /\ thread[j].pc = "new" /\ poll' = poll /\ UNCHANGED <<jobs, live>>
      /\ j \in PageStarts => page.status \in {"not_started", "failed"} /\ page.posting = None
      /\ page' = IF j \in PageStarts
                 THEN [page EXCEPT !.shown = <<>>, !.known = 0, !.posting = j] ELSE page
  BY DEF StartChecks, PageAsks, Beside
<1>2. /\ thread'[j].pc # "new" /\ \A k \in Starts : k # j => thread'[k] = thread[k]
      /\ \/ thread'[j].pc = "done" /\ thread'[j].found = live /\ live # None
         \/ thread'[j].pc \in {"file", "put"}
  BY StartChecksIs
<1>3. PICK none \in Seq(Nat) : none = <<>> /\ Len(none) = 0
  <2>1. <<>> \in Seq(Nat) /\ Len(<<>>) = 0
    OBVIOUS
  <2>. QED
    BY <2>1
<1>4. page \in PageState
  BY DEF PageInv, PageTypes, PageState
<1>5. PageTypes'
  <2>1. page' \in PageState
    BY <1>1, <1>3, <1>4 DEF PageState
  <2>. QED
    BY <1>1, <2>1 DEF PageInv, PageTypes, PageState
<1>6. Answered(j)'
  BY <1>1, <1>2 DEF Answered, AnswerOf, Deciding
<1>7. ASSUME NEW p \in Polls, Polls = {p}, OnlyPage'
      PROVE  FollowsInv' /\ AnswerInv(p)'
  <2>1. j \in PageStarts
    BY <1>2, <1>7 DEF OnlyPage
  <2>2. FollowsInv /\ AnswerInv(p)
    BY <1>7 DEF PageInv
  <2>3. /\ page'.status = page.status /\ page'.posting = j
        /\ Len(page'.shown) = 0
    BY <1>1, <1>3, <1>4, <2>1 DEF PageState
  <2>4. ~Polling /\ ~Polling'
    BY <1>1, <2>1, <2>3 DEF Polling
  <2>5. ASSUME NEW k \in Starts, thread'[k].pc \in Deciding \cup {"first"}
        PROVE  k = j
    BY <1>1, <1>2, <2>1, <2>2, <2>5, NarrationConstantsOK DEF FollowsInv
  <2>6. FollowsInv'
    BY <1>6, <2>3, <2>4, <2>5 DEF FollowsInv
  <2>7. AnswerInv(p)'
    BY <1>1, <2>2, <2>4 DEF AnswerInv
  <2>. QED
    BY <2>6, <2>7
<1>. QED
  BY <1>5, <1>7 DEF PageInv

LEMMA PollFailsPage ==
    ASSUME JobInv, PageInv, FoundInv', NEW p \in Polls, PollFails(p)
    PROVE  PageInv'
<1>1. poll' = [poll EXCEPT ![p] = NoPoll] /\ UNCHANGED <<jobs, live, thread, page>>
  BY DEF PollFails, jobVars
<1>2. PageTypes'
  <2>1. poll' \in [Polls -> PollState]
    BY <1>1, NoPollIs DEF PageInv, PageTypes, PollState
  <2>. QED
    BY <1>1, <2>1 DEF PageInv, PageTypes, PollState
<1>3. ASSUME NEW q \in Polls, Polls = {q}, OnlyPage'
      PROVE  FollowsInv' /\ AnswerInv(q)'
  <2>1. OnlyPage
    BY <1>1, <1>3 DEF OnlyPage
  <2>2. FollowsInv
    BY <1>3, <2>1 DEF PageInv
  <2>3. FollowsInv'
    BY <1>1, <2>2 DEF FollowsInv, Polling, Answered, AnswerOf
  <2>4. poll'[q].pc = "idle"
    BY <1>1, <1>3, NoPollIs DEF PageInv, PageTypes, PageState, PollState
  <2>. QED
    BY <2>3, <2>4 DEF AnswerInv
<1>. QED
  BY <1>2, <1>3 DEF PageInv

LEMMA RestartPage ==
    ASSUME PageInv, FoundInv', Restart, OnlyPage' => OnlyPage
    PROVE  PageInv'
<1>1. /\ live' = None /\ poll' = [p \in Polls |-> NoPoll]
      /\ page' = [page EXCEPT !.posting = None]
      /\ thread' = [j \in Starts |-> IF thread[j].pc = "new" THEN thread[j]
                                     ELSE [IdleStart EXCEPT !.pc = "done"]]
  BY DEF Restart
<1>2. /\ page' \in PageState /\ page'.status = page.status /\ page'.known = page.known
      /\ page'.shown = page.shown /\ page'.posting = None
  BY <1>1 DEF PageInv, PageTypes, PageState
<1>3. PageTypes'
  BY <1>1, <1>2, NoPollIs DEF PageTypes, PageState, PollState
<1>4. \A j \in Starts : thread'[j].pc \in {"new", "done"}
  BY <1>1, IdleThread
<1>5. ASSUME NEW p \in Polls, Polls = {p}, OnlyPage'
      PROVE  FollowsInv' /\ AnswerInv(p)'
  <2>1. FollowsInv
    BY <1>5 DEF PageInv
  <2>2. FollowsInv'
    BY <1>1, <1>2, <1>4, <2>1, NarrationConstantsOK DEF FollowsInv, Polling, Deciding
  <2>3. poll'[p].pc = "idle"
    BY <1>1, NoPollIs
  <2>. QED
    BY <2>2, <2>3 DEF AnswerInv
<1>. QED
  BY <1>3, <1>5 DEF PageInv

LEMMA StartAnswersPage ==
    ASSUME JobInv, PageInv, FoundInv', StartAnswers
    PROVE  PageInv'
<1>1. PICK job : job = jobs[AnswerOf(page.posting)]
  OBVIOUS
<1>2. PICK shown : shown = [i \in DOMAIN job.lines |-> job.lines[i].line]
  OBVIOUS
<1>3. /\ page.posting # None /\ thread[page.posting].pc \notin {"new", "file", "put", "first"}
      /\ page' = [page EXCEPT !.status = job.status, !.posting = None,
                              !.shown = shown, !.known = Len(job.lines)]
      /\ UNCHANGED <<jobs, live, poll, thread>>
  BY <1>1, <1>2 DEF StartAnswers, Elsewhere
<1>4. job \in Job /\ LinesInv(job)
  <2>1. page.posting \in Starts
    BY <1>3 DEF PageInv, PageTypes, PageState
  <2>2. AnswerOf(page.posting) \in Starts \cup {Recovered}
    BY <2>1 DEF AnswerOf, JobInv, JobTypes, Thread
  <2>. QED
    BY <1>1, <2>2 DEF JobInv, JobTypes
<1>5. PICK lines \in Seq(Line) : lines = job.lines
  BY <1>4 DEF Job
<1>6. /\ shown \in Seq(Nat) /\ Len(shown) = Len(lines)
      /\ \A i \in 1 .. Len(shown) : shown[i] = i
  <2>1. DOMAIN lines = 1 .. Len(lines) /\ Len(lines) \in Nat
    OBVIOUS
  <2>2. \A i \in 1 .. Len(lines) : lines[i].line = i
    BY <1>4, <1>5, <2>1 DEF LinesInv
  <2>3. shown = [i \in 1 .. Len(lines) |-> i]
    BY <1>2, <1>5, <2>1, <2>2
  <2>. QED
    BY <2>1, <2>3
<1>7. /\ page' \in PageState /\ page'.status = job.status /\ page'.posting = None
      /\ page'.shown = shown /\ page'.known = Len(lines)
  <2>1. PICK n \in Nat : n = Len(lines)
    OBVIOUS
  <2>2. PICK status \in JobStatus : status = job.status
    BY <1>4 DEF Job
  <2>3. page' = [page EXCEPT !.status = status, !.posting = None,
                             !.shown = shown, !.known = n]
    BY <1>3, <1>5, <2>1, <2>2
  <2>4. page \in PageState
    BY DEF PageInv, PageTypes, PageState
  <2>5. /\ page' \in PageState /\ page'.status = status /\ page'.posting = None
        /\ page'.shown = shown /\ page'.known = n
    BY <1>6, <2>3, <2>4 DEF PageState
  <2>. QED
    BY <2>1, <2>2, <2>5
<1>8. PageTypes'
  BY <1>3, <1>7 DEF PageInv, PageTypes, PageState
<1>9. ASSUME NEW p \in Polls, Polls = {p}, OnlyPage'
      PROVE  FollowsInv' /\ AnswerInv(p)'
  <2>1. OnlyPage
    BY <1>3, <1>9 DEF OnlyPage
  <2>2. FollowsInv /\ AnswerInv(p)
    BY <1>9, <2>1 DEF PageInv
  <2>3. \A j \in Starts : thread[j].pc \notin Deciding \cup {"first"}
    BY <1>3, <2>2 DEF FollowsInv, Deciding
  <2>4. Polling' /\ live \in Starts => page'.known <= Len(jobs[live].lines)
    <3>1. Polling' => job.status = "generating"
      BY <1>4, <1>7 DEF Polling, Job, JobStatus
    <3>2. Answered(page.posting)
      BY <1>3, <2>2 DEF FollowsInv, PageInv, PageTypes, PageState
    <3>3. Polling' => AnswerOf(page.posting) = live
      BY <1>1, <1>3, <3>1, <3>2 DEF Answered, Deciding
    <3>4. Polling' => lines = jobs[live].lines
      BY <1>1, <1>5, <3>3
    <3>. QED
      BY <1>5, <1>7, <3>4
  <2>5. FollowsInv'
    BY <1>3, <1>6, <1>7, <2>3, <2>4, NarrationConstantsOK DEF FollowsInv
  <2>6. poll[p].pc = "idle"
    BY <1>3, <2>2 DEF FollowsInv, AnswerInv
  <2>. QED
    BY <1>3, <2>5, <2>6 DEF AnswerInv
<1>. QED
  BY <1>8, <1>9 DEF PageInv

\* An answer holds the lines from the one asked for on.
IsCopy(answer, of, lines, known) ==
    /\ answer \in PollState /\ answer.pc = "answer" /\ answer.of = of
    /\ answer.total = Len(lines)
    /\ known <= Len(lines) => Len(lines) = known + Len(answer.new)
    /\ \A i \in 1 .. Len(answer.new) : answer.new[i] = known + i

Ordered(lines) == \A i \in 1 .. Len(lines) : lines[i].line = i

LEMMA CopiedIs ==
    ASSUME NEW of \in Starts \cup {Recovered, None}, NEW known \in Nat,
           NEW status \in JobStatus \ {"generating"}, NEW lines \in Seq(Line),
           Ordered(lines)
    PROVE  IsCopy(Copied(of, status, lines, known), of, lines, known)
<1>1. PICK n \in Nat : n = Len(lines)
  OBVIOUS
<1>2. Len(SubSeq(lines, known + 1, n)) = IF known <= n THEN n - known ELSE 0
  BY <1>1
<1>3. PICK m \in Nat : m = IF known <= n THEN n - known ELSE 0
  <2>1. (IF known <= n THEN n - known ELSE 0) \in Nat
    BY <1>1
  <2>. QED
    BY <2>1
<1>4. PICK new : new = [i \in 1 .. m |-> lines[known + i].line]
  OBVIOUS
<1>5. \A i \in 1 .. m : lines[known + i].line = known + i
  <2>1. ASSUME NEW i \in 1 .. m
        PROVE  known + i \in 1 .. Len(lines)
    BY <1>1, <1>3, <2>1
  <2>. QED
    BY <2>1 DEF Ordered
<1>6. new = [i \in 1 .. m |-> known + i]
  BY <1>4, <1>5
<1>7. new \in Seq(Nat) /\ Len(new) = m /\ \A i \in 1 .. Len(new) : new[i] = known + i
  BY <1>6
<1>8. PICK copied : copied = [pc |-> "answer", of |-> of, status |-> status,
                              since |-> known, total |-> n, new |-> new]
  OBVIOUS
<1>9. /\ copied \in PollState /\ copied.pc = "answer" /\ copied.of = of
      /\ copied.total = n /\ copied.new = new
  BY <1>7, <1>8 DEF PollState
<1>10. Copied(of, status, lines, known) = copied
  BY <1>1, <1>2, <1>3, <1>4, <1>8 DEF Copied
<1>11. known <= n => n = known + m
  BY <1>1, <1>3
<1>12. IsCopy(copied, of, lines, known)
  BY <1>1, <1>7, <1>9, <1>11 DEF IsCopy
<1>. QED
  BY <1>10, <1>12

LEMMA PollReadsPage ==
    ASSUME JobInv, PageInv, FoundInv', NEW p \in Polls, PollReads(p)
    PROVE  PageInv'
<1>1. Polling /\ UNCHANGED <<page, thread, jobs, live>>
  BY DEF PollReads, Polling, Elsewhere
<1>2. PICK known \in Nat : known = page.known
  BY DEF PageInv, PageTypes, PageState
<1>3. PICK asked :
        asked = IF live = None THEN [NoPoll EXCEPT !.pc = "file", !.since = known]
                ELSE Copied(live, "not_started", jobs[live].lines, known)
  OBVIOUS
<1>4. poll' = [poll EXCEPT ![p] = asked]
  BY <1>2, <1>3 DEF PollReads, Since
<1>5. /\ asked \in PollState
      /\ \/ asked.pc = "file" /\ asked.since = known
         \/ /\ asked.pc = "answer" /\ asked.of = live
            /\ \A i \in 1 .. Len(asked.new) : asked.new[i] = known + i
            /\ live \in Starts /\ known <= Len(jobs[live].lines) =>
                  /\ asked.total = known + Len(asked.new)
                  /\ asked.total <= Len(jobs[live].lines)
  <2>1. CASE live = None
    <3>1. asked = [NoPoll EXCEPT !.pc = "file", !.since = known]
      BY <1>3, <2>1
    <3>. QED
      BY <3>1, NoPollIs DEF PollState
  <2>2. CASE live # None
    <3>1. live \in Starts \cup {Recovered} /\ jobs[live] \in Job /\ LinesInv(jobs[live])
      BY <2>2 DEF JobInv, JobTypes
    <3>2. PICK lines \in Seq(Line) : lines = jobs[live].lines
      BY <3>1 DEF Job
    <3>3. Ordered(lines)
      BY <3>1, <3>2 DEF LinesInv, Ordered
    <3>4. asked = Copied(live, "not_started", lines, known)
      BY <1>3, <2>2, <3>2
    <3>5. "not_started" \in JobStatus \ {"generating"} /\ Len(lines) \in Nat
      BY DEF JobStatus
    <3>6. IsCopy(asked, live, lines, known)
      BY <1>2, <3>1, <3>3, <3>4, <3>5, CopiedIs
    <3>. QED
      BY <3>2, <3>5, <3>6 DEF IsCopy
  <2>. QED
    BY <2>1, <2>2
<1>6. poll' \in [Polls -> PollState] /\ poll'[p] = asked
  BY <1>4, <1>5 DEF PageInv, PageTypes
<1>7. PageTypes'
  BY <1>1, <1>6 DEF PageInv, PageTypes, PollState
<1>8. ASSUME NEW q \in Polls, Polls = {q}, OnlyPage'
      PROVE  FollowsInv' /\ AnswerInv(q)'
  <2>1. OnlyPage /\ q = p
    BY <1>1, <1>8 DEF OnlyPage
  <2>2. FollowsInv
    BY <1>8, <2>1 DEF PageInv
  <2>3. FollowsInv' /\ (Polling' <=> Polling)
    BY <1>1, <2>2 DEF FollowsInv, Polling, Answered, AnswerOf
  <2>4. live \in Starts => known <= Len(jobs[live].lines)
    BY <1>1, <1>2, <2>2 DEF FollowsInv
  <2>5. AnswerInv(p)'
    BY <1>1, <1>2, <1>5, <1>6, <2>3, <2>4 DEF AnswerInv
  <2>. QED
    BY <2>1, <2>3, <2>5
<1>. QED
  BY <1>7, <1>8 DEF PageInv

LEMMA PollReadsFilePage ==
    ASSUME JobInv, PageInv, FoundInv', NEW p \in Polls, PollReadsFile(p)
    PROVE  PageInv'
<1>1. PICK file \in DiskRead :
        poll' = [poll EXCEPT ![p] = Copied(None, LoadFromDisk(file).status,
                                           LoadFromDisk(file).lines, poll[p].since)]
  BY DEF PollReadsFile
<1>2. /\ LoadFromDisk(file) \in Job /\ LinesInv(LoadFromDisk(file))
      /\ LoadFromDisk(file).status # "generating"
  BY ReadIs
<1>3. PICK lines \in Seq(Line), status \in JobStatus \ {"generating"}, since \in Nat :
        /\ lines = LoadFromDisk(file).lines /\ status = LoadFromDisk(file).status
        /\ since = poll[p].since
  BY <1>2 DEF Job, PageInv, PageTypes, PollState
<1>4. Ordered(lines)
  BY <1>2, <1>3 DEF LinesInv, Ordered
<1>5. PICK answer : answer = Copied(None, status, lines, since)
  OBVIOUS
<1>6. /\ answer \in PollState /\ answer.pc = "answer" /\ answer.of = None
      /\ \A i \in 1 .. Len(answer.new) : answer.new[i] = since + i
  <2>1. IsCopy(answer, None, lines, since)
    BY <1>4, <1>5, CopiedIs
  <2>. QED
    BY <2>1 DEF IsCopy
<1>7. poll' = [poll EXCEPT ![p] = answer]
  BY <1>1, <1>3, <1>5
<1>8. poll' \in [Polls -> PollState] /\ poll'[p] = answer
  BY <1>6, <1>7 DEF PageInv, PageTypes
<1>9. poll[p].pc = "file" /\ UNCHANGED <<page, thread>>
  BY DEF PollReadsFile, Elsewhere
<1>10. PageTypes'
  BY <1>8, <1>9 DEF PageInv, PageTypes, PollState
<1>11. /\ \A j \in Starts : jobs'[j] = jobs[j]
       /\ live \in Starts \/ live' \in Starts => live' = live
  BY PollReadsFileJobs
<1>12. ASSUME NEW q \in Polls, Polls = {q}, OnlyPage'
       PROVE  FollowsInv' /\ AnswerInv(q)'
  <2>1. OnlyPage /\ q = p
    BY <1>9, <1>12 DEF OnlyPage
  <2>2. FollowsInv /\ AnswerInv(p)
    BY <1>12, <2>1 DEF PageInv
  <2>3. Polling /\ since = page.known
    BY <1>3, <1>9, <2>2 DEF AnswerInv
  <2>4. page.posting = None
    BY <2>2, <2>3 DEF FollowsInv
  <2>5. Polling' <=> Polling
    BY <1>9 DEF Polling
  <2>6. FollowsInv'
    BY <1>9, <1>11, <2>2, <2>4, <2>5, NarrationConstantsOK DEF FollowsInv
  <2>7. AnswerInv(p)'
    BY <1>6, <1>8, <1>9, <2>3, <2>5, NarrationConstantsOK DEF AnswerInv
  <2>. QED
    BY <2>1, <2>6, <2>7
<1>. QED
  BY <1>10, <1>12 DEF PageInv

LEMMA PollAnswersPage ==
    ASSUME JobInv, PageInv, FoundInv', NEW p \in Polls, PollAnswers(p)
    PROVE  PageInv'
<1>1. PICK status :
        status = IF poll[p].of = None THEN poll[p].status ELSE jobs[poll[p].of].status
  OBVIOUS
<1>2. PICK of, new, total :
        of = poll[p].of /\ new = poll[p].new /\ total = poll[p].total
  OBVIOUS
<1>3. of \in Starts \cup {Recovered, None} /\ new \in Seq(Nat) /\ total \in Nat
  BY <1>2 DEF PageInv, PageTypes, PageState, PollState
<1>4. /\ status \in JobStatus
      /\ status = "generating" => of \in Starts
  BY <1>1, <1>2, <1>3 DEF JobInv, JobTypes, Job, JobStatus, PageInv, PageTypes, PollState
<1>5. PICK old \in Seq(Nat) : old = page.shown
  BY DEF PageInv, PageTypes, PageState, PollState
<1>6. PICK shown \in Seq(Nat) : shown = old \o new
  <2>1. old \o new \in Seq(Nat)
    BY <1>3
  <2>. QED
    BY <2>1
<1>7. /\ poll[p].pc = "answer" /\ poll' = [poll EXCEPT ![p] = NoPoll]
      /\ page' = [page EXCEPT !.status = status, !.shown = shown, !.known = total]
      /\ UNCHANGED <<jobs, live, thread>>
  BY <1>1, <1>2, <1>5, <1>6 DEF PollAnswers, Apply, Elsewhere
<1>8. /\ page' \in PageState /\ page'.status = status /\ page'.shown = shown
      /\ page'.known = total /\ page'.posting = page.posting
  BY <1>3, <1>4, <1>7 DEF PageInv, PageTypes, PageState
<1>9. /\ poll' \in [Polls -> PollState] /\ poll'[p].pc = "idle"
  BY <1>7, NoPollIs DEF PageInv, PageTypes, PollState
<1>10. PageTypes'
  BY <1>8, <1>9 DEF PageTypes, PageState, PollState
<1>11. ASSUME NEW q \in Polls, Polls = {q}, OnlyPage'
       PROVE  FollowsInv' /\ AnswerInv(q)'
  <2>1. OnlyPage /\ q = p
    BY <1>7, <1>11 DEF OnlyPage
  <2>2. FollowsInv /\ AnswerInv(p)
    BY <1>11, <2>1 DEF PageInv
  <2>3. /\ Polling /\ \A i \in 1 .. Len(new) : new[i] = page.known + i
        /\ of \in Starts => /\ total = page.known + Len(new)
                            /\ total <= Len(jobs[live].lines)
    BY <1>2, <1>7, <2>2 DEF AnswerInv
  <2>4. Len(old) = page.known /\ page.posting = None
    BY <1>5, <2>2, <2>3 DEF FollowsInv
  <2>5. \A i \in 1 .. Len(old) : old[i] = i
    BY <1>5, <2>2 DEF FollowsInv
  <2>6. Len(shown) = Len(old) + Len(new) /\ Len(old) \in Nat /\ Len(new) \in Nat
    BY <1>3, <1>6
  <2>7. \A i \in 1 .. Len(shown) : shown[i] = i
    <3>1. ASSUME NEW i \in 1 .. Len(shown)
          PROVE  shown[i] = i
      <4>1. CASE i <= Len(old)
        BY <1>3, <1>6, <2>5, <2>6, <4>1
      <4>2. CASE i > Len(old)
        <5>1. i - Len(old) \in 1 .. Len(new) /\ shown[i] = new[i - Len(old)]
          BY <1>3, <1>6, <2>6, <4>2
        <5>2. new[i - Len(old)] = Len(old) + (i - Len(old))
          BY <2>3, <2>4, <5>1
        <5>. QED
          BY <2>6, <5>1, <5>2
      <4>. QED
        BY <2>6, <4>1, <4>2
    <3>. QED
      BY <3>1
  <2>8. Polling' => /\ Len(shown) = total
                    /\ total <= Len(jobs[live].lines)
    <3>1. Polling' => status = "generating"
      BY <1>4, <1>8 DEF Polling, JobStatus
    <3>. QED
      BY <1>4, <2>3, <2>4, <2>6, <3>1
  <2>9. FollowsInv'
    BY <1>7, <1>8, <2>2, <2>4, <2>7, <2>8, NarrationConstantsOK DEF FollowsInv
  <2>. QED
    BY <1>9, <2>1, <2>9 DEF AnswerInv
<1>. QED
  BY <1>10, <1>11 DEF PageInv

LEMMA PageStepKeeps ==
    ASSUME VoiceInv, JobInv, JobInv', PageInv, [Next]_vars
    PROVE  PageInv'
<1>1. OnlyPage' => OnlyPage
  BY ThreadMoves DEF OnlyPage
<1>2. FoundInv /\ FoundInv'
  BY FoundStep DEF PageInv
<1>3. ASSUME Aside
      PROVE  PageInv'
  BY <1>1, <1>2, <1>3, AsideKeepsPage
<1>4. ASSUME UNCHANGED <<page, poll, jobs, live, thread>>
      PROVE  Aside
  <2>1. \A j \in Starts : Len(jobs[j].lines) \in Nat
    BY DEF JobInv, JobTypes, Job
  <2>2. \A j \in Starts : Answered(j) => Answered(j)'
    BY <1>4, AnsweredStays
  <2>. QED
    BY <1>4, <2>1, <2>2 DEF Aside
<1>5. ASSUME NEW r \in VoiceCalls,
             \/ \E s \in Speakers, upload \in BOOLEAN : LoadMetadata(r, s, upload)
             \/ UnlinkClip(r) \/ SaveVoice(r)
      PROVE  PageInv'
  BY <1>3, <1>4, <1>5 DEF LoadMetadata, UnlinkClip, SaveVoice, jobVars, pageVars
<1>6. ASSUME UNCHANGED vars
      PROVE  PageInv'
  BY <1>3, <1>4, <1>6 DEF vars, jobVars, pageVars
<1>7. ASSUME NEW j \in Starts, ThreadStep(j) \/ PersistFails(j)
      PROVE  PageInv'
  BY <1>2, <1>3, <1>7, ThreadAside
<1>8. ASSUME NEW j \in Starts, StartChecks(j)
      PROVE  PageInv'
  BY <1>1, <1>2, <1>8, StartChecksPage
<1>9. ASSUME Restart
      PROVE  PageInv'
  BY <1>1, <1>2, <1>9, RestartPage
<1>10. ASSUME NEW p \in Polls,
             PollReads(p) \/ PollReadsFile(p) \/ PollAnswers(p) \/ PollFails(p)
       PROVE  PageInv'
  BY <1>2, <1>10, PollReadsPage, PollReadsFilePage, PollAnswersPage, PollFailsPage
<1>11. ASSUME StartAnswers
       PROVE  PageInv'
  BY <1>2, <1>11, StartAnswersPage
<1>. QED
  BY <1>5, <1>6, <1>7, <1>8, <1>9, <1>10, <1>11 DEF Next

\* While its polls do not overlap and nobody else starts a narration, the page
\* shows the lines in order, each once.
THEOREM LinesShownInOrder == Spec => []ShownInOrder
<1>1. Init => PageInv
  BY InitPageInv
<1>2. ASSUME VoiceInv, JobInv, PageInv, [Next]_vars
      PROVE  PageInv'
  <2>1. JobInv'
    BY <1>2, JobStep
  <2>. QED
    BY <1>2, <2>1, PageStepKeeps
<1>3. ASSUME PageInv, Cardinality(Polls) = 1, OnlyPage
      PROVE  page.shown = [i \in 1 .. Len(page.shown) |-> i]
  <2>1. PICK p : Polls = {p}
    BY <1>3, FS_Singleton, NarrationConstantsOK
  <2>2. FollowsInv
    BY <1>3, <2>1 DEF PageInv
  <2>3. PICK shown \in Seq(Nat) : shown = page.shown
    BY <1>3 DEF PageInv, PageTypes, PageState, PollState
  <2>4. \A i \in 1 .. Len(shown) : shown[i] = i
    BY <2>2, <2>3 DEF FollowsInv
  <2>5. shown = [i \in 1 .. Len(shown) |-> shown[i]]
    OBVIOUS
  <2>. QED
    BY <2>3, <2>4, <2>5
<1>4. PageInv => ShownInOrder
  BY <1>3 DEF ShownInOrder, OnlyPage
<1>5. (VoiceInv /\ JobInv) /\ PageInv /\ [Next]_vars => PageInv'
  BY <1>2
<1>. QED
  BY <1>1, <1>4, <1>5, JobsAlways, PTL DEF Spec

=============================================================================
