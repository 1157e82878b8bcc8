------------------------------- MODULE VoiceInput -------------------------------
(***************************************************************************)
(* Dictating into a field of the page:                                     *)
(*                                                                         *)
(*   lib/voice-stream.ts, VoiceInputButton.tsx   the button and its hook   *)
(*   api/routes/voice.py                         the WebSocket handler     *)
(*   agents/voice_provider.py                    one chunk's transcription *)
(*                                                                         *)
(* Every recording has a recorder and a socket of its own, while the hook  *)
(* keeps one state and refers to the latest of them.  A socket stays open  *)
(* after its answer, until it fails or the page goes.  What is displayed   *)
(* only, partial texts and error messages, is left out.  React renders,    *)
(* and runs its effects, before the next event.                            *)
(***************************************************************************)
EXTENDS Naturals, Sequences, FiniteSets

CONSTANTS
    MaxRecordings, \* bound: times the user starts to dictate
    Words,         \* what may be said
    Refused,       \* words that the content policy does not allow
    Beginning,     \* of each, its first _MAX_UTTERANCE_CHARS characters
    Silence,       \* a recording without words
    TooLong,       \* one of more than _MAX_CHUNK_BYTES
    Empty,         \* one without data
    MaxFaults      \* bound: connections lost and transcriptions that fail

ASSUME VoiceConstantsOK ==
    /\ MaxRecordings \in Nat /\ MaxFaults \in Nat
    /\ Refused \subseteq Words
    /\ Beginning \in [Words -> Words]
    /\ \A word \in Words : Beginning[Beginning[word]] = Beginning[word]
    /\ Words \cap {Silence, TooLong, Empty} = {}

Recordings == 1 .. MaxRecordings

VARIABLES
    state,     \* the hook's state
    mounted,   \* the button is on the page
    socketRef, recorderRef,   \* the recording they belong to, or 0
    socket,    \* of each recording: "asking" is before it is made
    recorder,
    said,      \* what it holds, once its recorder has stopped
    up, down,  \* messages on their way to the server and to the page
    heard,     \* chunk_transcripts
    lastFinal, \* lastFinalRef
    typed,     \* the calls of onTranscript
    answer,    \* what the page made of its answer (history)
    failed,    \* its transcription has failed (history)
    crossed,   \* an earlier one's connection ended during a recording (history)
    faults

refs   == <<socketRef, recorderRef>>
client == <<state, mounted, refs, recorder, said, lastFinal, typed, answer>>
wires  == <<socket, up, down>>
server == <<heard, failed>>
history == <<crossed, faults>>
vars   == <<client, wires, server, history>>

Showing == {"connecting", "recording", "stopping"}

Init ==
    /\ state = "idle" /\ mounted = TRUE
    /\ socketRef = 0 /\ recorderRef = 0
    /\ socket = [k \in Recordings |-> "none"]
    /\ recorder = [k \in Recordings |-> "none"]
    /\ said = [k \in Recordings |-> Empty]
    /\ up = [k \in Recordings |-> <<>>] /\ down = [k \in Recordings |-> <<>>]
    /\ heard = [k \in Recordings |-> <<>>]
    /\ lastFinal = Silence /\ typed = <<>>
    /\ answer = [k \in Recordings |-> "none"]
    /\ failed = [k \in Recordings |-> FALSE]
    /\ crossed = FALSE /\ faults = 0

-----------------------------------------------------------------------------
(* The button.                                                             *)

\* The recording that the button is about.
Latest == Cardinality({k \in Recordings : socket[k] # "none"})

SetState(to) == state' = IF mounted THEN to ELSE state

\* Stopping the tracks of the latest recorder's stream ends a recording, as
\* recorder.stop() does; one that is over is left alone.
RecorderStops ==
    recorder' = IF recorderRef # 0 /\ recorder[recorderRef] = "recording"
                THEN [recorder EXCEPT ![recorderRef] = "stopped"] ELSE recorder

Start(k) ==
    /\ mounted /\ state \notin Showing
    /\ socket[k] = "none" /\ \A i \in Recordings : i < k => socket[i] # "none"
    /\ state' = "connecting"
    /\ socket' = [socket EXCEPT ![k] = "asking"]
    /\ UNCHANGED <<mounted, refs, recorder, said, lastFinal, typed, answer,
                   up, down, server, history>>

\* Mutant: the button is free again at once.
StopAtOnce == "idle"

AfterStop == "stopping"

\* The recorder may not be there yet, or be the one of an earlier recording.
Stop ==
    /\ mounted /\ state \in Showing
    /\ state' = AfterStop
    /\ RecorderStops
    /\ UNCHANGED <<mounted, refs, said, lastFinal, typed, answer, wires, server, history>>

MicDenied(k) ==
    /\ socket[k] = "asking"
    /\ socket' = [socket EXCEPT ![k] = "closed"]
    /\ SetState("error")
    /\ UNCHANGED <<mounted, refs, recorder, said, lastFinal, typed, answer,
                   up, down, server, history>>

\* The stream is there; nobody looks whether the page still is.
MicGranted(k) ==
    /\ socket[k] = "asking"
    /\ socket' = [socket EXCEPT ![k] = "connecting"]
    /\ socketRef' = k
    /\ UNCHANGED <<state, mounted, recorderRef, recorder, said, lastFinal, typed, answer,
                   up, down, server, history>>

\* onopen: the server has accepted.
Opens(k) ==
    /\ socket[k] = "connecting"
    /\ socket' = [socket EXCEPT ![k] = "open"]
    /\ recorder' = [recorder EXCEPT ![k] = "recording"]
    /\ recorderRef' = k
    /\ SetState("recording")
    /\ UNCHANGED <<mounted, socketRef, said, lastFinal, typed, answer, up, down,
                   server, history>>

\* onopen raises: the browser does not make a MediaRecorder of the one type
\* asked for, or does not start it.  Nothing catches this, so the socket is
\* open and the state stays as it is.
CannotRecord(k) ==
    /\ socket[k] = "connecting"
    /\ socket' = [socket EXCEPT ![k] = "open"]
    /\ recorderRef' \in {recorderRef, k}
    /\ UNCHANGED <<state, mounted, socketRef, recorder, said, lastFinal, typed, answer,
                   up, down, server, history>>

-----------------------------------------------------------------------------
(* A recording goes to the server, and its text comes back.                *)

Chunk(recording) == [kind |-> "bytes", of |-> recording]
StopMessage      == [kind |-> "stop"]

\* Mutant: the control message overtakes the audio.
MessagesStopFirst(recording) == <<StopMessage, Chunk(recording)>>

Messages(recording) == <<Chunk(recording), StopMessage>>

\* ondataavailable: no data, or no connection, and nothing is sent.
DataAvailable(k) ==
    /\ recorder[k] = "stopped"
    /\ \E recording \in Words \cup {Silence, TooLong, Empty} :
         /\ said' = [said EXCEPT ![k] = recording]
         /\ up' = IF recording = Empty \/ socket[k] # "open" THEN up
                  ELSE [up EXCEPT ![k] = @ \o Messages(recording)]
    /\ recorder' = [recorder EXCEPT ![k] = "inactive"]
    /\ UNCHANGED <<state, mounted, refs, lastFinal, typed, answer, socket, down,
                   server, history>>

Sends(k, message) == down' = [down EXCEPT ![k] = Append(@, message)]

\* Whisper's text for the chunk, when it answers.
Transcribed(recording) == IF recording = Silence THEN <<>> ELSE <<recording>>

Receives(k, kind) ==
    /\ up[k] # <<>> /\ Head(up[k]).kind = kind
    /\ up' = [up EXCEPT ![k] = Tail(@)]

\* One message at a time; a chunk that is too large is answered and dropped.
HandleChunk(k) ==
    LET recording == Head(up[k]).of
    IN  /\ Receives(k, "bytes")
        /\ \/ /\ recording = TooLong
              /\ Sends(k, [type |-> "error"])
              /\ UNCHANGED heard
           \/ /\ recording # TooLong
              /\ heard' = [heard EXCEPT ![k] = @ \o Transcribed(recording)]
              /\ UNCHANGED down
        /\ UNCHANGED <<client, socket, failed, history>>

\* The transcription raised.
ChunkFails(k) ==
    /\ faults < MaxFaults /\ faults' = faults + 1
    /\ Receives(k, "bytes") /\ Head(up[k]).of # TooLong
    /\ Sends(k, [type |-> "error"])
    /\ failed' = [failed EXCEPT ![k] = TRUE]
    /\ UNCHANGED <<client, socket, heard, crossed>>

\* RuleBasedContentPolicy.assess: one pattern found is enough.
Allowed(words) == \A i \in DOMAIN words : words[i] \notin Refused

\* Mutant: there is nothing to say about a recording without words.
FinalMessagesOfWords(words) ==
    IF words = <<>> THEN <<>> ELSE <<[type |-> "final", text |-> words]>>

\* A socket carries one chunk.  What goes beyond the limit is dropped before
\* the policy reads the text, and nobody is told.
FullText(words) == [i \in DOMAIN words |-> Beginning[words[i]]]

FinalAnswer(words) ==
    IF Allowed(FullText(words)) THEN [type |-> "final", text |-> FullText(words)]
    ELSE [type |-> "rejected"]

FinalMessages(words) == <<FinalAnswer(words)>>

\* _emit_final, and a fresh list for the next utterance.
EmitFinal(k) ==
    /\ Receives(k, "stop")
    /\ down' = [down EXCEPT ![k] = @ \o FinalMessages(heard[k])]
    /\ heard' = [heard EXCEPT ![k] = <<>>]
    /\ UNCHANGED <<client, socket, failed, history>>

-----------------------------------------------------------------------------
(* onmessage, and the effect of VoiceInputButton.                          *)

\* A text is handed over unless it is blank or the one handed over last.
TakeFinal(k, text) ==
    IF text = <<>> THEN
        /\ answer' = [answer EXCEPT ![k] = "blank"]
        /\ lastFinal' = Silence
        /\ UNCHANGED typed
    ELSE IF Head(text) = lastFinal THEN
        /\ answer' = [answer EXCEPT ![k] = "same"]
        /\ UNCHANGED <<lastFinal, typed>>
    ELSE
        /\ answer' = [answer EXCEPT ![k] = "typed"]
        /\ lastFinal' = Head(text)
        /\ typed' = Append(typed, [by |-> k, text |-> text])

\* Whichever socket it comes from, the hook's one state is set.
Receive(k) ==
    /\ down[k] # <<>> /\ mounted
    /\ down' = [down EXCEPT ![k] = Tail(@)]
    /\ LET message == Head(down[k])
       IN  \/ /\ message.type = "error"
              /\ UNCHANGED <<state, lastFinal, typed, answer>>
           \/ /\ message.type = "rejected"
              /\ state' = "idle"
              /\ answer' = [answer EXCEPT ![k] = "rejected"]
              /\ UNCHANGED <<lastFinal, typed>>
           \/ /\ message.type = "final"
              /\ state' = "idle"
              /\ TakeFinal(k, message.text)
    /\ UNCHANGED <<mounted, refs, recorder, said, socket, up, server, history>>

-----------------------------------------------------------------------------
(* Connections end.                                                        *)

Closed(k) ==
    /\ socket' = [socket EXCEPT ![k] = "closed"]
    /\ up' = [up EXCEPT ![k] = <<>>] /\ down' = [down EXCEPT ![k] = <<>>]

\* The handshake is refused: no identity, no model, or no user row.
Refuses(k) ==
    /\ socket[k] = "connecting"
    /\ SetState("error")
    /\ Closed(k) /\ RecorderStops
    /\ UNCHANGED <<mounted, refs, said, lastFinal, typed, answer, server, history>>

\* onclose, after onerror unless the server closed it properly.  The tracks
\* that are stopped are the latest recorder's.
ConnectionEnds(k) ==
    /\ faults < MaxFaults /\ faults' = faults + 1
    /\ socket[k] = "open"
    /\ SetState("error") \/ UNCHANGED state
    /\ Closed(k) /\ RecorderStops
    /\ crossed' = (crossed \/ (k # Latest /\ state \in Showing))
    /\ UNCHANGED <<mounted, refs, said, lastFinal, typed, answer, server>>

\* cleanup: the latest recorder's tracks and the latest socket.
Leave ==
    /\ mounted /\ mounted' = FALSE
    /\ RecorderStops
    /\ IF socketRef = 0 THEN UNCHANGED wires ELSE Closed(socketRef)
    /\ socketRef' = 0 /\ recorderRef' = 0
    /\ UNCHANGED <<state, said, lastFinal, typed, answer, server, history>>

-----------------------------------------------------------------------------

Browser(k) ==
    \/ Opens(k) \/ CannotRecord(k) \/ Refuses(k)
    \/ DataAvailable(k) \/ Receive(k)
Server(k)  == HandleChunk(k) \/ EmitFinal(k)

Next ==
    \/ Stop \/ Leave
    \/ \E k \in Recordings :
         \/ Start(k) \/ MicDenied(k) \/ MicGranted(k)
         \/ Browser(k) \/ Server(k)
         \/ ChunkFails(k) \/ ConnectionEnds(k)

Spec == Init /\ [][Next]_vars

\* The user may leave the microphone's prompt open and need never click.
FairSpec == Spec /\ \A k \in Recordings : WF_vars(Browser(k)) /\ WF_vars(Server(k))

-----------------------------------------------------------------------------

\* The field gets what was said: the text of a recording is handed over at most
\* once, as far as _MAX_UTTERANCE_CHARS, and what is handed over is allowed by the
\* policy; a recording whose answer was taken and whose text was not handed over
\* held no words, was too long, began with what is refused, could not be
\* transcribed, or repeats the text handed over last.
TypedIsSaid ==
    /\ \A i \in DOMAIN typed :
         /\ said[typed[i].by] \in Words
         /\ typed[i].text = <<Beginning[said[typed[i].by]]>>
         /\ Beginning[said[typed[i].by]] \notin Refused
         /\ \A j \in DOMAIN typed : typed[i].by = typed[j].by => i = j
    /\ \A k \in Recordings :
         /\ answer[k] = "blank" => said[k] \in {Silence, TooLong} \/ failed[k]
         /\ answer[k] = "rejected" =>
              said[k] \in Words /\ Beginning[said[k]] \in Refused
         /\ answer[k] = "same" => typed # <<>>

\* While the button is on the page, a recorder runs only while the button says
\* so, and only the one that Stop stops, unless the connection of an earlier
\* recording, which stays open, has ended meanwhile.
RecordingIsShown ==
    mounted /\ ~crossed =>
        \A k \in Recordings : recorder[k] = "recording" =>
            state \in Showing /\ k = recorderRef

\* "stopping" ends, unless the recording was empty, its connection ended, its
\* recorder never started although the socket opened, or the browser still asks
\* for the microphone: then a click only says Stop.
StoppingEnds ==
    state = "stopping" ~>
        \/ state # "stopping" \/ ~mounted \/ crossed
        \/ socket[Latest] \in {"asking", "closed"}
        \/ socket[Latest] = "open" /\ recorder[Latest] = "none"
        \/ recorder[Latest] = "inactive" /\ said[Latest] = Empty
=============================================================================
