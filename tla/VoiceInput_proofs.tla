---------------------------- MODULE VoiceInput_proofs ----------------------------
(***************************************************************************)
(* Proofs of VoiceInput's safety properties, for any number of recordings, *)
(* words and faults.  TextInv follows one recording's text from the        *)
(* recorder to the field and back; ButtonInv says which recording the      *)
(* button's one state speaks of.                                           *)
(***************************************************************************)
EXTENDS VoiceInput, FiniteSetTheorems, SequenceTheorems, TLAPS

ErrorMessage == [type |-> "error"]

Types ==
    /\ socket \in [Recordings -> {"none", "asking", "connecting", "open", "closed"}]
    /\ recorder \in [Recordings -> {"none", "recording", "stopped", "inactive"}]
    /\ said \in [Recordings -> Words \cup {Silence, TooLong, Empty}]
    /\ up = [k \in Recordings |-> up[k]] /\ down = [k \in Recordings |-> down[k]]
    /\ heard = [k \in Recordings |-> heard[k]] /\ answer = [k \in Recordings |-> answer[k]]
    /\ failed \in [Recordings -> BOOLEAN]
    /\ typed \in Seq([by : Recordings, text : {<<w>> : w \in Words}])
    /\ lastFinal \in Words \cup {Silence}
    /\ socketRef \in Recordings \cup {0} /\ recorderRef \in Recordings \cup {0}
    /\ \A k \in Recordings : recorder[k] # "none" => socket[k] \in {"open", "closed"}
    /\ socketRef # 0 => socket[socketRef] # "none"

-----------------------------------------------------------------------------
(* What a recording's text may be, and where it is.                        *)

\* The words that the server has for a recording: those it holds, or none for
\* one that was dropped or could not be transcribed.
Faithful(k, words) ==
    \/ said[k] \in Words \cup {Silence} /\ words = Transcribed(said[k])
    \/ words = <<>> /\ (said[k] = TooLong \/ failed[k])

Unanswered(k) == answer[k] = "none" /\ \A i \in DOMAIN typed : typed[i].by # k

NotSent(k) == up[k] = <<>> /\ heard[k] = <<>> /\ down[k] = <<>> /\ Unanswered(k)

Sent(k) ==
    /\ said[k] # Empty /\ up[k] = <<Chunk(said[k]), StopMessage>>
    /\ heard[k] = <<>> /\ down[k] = <<>> /\ Unanswered(k)

Handled(k) ==
    /\ up[k] = <<StopMessage>> /\ Faithful(k, heard[k])
    /\ down[k] \in {<<>>, <<ErrorMessage>>} /\ Unanswered(k)

Answered(k) ==
    /\ up[k] = <<>>
    /\ \E words : /\ Faithful(k, words)
                  /\ down[k] \in {<<FinalAnswer(words)>>, <<ErrorMessage, FinalAnswer(words)>>}
    /\ Unanswered(k)

Over(k) == up[k] = <<>> /\ down[k] = <<>>

TextInv ==
    /\ \A k \in Recordings :
         \/ NotSent(k)
         \/ recorder[k] = "inactive" /\ (Sent(k) \/ Handled(k) \/ Answered(k) \/ Over(k))
    /\ \A k \in Recordings : answer[k] # "none" => recorder[k] = "inactive"
    /\ \A i \in DOMAIN typed : recorder[typed[i].by] = "inactive"
    /\ lastFinal = Silence \/ typed # <<>>
    /\ TypedIsSaid

LEMMA TypedRows ==
    ASSUME Types, NEW i \in DOMAIN typed
    PROVE  typed[i] \in [by : Recordings, text : {<<w>> : w \in Words}]
<1>1. typed \in Seq([by : Recordings, text : {<<w>> : w \in Words}])
      BY DEF Types
<1> QED BY <1>1, LenProperties, ElementOfSeq

\* The steps of the button and of connections: texts stay, or are lost with
\* their connection.
LEMMA TextStays ==
    ASSUME TextInv, Types, UNCHANGED <<said, lastFinal, typed, answer, server>>,
           \A k \in Recordings : recorder[k] = "inactive" => recorder'[k] = "inactive",
           \A k \in Recordings : \/ up'[k] = up[k] /\ down'[k] = down[k]
                                 \/ up'[k] = <<>> /\ down'[k] = <<>>
    PROVE  TextInv'
<1>1. ASSUME NEW k \in Recordings
      PROVE  \/ NotSent(k)'
             \/ recorder'[k] = "inactive" /\ (Sent(k)' \/ Handled(k)' \/ Answered(k)' \/ Over(k)')
  <2>1. CASE up'[k] = up[k] /\ down'[k] = down[k]
    <3>1. Unanswered(k)' = Unanswered(k) /\ \A words : Faithful(k, words)' = Faithful(k, words)
          BY DEF Unanswered, Faithful, Transcribed, server
    <3>2. recorder[k] = "inactive" => recorder'[k] = "inactive"
          OBVIOUS
    <3>3. NotSent(k) => NotSent(k)'
          BY <2>1, <3>1 DEF NotSent, server
    <3>4. Sent(k) => Sent(k)'
          BY <2>1, <3>1 DEF Sent, Chunk, StopMessage, server
    <3>5. Handled(k) => Handled(k)'
          BY <2>1, <3>1 DEF Handled, StopMessage, ErrorMessage, server
    <3>6. Answered(k) => Answered(k)'
          BY <2>1, <3>1 DEF Answered, FinalAnswer, Allowed, FullText, ErrorMessage
    <3>7. Over(k) => Over(k)'
          BY <2>1 DEF Over
    <3> QED BY <3>2, <3>3, <3>4, <3>5, <3>6, <3>7 DEF TextInv
  <2>2. CASE up'[k] = <<>> /\ down'[k] = <<>>
        BY <2>2 DEF TextInv, NotSent, Over, Unanswered, Sent, Handled, Answered, server
  <2> QED BY <2>1, <2>2
<1>2. TypedIsSaid'
      BY DEF TextInv, TypedIsSaid, server
<1>3. /\ \A k \in Recordings : answer'[k] # "none" => recorder'[k] = "inactive"
      /\ \A i \in DOMAIN typed' : recorder'[typed'[i].by] = "inactive"
      /\ lastFinal' = Silence \/ typed' # <<>>
  <2>1. \A i \in DOMAIN typed : typed[i].by \in Recordings
        BY TypedRows
  <2> QED BY <2>1 DEF TextInv
<1> QED BY <1>1, <1>2, <1>3 DEF TextInv

-----------------------------------------------------------------------------
(* The steps that carry a text.                                            *)

\* What the server makes of a recording is one of two messages.
LEMMA Answers ==
    ASSUME NEW words
    PROVE  /\ FinalAnswer(words).type \in {"final", "rejected"}
           /\ FinalAnswer(words).type = "final" =>
                FinalAnswer(words).text = FullText(words) /\ Allowed(FullText(words))
           /\ FinalAnswer(words).type = "rejected" => ~Allowed(FullText(words))
BY DEF FinalAnswer

\* A step of one recording's text leaves the others where they were.
Alone(k) ==
    \A o \in Recordings \ {k} :
        /\ up'[o] = up[o] /\ down'[o] = down[o] /\ heard'[o] = heard[o]
        /\ said'[o] = said[o] /\ recorder'[o] = recorder[o]
        /\ answer'[o] = answer[o] /\ failed'[o] = failed[o]
        /\ Unanswered(o) => Unanswered(o)'

PhaseOf(k) ==
    \/ NotSent(k)
    \/ recorder[k] = "inactive" /\ (Sent(k) \/ Handled(k) \/ Answered(k) \/ Over(k))

LEMMA OthersStay ==
    ASSUME TextInv, NEW k \in Recordings, Alone(k), NEW o \in Recordings \ {k}
    PROVE  PhaseOf(o)'
<1>1. /\ Unanswered(o) => Unanswered(o)'
      /\ \A words : Faithful(o, words)' = Faithful(o, words)
      BY DEF Alone, Faithful, Transcribed
<1>2. NotSent(o) => NotSent(o)'
      BY <1>1 DEF NotSent, Alone
<1>3. Sent(o) => Sent(o)'
      BY <1>1 DEF Sent, Alone, Chunk, StopMessage
<1>4. Handled(o) => Handled(o)'
      BY <1>1 DEF Handled, Alone, StopMessage, ErrorMessage
<1>5. Answered(o) => Answered(o)'
      BY <1>1 DEF Answered, Alone, FinalAnswer, Allowed, FullText, ErrorMessage
<1>6. Over(o) => Over(o)'
      BY DEF Over, Alone
<1>7. recorder'[o] = recorder[o]
      BY DEF Alone
<1> QED BY <1>2, <1>3, <1>4, <1>5, <1>6, <1>7 DEF PhaseOf, TextInv

LEMMA DataAvailableKeeps ==
    ASSUME TextInv, Types, NEW k \in Recordings, DataAvailable(k)
    PROVE  TextInv'
<1>1. PICK recording \in Words \cup {Silence, TooLong, Empty} :
          /\ said' = [said EXCEPT ![k] = recording]
          /\ up' = IF recording = Empty \/ socket[k] # "open" THEN up
                   ELSE [up EXCEPT ![k] = @ \o Messages(recording)]
      BY DEF DataAvailable
<1>2. /\ recorder[k] = "stopped" /\ recorder' = [recorder EXCEPT ![k] = "inactive"]
      /\ UNCHANGED <<lastFinal, typed, answer, down, heard, failed>>
      BY DEF DataAvailable, server
<1>3. NotSent(k)
      BY <1>2 DEF TextInv
<1>4. said'[k] = recording /\ recorder'[k] = "inactive" /\ Unanswered(k)'
      BY <1>1, <1>2, <1>3 DEF Types, NotSent, Unanswered
<1>5. Alone(k)
      BY <1>1, <1>2 DEF Alone, Types, Unanswered
<1>6. PhaseOf(k)'
  <2>1. CASE recording = Empty \/ socket[k] # "open"
        BY <2>1, <1>1, <1>2, <1>3, <1>4 DEF PhaseOf, NotSent
  <2>2. CASE recording # Empty /\ socket[k] = "open"
    <3>1. up'[k] = Messages(recording)
          BY <2>2, <1>1, <1>3 DEF Types, NotSent, Messages
    <3> QED BY <2>2, <3>1, <1>2, <1>3, <1>4 DEF PhaseOf, Sent, NotSent, Messages, Chunk, StopMessage
  <2> QED BY <2>1, <2>2
<1>7. \A o \in Recordings : PhaseOf(o)'
      BY <1>5, <1>6, OthersStay
<1>8. \A i \in DOMAIN typed : typed[i].by \in Recordings \ {k}
      BY <1>3, TypedRows DEF NotSent, Unanswered
<1>9. \A o \in Recordings : recorder[o] = "inactive" => recorder'[o] = "inactive"
      BY <1>2 DEF Types
<1>10. TypedIsSaid'
  <2>1. \A i \in DOMAIN typed : said'[typed[i].by] = said[typed[i].by]
        BY <1>1, <1>8 DEF Types
  <2>2. \A o \in Recordings : answer[o] # "none" => said'[o] = said[o]
        BY <1>1, <1>3 DEF Types, NotSent, Unanswered
  <2> QED BY <1>2, <2>1, <2>2 DEF TextInv, TypedIsSaid
<1> QED BY <1>2, <1>7, <1>8, <1>9, <1>10 DEF TextInv, PhaseOf

LEMMA HandleChunkKeeps ==
    ASSUME TextInv, Types, NEW k \in Recordings, HandleChunk(k) \/ ChunkFails(k)
    PROVE  TextInv'
<1>1. /\ up[k] # <<>> /\ Head(up[k]).kind = "bytes" /\ up' = [up EXCEPT ![k] = Tail(@)]
      /\ UNCHANGED <<said, recorder, lastFinal, typed, answer>>
      /\ \/ /\ Head(up[k]).of = TooLong /\ down' = [down EXCEPT ![k] = Append(@, ErrorMessage)]
            /\ UNCHANGED <<heard, failed>>
         \/ /\ Head(up[k]).of # TooLong /\ UNCHANGED <<down, failed>>
            /\ heard' = [heard EXCEPT ![k] = @ \o Transcribed(Head(up[k]).of)]
         \/ /\ down' = [down EXCEPT ![k] = Append(@, ErrorMessage)] /\ UNCHANGED heard
            /\ failed' = [failed EXCEPT ![k] = TRUE]
      BY DEF HandleChunk, ChunkFails, Receives, Sends, ErrorMessage, client
<1>2. Sent(k) /\ recorder[k] = "inactive"
  <2>1. up[k] # <<StopMessage>>
        BY <1>1 DEF StopMessage
  <2> QED BY <1>1, <2>1 DEF TextInv, NotSent, Handled, Answered, Over
<1>3. /\ Head(up[k]).of = said[k] /\ up'[k] = <<StopMessage>>
      /\ Unanswered(k)' /\ said'[k] = said[k] /\ recorder'[k] = "inactive"
  <2>1. up'[k] = Tail(up[k])
        BY <1>1 DEF Types
  <2>2. up[k] = <<Chunk(said[k]), StopMessage>>
        BY <1>2 DEF Sent
  <2>3. up'[k] = <<StopMessage>> /\ Head(up[k]) = Chunk(said[k])
        BY <2>1, <2>2
  <2> QED BY <1>1, <1>2, <2>3 DEF Sent, Unanswered, Chunk
<1>4. Handled(k)'
  <2>1. CASE said[k] = TooLong /\ UNCHANGED heard /\ down' = [down EXCEPT ![k] = Append(@, ErrorMessage)]
    <3>1. down'[k] = <<ErrorMessage>> /\ heard'[k] = <<>>
          BY <2>1, <1>2 DEF Sent, Types
    <3> QED BY <2>1, <3>1, <1>3 DEF Handled, Faithful, StopMessage, ErrorMessage
  <2>2. CASE /\ said[k] # TooLong /\ UNCHANGED down
             /\ heard' = [heard EXCEPT ![k] = @ \o Transcribed(said[k])]
    <3>1. down'[k] = <<>> /\ heard'[k] = Transcribed(said[k])
          BY <2>2, <1>2 DEF Sent, Types, Transcribed
    <3>2. said[k] \in Words \cup {Silence}
          BY <2>2, <1>2 DEF Sent, Types
    <3> QED BY <3>1, <3>2, <1>3 DEF Handled, Faithful, StopMessage, Transcribed
  <2>3. CASE /\ down' = [down EXCEPT ![k] = Append(@, ErrorMessage)] /\ UNCHANGED heard
             /\ failed' = [failed EXCEPT ![k] = TRUE]
    <3>1. down'[k] = <<ErrorMessage>> /\ heard'[k] = <<>> /\ failed'[k]
          BY <2>3, <1>2 DEF Sent, Types
    <3> QED BY <3>1, <1>3 DEF Handled, Faithful, StopMessage, ErrorMessage
  <2> QED BY <1>1, <1>3, <2>1, <2>2, <2>3
<1>5. Alone(k)
      BY <1>1 DEF Alone, Types, Unanswered
<1>6. \A o \in Recordings : PhaseOf(o)'
      BY <1>3, <1>4, <1>5, OthersStay DEF PhaseOf
<1>7. \A o \in Recordings : failed[o] => failed'[o]
      BY <1>1 DEF Types
<1>8. TypedIsSaid'
      BY <1>1, <1>7 DEF TextInv, TypedIsSaid
<1> QED BY <1>1, <1>6, <1>8 DEF TextInv, PhaseOf

LEMMA PairOfTwo ==
    ASSUME NEW a, NEW b
    PROVE  <<a>> \o <<b>> = <<a, b>>
<1>1. <<a>> \in Seq({a, b}) /\ <<b>> \in Seq({a, b}) /\ <<a, b>> \in Seq({a, b})
      OBVIOUS
<1>2. <<a>> \o <<b>> \in Seq({a, b}) /\ Len(<<a>> \o <<b>>) = 2
      BY <1>1, ConcatProperties
<1>3. (<<a>> \o <<b>>)[1] = a /\ (<<a>> \o <<b>>)[2] = b
      BY <1>1, ConcatProperties
<1>4. \A i \in 1 .. 2 : (<<a>> \o <<b>>)[i] = <<a, b>>[i]
      BY <1>3
<1> QED BY <1>1, <1>2, <1>4, SeqEqual

LEMMA EmitFinalKeeps ==
    ASSUME TextInv, Types, NEW k \in Recordings, EmitFinal(k)
    PROVE  TextInv'
<1>1. /\ up[k] # <<>> /\ Head(up[k]).kind = "stop" /\ up' = [up EXCEPT ![k] = Tail(@)]
      /\ UNCHANGED <<said, recorder, lastFinal, typed, answer, failed>>
      /\ down' = [down EXCEPT ![k] = @ \o <<FinalAnswer(heard[k])>>]
      /\ heard' = [heard EXCEPT ![k] = <<>>]
      BY DEF EmitFinal, Receives, FinalMessages, client
<1>2. Handled(k) /\ recorder[k] = "inactive"
  <2>1. ~Sent(k)
        BY <1>1 DEF Sent, Chunk
  <2> QED BY <1>1, <2>1 DEF TextInv, NotSent, Answered, Over
<1>3. up'[k] = <<>> /\ Unanswered(k)' /\ recorder'[k] = "inactive"
  <2>1. up'[k] = Tail(up[k])
        BY <1>1 DEF Types
  <2> QED BY <1>1, <1>2, <2>1 DEF Handled, Unanswered
<1>4. PICK words : words = heard[k]
      OBVIOUS
<1>5. Faithful(k, words)'
      BY <1>1, <1>2, <1>4 DEF Handled, Faithful, Transcribed
<1>6. down'[k] \in {<<FinalAnswer(words)>>, <<ErrorMessage, FinalAnswer(words)>>}
  <2>1. \A a, b : <<a>> \o <<b>> = <<a, b>>
        BY PairOfTwo
  <2>2. \A a : <<>> \o <<a>> = <<a>>
        OBVIOUS
  <2>3. down'[k] = down[k] \o <<FinalAnswer(words)>>
        BY <1>1, <1>4 DEF Types
  <2> HIDE DEF ErrorMessage
  <2> QED BY <1>2, <2>1, <2>2, <2>3 DEF Handled
<1>7. Answered(k)'
      BY <1>3, <1>5, <1>6 DEF Answered, FinalAnswer, Allowed, FullText, ErrorMessage
<1>8. Alone(k)
      BY <1>1 DEF Alone, Types, Unanswered
<1>9. \A o \in Recordings : PhaseOf(o)'
      BY <1>3, <1>7, <1>8, OthersStay DEF PhaseOf
<1>10. TypedIsSaid'
       BY <1>1 DEF TextInv, TypedIsSaid
<1> QED BY <1>1, <1>9, <1>10 DEF TextInv, PhaseOf

\* What a text that was accepted is, and one that was not.
LEMMA Judged ==
    ASSUME Types, NEW k \in Recordings, NEW words, Faithful(k, words)
    PROVE  /\ ~Allowed(FullText(words)) => said[k] \in Words /\ Beginning[said[k]] \in Refused
           /\ FullText(words) = <<>> => said[k] \in {Silence, TooLong} \/ failed[k]
           /\ Allowed(FullText(words)) /\ FullText(words) # <<>> =>
                /\ FullText(words) = <<Beginning[said[k]]>>
                /\ said[k] \in Words /\ Beginning[said[k]] \in Words \ Refused
<1>1. words = <<>> \/ (words = <<said[k]>> /\ said[k] \in Words)
      BY DEF Faithful, Transcribed
<1>2. words = <<>> => said[k] \in {Silence, TooLong} \/ failed[k]
      BY DEF Faithful, Transcribed
<1>3. FullText(<<>>) = <<>> /\ FullText(<<said[k]>>) = <<Beginning[said[k]]>>
      BY DEF FullText
<1>4. Allowed(<<>>)
      BY DEF Allowed
<1>5. Allowed(<<Beginning[said[k]]>>) <=> Beginning[said[k]] \notin Refused
      BY DEF Allowed
<1>6. said[k] \in Words => Beginning[said[k]] \in Words
      BY VoiceConstantsOK
<1> QED BY <1>1, <1>2, <1>3, <1>4, <1>5, <1>6

LEMMA ReceiveKeeps ==
    ASSUME TextInv, Types, NEW k \in Recordings, Receive(k)
    PROVE  /\ TextInv' /\ typed' \in Seq([by : Recordings, text : {<<w>> : w \in Words}])
           /\ lastFinal' \in Words \cup {Silence}
           /\ answer' = [o \in Recordings |-> answer'[o]]
           /\ Head(down[k]).type # "error" => Over(k)'
<1> DEFINE message == Head(down[k])
           cut     == Beginning[said[k]]
<1>1. /\ down[k] # <<>> /\ down' = [down EXCEPT ![k] = Tail(@)]
      /\ UNCHANGED <<recorder, said, up, heard, failed>>
      BY DEF Receive, server
<1>2. down'[k] = Tail(down[k])
      BY <1>1 DEF Types
<1>3. recorder[k] = "inactive" /\ Unanswered(k)
      BY <1>1 DEF TextInv, NotSent, Sent, Handled, Answered, Over
<1>4. \A o \in Recordings : recorder'[o] = recorder[o]
      BY <1>1
<1>5. CASE message.type = "error"
  <2>1. UNCHANGED <<lastFinal, typed, answer>>
        BY <1>5 DEF Receive
  <2>2. Handled(k)' \/ Answered(k)'
    <3>1. Unanswered(k)'
          BY <1>3, <2>1 DEF Unanswered
    <3>2. \A words : Faithful(k, words)' = Faithful(k, words)
          BY <1>1 DEF Faithful, Transcribed
    <3>3. CASE Handled(k)
      <4>1. down[k] = <<ErrorMessage>>
            BY <1>1, <3>3 DEF Handled
      <4>2. down'[k] = <<>>
        <5> HIDE DEF ErrorMessage
        <5> QED BY <1>2, <4>1
      <4> QED BY <1>1, <3>1, <3>2, <3>3, <4>2 DEF Handled, StopMessage
    <3>4. CASE Answered(k)
      <4>1. PICK words : /\ Faithful(k, words)
                         /\ down[k] \in {<<FinalAnswer(words)>>, <<ErrorMessage, FinalAnswer(words)>>}
            BY <3>4 DEF Answered
      <4>2. FinalAnswer(words).type # "error"
            BY Answers
      <4>3. down[k] = <<ErrorMessage, FinalAnswer(words)>>
            BY <1>5, <4>1, <4>2
      <4>4. down'[k] = <<FinalAnswer(words)>>
            BY <1>2, <4>3
      <4> QED BY <1>1, <3>1, <3>2, <3>4, <4>1, <4>4 DEF Answered, FinalAnswer, Allowed, FullText
    <3> QED BY <1>1, <3>3, <3>4 DEF TextInv, NotSent, Sent, Over
  <2>3. Alone(k)
        BY <1>1, <2>1 DEF Alone, Types, Unanswered
  <2>4. \A o \in Recordings : PhaseOf(o)'
        BY <1>3, <1>4, <2>2, <2>3, OthersStay DEF PhaseOf
  <2>5. TypedIsSaid'
        BY <1>1, <2>1 DEF TextInv, TypedIsSaid
  <2> QED BY <1>1, <1>5, <2>1, <2>4, <2>5 DEF TextInv, PhaseOf, Types
<1>6. CASE message.type # "error"
  <2>1. PICK words : Faithful(k, words) /\ down[k] = <<FinalAnswer(words)>>
    <3>1. ~Handled(k)
          BY <1>1, <1>6 DEF Handled, ErrorMessage
    <3>2. PICK words : /\ Faithful(k, words)
                       /\ down[k] \in {<<FinalAnswer(words)>>, <<ErrorMessage, FinalAnswer(words)>>}
          BY <1>1, <3>1 DEF TextInv, NotSent, Sent, Over, Answered
    <3>3. down[k] # <<ErrorMessage, FinalAnswer(words)>>
          BY <1>6 DEF ErrorMessage
    <3> QED BY <3>2, <3>3
  <2>2. message = FinalAnswer(words) /\ down'[k] = <<>>
        BY <1>2, <2>1
  <2>3. up[k] = <<>>
        BY <1>1, <1>6 DEF TextInv, NotSent, Sent, Handled, Answered, Over, ErrorMessage
  <2>4. Over(k)'
        BY <1>1, <2>2, <2>3 DEF Over
  <2>5. \/ /\ answer' = [answer EXCEPT ![k] = "rejected"]
           /\ said[k] \in Words /\ cut \in Refused
           /\ UNCHANGED <<lastFinal, typed>>
        \/ /\ answer' = [answer EXCEPT ![k] = "blank"] /\ lastFinal' = Silence /\ UNCHANGED typed
           /\ said[k] \in {Silence, TooLong} \/ failed[k]
        \/ /\ answer' = [answer EXCEPT ![k] = "same"] /\ UNCHANGED <<lastFinal, typed>>
           /\ typed # <<>>
        \/ /\ answer' = [answer EXCEPT ![k] = "typed"] /\ lastFinal' = cut
           /\ said[k] \in Words /\ cut \in Words \ Refused
           /\ typed' = Append(typed, [by |-> k, text |-> <<cut>>])
    <3>1. CASE message.type = "rejected"
      <4>1. answer' = [answer EXCEPT ![k] = "rejected"] /\ UNCHANGED <<lastFinal, typed>>
            BY <3>1 DEF Receive
      <4> QED BY <2>1, <2>2, <3>1, <4>1, Answers, Judged
    <3>2. CASE message.type = "final"
      <4> DEFINE text == FullText(words)
      <4>1. message.text = text /\ Allowed(text)
            BY <2>2, <3>2, Answers
      <4>2. TakeFinal(k, text)
            BY <3>2, <4>1 DEF Receive
      <4>3. CASE text = <<>>
            BY <2>1, <4>2, <4>3, Judged DEF TakeFinal
      <4>4. CASE text # <<>> /\ Head(text) = lastFinal
        <5>1. text = <<cut>> /\ cut \in Words
              BY <2>1, <4>1, <4>4, Judged
        <5>2. lastFinal # Silence
          <6> HIDE DEF text, cut
          <6> QED BY <4>4, <5>1, VoiceConstantsOK
        <5> HIDE DEF text
        <5> QED BY <4>2, <4>4, <5>2 DEF TakeFinal, TextInv
      <4>5. CASE text # <<>> /\ Head(text) # lastFinal
        <5>1. text = <<cut>> /\ said[k] \in Words /\ cut \in Words \ Refused
              BY <2>1, <4>1, <4>5, Judged
        <5> HIDE DEF text, cut
        <5> QED BY <4>2, <4>5, <5>1 DEF TakeFinal
      <4> QED BY <4>3, <4>4, <4>5
    <3> QED BY <2>2, <3>1, <3>2, Answers
  <2>6. typed \in Seq([by : Recordings, text : {<<w>> : w \in Words}])
        BY DEF Types
  <2>7. /\ answer' = [o \in Recordings |-> answer'[o]]
        /\ \A o \in Recordings \ {k} : answer'[o] = answer[o]
        BY <2>5 DEF Types
  <2>8. \A o \in Recordings \ {k} : Unanswered(o) => Unanswered(o)'
    <3>1. typed' = typed \/ typed' = Append(typed, [by |-> k, text |-> <<cut>>])
          BY <2>5
    <3>2. \A i \in DOMAIN typed' : typed'[i].by = k \/ (i \in DOMAIN typed /\ typed'[i] = typed[i])
          BY <2>6, <3>1, AppendProperties, LenProperties
    <3> QED BY <2>7, <3>2 DEF Unanswered
  <2>9. Alone(k)
        BY <1>1, <2>7, <2>8 DEF Alone, Types
  <2>10. \A o \in Recordings : PhaseOf(o)'
         BY <1>3, <1>4, <2>4, <2>9, OthersStay DEF PhaseOf
  <2>11. \A o \in Recordings : answer'[o] # "none" => recorder'[o] = "inactive"
         BY <1>3, <1>4, <2>7 DEF TextInv
  <2>12. said' = said /\ failed' = failed /\ answer'[k] \in {"rejected", "blank", "same", "typed"}
         BY <1>1, <2>5 DEF Types
  <2>13. CASE UNCHANGED typed
    <3>1. lastFinal' \in {lastFinal, Silence} /\ answer'[k] # "typed"
      <4>1. typed # Append(typed, [by |-> k, text |-> <<cut>>])
            BY <2>6, AppendProperties, LenProperties
      <4> QED BY <2>5, <2>13, <4>1 DEF Types
    <3>2. \A o \in Recordings : /\ answer'[o] = "blank" => said[o] \in {Silence, TooLong} \/ failed[o]
                                /\ answer'[o] = "rejected" =>
                                     said[o] \in Words /\ Beginning[said[o]] \in Refused
                                /\ answer'[o] = "same" => typed # <<>>
      <4>1. CASE /\ answer' = [answer EXCEPT ![k] = "rejected"]
                 /\ said[k] \in Words /\ cut \in Refused
            BY <4>1 DEF TextInv, TypedIsSaid, Types
      <4>2. CASE answer' = [answer EXCEPT ![k] = "blank"] /\ (said[k] \in {Silence, TooLong} \/ failed[k])
            BY <4>2 DEF TextInv, TypedIsSaid, Types
      <4>3. CASE answer' = [answer EXCEPT ![k] = "same"] /\ typed # <<>>
            BY <4>3 DEF TextInv, TypedIsSaid, Types
      <4>4. answer' # [answer EXCEPT ![k] = "typed"]
            BY <3>1 DEF Types
      <4> QED BY <2>5, <4>1, <4>2, <4>3, <4>4
    <3>3. TypedIsSaid'
          BY <2>12, <2>13, <3>2 DEF TextInv, TypedIsSaid
    <3>4. \A i \in DOMAIN typed' : recorder'[typed'[i].by] = "inactive"
          BY <1>1, <2>13 DEF TextInv
    <3>5. lastFinal' = Silence \/ typed' # <<>>
          BY <2>13, <3>1 DEF TextInv
    <3>6. TextInv'
          BY <2>10, <2>11, <3>3, <3>4, <3>5 DEF TextInv, PhaseOf
    <3> QED BY <2>4, <2>6, <2>7, <2>13, <3>1, <3>6 DEF Types
  <2>14. CASE /\ answer' = [answer EXCEPT ![k] = "typed"] /\ lastFinal' = cut
              /\ said[k] \in Words /\ cut \in Words \ Refused
              /\ typed' = Append(typed, [by |-> k, text |-> <<cut>>])
    <3> DEFINE row == [by |-> k, text |-> <<cut>>]
    <3>1. row \in [by : Recordings, text : {<<w>> : w \in Words}]
          BY <2>14
    <3>2. /\ typed' \in Seq([by : Recordings, text : {<<w>> : w \in Words}]) /\ typed' # <<>>
          /\ \A i \in DOMAIN typed' :
               \/ typed'[i] = row /\ i \notin DOMAIN typed
               \/ typed'[i] = typed[i] /\ i \in DOMAIN typed
          /\ \A i, j \in DOMAIN typed' : i \notin DOMAIN typed /\ j \notin DOMAIN typed => i = j
      <4> HIDE DEF row
      <4>1. typed' = Append(typed, row)
            BY <2>14 DEF row
      <4> QED BY <2>6, <3>1, <4>1, AppendProperties, LenProperties
    <3>3. \A i \in DOMAIN typed : typed[i].by # k
          BY <1>3 DEF Unanswered
    <3>4. \A i \in DOMAIN typed' : /\ said[typed'[i].by] \in Words
                                   /\ typed'[i].text = <<Beginning[said[typed'[i].by]]>>
                                   /\ Beginning[said[typed'[i].by]] \notin Refused
                                   /\ recorder'[typed'[i].by] = "inactive"
          BY <1>1, <1>3, <2>14, <3>2 DEF TextInv, TypedIsSaid
    <3>5. \A i, j \in DOMAIN typed' : typed'[i].by = typed'[j].by => i = j
      <4>1. row.by = k
            OBVIOUS
      <4> HIDE DEF row
      <4> QED BY <3>2, <3>3, <4>1 DEF TextInv, TypedIsSaid
    <3>6. \A o \in Recordings : /\ answer'[o] = "blank" => said[o] \in {Silence, TooLong} \/ failed[o]
                                /\ answer'[o] = "rejected" =>
                                     said[o] \in Words /\ Beginning[said[o]] \in Refused
          BY <2>14 DEF TextInv, TypedIsSaid, Types
    <3>7. TypedIsSaid'
          BY <2>12, <3>2, <3>4, <3>5, <3>6 DEF TypedIsSaid
    <3>8. TextInv'
          BY <2>10, <2>11, <3>2, <3>4, <3>7 DEF TextInv, PhaseOf
    <3> QED BY <2>4, <2>7, <2>14, <3>2, <3>8
  <2> QED BY <2>5, <2>13, <2>14
<1> QED BY <1>5, <1>6

-----------------------------------------------------------------------------
(* Every step.                                                             *)

LEMMA InitTypes == Init => Types
<1> SUFFICES ASSUME Init PROVE Types
    OBVIOUS
<1>1. typed \in Seq([by : Recordings, text : {<<w>> : w \in Words}])
      BY EmptySeq DEF Init
<1>2. /\ lastFinal \in Words \cup {Silence}
      /\ socketRef \in Recordings \cup {0} /\ recorderRef \in Recordings \cup {0}
      BY DEF Init
<1> QED BY <1>1, <1>2 DEF Init, Types

LEMMA RecorderStopsTypes ==
    ASSUME Types, RecorderStops
    PROVE  /\ recorder' \in [Recordings -> {"none", "recording", "stopped", "inactive"}]
           /\ \A k \in Recordings :
                \/ recorder'[k] = recorder[k] /\ (k = recorderRef => recorder[k] # "recording")
                \/ k = recorderRef /\ recorder[k] = "recording" /\ recorder'[k] = "stopped"
<1>1. recorderRef # 0 => recorderRef \in Recordings
      BY DEF Types
<1>2. CASE recorderRef # 0 /\ recorder[recorderRef] = "recording"
      BY <1>1, <1>2 DEF RecorderStops, Types
<1>3. CASE ~(recorderRef # 0 /\ recorder[recorderRef] = "recording")
  <2>1. 0 \notin Recordings
        BY DEF Recordings
  <2> QED BY <1>3, <2>1 DEF RecorderStops, Types
<1> QED BY <1>2, <1>3

LEMMA ClosedWires ==
    ASSUME Types, NEW k \in Recordings, Closed(k)
    PROVE  /\ socket' = [socket EXCEPT ![k] = "closed"]
           /\ up' = [o \in Recordings |-> up'[o]] /\ down' = [o \in Recordings |-> down'[o]]
           /\ up'[k] = <<>> /\ down'[k] = <<>>
           /\ \A o \in Recordings \ {k} : up'[o] = up[o] /\ down'[o] = down[o]
BY DEF Closed, Types

\* The rest of a recording that a step leaves alone.
LEMMA TypesStep == Types /\ TextInv /\ [Next]_vars => Types' /\ TextInv'
<1> SUFFICES ASSUME Types, TextInv, [Next]_vars PROVE Types' /\ TextInv'
    OBVIOUS
<1>1. CASE UNCHANGED vars
  <2>1. UNCHANGED <<said, lastFinal, typed, answer, server, recorder, up, down, socket, refs>>
        BY <1>1 DEF vars, client, wires
  <2>2. Types'
        BY <2>1 DEF Types, server, refs
  <2> QED BY <2>1, <2>2, TextStays
<1>2. CASE Stop
  <2>1. UNCHANGED <<said, lastFinal, typed, answer, server, up, down, socket, refs>> /\ RecorderStops
        BY <1>2 DEF Stop, wires
  <2>2. Types'
        BY <2>1, RecorderStopsTypes DEF Types, server, refs
  <2> QED BY <2>1, <2>2, TextStays, RecorderStopsTypes
<1>3. CASE Leave
  <2>1. /\ UNCHANGED <<said, lastFinal, typed, answer, server>> /\ RecorderStops
        /\ socketRef' = 0 /\ recorderRef' = 0
        /\ UNCHANGED <<socket, up, down>> \/ (socketRef # 0 /\ Closed(socketRef))
        BY <1>3 DEF Leave, wires
  <2>2. CASE UNCHANGED <<socket, up, down>>
    <3>1. Types'
          BY <2>1, <2>2, RecorderStopsTypes DEF Types, server, refs
    <3> QED BY <2>1, <2>2, <3>1, TextStays, RecorderStopsTypes
  <2>3. CASE socketRef # 0 /\ Closed(socketRef)
    <3>1. socketRef \in Recordings
          BY <2>3 DEF Types
    <3>2. Types'
          BY <2>1, <2>3, <3>1, RecorderStopsTypes, ClosedWires DEF Types, server
    <3>3. \A o \in Recordings : \/ up'[o] = up[o] /\ down'[o] = down[o]
                                \/ up'[o] = <<>> /\ down'[o] = <<>>
          BY <2>3, <3>1, ClosedWires
    <3> QED BY <2>1, <3>2, <3>3, TextStays, RecorderStopsTypes
  <2> QED BY <2>1, <2>2, <2>3
<1>4. ASSUME NEW k \in Recordings, Start(k)
      PROVE  Types' /\ TextInv'
  <2>1. /\ UNCHANGED <<said, lastFinal, typed, answer, server, up, down, recorder, refs>>
        /\ socket' = [socket EXCEPT ![k] = "asking"] /\ socket[k] = "none"
        BY <1>4 DEF Start
  <2>2. Types'
        BY <2>1 DEF Types, server, refs
  <2> QED BY <2>1, <2>2, TextStays
<1>5. ASSUME NEW k \in Recordings, MicDenied(k)
      PROVE  Types' /\ TextInv'
  <2>1. /\ UNCHANGED <<said, lastFinal, typed, answer, server, up, down, recorder, refs>>
        /\ socket' = [socket EXCEPT ![k] = "closed"] /\ socket[k] = "asking"
        BY <1>5 DEF MicDenied
  <2>2. Types'
        BY <2>1 DEF Types, server, refs
  <2> QED BY <2>1, <2>2, TextStays
<1>6. ASSUME NEW k \in Recordings, MicGranted(k)
      PROVE  Types' /\ TextInv'
  <2>1. /\ UNCHANGED <<said, lastFinal, typed, answer, server, up, down, recorder, recorderRef>>
        /\ socketRef' = k /\ socket' = [socket EXCEPT ![k] = "connecting"] /\ socket[k] = "asking"
        BY <1>6 DEF MicGranted
  <2>2. Types'
        BY <2>1 DEF Types, server, refs
  <2> QED BY <2>1, <2>2, TextStays
<1>7. ASSUME NEW k \in Recordings, Opens(k)
      PROVE  Types' /\ TextInv'
  <2>1. /\ UNCHANGED <<said, lastFinal, typed, answer, server, up, down, socketRef>> /\ recorderRef' = k
        /\ socket' = [socket EXCEPT ![k] = "open"] /\ socket[k] = "connecting"
        /\ recorder' = [recorder EXCEPT ![k] = "recording"]
        BY <1>7 DEF Opens
  <2>2. recorder[k] = "none"
        BY <2>1 DEF Types
  <2>3. Types'
        BY <2>1 DEF Types, server, refs
  <2>4. \A o \in Recordings : recorder[o] = "inactive" => recorder'[o] = "inactive"
        BY <2>1, <2>2 DEF Types
  <2> QED BY <2>1, <2>3, <2>4, TextStays
<1>8. ASSUME NEW k \in Recordings, Refuses(k) \/ ConnectionEnds(k)
      PROVE  Types' /\ TextInv'
  <2>1. /\ UNCHANGED <<said, lastFinal, typed, answer, server, refs>>
        /\ RecorderStops /\ Closed(k)
        BY <1>8 DEF Refuses, ConnectionEnds
  <2>2. Types'
        BY <2>1, RecorderStopsTypes, ClosedWires DEF Types, server, refs
  <2>3. \A o \in Recordings : \/ up'[o] = up[o] /\ down'[o] = down[o]
                              \/ up'[o] = <<>> /\ down'[o] = <<>>
        BY <2>1, ClosedWires
  <2> QED BY <2>1, <2>2, <2>3, TextStays, RecorderStopsTypes
<1>9. ASSUME NEW k \in Recordings, DataAvailable(k)
      PROVE  Types' /\ TextInv'
  <2>1. Types'
        BY <1>9 DEF DataAvailable, Types, server, refs
  <2> QED BY <1>9, <2>1, DataAvailableKeeps
<1>10. ASSUME NEW k \in Recordings, HandleChunk(k) \/ ChunkFails(k) \/ EmitFinal(k)
       PROVE  Types' /\ TextInv'
  <2>1. Types'
        BY <1>10 DEF HandleChunk, ChunkFails, EmitFinal, Receives, Sends, Types, client, refs
  <2> QED BY <1>10, <2>1, HandleChunkKeeps, EmitFinalKeeps
<1>11. ASSUME NEW k \in Recordings, Receive(k)
       PROVE  Types' /\ TextInv'
  <2>1. /\ UNCHANGED <<socket, recorder, said, up, heard, failed, refs>>
        /\ down' = [down EXCEPT ![k] = Tail(@)]
        BY <1>11 DEF Receive, server
  <2> QED BY <1>11, <2>1, ReceiveKeeps DEF Types, refs
<1>12. ASSUME NEW k \in Recordings, CannotRecord(k)
       PROVE  Types' /\ TextInv'
  <2>1. /\ UNCHANGED <<said, lastFinal, typed, answer, server, up, down, recorder, socketRef>>
        /\ socket' = [socket EXCEPT ![k] = "open"] /\ recorderRef' \in {recorderRef, k}
        BY <1>12 DEF CannotRecord
  <2>2. Types'
        BY <2>1 DEF Types, server
  <2> QED BY <2>1, <2>2, TextStays
<1> QED BY <1>1, <1>2, <1>3, <1>4, <1>5, <1>6, <1>7, <1>8, <1>9, <1>10, <1>11, <1>12
        DEF Next, Browser, Server

\* The field gets the beginning of what was said, whatever is lost, refused or
\* fails.
THEOREM TypedIsWhatWasSaid == Spec => []TypedIsSaid
<1>1. Init => Types /\ TextInv
  <2>1. Init => TextInv
        BY DEF Init, TextInv, NotSent, Unanswered, TypedIsSaid
  <2> QED BY <2>1, InitTypes
<1>2. Types /\ TextInv /\ [Next]_vars => Types' /\ TextInv'
      BY TypesStep
<1>3. TextInv => TypedIsSaid
      BY DEF TextInv
<1> QED BY <1>1, <1>2, <1>3, PTL DEF Spec

-----------------------------------------------------------------------------
(* The button speaks of the latest recording, the only one under way.      *)

Busy(k) ==
    \/ socket[k] \in {"asking", "connecting"}
    \/ socket[k] = "open" /\ recorder[k] \in {"recording", "stopped"}
    \/ up[k] # <<>> \/ down[k] # <<>>

StartedInOrder == \E m \in 0 .. MaxRecordings :
    \A k \in Recordings : socket[k] # "none" <=> k <= m

OneUnderWay ==
    \A k \in Recordings :
        /\ Busy(k) => k = Latest /\ state \in Showing
        /\ recorder[k] = "recording" => socket[k] = "open" /\ k = recorderRef

ButtonInv == StartedInOrder /\ (mounted /\ ~crossed => OneUnderWay)

LEMMA LatestIsLast ==
    ASSUME NEW m \in 0 .. MaxRecordings, \A k \in Recordings : socket[k] # "none" <=> k <= m
    PROVE  Latest = m
<1>1. MaxRecordings \in Nat
      BY VoiceConstantsOK
<1>2. {k \in Recordings : socket[k] # "none"} = 1 .. m
      BY <1>1 DEF Recordings
<1>3. Cardinality(1 .. m) = m
  <2>1. Cardinality(1 .. m) = IF 1 > m THEN 0 ELSE m - 1 + 1
        BY <1>1, FS_Interval
  <2> QED BY <1>1, <2>1
<1> QED BY <1>2, <1>3 DEF Latest

\* Every step after which the same recordings have been started: who was under
\* way stays so, ends, or leaves the button free.
LEMMA ButtonStays ==
    ASSUME ButtonInv,
           \A k \in Recordings : socket[k] = "none" <=> socket'[k] = "none",
           mounted' => mounted, crossed => crossed',
           mounted' /\ ~crossed' /\ OneUnderWay =>
               \A k \in Recordings :
                  /\ Busy(k)' => Busy(k) /\ state' \in Showing
                  /\ recorder'[k] = "recording" => socket'[k] = "open" /\ k = recorderRef'
    PROVE  ButtonInv'
<1>1. StartedInOrder'
      BY DEF ButtonInv, StartedInOrder
<1>2. Latest' = Latest
  <2>1. {k \in Recordings : socket[k] # "none"} = {k \in Recordings : socket'[k] # "none"}
        OBVIOUS
  <2> QED BY <2>1 DEF Latest
<1> QED BY <1>1, <1>2 DEF ButtonInv, OneUnderWay

\* A recording whose text is on its way has an idle recorder.
LEMMA WiresNeedRecorder ==
    ASSUME TextInv, NEW k \in Recordings, up[k] # <<>> \/ down[k] # <<>>
    PROVE  recorder[k] = "inactive"
BY DEF TextInv, NotSent

LEMMA ButtonStep ==
    ASSUME Types, TextInv, ButtonInv, [Next]_vars
    PROVE  ButtonInv'
<1>1. CASE UNCHANGED vars
      BY <1>1, ButtonStays DEF vars, client, refs, wires, history, Busy, OneUnderWay
<1>2. CASE Stop
  <2>1. /\ mounted /\ state \in Showing /\ state' = "stopping" /\ RecorderStops
        /\ UNCHANGED <<mounted, recorderRef, socket, up, down, crossed>>
        BY <1>2 DEF Stop, AfterStop, refs, wires, history
  <2>2. \A k \in Recordings : /\ Busy(k)' => Busy(k)
                              /\ recorder'[k] = "recording" => recorder[k] = "recording"
        BY <2>1, RecorderStopsTypes DEF Busy
  <2> QED BY <2>1, <2>2, ButtonStays DEF Showing, OneUnderWay
<1>3. CASE Leave
  <2>1. /\ mounted' = FALSE /\ crossed' = crossed
        /\ \/ UNCHANGED socket
           \/ socketRef # 0 /\ socket' = [socket EXCEPT ![socketRef] = "closed"]
        BY <1>3 DEF Leave, wires, history, Closed
  <2> QED BY <2>1, ButtonStays DEF Types
<1>4. ASSUME NEW k \in Recordings, Start(k)
      PROVE  ButtonInv'
  <2>1. /\ mounted /\ state \notin Showing /\ state' = "connecting"
        /\ socket[k] = "none" /\ \A i \in Recordings : i < k => socket[i] # "none"
        /\ socket' = [socket EXCEPT ![k] = "asking"]
        /\ UNCHANGED <<mounted, recorder, recorderRef, up, down, crossed>>
        BY <1>4 DEF Start, refs, history
  <2>2. PICK m \in 0 .. MaxRecordings : \A o \in Recordings : socket[o] # "none" <=> o <= m
        BY DEF ButtonInv, StartedInOrder
  <2>3. k = m + 1 /\ k \in 0 .. MaxRecordings /\ \A o \in Recordings : socket'[o] # "none" <=> o <= k
    <3>1. MaxRecordings \in Nat
          BY VoiceConstantsOK
    <3>2. k > m
          BY <2>1, <2>2, <3>1 DEF Recordings
    <3>3. m + 1 \in Recordings
          BY <2>1, <3>1, <3>2 DEF Recordings
    <3>4. ~(m + 1 < k)
          BY <2>1, <2>2, <3>3
    <3>5. k = m + 1
          BY <3>1, <3>2, <3>4 DEF Recordings
    <3>6. \A o \in Recordings : socket'[o] # "none" <=> (o = k \/ o <= m)
          BY <2>1, <2>2 DEF Types
    <3> QED BY <3>1, <3>5, <3>6 DEF Recordings
  <2>4. Latest' = k
    <3> DEFINE started == {o \in Recordings : socket'[o] # "none"}
    <3>1. MaxRecordings \in Nat
          BY VoiceConstantsOK
    <3>2. started = 1 .. k
          BY <2>3, <3>1 DEF Recordings
    <3>3. Cardinality(1 .. k) = k
      <4>1. Cardinality(1 .. k) = IF 1 > k THEN 0 ELSE k - 1 + 1
            BY <2>3, <3>1, FS_Interval
      <4> QED BY <2>3, <3>1, <4>1
    <3> QED BY <3>2, <3>3 DEF Latest
  <2>5. StartedInOrder'
        BY <2>3 DEF StartedInOrder
  <2>6. ~crossed /\ OneUnderWay => OneUnderWay'
    <3>1. ASSUME OneUnderWay, NEW o \in Recordings, o # k
          PROVE  ~Busy(o)' /\ recorder'[o] # "recording"
          BY <2>1, <3>1 DEF OneUnderWay, Busy, Types
    <3>2. recorder'[k] # "recording"
          BY <2>1 DEF Types
    <3> QED BY <2>1, <2>4, <3>1, <3>2 DEF OneUnderWay, Showing
  <2> QED BY <2>1, <2>5, <2>6 DEF ButtonInv
<1>5. ASSUME NEW k \in Recordings, MicDenied(k)
      PROVE  ButtonInv'
  <2>1. /\ UNCHANGED <<mounted, recorder, recorderRef, up, down, crossed>>
        /\ socket[k] = "asking" /\ socket' = [socket EXCEPT ![k] = "closed"]
        BY <1>5 DEF MicDenied, refs, history
  <2>2. recorder[k] = "none" /\ up[k] = <<>> /\ down[k] = <<>>
        BY <2>1, WiresNeedRecorder DEF Types
  <2>3. ~Busy(k)' /\ Busy(k) /\ \A o \in Recordings \ {k} : Busy(o)' <=> Busy(o)
        BY <2>1, <2>2 DEF Busy, Types
  <2>4. OneUnderWay => \A o \in Recordings :
            /\ ~Busy(o)'
            /\ recorder'[o] = "recording" => socket'[o] = "open" /\ o = recorderRef'
        BY <2>1, <2>2, <2>3 DEF OneUnderWay, Types
  <2> QED BY <2>1, <2>4, ButtonStays DEF Types
<1>6. ASSUME NEW k \in Recordings, MicGranted(k)
      PROVE  ButtonInv'
  <2>1. /\ UNCHANGED <<state, mounted, recorder, recorderRef, up, down, crossed>>
        /\ socket[k] = "asking" /\ socket' = [socket EXCEPT ![k] = "connecting"]
        BY <1>6 DEF MicGranted, history
  <2>2. \A o \in Recordings : Busy(o)' <=> Busy(o)
        BY <2>1 DEF Busy, Types
  <2> QED BY <2>1, <2>2, ButtonStays DEF OneUnderWay, Types
<1>7. ASSUME NEW k \in Recordings, Opens(k)
      PROVE  ButtonInv'
  <2>1. /\ UNCHANGED <<mounted, up, down, crossed>> /\ recorderRef' = k
        /\ socket[k] = "connecting" /\ socket' = [socket EXCEPT ![k] = "open"]
        /\ recorder' = [recorder EXCEPT ![k] = "recording"]
        /\ mounted => state' = "recording"
        BY <1>7 DEF Opens, history, SetState
  <2>2. Busy(k) /\ \A o \in Recordings : Busy(o)' => Busy(o)
        BY <2>1 DEF Busy, Types
  <2>3. OneUnderWay => \A o \in Recordings :
            recorder'[o] = "recording" => socket'[o] = "open" /\ o = recorderRef'
    <3>1. ASSUME OneUnderWay, NEW o \in Recordings, o # k
          PROVE  recorder'[o] # "recording"
          BY <2>1, <2>2, <3>1 DEF OneUnderWay, Busy, Types
    <3> QED BY <2>1, <3>1 DEF Types
  <2> QED BY <2>1, <2>2, <2>3, ButtonStays DEF Showing, Types
<1>8. ASSUME NEW k \in Recordings, Refuses(k)
      PROVE  ButtonInv'
  <2>1. /\ UNCHANGED <<mounted, recorderRef, crossed>> /\ RecorderStops /\ Closed(k)
        /\ socket[k] = "connecting" /\ (mounted => state' = "error")
        BY <1>8 DEF Refuses, refs, history, SetState
  <2>2. Busy(k) /\ ~Busy(k)' /\ \A o \in Recordings \ {k} : Busy(o)' => Busy(o)
        BY <2>1, ClosedWires, RecorderStopsTypes DEF Busy, Types
  <2>3. recorder[k] = "none"
        BY <2>1 DEF Types
  <2>4. OneUnderWay => \A o \in Recordings :
            ~Busy(o)' /\ recorder'[o] # "recording"
        BY <2>1, <2>2, <2>3, RecorderStopsTypes DEF OneUnderWay, Busy
  <2> QED BY <2>1, <2>4, ClosedWires, ButtonStays DEF Types
<1>9. ASSUME NEW k \in Recordings, ConnectionEnds(k)
      PROVE  ButtonInv'
  <2>1. /\ UNCHANGED <<mounted, recorderRef>> /\ RecorderStops /\ Closed(k)
        /\ socket[k] = "open" /\ state' \in {state, "error"}
        /\ crossed' = (crossed \/ (k # Latest /\ state \in Showing))
        BY <1>9 DEF ConnectionEnds, refs, SetState
  <2>2. ~Busy(k)' /\ \A o \in Recordings \ {k} : Busy(o)' => Busy(o)
        BY <2>1, ClosedWires, RecorderStopsTypes DEF Busy, Types
  <2>3. ~crossed' /\ OneUnderWay => \A o \in Recordings :
            ~Busy(o)' /\ recorder'[o] # "recording"
        BY <2>1, <2>2, RecorderStopsTypes DEF OneUnderWay, Busy
  <2> QED BY <2>1, <2>3, ClosedWires, ButtonStays DEF Types
<1>10. ASSUME NEW k \in Recordings, DataAvailable(k)
       PROVE  ButtonInv'
  <2>1. /\ UNCHANGED <<state, mounted, recorderRef, socket, down, crossed>>
        /\ recorder[k] = "stopped" /\ recorder' = [recorder EXCEPT ![k] = "inactive"]
        /\ socket[k] = "open" \/ UNCHANGED up
        /\ \A o \in Recordings \ {k} : up'[o] = up[o]
        BY <1>10 DEF DataAvailable, refs, history, Types
  <2>2. \A o \in Recordings : Busy(o)' => Busy(o)
        BY <2>1 DEF Busy, Types
  <2> QED BY <2>1, <2>2, ButtonStays DEF OneUnderWay, Types
<1>11. ASSUME NEW k \in Recordings, HandleChunk(k) \/ ChunkFails(k) \/ EmitFinal(k)
       PROVE  ButtonInv'
  <2>1. /\ UNCHANGED <<state, mounted, recorderRef, socket, recorder, crossed>>
        /\ up[k] # <<>>
        /\ \A o \in Recordings \ {k} : up'[o] = up[o] /\ down'[o] = down[o]
        BY <1>11 DEF HandleChunk, ChunkFails, EmitFinal, Receives, Sends, client, refs, history, Types
  <2>2. \A o \in Recordings : Busy(o)' => Busy(o)
        BY <2>1 DEF Busy
  <2> QED BY <2>1, <2>2, ButtonStays DEF OneUnderWay
<1>12. ASSUME NEW k \in Recordings, Receive(k)
       PROVE  ButtonInv'
  <2>1. /\ UNCHANGED <<mounted, recorderRef, socket, recorder, up, crossed>>
        /\ down[k] # <<>> /\ \A o \in Recordings \ {k} : down'[o] = down[o]
        /\ Head(down[k]).type = "error" => state' = state
        BY <1>12 DEF Receive, refs, history, Types
  <2>2. CASE Head(down[k]).type = "error"
    <3>1. \A o \in Recordings : Busy(o)' => Busy(o)
          BY <2>1 DEF Busy
    <3> QED BY <2>1, <2>2, <3>1, ButtonStays DEF OneUnderWay
  <2>3. CASE Head(down[k]).type # "error"
    <3>1. Over(k)' /\ recorder[k] = "inactive"
          BY <1>12, <2>1, <2>3, ReceiveKeeps, WiresNeedRecorder
    <3>2. ~(Busy(k)') \/ socket[k] \in {"asking", "connecting"}
          BY <2>1, <3>1 DEF Busy, Over
    <3>3. socket[k] \in {"open", "closed"}
          BY <3>1 DEF Types
    <3>4. Busy(k) /\ \A o \in Recordings \ {k} : Busy(o)' => Busy(o)
          BY <2>1 DEF Busy
    <3>5. OneUnderWay => \A o \in Recordings :
              ~Busy(o)' /\ (recorder'[o] = "recording" => socket'[o] = "open" /\ o = recorderRef')
          BY <2>1, <3>2, <3>3, <3>4 DEF OneUnderWay
    <3> QED BY <2>1, <3>5, ButtonStays
  <2> QED BY <2>2, <2>3
<1>13. ASSUME NEW k \in Recordings, CannotRecord(k)
       PROVE  ButtonInv'
  <2>1. /\ UNCHANGED <<state, mounted, recorder, up, down, crossed>>
        /\ socket[k] = "connecting" /\ socket' = [socket EXCEPT ![k] = "open"]
        /\ recorderRef' \in {recorderRef, k}
        BY <1>13 DEF CannotRecord, history
  <2>2. Busy(k) /\ recorder[k] = "none" /\ \A o \in Recordings : Busy(o)' => Busy(o)
        BY <2>1 DEF Busy, Types
  <2>3. OneUnderWay => \A o \in Recordings : recorder'[o] # "recording"
        BY <2>1, <2>2 DEF OneUnderWay, Busy
  <2> QED BY <2>1, <2>2, <2>3, ButtonStays DEF OneUnderWay, Types
<1> QED BY <1>1, <1>2, <1>3, <1>4, <1>5, <1>6, <1>7, <1>8, <1>9, <1>10, <1>11, <1>12, <1>13
        DEF Next, Browser, Server

\* While the button is on the page, nothing records behind its back.
THEOREM RecordingIsAlwaysShown == Spec => []RecordingIsShown
<1>1. Init => Types /\ TextInv /\ ButtonInv
  <2>1. Init => TextInv
        BY DEF Init, TextInv, NotSent, Unanswered, TypedIsSaid
  <2>2. Init => StartedInOrder
    <3>1. 0 \in 0 .. MaxRecordings /\ \A k \in Recordings : ~(k <= 0)
          BY VoiceConstantsOK DEF Recordings
    <3> QED BY <3>1 DEF Init, StartedInOrder
  <2>3. Init => OneUnderWay
        BY DEF Init, OneUnderWay, Busy
  <2> QED BY <2>1, <2>2, <2>3, InitTypes DEF ButtonInv
<1>2. Types /\ TextInv /\ ButtonInv /\ [Next]_vars => Types' /\ TextInv' /\ ButtonInv'
      BY TypesStep, ButtonStep
<1>3. ButtonInv => RecordingIsShown
  <2>1. OneUnderWay => \A k \in Recordings : recorder[k] = "recording" => state \in Showing /\ k = recorderRef
        BY DEF OneUnderWay, Busy
  <2> QED BY <2>1 DEF ButtonInv, RecordingIsShown
<1> QED BY <1>1, <1>2, <1>3, PTL DEF Spec
=============================================================================
