---------------------------- MODULE MCVoiceInput ----------------------------
(***************************************************************************)
(* Words for the run of VoiceInput: a speech is too long to be typed       *)
(* whole, begins with "yes", and has what is refused beyond the limit.     *)
(***************************************************************************)
EXTENDS VoiceInput

CONSTANTS yes, speech

MCBeginning == [word \in Words |-> IF word = speech THEN yes ELSE word]
=============================================================================
