---------------------------- MODULE MCStoryMemory ----------------------------
(* Values for StoryMemory's constants.                                     *)
EXTENDS StoryMemory

\* "owns the key", "gave it away" and something unrelated.
MCTripleOf == <<"owns", "gave", "other">>

MCRelated == {<<"owns", "gave">>, <<"gave", "owns">>}

MCEarlier == <<"owns">>

MCSymmetry == Permutations(Compactions) \cup Permutations(Indexings)
=============================================================================
