----------------------------- MODULE MCNarration -----------------------------
(* Values for Narration's constants.                                       *)
EXTENDS Narration

Paragraph(first, name, more) == [first |-> first, name |-> name, more |-> more]

\* A short heading above its lines, which passes for the cue of a speaker; a cue
\* with nothing under it, and a line narrated.
MCScenes ==
    <<[summary |-> <<Paragraph("heading", <<"bazaar-evening">>, TRUE), Paragraph("cue", <<"ram">>, FALSE),
                     Paragraph("prose", <<>>, TRUE)>>, dialogue |-> 0]>>

\* Two characters, one of whom speaks twice, below a long heading; a second scene
\* that becomes more lines of the first, and a dialogue row.
MCDialogue ==
    <<[summary |-> <<Paragraph("heading", <<"the", "bazaar", "-", "evening">>, FALSE),
                     Paragraph("cue", <<"sita">>, TRUE),
                     Paragraph("cue", <<"ram">>, TRUE), Paragraph("cue", <<"sita">>, FALSE)>>,
       dialogue |-> 0],
      [summary |-> <<Paragraph("heading", <<"palace-night">>, FALSE)>>, dialogue |-> 1]>>

MCLibrary ==
    {[id |-> 1, gender |-> "female", age |-> "adult"],
     [id |-> 2, gender |-> "male", age |-> "adult"],
     [id |-> 3, gender |-> "male", age |-> "elder"]}

MCArchetypes == {[gender |-> "female", age |-> "elder"]}
=============================================================================
