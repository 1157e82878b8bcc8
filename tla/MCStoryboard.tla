----------------------------- MODULE MCStoryboard -----------------------------
(* Values for Storyboard's constants.                                      *)
EXTENDS Storyboard

MCCharacterOf == [elin |-> 1, bo |-> 2]

\* A chapter kept partly as dialogue and partly as a summary.
MCSource ==
    <<[dialogue |-> <<"a", Blank>>, summary |-> <<"s">>],
      [dialogue |-> <<>>, summary |-> <<Blank, "t">>]>>

Draft(number, from, to, names) ==
    [number |-> number, from |-> from, to |-> to, names |-> names]

\* Two acceptable plans, and one of every kind the parser refuses.
MCDrafts ==
    {<<Draft(0, 1, 1, {"elin"}), Draft(2, 2, 2, {"elin", "bo"})>>,
     <<Draft(1, 1, 2, {"bo"})>>,
     <<Draft(1, 1, 1, {"elin"})>>,
     <<Draft(1, 1, 3, {"elin"})>>,
     <<Draft(1, 2, 2, {"elin"})>>,
     <<Draft(1, 1, 2, {"elin"}), Draft(2, 2, 2, {"bo"})>>,
     <<Draft(2, 1, 2, {"elin"})>>,
     <<Draft(1, 1, 2, {"elin", "nobody"})>>,
     <<>>}
=============================================================================
