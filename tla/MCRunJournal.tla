---------------------------- MODULE MCRunJournal ----------------------------
(* Instances of RunJournal for TLC.                                        *)
EXTENDS RunJournal, TLC

CONSTANTS s1, a1

OneScene == [s \in Scenes |-> a1]

\* Every reply a tool can give, a success that is kept as evidence or
\* not.
AllReplies == [answer: {"ok", "error", "intermediate"}, selectable: {TRUE}]
                \cup {[answer |-> "ok", selectable |-> FALSE]}
KeptOrNot == [answer: {"ok"}, selectable: BOOLEAN]

\* Run identifiers are interchangeable.
RunSymmetry == Permutations(Runs)

=============================================================================
