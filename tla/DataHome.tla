------------------------------- MODULE DataHome --------------------------------
(***************************************************************************)
(* What the relocation of the data directory promises, and nothing of how  *)
(* it is done: the data set has one home, and it reaches another directory *)
(* whole and unchanged or not at all.                                      *)
(*                                                                         *)
(* A new home is on trial at first.  Until it is kept, the program does    *)
(* nothing there but repair what it opens, so that going back to the old   *)
(* home loses no work.  A directory that is not the home is only ever      *)
(* added to: no file of it is overwritten or removed.  One that was left   *)
(* behind becomes the home again only by going back, by a later move that  *)
(* brings the data with it, or after its owner has emptied it.             *)
(***************************************************************************)
CONSTANTS
  Roots,     \* the directories
  Files,     \* the files of a data set
  Contents,  \* what a file may hold
  Absent,    \* the content of a file that is not there
  Repaired,  \* the files that are repaired when the data set is opened
  Nowhere    \* not a directory

VARIABLES
  stage,     \* "up" or "down": others touch the directories only while the program is down
  home,      \* the directory in force, or Nowhere
  trial,     \* the directory the program may still go back to, or Nowhere
  data,      \* what each directory holds
  left       \* the directories that were left behind

homeVars == <<stage, home, trial, data, left>>

AllData == [Roots -> [Files -> Contents]]
Nothing == [f \in Files |-> Absent]

Altered == {p \in Roots \X Files : data'[p[1]][p[2]] # data[p[1]][p[2]]}
Alters(P) == data' \in AllData /\ Altered \subseteq P

\* A program that found no home may choose one that nobody left behind.
Settle ==
  /\ stage = "up" /\ home = Nowhere
  /\ home' \in Roots \ left
  /\ UNCHANGED <<stage, trial, data, left>>

MayWork == home # Nowhere /\ trial = Nowhere

Work ==
  /\ stage = "up" /\ MayWork
  /\ Alters({home} \X Files)
  /\ UNCHANGED <<stage, home, trial, left>>

Repair ==
  /\ stage = "up" /\ home # Nowhere
  /\ Alters({home} \X Repaired)
  /\ UNCHANGED <<stage, home, trial, left>>

Fill ==
  /\ stage = "up" /\ MayWork
  /\ Alters({p \in (Roots \ {home}) \X Files : data[p[1]][p[2]] = Absent})
  /\ UNCHANGED <<stage, home, trial, left>>

Move ==
  /\ stage = "up" /\ MayWork
  /\ home' \in Roots \ {home} /\ data[home'] = data[home]
  /\ trial' = home
  /\ left' = (left \cup {home}) \ {home'}
  /\ UNCHANGED <<stage, data>>

Keep ==
  /\ stage = "up" /\ trial # Nowhere
  /\ trial' = Nowhere
  /\ UNCHANGED <<stage, home, data, left>>

GoBack ==
  /\ stage = "up" /\ trial # Nowhere
  /\ home' = trial /\ trial' = Nowhere
  /\ left' = left \ {trial}
  /\ stage' = "down" /\ data' = data

Start == stage = "down" /\ stage' = "up" /\ UNCHANGED <<home, trial, data, left>>

\* It stops when it likes, or in the middle of its work.
Stop ==
  /\ stage = "up" /\ stage' = "down"
  /\ data' = data \/ (MayWork /\ Alters({home} \X Files))
  /\ UNCHANGED <<home, trial, left>>

\* Others do as they like, and what they have emptied is no longer left behind.
Others ==
  /\ stage = "down"
  /\ data' \in AllData
  /\ left' \subseteq left /\ \A r \in left \ left' : data'[r] = Nothing
  /\ UNCHANGED <<stage, home, trial>>

Forget ==
  /\ stage = "down"
  /\ home' = Nowhere /\ trial' = Nowhere
  /\ UNCHANGED <<stage, data, left>>

Next ==
  \/ Settle \/ Work \/ Repair \/ Fill \/ Move \/ Keep \/ GoBack
  \/ Start \/ Stop \/ Others \/ Forget

Init ==
  /\ stage = "down" /\ home = Nowhere /\ trial = Nowhere
  /\ data \in AllData /\ left = {}

Spec == Init /\ [][Next]_homeVars
===============================================================================
