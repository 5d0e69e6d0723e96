------------------------------- MODULE Departure -------------------------------
(***************************************************************************)
(* What leaving the application promises, and nothing of the requests, the *)
(* acknowledgements and the barriers it is done with.                      *)
(*                                                                         *)
(* Either the application leaves with nothing under way and nothing        *)
(* unsaved, or it is open again as a whole.  On the way it stops one kind  *)
(* of work after the other, and what it has stopped does not come back     *)
(* unless everything does.  A relocation is requested only when all is     *)
(* quiet, and an application that stays has no such request.               *)
(***************************************************************************)
CONSTANT Kinds   \* the kinds of work an exit stops

VARIABLES
  stage,    \* "open", "closing", "draining" or "gone"
  busy,     \* the kinds of which something is under way
  barred,   \* the kinds of which nothing may begin
  unsaved,  \* there are edits that are not in the Store
  intent    \* the next start shall relocate the data directory

departureVars == <<stage, busy, barred, unsaved, intent>>

\* Work goes on, and begins where it is not barred, at any stage.
Work ==
  /\ busy' \in SUBSET (Kinds \ barred)
  /\ UNCHANGED <<stage, barred, unsaved, intent>>

\* The user edits until the drafts of an exit are saved.
Edit ==
  /\ stage \in {"open", "closing"} /\ unsaved' \in BOOLEAN
  /\ UNCHANGED <<stage, busy, barred, intent>>

Close ==
  /\ stage = "open" /\ stage' = "closing"
  /\ UNCHANGED <<busy, barred, unsaved, intent>>

\* More is barred, after it was stopped or waited for.
Bar ==
  /\ stage \in {"closing", "draining"}
  /\ barred' \in SUBSET Kinds /\ barred \subseteq barred'
  /\ busy' \subseteq busy \ barred'
  /\ UNCHANGED <<stage, unsaved, intent>>

Seal ==
  /\ stage = "closing" /\ ~unsaved /\ stage' = "draining"
  /\ UNCHANGED <<busy, barred, unsaved, intent>>

Quiet == stage = "draining" /\ barred = Kinds

Relocate == Quiet /\ intent' = TRUE /\ UNCHANGED <<stage, busy, barred, unsaved>>

Leave == Quiet /\ stage' = "gone" /\ UNCHANGED <<busy, barred, unsaved, intent>>

\* The exit is given up; what it has stopped may begin again.
Reopen ==
  /\ stage \in {"closing", "draining"} /\ stage' = "open"
  /\ barred' = {} /\ intent' = FALSE
  /\ busy' \subseteq busy
  /\ UNCHANGED unsaved

Next == Work \/ Edit \/ Close \/ Bar \/ Seal \/ Relocate \/ Leave \/ Reopen

Init == stage = "open" /\ busy = {} /\ barred = {} /\ ~unsaved /\ ~intent

Spec == Init /\ [][Next]_departureVars
===============================================================================
