----------------------------- MODULE UnitStory -----------------------------
(* What the notices about units may tell: the story of each unit, from     *)
(* "new" over "hidden" and "shown" to "lost" (to be found again) or "dead".*)
(* In every frame the notices pile up, are then told in their order, and   *)
(* are forgotten.  Each must make sense after those before it.             *)
CONSTANT Slots

VARIABLES story, notices, due

vars == <<story, notices, due>>

Notices == {"create", "complete", "discover", "show", "hide", "evade", "destroy",
            "morph", "renegade"}

\* A unit is created once and before all else; "found" and "gone" are halves:
\* what was announced must be discovered, and only what has just evaded can be
\* said to be destroyed.
After(now, notice) ==
  CASE notice = "create"   /\ now = "new"                          -> "found"
    [] notice = "complete" /\ now \in {"new", "lost", "found"}      -> "found"
    [] notice = "complete" /\ now \in {"hidden", "shown"}           -> now
    [] notice = "discover" /\ now \in {"new", "lost", "found"}      -> "hidden"
    [] notice = "show"     /\ now = "hidden"                        -> "shown"
    [] notice = "hide"     /\ now = "shown"                         -> "hidden"
    [] notice = "evade"    /\ now = "hidden"                        -> "gone"
    [] notice = "destroy"  /\ now = "gone"                          -> "dead"
    [] notice \in {"morph", "renegade"} /\ now \in {"hidden", "shown"} -> now
    [] OTHER -> "nonsense"

Hears(now, notice, s) == IF notice \in notices[s] THEN After(now, notice) ELSE now

\* The story of a unit when the notices about it have been told in their order.
Ending(s) ==
  LET created    == Hears(story[s], "create", s)
      completed  == Hears(created, "complete", s)
      discovered == Hears(completed, "discover", s)
      seen       == Hears(discovered, "show", s)
      hidden     == Hears(seen, "hide", s)
      evaded     == Hears(hidden, "evade", s)
      destroyed  == Hears(evaded, "destroy", s)
      morphed    == Hears(destroyed, "morph", s)
      end        == Hears(morphed, "renegade", s)
  IN  IF end = "gone" THEN "lost" ELSE end

Init ==
  /\ story = [s \in Slots |-> "new"]
  /\ notices = [s \in Slots |-> {}]
  /\ due = FALSE

Gather ==
  /\ ~due
  /\ notices' \in [Slots -> SUBSET Notices]
  /\ due' \in BOOLEAN
  /\ UNCHANGED story

Tell ==
  /\ due /\ due' = FALSE
  /\ \A s \in Slots : Ending(s) \notin {"found", "nonsense"}
  /\ story' = [s \in Slots |-> Ending(s)]
  /\ UNCHANGED notices

\* The slot of a unit that is not accessible may be given to a new one.
Forget ==
  /\ ~due /\ UNCHANGED due
  /\ notices' = [s \in Slots |-> {}]
  /\ story' \in [Slots -> {"new", "hidden", "shown", "lost", "dead"}]
  /\ \A s \in Slots : story'[s] = "new" \/ story'[s] = story[s]
  /\ \A s \in Slots : story'[s] = "new" => story[s] \in {"new", "lost", "dead"}

Spec == Init /\ [][Gather \/ Tell \/ Forget]_vars
=============================================================================
