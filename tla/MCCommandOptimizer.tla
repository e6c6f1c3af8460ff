------------------------ MODULE MCCommandOptimizer ------------------------
(* Small instances of CommandOptimizer: groups of two units, and three     *)
(* armies: marines and a carrier; tanks, a barracks and dropships;         *)
(* larvae of a hatchery and templars.                                      *)
EXTENDS CommandOptimizer

CONSTANTS m1, m2, m3, car, tank, bar, drop, bunker, hatch, l1, l2, t1, t2, foe, ally

AllUnits == {m1, m2, m3, car, tank, bar, drop, bunker, hatch, l1, l2, t1, t2}

Kinds == [u \in Units |->
  CASE u \in {m1, m2, m3} -> "Marine" [] u = car -> "Carrier" [] u = tank -> "Tank"
    [] u = bar -> "Barracks" [] u = drop -> "Dropship" [] u = bunker -> "Bunker"
    [] u = hatch -> "Hatchery" [] u \in {l1, l2} -> "Larva"
    [] u \in {t1, t2} -> "High_Templar"]

LarvaeOf == [u \in Units |-> IF u = hatch THEN {l1, l2} ELSE {}]
Spots == [t \in {foe, ally} |-> 40]
TargetKinds == [t \in {foe, ally} |-> "Marine"]

ThreeArmies == {{m1, m2, m3, car}, {tank, bar, drop, bunker}, {hatch, l1, l2, t1, t2}}
OneArmy == {{m1, m2}}

Aim(type, t)  == [Bare(type) EXCEPT !.target = t]
MoveTo(p)     == [Bare("Move") EXCEPT !.pos = p]
Extra(type, e) == [Bare(type) EXCEPT !.extra = e]
Cast(tech, t) == [Aim("Use_Tech_Unit", t) EXCEPT !.extra = tech]

Of(us, cs) == [unit : us, cmd : cs]

MixedRequests ==
  Of({m1, m2, m3}, {Aim("Attack_Unit", foe)})
    \cup Of({m2, m3}, {Extra("Use_Tech", "Stim_Packs")})
    \cup Of({m1}, {MoveTo(40)})
    \cup Of({m1, car}, {Aim("Attack_Unit", ally)})
    \cup Of({tank}, {Extra("Use_Tech", "Tank_Siege_Mode"), Extra("Stop", "queued")})
    \cup Of({bar}, {Aim("Set_Rally_Unit", foe)})
    \cup Of({drop, bunker}, {Aim("Load", ally)})
    \cup Of({hatch, l1, l2}, {Extra("Train", "Zergling")})
    \cup Of({t1, t2}, {Cast("Psionic_Storm", foe)})
    \cup Of({t1}, {Cast("Archon_Warp", t2)})

Alikes == Permutations({m2, m3}) \cup Permutations({l1, l2})

ClickRequests == Of({m1, m2}, {Aim("Right_Click_Unit", foe), Aim("Right_Click_Unit", ally)})
=============================================================================
