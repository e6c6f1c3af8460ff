----------------------------- MODULE UnitSearch -----------------------------
(***************************************************************************)
(* Searching for units: in a rectangle, around a unit, and in the range of *)
(* a weapon.  Brood War keeps two tables of the edges of all units, sorted *)
(* by x and by y; Templates::iterateUnitFinder cuts an interval out of     *)
(* each by binary search and keeps the units that are in both.  In every   *)
(* frame the server copies the entries of the accessible units for the     *)
(* client (Server::updateSharedMemory), which searches its copy with the   *)
(* same function.                                                          *)
(*                                                                         *)
(* A table is a set of entries: what a search finds does not depend on the *)
(* order of equal entries.                                                 *)
(***************************************************************************)
EXTENDS Integers

CONSTANTS
  MapUnits,
  Thing,           \* [MapUnits -> set of traits]: "flying", "building", ...
  Owner,           \* [MapUnits -> players]
  Boxes,           \* [MapUnits -> the boxes it may have: [left, top, right, bottom]]
  MaxUnitWidth, MaxUnitHeight,
  Rectangles, Radii,   \* what is asked for
  Weapons,         \* records of min, max and the set of traits of targets
  Filters,         \* the predicates given: sets of units that they accept
  NoFilter         \* the predicate left out

VARIABLES
  world,           \* [MapUnits -> [box, seen]]
  far,             \* 1 if an entry of a right or bottom edge is one beyond it
  xSearch, ySearch,    \* the client's copy of the tables
  asked            \* the last search, and what it has returned

searchVars == <<world, far, xSearch, ySearch, asked>>

NotAsked == [what |-> "nothing"]

Left(u) == world[u].box.left
Top(u) == world[u].box.top
Right(u) == world[u].box.right
Bottom(u) == world[u].box.bottom
Accessible(u) == world[u].seen

Box == [left : Int, top : Int, right : Int, bottom : Int]

\* What the search relies on: boxes are not empty and none is larger than the
\* largest unit, which is more than a pixel high; rectangles are not empty; radii
\* are not negative.
SearchAssumption ==
  /\ MaxUnitWidth \in Nat /\ MaxUnitHeight \in Nat \ {0, 1}
  /\ Boxes \in [MapUnits -> SUBSET Box]
  /\ \A u \in MapUnits : \A b \in Boxes[u] :
       /\ b.left <= b.right /\ b.right - b.left + 1 <= MaxUnitWidth
       /\ b.top <= b.bottom /\ b.bottom - b.top + 1 <= MaxUnitHeight
  /\ Rectangles \subseteq Box
  /\ \A r \in Rectangles : r.left <= r.right /\ r.top <= r.bottom
  /\ Radii \subseteq Nat

-----------------------------------------------------------------------------
(* The tables.                                                             *)

UnitOrderingX(w, beyond) ==
  UNION {{[unit |-> u, value |-> w[u].box.left],
          [unit |-> u, value |-> w[u].box.right + beyond]} : u \in MapUnits}
UnitOrderingY(w, beyond) ==
  UNION {{[unit |-> u, value |-> w[u].box.top],
          [unit |-> u, value |-> w[u].box.bottom + beyond]} : u \in MapUnits}

\* The server hands on the entries of the accessible units.
Accessibles(table, w) == {e \in table : w[e.unit].seen}

\* From lower_bound(from) to upper_bound(to + 1).
Between(table, from, to) == {e.unit : e \in {f \in table : f.value \in from .. to + 1}}

\* A rectangle narrower than the widest unit may lie inside a unit.
WidthExtended_Never(r) == FALSE
WidthExtended(r) == r.right - r.left + 1 < MaxUnitWidth
HeightExtended(r) == r.top - r.bottom + 1 < MaxUnitHeight

\* iterateUnitFinder.
Finder(tableX, tableY, r) ==
  LET wide == WidthExtended(r)
      tall == HeightExtended(r)
      right  == r.right  + (IF wide THEN MaxUnitWidth ELSE 0)
      bottom == r.bottom + (IF tall THEN MaxUnitHeight ELSE 0)
      columns == {u \in Between(tableX, r.left, right) : wide => Left(u) <= r.right}
      rows    == {u \in Between(tableY, r.top, bottom) : tall => Top(u) <= r.bottom}
  IN {u \in columns \cap rows : Accessible(u)}

-----------------------------------------------------------------------------
(* What the AI may ask.  The module in the game searches Brood War's       *)
(* tables, the client its own.                                             *)

GetUnitsInRectangle(by, r) ==
  IF by = "client" THEN Finder(xSearch, ySearch, r)
                   ELSE Finder(UnitOrderingX(world, far), UnitOrderingY(world, far), r)

Around(u, d) == [left |-> Left(u) - d, top |-> Top(u) - d,
                 right |-> Right(u) + d, bottom |-> Bottom(u) + d]

\* Point::getApproxDistance, of a vector.
ApproxDistance(dx, dy) ==
  LET low  == IF dx < dy THEN dx ELSE dy
      high == IF dx < dy THEN dy ELSE dx
      calc == (3 * low) \div 8
  IN IF low <= high \div 4 THEN high
     ELSE calc \div 32 + calc + high - high \div 16 - high \div 64

\* The pixels between two intervals.
Gap(low, high, otherLow, otherHigh) ==
  LET before == low - (otherHigh + 1)
      after  == (otherLow - 1) - high
  IN IF before >= 0 THEN before ELSE IF after >= 0 THEN after ELSE 0

Distance(u, v) ==
  ApproxDistance(Gap(Left(u), Right(u), Left(v), Right(v)),
                 Gap(Top(u), Bottom(u), Top(v), Bottom(v)))

\* UnitInterface::getUnitsInRadius.
GetUnitsInRadius(by, u, radius) ==
  {v \in GetUnitsInRectangle(by, Around(u, radius)) : v # u /\ Distance(u, v) <= radius}

Has(u, trait) == trait \in Thing[u]

\* The tests of getUnitsInWeaponRange that turn a target away.
TurnedAway(u, v, weapon) ==
  \/ "own" \in weapon.targets /\ Owner[v] # Owner[u]
  \/ "air" \notin weapon.targets /\ ~Has(v, "flying")
  \/ "ground" \notin weapon.targets /\ Has(v, "flying")
  \/ \E trait \in {"mechanical", "organic"} : trait \in weapon.targets /\ Has(v, trait)
  \/ "nonBuilding" \in weapon.targets /\ ~Has(v, "building")
  \/ "nonRobotic" \in weapon.targets /\ ~Has(v, "robotic")
  \/ "orgOrMech" \in weapon.targets /\ (Has(v, "organic") \/ Has(v, "mechanical"))

InWeaponRange(u, v, weapon) ==
  /\ v # u
  /\ ~Has(v, "invincible")
  /\ Distance(u, v) \in weapon.min .. weapon.max

\* UnitInterface::getUnitsInWeaponRange: the units that the predicate is asked
\* about, and those of them that it accepts.
WeaponCandidates(by, u, weapon) ==
  {v \in GetUnitsInRectangle(by, Around(u, weapon.max)) :
     InWeaponRange(u, v, weapon) /\ ~TurnedAway(u, v, weapon)}

-----------------------------------------------------------------------------
SearchInit ==
  /\ world \in {w \in [MapUnits -> [box : UNION {Boxes[u] : u \in MapUnits}, seen : {TRUE}]] :
                  \A u \in MapUnits : w[u].box \in Boxes[u]}
  /\ far \in {0, 1}
  /\ xSearch = Accessibles(UnitOrderingX(world, far), world)
  /\ ySearch = Accessibles(UnitOrderingY(world, far), world)
  /\ asked = NotAsked

\* A unit is where it was or next to it.
Moved(box, dx, dy) == [left |-> box.left + dx, top |-> box.top + dy,
                       right |-> box.right + dx, bottom |-> box.bottom + dy]

\* A frame: Brood War moves one unit, or it comes into sight or is lost, and the
\* server copies the tables.
Frame(u) ==
  /\ \E dx, dy \in -1 .. 1, s \in BOOLEAN :
       /\ Moved(world[u].box, dx, dy) \in Boxes[u]
       /\ world' = [world EXCEPT ![u] = [box |-> Moved(@.box, dx, dy), seen |-> s]]
  /\ xSearch' = Accessibles(UnitOrderingX(world', far), world')
  /\ ySearch' = Accessibles(UnitOrderingY(world', far), world')
  /\ asked' = NotAsked
  /\ UNCHANGED far

Ask(question) ==
  /\ asked = NotAsked
  /\ asked' = question
  /\ UNCHANGED <<world, far, xSearch, ySearch>>

AskRectangle(by, r) ==
  Ask([by |-> by, what |-> "rectangle", where |-> r, units |-> GetUnitsInRectangle(by, r)])

AskRadius(by, u, radius) ==
  /\ Accessible(u)
  /\ Ask([by |-> by, what |-> "radius", of |-> u, radius |-> radius,
          units |-> GetUnitsInRadius(by, u, radius)])

\* A predicate that was left out is called all the same and throws.
AskWeapon(by, u, weapon, filter) ==
  LET found == WeaponCandidates(by, u, weapon) IN
  /\ Accessible(u)
  /\ Ask([by |-> by, what |-> "weapon", of |-> u, weapon |-> weapon, filter |-> filter,
          thrown |-> filter = NoFilter /\ found # {},
          units |-> IF filter = NoFilter THEN {} ELSE found \cap filter])

SearchNext ==
  \/ \E u \in MapUnits : Frame(u)
  \/ \E by \in {"module", "client"} :
       \/ \E r \in Rectangles : AskRectangle(by, r)
       \/ \E u \in MapUnits, radius \in Radii : AskRadius(by, u, radius)
       \/ \E u \in MapUnits, weapon \in Weapons, filter \in {NoFilter} \cup Filters :
            AskWeapon(by, u, weapon, filter)

SearchSpec == SearchInit /\ [][SearchNext]_searchVars

-----------------------------------------------------------------------------
(* Properties.                                                             *)

\* The accessible units that have a pixel in common with a rectangle.
Touching(r) ==
  {u \in MapUnits : /\ Accessible(u)
                 /\ Left(u) <= r.right /\ Right(u) >= r.left
                 /\ Top(u) <= r.bottom /\ Bottom(u) >= r.top}

\* One pixel more on every side but the lower one.
Grown(r) == [left |-> r.left - 1, top |-> r.top - 1, right |-> r.right + 1, bottom |-> r.bottom]

\* A search in a rectangle returns every accessible unit that has a part in it
\* (Game::getUnitsInRectangle), whatever the sizes of the two, and none that is
\* more than a pixel away.  Around a unit it returns the others that are nearer
\* than the radius and none that is farther.  (That a unit beside the rectangle,
\* or at the very radius, may be returned or not is what the code does.)
SearchIsExact ==
  /\ asked.what = "rectangle" =>
       /\ Touching(asked.where) \subseteq asked.units
       /\ asked.units \subseteq Touching(Grown(asked.where))
  /\ asked.what = "radius" =>
       LET others == {v \in MapUnits \ {asked.of} : Accessible(v)} IN
       /\ {v \in others : Distance(asked.of, v) < asked.radius} \subseteq asked.units
       /\ asked.units \subseteq {v \in others : Distance(asked.of, v) <= asked.radius}

\* What a weapon can hit, as WeaponType.h says of its targets.
CanHit(u, v, weapon) ==
  /\ (IF Has(v, "flying") THEN "air" ELSE "ground") \in weapon.targets
  /\ \A trait \in {"mechanical", "organic"} : trait \in weapon.targets => Has(v, trait)
  /\ "nonBuilding" \in weapon.targets => ~Has(v, "building")
  /\ "nonRobotic" \in weapon.targets => ~Has(v, "robotic")
  /\ "orgOrMech" \in weapon.targets => Has(v, "organic") \/ Has(v, "mechanical")
  /\ "own" \in weapon.targets => Owner[v] = Owner[u]

\* The units in the range of a weapon are those that can be hit by it (Unit.h says
\* so of getUnitsInWeaponRange): every unit returned is one of them.
RangeHoldsTargets ==
  asked.what = "weapon" =>
    \A v \in asked.units : CanHit(asked.of, v, asked.weapon)
=============================================================================
