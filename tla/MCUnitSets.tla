----------------------------- MODULE MCUnitSets -----------------------------
(* Small instances of UnitSets.                                            *)
EXTENDS UnitSets

CONSTANTS me, foe, land

ThreePlayers == {me, foe, land}
=============================================================================
