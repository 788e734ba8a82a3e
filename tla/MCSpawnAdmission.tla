--------------------------- MODULE MCSpawnAdmission ---------------------------
(* Instances of SpawnAdmission on one root: o1 and o2 are operations of the  *)
(* root's own turns, o3 is one of a resident actor, o4 one that would exceed *)
(* the maximum depth.  Each asks for one member.                             *)
EXTENDS SpawnAdmission

CONSTANTS o1, o2, o3, o4, r1, a1

MCRootOf(o) == r1
MCActorOf(o) == IF o = o3 THEN a1 ELSE NoActor
MCUnits(o) == 1
MCTooDeep(o) == o = o4
===============================================================================
