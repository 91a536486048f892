------------------------------ MODULE MCGrenades ------------------------------
(* Module Grenades for TLC: one player slot and one projectile id, ids of two bits
   and serials of one. *)
EXTENDS Grenades

CONSTANTS a, b

MCPlayerIds == {1}
MCProjectileIds == {3}
MCClasses == {"CBaseCSGrenadeProjectile", "CSmokeGrenadeProjectile"}
MCPlaces == {a, b}
PlaceSymmetry == Permutations(MCPlaces)
=============================================================================
