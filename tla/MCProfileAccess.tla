-------------------------- MODULE MCProfileAccess --------------------------
(* Instances of ProfileAccess for TLC. *)
EXTENDS ProfileAccess, TLC

OneCommand == {"verdi"}
TwoCommands == {"verdi", "worker"}

Symmetry == Permutations(Pids)
=============================================================================
