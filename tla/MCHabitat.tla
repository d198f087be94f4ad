------------------------------ MODULE MCHabitat ------------------------------
(***************************************************************************)
(* A name with salted keys and one with random keys, each rotated at most  *)
(* twice, and a group, with rotations that are not accepted and a stop     *)
(* between any two writes.                                                 *)
(***************************************************************************)
EXTENDS Habitat
==============================================================================
