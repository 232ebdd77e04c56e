---------------------------- MODULE MCMetadataService ----------------------------
(***************************************************************************)
(* MetadataService for TLC.  Every set of ids is interchangeable; the run  *)
(* checks safety only.                                                     *)
(***************************************************************************)
EXTENDS MetadataService, TLC

Symmetry == Permutations(Processes) \cup Permutations(AaGuids) \cup Permutations(Lookups)
================================================================================
