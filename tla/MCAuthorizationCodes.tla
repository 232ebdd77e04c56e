--------------------------- MODULE MCAuthorizationCodes --------------------------
(***************************************************************************)
(* AuthorizationCodes for TLC.  Every set of ids is interchangeable; the   *)
(* runs check safety only.                                                 *)
(***************************************************************************)
EXTENDS AuthorizationCodes, TLC

Symmetry ==
  Permutations(AccountIds) \cup Permutations(ClientIds) \cup Permutations(Tabs)
  \cup Permutations(ClientRequests) \cup Permutations(Keys)
  \cup Permutations(EndpointRequests)
================================================================================
