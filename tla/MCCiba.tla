--------------------------------- MODULE MCCiba ---------------------------------
(***************************************************************************)
(* Ciba for TLC: two accounts of one username, which a race of             *)
(* registrations can give to both, and a username nobody has.              *)
(***************************************************************************)
EXTENDS Ciba, TLC

CONSTANTS a1, a2, u1, u2, c1, c2, c3

OneUsername == (a1 :> u1) @@ (a2 :> u1)

Owners == (c1 :> a1) @@ (c2 :> a1) @@ (c3 :> a2)

Symmetry == Permutations(RequestIds) \cup Permutations(ConsentRequests) \cup Permutations(Browsers)
================================================================================
