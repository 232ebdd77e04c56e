----------------------------- MODULE MCAccountEmail -----------------------------
(***************************************************************************)
(* AccountEmail for TLC.  Accounts, addresses and request slots are        *)
(* interchangeable; codes are numbers drawn in order.                      *)
(***************************************************************************)
EXTENDS AccountEmail, TLC

Symmetry ==
  Permutations(AccountIds) \cup Permutations(Emails) \cup Permutations(EmailRequests)
================================================================================
