------------------------------ MODULE MCCredentials ------------------------------
(***************************************************************************)
(* Credentials for TLC.  Account ids, credential ids and request slots are *)
(* interchangeable, and so are browsers; the runs that use these           *)
(* symmetries check safety only and give all credentials or none to        *)
(* Counterless.                                                            *)
(***************************************************************************)
EXTENDS Credentials, TLC

\* Every authenticator that has a counter attests to 1.
MintedCounter == [c \in CredentialIds |-> IF c \in Counterless THEN 0 ELSE 1]

Symmetry ==
  Permutations(AccountIds) \cup Permutations(CredentialIds) \cup Permutations(Browsers)
  \cup Permutations(RegistrationRequests) \cup Permutations(LoginRequests)
  \cup Permutations(DeviceRequests)
================================================================================
