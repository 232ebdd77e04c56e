------------------------------- MODULE Credentials -------------------------------
(***************************************************************************)
(* Registration, login and device management together, over the shared     *)
(* documents: every request interleaves with every other at each of its    *)
(* database calls.                                                         *)
(***************************************************************************)
EXTENDS Registration, Login, Devices

vars == <<storeVars, registrationVars, loginVars, editing>>

Init ==
  /\ StoreInit
  /\ RegistrationInit
  /\ LoginInit
  /\ DevicesInit

Next ==
  \/ RegistrationNext /\ UNCHANGED <<loginVars, editing>>
  \/ LoginNext /\ UNCHANGED <<registrationVars, editing>>
  \/ DevicesNext /\ UNCHANGED <<registrationVars, loginVars>>
  \/ (\E b \in Browsers : Logout(b))
     /\ UNCHANGED <<registrationVars, loginVars, editing>>

Spec == Init /\ [][Next]_vars
--------------------------------------------------------------------------------
\* Every variable has its type.
TypeOK == StoreTypeOK /\ RegistrationTypeOK /\ LoginTypeOK /\ DevicesTypeOK

SavedUnder(a) == {o \in registered : o.account = a}

(***************************************************************************)
(* A stored counter never runs ahead of the authenticator, and neither     *)
(* does one a login is about to store: whatever logins overtake each       *)
(* other, the next assertion of a genuine authenticator is above the       *)
(* stored counter and AuthenticatorAssertionResponse.VerifyAsync accepts   *)
(* it.                                                                     *)
(***************************************************************************)
CounterBehindAuthenticator ==
  \A c \in CredentialIds : Exists(c) => credentials[c].counter <= signCounts[c]

(***************************************************************************)
(* A browser is signed in only as an owner its credential was stored with  *)
(* by a registration, whatever registrations, edits and deletes of the     *)
(* same document ran between the read and the save of the login.           *)
(***************************************************************************)
SessionIsBacked == \A b \in Browsers : session[b] # None => session[b] \in registered

(***************************************************************************)
(* An Account document exists only after a credential and its attestation  *)
(* were saved for it: the order of the three saves of CompleteAttestation  *)
(* holds across interruptions and resubmissions.                           *)
(***************************************************************************)
AccountFollowsCredential ==
  \A a \in AccountIds : accounts[a] # None =>
    \E o \in SavedUnder(a) : o.credential \in attestations

\* One element for each device that an Account document counts.
CountedDevices ==
  UNION {{a} \X (1..accounts[a].all) : a \in {b \in AccountIds : accounts[b] # None}}

(***************************************************************************)
(* DeviceAllCount of an account, though requests increment a copy they     *)
(* read earlier and lose updates to each other, never exceeds the number   *)
(* of attested credentials saved for the account; and summed over the      *)
(* accounts it never exceeds the attestations, so a registration that was  *)
(* submitted again, even after its credential was deleted, counts once.    *)
(***************************************************************************)
DevicesCountedOnce ==
  /\ \A a \in AccountIds : accounts[a] # None =>
       accounts[a].all \in
         1..Cardinality({o \in SavedUnder(a) : o.credential \in attestations})
  /\ Cardinality(CountedDevices) <= Cardinality(attestations)

ComesBackByRegistration ==
  \A c \in CredentialIds : ~Exists(c) /\ credentials'[c] # None =>
    \E r \in RegistrationRequests : SaveCredential(r)

(***************************************************************************)
(* A deleted credential comes back only by a registration: a login or an   *)
(* edit that read it before the delete fails instead of writing it again.  *)
(***************************************************************************)
DeletedStaysDeleted == [][ComesBackByRegistration]_credentials

CounterFalls(c) ==
  Exists(c) /\ credentials'[c] # None /\ credentials'[c].counter < credentials[c].counter

LoginOvertaken(c, r) ==
  /\ Saving(r) /\ loggingIn'[r] # loggingIn[r]
  /\ loggingIn[r].credential = c /\ loggingIn[r].read # credentials[c]

EditOvertaken(c, r) ==
  editing[r] # None /\ editing'[r] = None /\ editing[r].credential = c

FallsOnlyWhenOvertaken ==
  \A c \in CredentialIds \ Counterless : CounterFalls(c) =>
    \/ \E r \in LoginRequests : LoginOvertaken(c, r)
    \/ \E r \in DeviceRequests : EditOvertaken(c, r)

(***************************************************************************)
(* A login lowers a stored counter only when another request saved the     *)
(* document between its read and its save, or when the authenticator       *)
(* reports no counter at all.                                              *)
(***************************************************************************)
CounterFallsOnlyWhenOvertaken == [][FallsOnlyWhenOvertaken]_credentials

CurrentOwner == [c \in CredentialIds |-> IF Exists(c) THEN Owner(c, credentials[c]) ELSE None]

Admitted ==
  {<<loggingIn[r].browser, loggingIn[r].owner>> :
     r \in {q \in LoginRequests : Saved(q)}}

O == INSTANCE Ownership WITH owner <- CurrentOwner, stored <- registered, admitted <- Admitted

(***************************************************************************)
(* Requests that read a document, wait and write it back, over three       *)
(* containers, do to owners and sessions what the single steps of          *)
(* Ownership do: each sign-in is as an owner that the save of its login    *)
(* left the credential with, and no login or edit brings a deleted         *)
(* credential back.                                                        *)
(***************************************************************************)
ImplementsOwnership == O!Spec
--------------------------------------------------------------------------------
(***************************************************************************)
(* FidoRegistrationService.cs:54 tells the second registration of a        *)
(* username "User exists.": a username has one account.                    *)
(***************************************************************************)
OneAccountPerUsername ==
  \A a1, a2 \in AccountIds :
    accounts[a1] # None /\ accounts[a2] # None
    /\ accounts[a1].username = accounts[a2].username => a1 = a2
================================================================================
