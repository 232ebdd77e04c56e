------------------------------ MODULE AccountEmail ------------------------------
(***************************************************************************)
(* AccountService: a user gives an address on Pages/profile/Edit, a code   *)
(* is mailed to it, and the code typed on Pages/profile/EmailVerification  *)
(* verifies it.  Every request reads the Account document and saves the    *)
(* whole of it later, and so does a device added to the account meanwhile  *)
(* (FidoRegistrationService.CompleteAttestation).                          *)
(*                                                                         *)
(* Accounts exist when the model starts, as registration leaves them.  Two *)
(* codes drawn are never equal, and a mistyped code is never a drawn one.  *)
(***************************************************************************)
EXTENDS Naturals, Sequences

CONSTANTS AccountIds,
          Emails,              \* addresses, trimmed and in lower case
          EmailRequests,       \* slots of requests under way
          FailedAttemptsLimit, \* 5 in VerifyEmailAsync
          MaxCode,             \* bound of the codes drawn
          None                 \* no address, no verification, no request

VARIABLES profiles,  \* the fields of the Account documents these requests read
          requests,  \* the requests under way
          drawn,     \* whom each code was drawn for, in order: the codes are indices
          mail,      \* the messages delivered
          proven,    \* history: an address whose code was typed for the account
          burnt      \* history: the codes a mismatch has nullified

vars == <<profiles, requests, drawn, mail, proven, burnt>>

Nullified == 0 \* also what a code that is no number parses to

Mistyped == MaxCode + 1

EmailVerification == [email : Emails, code : Nullified..MaxCode,
                      failedAttempts : 0..FailedAttemptsLimit + 1]

Profile == [email : Emails \cup {None}, verified : BOOLEAN,
            verification : EmailVerification \cup {None}]

Request == [op : {"update", "verify", "add"}, stage : {"read", "save", "send"},
            account : AccountIds, email : Emails \cup {None},
            read : Profile \cup {None}, saved : Profile \cup {None}]

Recipient == [account : AccountIds, to : Emails]

Message == [account : AccountIds, to : Emails, code : 1..MaxCode]

ASSUME NoneAssumption ==
  None \notin AccountIds \cup Emails \cup EmailVerification \cup Profile \cup Request

ASSUME BoundsAssumption == MaxCode \in Nat /\ FailedAttemptsLimit \in Nat

TypeOK ==
  /\ profiles \in [AccountIds -> Profile]
  /\ requests \in [EmailRequests -> Request \cup {None}]
  /\ drawn \in Seq(Recipient)
  /\ Len(drawn) <= MaxCode
  /\ mail \subseteq Message
  /\ proven \subseteq AccountIds \X Emails
  /\ burnt \subseteq 1..MaxCode

Init ==
  /\ profiles = [a \in AccountIds |->
                   [email |-> None, verified |-> FALSE, verification |-> None]]
  /\ requests = [r \in EmailRequests |-> None]
  /\ drawn = <<>>
  /\ mail = {}
  /\ proven = {}
  /\ burnt = {}

Begin(r, request) ==
  /\ requests[r] = None
  /\ requests' = [requests EXCEPT ![r] = request]

Waiting(r, stage) == requests[r] # None /\ requests[r].stage = stage
--------------------------------------------------------------------------------
(***************************************************************************)
(* UpdateAccountAsync up to its count: no account may have the address.    *)
(* The comparison with OldEmail excludes none, as the form of a page that  *)
(* was opened before the account had the address posts another one.        *)
(***************************************************************************)
UpdateAccount(a, e, r) ==
  /\ \A b \in AccountIds : profiles[b].email # e
  /\ Begin(r, [op |-> "update", stage |-> "read", account |-> a, email |-> e,
               read |-> None, saved |-> None])
  /\ UNCHANGED <<profiles, drawn, mail, proven, burnt>>

Challenge_Reset(verification, e, code) == \* mutant: always a new challenge
  [email |-> e, code |-> code, failedAttempts |-> 0]

\* A new challenge counts on from the failed attempts of the one it replaces.
Challenge(verification, e, code) ==
  [email |-> e, code |-> code,
   failedAttempts |-> IF verification = None THEN 0 ELSE verification.failedAttempts]

NewProfile(profile, e, code) ==
  [email |-> e, verified |-> FALSE,
   verification |-> Challenge(profile.verification, e, code)]

\* UpdateAccountAsync reads the account and puts the new address and code in it.
ReadAccount(r) ==
  /\ Waiting(r, "read")
  /\ Len(drawn) < MaxCode
  /\ LET request == requests[r]
         profile == profiles[request.account]
     IN /\ drawn' = Append(drawn, [account |-> request.account, to |-> request.email])
        /\ requests' = [requests EXCEPT ![r] =
             [request EXCEPT !.stage = "save", !.read = profile,
                             !.saved = NewProfile(profile, request.email, Len(drawn) + 1)]]
  /\ UNCHANGED <<profiles, mail, proven, burnt>>

\* SaveChangesAsync replaces the document with the request's copy.
SaveAccount(r) ==
  /\ Waiting(r, "save")
  /\ LET request == requests[r] IN
       /\ profiles' = [profiles EXCEPT ![request.account] = request.saved]
       /\ requests' = [requests EXCEPT ![r] =
            IF request.op = "update" THEN [request EXCEPT !.stage = "send"] ELSE None]
       /\ burnt' = IF request.op = "verify" /\ ~request.saved.verified
                     THEN burnt \cup {request.read.verification.code}
                     ELSE burnt
  /\ UNCHANGED <<drawn, mail, proven>>

\* The address keeps its new state whether or not the message can be sent.
SendEmail(r) ==
  /\ Waiting(r, "send")
  /\ LET v == requests[r].saved.verification IN
       \/ mail' = mail \cup {[account |-> requests[r].account, to |-> v.email,
                              code |-> v.code]}
       \/ UNCHANGED mail
  /\ requests' = [requests EXCEPT ![r] = None]
  /\ UNCHANGED <<profiles, drawn, proven, burnt>>

\* The process stops, or the database throws, before the save.
RequestLost(r) ==
  /\ Waiting(r, "read") \/ Waiting(r, "save")
  /\ requests' = [requests EXCEPT ![r] = None]
  /\ UNCHANGED <<profiles, drawn, mail, proven, burnt>>
--------------------------------------------------------------------------------
Typed == {m.code : m \in mail} \cup {Nullified, Mistyped}

Verified(profile) ==
  [email |-> profile.verification.email, verified |-> TRUE, verification |-> None]

Mismatched(profile) ==
  LET v == profile.verification IN
    [profile EXCEPT !.verification =
       [email |-> v.email, code |-> Nullified, failedAttempts |-> v.failedAttempts + 1]]

ChallengeOpen_AnyCode(profile) == \* mutant: a nullified challenge is open
  /\ profile.verification # None
  /\ profile.verification.failedAttempts <= FailedAttemptsLimit

\* VerifyEmailAsync answers Error, and saves nothing, unless this holds.
ChallengeOpen(profile) ==
  /\ profile.verification # None
  /\ profile.verification.code # Nullified
  /\ profile.verification.failedAttempts <= FailedAttemptsLimit

VerifyEmail(a, code, r) ==
  LET profile == profiles[a]
      matches == code = profile.verification.code
  IN /\ ChallengeOpen(profile)
     /\ code \in Typed
     /\ Begin(r, [op |-> "verify", stage |-> "save", account |-> a, email |-> None,
                  read |-> profile,
                  saved |-> IF matches THEN Verified(profile) ELSE Mismatched(profile)])
     /\ proven' = proven \cup {<<a, m.to>> : m \in {n \in mail : n.account = a /\ n.code = code}}
     /\ UNCHANGED <<profiles, drawn, mail, burnt>>

(***************************************************************************)
(* CompleteAttestation reads the account, counts one device more and saves *)
(* it: the counts are in module Registration, the stale copy is here.      *)
(***************************************************************************)
AddDevice(a, r) ==
  /\ Begin(r, [op |-> "add", stage |-> "save", account |-> a, email |-> None,
               read |-> profiles[a], saved |-> profiles[a]])
  /\ UNCHANGED <<profiles, drawn, mail, proven, burnt>>

Next ==
  \E r \in EmailRequests :
    \/ \E a \in AccountIds :
         \/ \E e \in Emails : UpdateAccount(a, e, r)
         \/ \E code \in Nullified..Mistyped : VerifyEmail(a, code, r)
         \/ AddDevice(a, r)
    \/ ReadAccount(r)
    \/ SaveAccount(r)
    \/ SendEmail(r)
    \/ RequestLost(r)

Spec == Init /\ [][Next]_vars
--------------------------------------------------------------------------------
(***************************************************************************)
(* An address shown as verified was proven for this account: a code mailed *)
(* to it was typed.  Saves of stale copies bring back old addresses, never *)
(* an address marked verified that was not.                                *)
(***************************************************************************)
VerifiedWasProven ==
  \A a \in AccountIds : profiles[a].verified => <<a, profiles[a].email>> \in proven

(***************************************************************************)
(* The address of the account and the address under verification are one,  *)
(* and a verified address has no verification left open: VerifyEmailAsync  *)
(* marks verified the address that the user sees.                          *)
(***************************************************************************)
AddressUnderProof ==
  \A a \in AccountIds : LET p == profiles[a] IN
    IF p.verification = None
      THEN p.verified <=> p.email # None
      ELSE ~p.verified /\ p.verification.email = p.email

AddressShown ==
  [a \in AccountIds |-> [email |-> profiles[a].email, verified |-> profiles[a].verified]]

AddressesAsked == {<<drawn[n].account, drawn[n].to>> : n \in 1..Len(drawn)}

AddressesReached == {<<m.account, m.to>> : m \in mail}

P == INSTANCE AddressProof
       WITH shown <- AddressShown, asked <- AddressesAsked, delivered <- AddressesReached

(***************************************************************************)
(* Requests that draw codes for an account, save stale copies of it and    *)
(* compare what was typed do to the address shown what the single steps of *)
(* AddressProof do: a code typed for an account proves the one address it  *)
(* was drawn for and mailed to, and nothing else is shown as verified.     *)
(***************************************************************************)
ImplementsAddressProof == P!Spec

Forgets(a) ==
  /\ profiles[a].verification # None
  /\ ~profiles'[a].verified
  /\ \/ profiles'[a].verification = None
     \/ profiles'[a].verification.failedAttempts
          < profiles[a].verification.failedAttempts

SavesStale(a, r) ==
  /\ SaveAccount(r)
  /\ requests[r].account = a
  /\ requests[r].read # profiles[a]

AttemptsKept ==
  \A a \in AccountIds : Forgets(a) => \E r \in EmailRequests : SavesStale(a, r)

(***************************************************************************)
(* Failed attempts, which UpdateAccountAsync promises not to change, are   *)
(* forgotten only by a verification or by a save of a copy that another    *)
(* request made stale.                                                     *)
(***************************************************************************)
AttemptsForgottenOnlyWhenOvertaken == [][AttemptsKept]_profiles

(***************************************************************************)
(* VerifyEmailAsync says "nulify the challenge" (AccountService.cs:93) of a *)
(* code that was mistyped: it is never compared with again.                *)
(***************************************************************************)
BurntCodeRefused ==
  [][\A a \in AccountIds, r \in EmailRequests :
       (\E code \in Nullified..Mistyped : VerifyEmail(a, code, r))
         => profiles[a].verification.code \notin burnt]_vars
================================================================================
