------------------------------ MODULE Registration ------------------------------
(***************************************************************************)
(* FidoRegistrationService: registering a new user and adding a device to  *)
(* the account of a session.  A ceremony has two requests.  Start reads    *)
(* the database and hands the browser a protected cookie with the          *)
(* challenge; Complete checks the authenticator's answer against the       *)
(* cookie and saves a Credential, an Attestation and the Account, one      *)
(* document after the other.  The server remembers nothing in between, so  *)
(* a cookie can be presented again until a response that deletes it, or a  *)
(* new Start, reaches the browser.                                         *)
(*                                                                         *)
(* A challenge is named by the credential id the authenticator mints for   *)
(* it.  A registration request is at the stage of its next database call.  *)
(***************************************************************************)
EXTENDS CredentialStore

CONSTANT RegistrationRequests \* slots of registration requests under way

VARIABLES registrationCookie, \* Constants.CookieRegistration of each browser
          addCookie,          \* Constants.CookieAddNewDevice of each browser
          registering         \* the registration requests under way

registrationVars == <<registrationCookie, addCookie, registering>>

CreateOptions == [credential : CredentialIds, username : Usernames]

RegistrationRequest ==
  [kind : {"new", "add"}, stage : {"credential", "attestation", "account"},
   browser : Browsers, credential : CredentialIds, username : Usernames,
   account : AccountIds, read : AccountDoc \cup {None}]

ASSUME NoRegistrationAssumption == None \notin CreateOptions \cup RegistrationRequest

RegistrationTypeOK ==
  /\ registrationCookie \in [Browsers -> CreateOptions \cup {None}]
  /\ addCookie \in [Browsers -> CreateOptions \cup {None}]
  /\ registering \in [RegistrationRequests -> RegistrationRequest \cup {None}]

RegistrationInit ==
  /\ registrationCookie = [b \in Browsers |-> None]
  /\ addCookie = [b \in Browsers |-> None]
  /\ registering = [r \in RegistrationRequests |-> None]

NewGuid(a) ==
  /\ accounts[a] = None
  /\ \A o \in registered : o.account # a
  /\ \A r \in RegistrationRequests : registering[r] # None => registering[r].account # a

\* The document has the counter that the authenticator attested to, and later logins are above it.
NewCredential(request) ==
  [account |-> request.account, username |-> request.username,
   enabled |-> TRUE, counter |-> FirstCounter[request.credential]]
--------------------------------------------------------------------------------
(***************************************************************************)
(* RegistrationStartAsync: refuse a username some credential has, else set *)
(* the cookie, replacing the one of an earlier tab.                        *)
(***************************************************************************)
RegistrationStart(b, u) ==
  /\ ~UsernameExists(u)
  /\ \E c \in CredentialIds \ minted :
       /\ minted' = minted \cup {c}
       /\ registrationCookie' =
            [registrationCookie EXCEPT ![b] = [credential |-> c, username |-> u]]
  /\ UNCHANGED <<credentials, attestations, accounts, session, signCounts,
                 registered, addCookie, registering>>

\* RegistrationAddNewDeviceStartAsync, with the username of the session.
AddNewDeviceStart(b) ==
  /\ session[b] # None
  /\ \E c \in CredentialIds \ minted :
       /\ minted' = minted \cup {c}
       /\ addCookie' = [addCookie EXCEPT ![b] =
                          [credential |-> c, username |-> session[b].username]]
  /\ UNCHANGED <<credentials, attestations, accounts, session, signCounts,
                 registered, registrationCookie, registering>>

(***************************************************************************)
(* The first half of RegistrationCompleteAsync: the answer verifies        *)
(* against the cookie, a fresh account id is drawn and CompleteAttestation *)
(* reads that account.                                                     *)
(***************************************************************************)
RegistrationComplete(b, r) ==
  /\ registrationCookie[b] # None
  /\ registering[r] = None
  /\ \E a \in AccountIds :
       /\ NewGuid(a)
       /\ registering' = [registering EXCEPT ![r] =
            [kind |-> "new", stage |-> "credential", browser |-> b,
             credential |-> registrationCookie[b].credential,
             username |-> registrationCookie[b].username,
             account |-> a, read |-> accounts[a]]]
  /\ UNCHANGED <<storeVars, registrationCookie, addCookie>>

(***************************************************************************)
(* The first half of RegistrationAddNewDeviceCompleteAsync: the username   *)
(* comes from the cookie, the account from the session of now.             *)
(***************************************************************************)
AddNewDeviceComplete(b, r) ==
  /\ addCookie[b] # None
  /\ session[b] # None
  /\ registering[r] = None
  /\ registering' = [registering EXCEPT ![r] =
       [kind |-> "add", stage |-> "credential", browser |-> b,
        credential |-> addCookie[b].credential, username |-> addCookie[b].username,
        account |-> session[b].account, read |-> accounts[session[b].account]]]
  /\ UNCHANGED <<storeVars, registrationCookie, addCookie>>

(***************************************************************************)
(* Complete answers.  The response deletes the cookie by its name, whoever *)
(* set it since; it may also be lost, and then the cookie stays.           *)
(***************************************************************************)
DropCookie(kind, b) ==
  \/ UNCHANGED <<registrationCookie, addCookie>>
  \/ /\ kind = "new"
     /\ registrationCookie' = [registrationCookie EXCEPT ![b] = None]
     /\ UNCHANGED addCookie
  \/ /\ kind = "add"
     /\ addCookie' = [addCookie EXCEPT ![b] = None]
     /\ UNCHANGED registrationCookie

Answer(r) ==
  /\ registering' = [registering EXCEPT ![r] = None]
  /\ DropCookie(registering[r].kind, registering[r].browser)

Advance(r, stage) ==
  /\ registering' = [registering EXCEPT ![r].stage = stage]
  /\ UNCHANGED <<registrationCookie, addCookie>>

(***************************************************************************)
(* The cookie expires five minutes after Start, or an answer that does not *)
(* verify (one of a tab whose cookie was replaced, a bad signature) makes  *)
(* Complete delete it and return Failure.                                  *)
(***************************************************************************)
RegistrationCookieLost(b) ==
  /\ \/ /\ registrationCookie[b] # None
        /\ registrationCookie' = [registrationCookie EXCEPT ![b] = None]
        /\ UNCHANGED addCookie
     \/ /\ addCookie[b] # None
        /\ addCookie' = [addCookie EXCEPT ![b] = None]
        /\ UNCHANGED registrationCookie
  /\ UNCHANGED <<storeVars, registering>>
--------------------------------------------------------------------------------
(***************************************************************************)
(* SaveChangesAsync at the end of CompleteAttestation: the three documents *)
(* go to the database in the order they were added, each in a call of its  *)
(* own, and the first that fails ends the request with Failure.            *)
(***************************************************************************)
SaveCredential_AttestationLast(r) == \* mutant: the account before the attestation
  /\ registering[r] # None
  /\ registering[r].stage = "credential"
  /\ CreateCredential(registering[r].credential, NewCredential(registering[r]))
  /\ Advance(r, "account")
  /\ UNCHANGED <<attestations, accounts, session, minted, signCounts>>

SaveCredential(r) ==
  /\ registering[r] # None
  /\ registering[r].stage = "credential"
  /\ LET c == registering[r].credential IN
       \/ /\ CreateCredential(c, NewCredential(registering[r]))
          /\ Advance(r, "attestation")
       \/ /\ Exists(c)
          /\ Answer(r)
          /\ UNCHANGED <<credentials, registered>>
  /\ UNCHANGED <<attestations, accounts, session, minted, signCounts>>

SaveAttestation(r) ==
  /\ registering[r] # None
  /\ registering[r].stage = "attestation"
  /\ LET c == registering[r].credential IN
       \/ /\ c \notin attestations
          /\ attestations' = attestations \cup {c}
          /\ Advance(r, "account")
       \/ /\ c \in attestations
          /\ Answer(r)
          /\ UNCHANGED attestations
  /\ UNCHANGED <<credentials, accounts, session, minted, signCounts, registered>>

SavedAccount_CountedTwice(request) == \* mutant: a new account is also incremented
  IF request.read = None
    THEN [username |-> request.username, all |-> 2, enabled |-> 2]
    ELSE [username |-> request.read.username,
          all |-> request.read.all + 1, enabled |-> request.read.enabled + 1]

\* The account the request read: absent, create it; else count one device more.
SavedAccount(request) ==
  IF request.read = None
    THEN [username |-> request.username, all |-> 1, enabled |-> 1]
    ELSE [username |-> request.read.username,
          all |-> request.read.all + 1, enabled |-> request.read.enabled + 1]

SaveAccount(r) ==
  /\ registering[r] # None
  /\ registering[r].stage = "account"
  /\ LET request == registering[r]
         a == request.account
     IN \/ /\ request.read = None <=> accounts[a] = None
           /\ accounts' = [accounts EXCEPT ![a] = SavedAccount(request)]
        \/ /\ request.read = None \* a create of an id that exists meanwhile
           /\ accounts[a] # None
           /\ UNCHANGED accounts
  /\ Answer(r)
  /\ UNCHANGED <<credentials, attestations, session, minted, signCounts, registered>>

\* The process stops, or a call to the database throws, between two saves.
RegistrationInterrupted(r) ==
  /\ registering[r] # None
  /\ Answer(r)
  /\ UNCHANGED storeVars

RegistrationNext ==
  \/ \E b \in Browsers :
       \/ \E u \in Usernames : RegistrationStart(b, u)
       \/ AddNewDeviceStart(b)
       \/ RegistrationCookieLost(b)
       \/ \E r \in RegistrationRequests :
            RegistrationComplete(b, r) \/ AddNewDeviceComplete(b, r)
  \/ \E r \in RegistrationRequests :
       \/ SaveCredential(r)
       \/ SaveAttestation(r)
       \/ SaveAccount(r)
       \/ RegistrationInterrupted(r)
================================================================================
