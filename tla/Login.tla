---------------------------------- MODULE Login ----------------------------------
(***************************************************************************)
(* FidoLoginService and Pages/auth/Login.cshtml.cs.  Start lists the       *)
(* credentials of the username in a protected cookie with a challenge; the *)
(* authenticator signs the challenge and its counter; Complete reads the   *)
(* credential if it is enabled, verifies the assertion, replaces the whole *)
(* credential document by the one it read with the new counter, and its    *)
(* answer signs the browser in.  A login request is at the stage of what   *)
(* it does next.                                                           *)
(***************************************************************************)
EXTENDS CredentialStore

CONSTANTS LoginRequests, \* slots of login requests under way
          LoginNames,    \* usernames that logins are started with, None for none
          Counterless    \* credentials whose authenticator reports no counter

VARIABLES loginCookie, \* Constants.CookieLogin of each browser
          assertion,   \* what the authenticator signed for the page's challenge
          loggingIn    \* the login requests under way

loginVars == <<loginCookie, assertion, loggingIn>>

AssertionOptions == [allowed : SUBSET CredentialIds]

Assertion == [credential : CredentialIds, counter : Counters]

LoginRequest == [stage : {"save"}, browser : Browsers, credential : CredentialIds,
                 read : CredentialDoc, counter : Counters]

LoginResponse == [stage : {"signIn"}, browser : Browsers, owner : Session]

ASSUME NoLoginAssumption ==
  /\ None \notin AssertionOptions \cup Assertion \cup LoginRequest \cup LoginResponse
  /\ Counterless \subseteq CredentialIds
  /\ \A c \in Counterless : FirstCounter[c] = 0

LoginTypeOK ==
  /\ loginCookie \in [Browsers -> AssertionOptions \cup {None}]
  /\ assertion \in [Browsers -> Assertion \cup {None}]
  /\ loggingIn \in [LoginRequests -> LoginRequest \cup LoginResponse \cup {None}]

LoginInit ==
  /\ loginCookie = [b \in Browsers |-> None]
  /\ assertion = [b \in Browsers |-> None]
  /\ loggingIn = [r \in LoginRequests |-> None]

Allows(options, c) == options.allowed = {} \/ c \in options.allowed

CounterVerifies_Never(count, stored) == TRUE \* mutant: no counter check

\* AuthenticatorAssertionResponse.VerifyAsync, step 17.
CounterVerifies(count, stored) == ~(count > 0 /\ count <= stored)
--------------------------------------------------------------------------------
(***************************************************************************)
(* LoginStartAsync with a username, or with none (a resident key chooses). *)
(* A username nobody has gives the same empty list as no username.         *)
(***************************************************************************)
LoginStart(b, u) ==
  /\ loginCookie' = [loginCookie EXCEPT ![b] =
       [allowed |-> {c \in CredentialIds : Exists(c) /\ credentials[c].username = u}]]
  /\ assertion' = [assertion EXCEPT ![b] = None]
  /\ UNCHANGED <<storeVars, loggingIn>>

\* The authenticator answers the page: its counter moves on, if it has one.
Sign(b, c) ==
  LET count == IF c \in Counterless THEN 0 ELSE signCounts[c] + 1 IN
  /\ loginCookie[b] # None
  /\ assertion[b] = None
  /\ c \in minted
  /\ Allows(loginCookie[b], c)
  /\ count <= MaxCounter
  /\ signCounts' = [signCounts EXCEPT ![c] = count]
  /\ assertion' = [assertion EXCEPT ![b] = [credential |-> c, counter |-> count]]
  /\ UNCHANGED <<credentials, attestations, accounts, session, minted,
                 registered, loginCookie, loggingIn>>

(***************************************************************************)
(* The first half of LoginCompleteAsync: GetCredentialAsync finds an       *)
(* enabled credential and MakeAssertionAsync accepts its counter.          *)
(***************************************************************************)
LoginComplete(b, r) ==
  /\ loginCookie[b] # None
  /\ assertion[b] # None
  /\ loggingIn[r] = None
  /\ LET c == assertion[b].credential IN
       /\ Exists(c)
       /\ credentials[c].enabled
       /\ CounterVerifies(assertion[b].counter, credentials[c].counter)
       /\ loggingIn' = [loggingIn EXCEPT ![r] =
            [stage |-> "save", browser |-> b, credential |-> c, read |-> credentials[c],
             counter |-> assertion[b].counter]]
  /\ UNCHANGED <<storeVars, loginCookie, assertion>>

(***************************************************************************)
(* The cookie expires, or the answer to a request that found no enabled    *)
(* credential or did not verify deletes it.                                *)
(***************************************************************************)
LoginCookieLost(b) ==
  /\ loginCookie[b] # None
  /\ loginCookie' = [loginCookie EXCEPT ![b] = None]
  /\ assertion' = [assertion EXCEPT ![b] = None]
  /\ UNCHANGED <<storeVars, loggingIn>>

Saving(r) == loggingIn[r] # None /\ loggingIn[r].stage = "save"

Saved(r) == loggingIn[r] # None /\ loggingIn[r].stage = "signIn"

\* What LoginCompleteAsync answers: the account and the username of the document it read.
Respond(r) ==
  loggingIn' = [loggingIn EXCEPT ![r] =
    [stage |-> "signIn", browser |-> loggingIn[r].browser,
     owner |-> Owner(loggingIn[r].credential, loggingIn[r].read)]]

SaveLogin_Increment(r) == \* mutant: stores the next counter
  /\ Saving(r)
  /\ ReplaceCredential(loggingIn[r].credential,
       [loggingIn[r].read EXCEPT !.counter = loggingIn[r].counter + 1])
  /\ Respond(r)
  /\ UNCHANGED <<attestations, accounts, session, minted, signCounts, loginCookie, assertion>>

SaveLogin_AddIfMissing(r) == \* mutant: writes the document whether or not it exists
  /\ Saving(r)
  /\ credentials' = [credentials EXCEPT ![loggingIn[r].credential] = loggingIn[r].read]
  /\ Respond(r)
  /\ UNCHANGED <<attestations, accounts, session, minted, signCounts, registered,
                 loginCookie, assertion>>

\* UpdateCredentialAsync saves the document that was read, with the new counter.
SaveLogin(r) ==
  /\ Saving(r)
  /\ ReplaceCredential(loggingIn[r].credential,
       [loggingIn[r].read EXCEPT !.counter = loggingIn[r].counter])
  /\ Respond(r)
  /\ UNCHANGED <<attestations, accounts, session, minted, signCounts, loginCookie, assertion>>

(***************************************************************************)
(* OnPostAsync signs the browser in: the answer sets the identity cookie   *)
(* and deletes the login cookie, whatever the browser holds by then.       *)
(***************************************************************************)
SignIn(r) ==
  /\ Saved(r)
  /\ LET b == loggingIn[r].browser IN
       /\ session' = [session EXCEPT ![b] = loggingIn[r].owner]
       /\ loginCookie' = [loginCookie EXCEPT ![b] = None]
       /\ assertion' = [assertion EXCEPT ![b] = None]
  /\ loggingIn' = [loggingIn EXCEPT ![r] = None]
  /\ UNCHANGED <<credentials, attestations, accounts, minted, signCounts, registered>>

(***************************************************************************)
(* The replace fails (the document was deleted) or never happens, the      *)
(* process stops after it, or the answer is lost.                          *)
(***************************************************************************)
LoginFails(r) ==
  /\ loggingIn[r] # None
  /\ loggingIn' = [loggingIn EXCEPT ![r] = None]
  /\ UNCHANGED <<storeVars, loginCookie, assertion>>

LoginNext ==
  \/ \E b \in Browsers :
       \/ \E u \in LoginNames : LoginStart(b, u)
       \/ \E c \in CredentialIds : Sign(b, c)
       \/ LoginCookieLost(b)
       \/ \E r \in LoginRequests : LoginComplete(b, r)
  \/ \E r \in LoginRequests : SaveLogin(r) \/ SignIn(r) \/ LoginFails(r)
================================================================================
