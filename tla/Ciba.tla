---------------------------------- MODULE Ciba ----------------------------------
(***************************************************************************)
(* Client initiated backchannel authentication: a browser asks to sign in  *)
(* as a username (Pages/auth/CibaLogin), a session of that user consents   *)
(* from another browser (Pages/ciba/Consent) and the first browser then    *)
(* continues.  The requests are documents of the CibaLoginRequests         *)
(* container, behind BackChannelAuthenticationRequestStore; the endpoints  *)
(* that use the store belong to Duende IdentityServer.                     *)
(*                                                                         *)
(* The scopes a user consents to are never empty, so they are left out: a  *)
(* complete request is one the token endpoint grants.                      *)
(***************************************************************************)
EXTENDS Naturals, FiniteSets

CONSTANTS Usernames, AccountIds, CredentialIds,
          UsernameOf,     \* the username of each account
          AccountOf,      \* the account of each credential
          RequestIds,     \* ids that CreateRequestAsync draws
          Browsers,
          ConsentRequests, \* slots of posts of the consent page under way
          Nobody,         \* Guid.Empty: the subject of an unknown username
          None            \* no document, no cookie, no session, no request

VARIABLES loginRequests, \* CibaLoginRequests container
          expired,       \* ids of requests past their Lifetime
          requestCookie, \* Constants.CookieCibaRequest of each browser
          session,       \* the identity cookie of each browser
          consenting,    \* consents under way
          continuing,    \* the request a browser got an identity token for
          approved       \* history: the consents saved

vars == <<loginRequests, expired, requestCookie, session, consenting, continuing,
          approved>>

CibaLoginRequest == [subject : AccountIds \cup {Nobody}, isComplete : BOOLEAN,
                     credential : CredentialIds \cup {None}]

Session == [subject : AccountIds \cup {Nobody}, credential : CredentialIds,
            by : {"fido", "ciba"}]

Consent == [request : RequestIds, saved : CibaLoginRequest]

Approval == [request : RequestIds, credential : CredentialIds]

ASSUME CibaAssumption ==
  /\ UsernameOf \in [AccountIds -> Usernames]
  /\ AccountOf \in [CredentialIds -> AccountIds]
  /\ Nobody \notin AccountIds
  /\ None \notin AccountIds \cup {Nobody} \cup CredentialIds \cup RequestIds
                 \cup CibaLoginRequest \cup Session \cup Consent

TypeOK ==
  /\ loginRequests \in [RequestIds -> CibaLoginRequest \cup {None}]
  /\ expired \subseteq RequestIds
  /\ requestCookie \in [Browsers -> RequestIds \cup {None}]
  /\ session \in [Browsers -> Session \cup {None}]
  /\ consenting \in [ConsentRequests -> Consent \cup {None}]
  /\ continuing \in [Browsers -> RequestIds \cup {None}]
  /\ approved \subseteq Approval

Init ==
  /\ loginRequests = [q \in RequestIds |-> None]
  /\ expired = {}
  /\ requestCookie = [b \in Browsers |-> None]
  /\ session = [b \in Browsers |-> None]
  /\ consenting = [r \in ConsentRequests |-> None]
  /\ continuing = [b \in Browsers |-> None]
  /\ approved = {}
--------------------------------------------------------------------------------
\* LoginModel.OnPostAsync and LogoutModel.OnPostAsync: the sessions that consent.
SignIn(b, c) ==
  /\ session' = [session EXCEPT ![b] =
                   [subject |-> AccountOf[c], credential |-> c, by |-> "fido"]]
  /\ UNCHANGED <<loginRequests, expired, requestCookie, consenting, continuing,
                 approved>>

SignOut(b) ==
  /\ session[b] # None
  /\ session' = [session EXCEPT ![b] = None]
  /\ UNCHANGED <<loginRequests, expired, requestCookie, consenting, continuing,
                 approved>>

\* ValidateRequestAsync: some account of that name, or the default Guid.
Subjects(u) ==
  LET named == {a \in AccountIds : UsernameOf[a] = u}
  IN  IF named = {} THEN {Nobody} ELSE named

(***************************************************************************)
(* CibaLoginStartAsync and CreateRequestAsync.  The response that sets the *)
(* cookie may be lost; the cookie of an earlier request is replaced.       *)
(***************************************************************************)
CibaLoginStart(b, u) ==
  /\ \E q \in RequestIds, s \in Subjects(u) :
       /\ loginRequests[q] = None
       /\ loginRequests' = [loginRequests EXCEPT ![q] =
            [subject |-> s, isComplete |-> FALSE, credential |-> None]]
       /\ \/ requestCookie' = [requestCookie EXCEPT ![b] = q]
          \/ UNCHANGED requestCookie
  /\ UNCHANGED <<expired, session, consenting, continuing, approved>>

\* The lifetime of a request passes, and then that of the cookie.
Expire(q) ==
  /\ loginRequests[q] # None
  /\ q \notin expired
  /\ expired' = expired \cup {q}
  /\ UNCHANGED <<loginRequests, requestCookie, session, consenting, continuing,
                 approved>>

CookieExpires(b) ==
  /\ requestCookie[b] \in expired
  /\ requestCookie' = [requestCookie EXCEPT ![b] = None]
  /\ UNCHANGED <<loginRequests, expired, session, consenting, continuing, approved>>
--------------------------------------------------------------------------------
\* OnPost of the consent page: a request of the subject that is signed in.
MayDecide(b, q) ==
  /\ session[b] # None
  /\ loginRequests[q] # None
  /\ loginRequests[q].subject = session[b].subject

(***************************************************************************)
(* The user says yes: UpdateByInternalIdAsync reads the document and puts  *)
(* the credential of the session in it.  Neither an expired nor a complete *)
(* request is refused.                                                     *)
(***************************************************************************)
ConsentYes(b, q, r) ==
  /\ MayDecide(b, q)
  /\ consenting[r] = None
  /\ consenting' = [consenting EXCEPT ![r] =
       [request |-> q,
        saved |-> [loginRequests[q] EXCEPT !.isComplete = TRUE,
                                           !.credential = session[b].credential]]]
  /\ UNCHANGED <<loginRequests, expired, requestCookie, session, continuing, approved>>

(***************************************************************************)
(* The user says no: the completed request has no AuthorizedScopes, and    *)
(* UpdateByInternalIdAsync throws on their ToArray() before it saves.      *)
(***************************************************************************)
ConsentNo(b, q) ==
  /\ MayDecide(b, q)
  /\ UNCHANGED vars

SaveConsent_Early(r) == \* mutant: saves before the credential is set
  /\ consenting[r] # None
  /\ LET consent == consenting[r] IN
       loginRequests' = [loginRequests EXCEPT ![consent.request].isComplete = TRUE]
  /\ consenting' = [consenting EXCEPT ![r] = None]
  /\ UNCHANGED <<expired, requestCookie, session, continuing, approved>>

SaveConsent(r) ==
  /\ consenting[r] # None
  /\ LET consent == consenting[r] IN
       /\ loginRequests' = [loginRequests EXCEPT ![consent.request] = consent.saved]
       /\ approved' = approved \cup
            {[request |-> consent.request, credential |-> consent.saved.credential]}
  /\ consenting' = [consenting EXCEPT ![r] = None]
  /\ UNCHANGED <<expired, requestCookie, session, continuing>>

ConsentLost(r) ==
  /\ consenting[r] # None
  /\ consenting' = [consenting EXCEPT ![r] = None]
  /\ UNCHANGED <<loginRequests, expired, requestCookie, session, continuing, approved>>
--------------------------------------------------------------------------------
(***************************************************************************)
(* OnPostContinueAsync: the token endpoint grants a request that is        *)
(* complete and has not expired; every other answer shows the page again.  *)
(* RemoveByInternalIdAsync removes nothing, so it grants it every time.    *)
(***************************************************************************)
Continue(b) ==
  LET q == requestCookie[b] IN
  /\ q # None
  /\ continuing[b] = None
  /\ loginRequests[q].isComplete
  /\ q \notin expired
  /\ continuing' = [continuing EXCEPT ![b] = q]
  /\ UNCHANGED <<loginRequests, expired, requestCookie, session, consenting, approved>>

\* GetClaimsToCompleteCibaAsync compares RequestId with itself: any of the subject.
ClaimsOf(q) ==
  {p \in RequestIds : /\ loginRequests[p] # None
                      /\ loginRequests[p].subject = loginRequests[q].subject}

FinishContinue_AnySubject(b) == \* mutant: the query has no subject either
  /\ continuing[b] # None
  /\ \E p \in RequestIds :
       /\ loginRequests[p] # None
       /\ loginRequests[p].credential # None
       /\ session' = [session EXCEPT ![b] =
            [subject |-> loginRequests[continuing[b]].subject,
             credential |-> loginRequests[p].credential, by |-> "ciba"]]
  /\ continuing' = [continuing EXCEPT ![b] = None]
  /\ UNCHANGED <<loginRequests, expired, requestCookie, consenting, approved>>

FinishContinue_AnyCredential(b) == \* mutant: asks the account for a credential, not the request
  /\ continuing[b] # None
  /\ \E c \in CredentialIds :
       /\ AccountOf[c] = loginRequests[continuing[b]].subject
       /\ session' = [session EXCEPT ![b] =
            [subject |-> AccountOf[c], credential |-> c, by |-> "ciba"]]
  /\ continuing' = [continuing EXCEPT ![b] = None]
  /\ UNCHANGED <<loginRequests, expired, requestCookie, consenting, approved>>

(***************************************************************************)
(* The document found names the credential to sign in with.  One that      *)
(* nobody consented to has none, and its null claim is an exception.       *)
(***************************************************************************)
FinishContinue(b) ==
  /\ continuing[b] # None
  /\ \E p \in ClaimsOf(continuing[b]) :
       \/ /\ loginRequests[p].credential # None
          /\ session' = [session EXCEPT ![b] =
               [subject |-> loginRequests[continuing[b]].subject,
                credential |-> loginRequests[p].credential, by |-> "ciba"]]
       \/ /\ loginRequests[p].credential = None
          /\ UNCHANGED session
  /\ continuing' = [continuing EXCEPT ![b] = None]
  /\ UNCHANGED <<loginRequests, expired, requestCookie, consenting, approved>>

\* The process stops, or the response with the identity cookie is lost.
ContinueLost(b) ==
  /\ continuing[b] # None
  /\ continuing' = [continuing EXCEPT ![b] = None]
  /\ UNCHANGED <<loginRequests, expired, requestCookie, session, consenting, approved>>

Next ==
  \/ \E b \in Browsers :
       \/ \E c \in CredentialIds : SignIn(b, c)
       \/ SignOut(b)
       \/ \E u \in Usernames : CibaLoginStart(b, u)
       \/ CookieExpires(b)
       \/ \E q \in RequestIds :
            \/ \E r \in ConsentRequests : ConsentYes(b, q, r)
            \/ ConsentNo(b, q)
       \/ Continue(b)
       \/ FinishContinue(b)
       \/ ContinueLost(b)
  \/ \E q \in RequestIds : Expire(q)
  \/ \E r \in ConsentRequests : SaveConsent(r) \/ ConsentLost(r)

Spec == Init /\ [][Next]_vars
--------------------------------------------------------------------------------
(***************************************************************************)
(* Every session, whether it began with an authenticator or by a chain of  *)
(* backchannel requests that earlier backchannel sessions approved, names  *)
(* an account and a credential of that account: no mixture of users comes  *)
(* out of GetClaimsToCompleteCibaAsync, and nobody signs in as nobody.     *)
(***************************************************************************)
SessionsAreOneUsers ==
  \A b \in Browsers : session[b] # None => AccountOf[session[b].credential] = session[b].subject

(***************************************************************************)
(* A browser that signed in by CIBA holds a credential that a session of   *)
(* the same user approved a request with, also when two consents to one    *)
(* request overlap or the claims come from another request.                *)
(***************************************************************************)
CibaSessionWasApproved ==
  \A b \in Browsers : session[b] # None /\ session[b].by = "ciba" =>
    \E o \in approved : /\ o.credential = session[b].credential
                        /\ loginRequests[o.request].subject = session[b].subject

(***************************************************************************)
(* A complete request records who completed it, and stays complete with    *)
(* the credential of one of its approvals: a browser that polls finds      *)
(* claims for its own request in every later state.                        *)
(***************************************************************************)
CompleteWasApproved ==
  \A q \in RequestIds : loginRequests[q] # None /\ loginRequests[q].isComplete =>
    [request |-> q, credential |-> loginRequests[q].credential] \in approved

RequestSubject ==
  [q \in RequestIds |-> IF loginRequests[q] = None THEN None ELSE loginRequests[q].subject]

ConsentsGiven ==
  {[request |-> consenting[r].request, credential |-> consenting[r].saved.credential] :
     r \in {k \in ConsentRequests : consenting[k] # None}}

B == INSTANCE BackchannelLogin WITH
  Accounts <- AccountIds \cup {Nobody}, subject <- RequestSubject,
  consents <- ConsentsGiven, approvals <- approved

(***************************************************************************)
(* Consents that overlap, requests that are approved again after they were *)
(* redeemed, cookies that name a replaced request and claims that come     *)
(* from another one: together they sign a browser in only as               *)
(* BackchannelLogin allows.                                                *)
(***************************************************************************)
ImplementsBackchannelLogin == B!Spec
--------------------------------------------------------------------------------
(***************************************************************************)
(* CibaLogin.cshtml says that Continue completes the flow: the browser is  *)
(* signed in with what the approval of its own request names.              *)
(***************************************************************************)
ContinueUsesItsRequest ==
  [][\A b \in Browsers : FinishContinue(b) =>
       /\ session'[b] # None
       /\ session'[b].credential = loginRequests[continuing[b]].credential]_vars
================================================================================
