------------------------------- MODULE CibaProofs -------------------------------
(***************************************************************************)
(* Proofs about Ciba, for every number of users, browsers, requests and    *)
(* consents.  The subject of a request never changes and a complete one    *)
(* stays complete, so the credential that a consent is about to save in it *)
(* still is one of that subject, and a browser that was granted a request  *)
(* signs in by an approved one.                                            *)
(***************************************************************************)
EXTENDS Ciba, TLAPS

Created(q) == loginRequests[q] # None

\* A request that has a credential was completed by a consent of its subject.
RequestInv(q) ==
  Created(q) =>
    /\ loginRequests[q].isComplete => loginRequests[q].credential # None
    /\ loginRequests[q].credential # None =>
         /\ AccountOf[loginRequests[q].credential] = loginRequests[q].subject
         /\ [request |-> q, credential |-> loginRequests[q].credential] \in approved

ConsentInv(r) ==
  consenting[r] # None =>
    LET saved == consenting[r].saved IN
      /\ Created(consenting[r].request)
      /\ saved.subject = loginRequests[consenting[r].request].subject
      /\ saved.isComplete
      /\ saved.credential # None
      /\ AccountOf[saved.credential] = saved.subject

SessionInv(b) ==
  /\ requestCookie[b] # None => Created(requestCookie[b])
  /\ continuing[b] # None =>
       Created(continuing[b]) /\ loginRequests[continuing[b]].isComplete
  /\ session[b] # None =>
       /\ AccountOf[session[b].credential] = session[b].subject
       /\ session[b].by = "ciba" =>
            \E o \in approved : /\ o.credential = session[b].credential
                                /\ Created(o.request)
                                /\ loginRequests[o.request].subject = session[b].subject

ApprovedInv == \A o \in approved : Created(o.request)

Inv ==
  /\ TypeOK
  /\ \A q \in RequestIds : RequestInv(q)
  /\ \A r \in ConsentRequests : ConsentInv(r)
  /\ \A b \in Browsers : SessionInv(b)
  /\ ApprovedInv
--------------------------------------------------------------------------------
LEMMA NoneIsNoValue ==
  /\ None \notin CredentialIds
  /\ None \notin RequestIds
  /\ None \notin CibaLoginRequest
  /\ None \notin Session
  /\ None \notin Consent
BY CibaAssumption

LEMMA InitInv == Init => Inv
<1> SUFFICES ASSUME Init PROVE Inv
  OBVIOUS
<1>1. TypeOK
  BY DEF Init, TypeOK
<1>2. \A b \in Browsers : SessionInv(b)
  BY DEF Init, SessionInv
<1>3. \A q \in RequestIds : RequestInv(q)
  BY DEF Init, RequestInv, Created
<1> QED
  BY <1>1, <1>2, <1>3 DEF Init, Inv, ConsentInv, ApprovedInv

(***************************************************************************)
(* What the other actions rely on: requests are never removed, keep their  *)
(* subjects and stay complete, and approvals are never forgotten.          *)
(***************************************************************************)
KeepsRequests ==
  /\ \A q \in RequestIds : Created(q) =>
       /\ loginRequests'[q] # None
       /\ loginRequests'[q].subject = loginRequests[q].subject
       /\ loginRequests[q].isComplete => loginRequests'[q].isComplete
  /\ approved \subseteq approved'

LEMMA RequestsKept ==
  ASSUME Inv, [Next]_vars
  PROVE  KeepsRequests
<1>1. ASSUME NEW b \in Browsers, NEW u \in Usernames, CibaLoginStart(b, u)
      PROVE  KeepsRequests
  BY <1>1 DEF CibaLoginStart, KeepsRequests, Created, Inv, TypeOK
<1>2. ASSUME NEW r \in ConsentRequests, SaveConsent(r)
      PROVE  KeepsRequests
  <2>1. /\ consenting[r].request \in RequestIds
        /\ consenting[r].saved # None
        /\ consenting[r].saved.subject = loginRequests[consenting[r].request].subject
        /\ consenting[r].saved.isComplete
    BY <1>2, NoneIsNoValue DEF Inv, TypeOK, ConsentInv, SaveConsent, Consent
  <2> QED
    BY <1>2, <2>1 DEF SaveConsent, KeepsRequests, Created, Inv, TypeOK
<1>3. ASSUME UNCHANGED <<loginRequests, approved>>
      PROVE  KeepsRequests
  BY <1>3 DEF KeepsRequests, Created
<1> QED
  BY <1>1, <1>2, <1>3
  DEF Next, vars, SignIn, SignOut, CookieExpires, ConsentYes, ConsentNo, Continue,
      FinishContinue, ContinueLost, Expire, ConsentLost

\* A step preserves the parts about the variables that it leaves alone.
LEMMA RequestsStay ==
  ASSUME Inv, UNCHANGED loginRequests, approved \subseteq approved'
  PROVE  \A q \in RequestIds : RequestInv(q)'
BY DEF Inv, RequestInv, Created

LEMMA ConsentStays ==
  ASSUME Inv, KeepsRequests, NEW r \in ConsentRequests, consenting'[r] = consenting[r]
  PROVE  ConsentInv(r)'
BY DEF Inv, TypeOK, Consent, ConsentInv, KeepsRequests, Created

LEMMA SessionStays ==
  ASSUME Inv, KeepsRequests, NEW b \in Browsers, session'[b] = session[b],
         requestCookie'[b] = requestCookie[b], continuing'[b] = continuing[b]
  PROVE  SessionInv(b)'
<1>1. \A q \in RequestIds : Created(q) =>
        /\ Created(q)' /\ loginRequests'[q].subject = loginRequests[q].subject
        /\ loginRequests[q].isComplete => loginRequests'[q].isComplete
  BY DEF KeepsRequests, Created
<1>2. \A o \in approved : o \in approved' /\ o.request \in RequestIds
  BY DEF Inv, TypeOK, Approval, KeepsRequests
<1>3. /\ requestCookie[b] \in RequestIds \cup {None}
      /\ continuing[b] \in RequestIds \cup {None}
      /\ SessionInv(b)
  BY DEF Inv, TypeOK
<1> QED
  BY <1>1, <1>2, <1>3 DEF SessionInv

LEMMA ApprovalsStay ==
  ASSUME Inv, KeepsRequests, UNCHANGED approved
  PROVE  ApprovedInv'
BY DEF Inv, TypeOK, Approval, ApprovedInv, KeepsRequests, Created
--------------------------------------------------------------------------------
\* A completed request is a request.
LEMMA CompletedRequest ==
  ASSUME NEW l \in CibaLoginRequest, NEW c \in CredentialIds
  PROVE  [l EXCEPT !.isComplete = TRUE, !.credential = c] \in CibaLoginRequest
BY DEF CibaLoginRequest

LEMMA TypeStep ==
  ASSUME Inv, [Next]_vars
  PROVE  TypeOK'
<1> USE DEF Inv, TypeOK
<1>1. ASSUME NEW b \in Browsers, NEW c \in CredentialIds, SignIn(b, c) PROVE TypeOK'
  BY <1>1, CibaAssumption DEF SignIn, Session
<1>2. ASSUME NEW b \in Browsers, SignOut(b) PROVE TypeOK'
  BY <1>2 DEF SignOut
<1>3. ASSUME NEW b \in Browsers, NEW u \in Usernames, CibaLoginStart(b, u) PROVE TypeOK'
  BY <1>3 DEF CibaLoginStart, Subjects, CibaLoginRequest
<1>4. ASSUME NEW b \in Browsers, CookieExpires(b) PROVE TypeOK'
  BY <1>4 DEF CookieExpires
<1>5. ASSUME NEW b \in Browsers, NEW q \in RequestIds, NEW r \in ConsentRequests,
             ConsentYes(b, q, r)
      PROVE  TypeOK'
  <2> DEFINE saved == [loginRequests[q] EXCEPT !.isComplete = TRUE,
                                               !.credential = session[b].credential]
  <2>1. saved \in CibaLoginRequest
    <3>1. loginRequests[q] \in CibaLoginRequest
      BY <1>5 DEF ConsentYes, MayDecide
    <3>2. session[b].credential \in CredentialIds
      BY <1>5 DEF ConsentYes, MayDecide, Session
    <3> QED
      BY <3>1, <3>2, CompletedRequest, Zenon
  <2>2. consenting' = [consenting EXCEPT ![r] = [request |-> q, saved |-> saved]]
    BY <1>5 DEF ConsentYes
  <2> HIDE DEF saved
  <2>3. consenting' \in [ConsentRequests -> Consent \cup {None}]
    BY <2>1, <2>2 DEF Consent
  <2> QED
    BY <1>5, <2>3 DEF ConsentYes
<1>6. ASSUME NEW b \in Browsers, NEW q \in RequestIds, ConsentNo(b, q) PROVE TypeOK'
  BY <1>6 DEF ConsentNo, TypeOK, vars
<1>7. ASSUME NEW b \in Browsers, Continue(b) PROVE TypeOK'
  BY <1>7 DEF Continue
<1>8. ASSUME NEW b \in Browsers, FinishContinue(b) PROVE TypeOK'
  <2>1. loginRequests[continuing[b]].subject \in AccountIds \cup {Nobody}
    BY <1>8 DEF FinishContinue, SessionInv, Created, CibaLoginRequest
  <2>2. PICK p \in RequestIds :
          /\ loginRequests[p] \in CibaLoginRequest
          /\ \/ /\ loginRequests[p].credential # None
                /\ session' = [session EXCEPT ![b] =
                     [subject |-> loginRequests[continuing[b]].subject,
                      credential |-> loginRequests[p].credential, by |-> "ciba"]]
             \/ UNCHANGED session
    BY <1>8 DEF FinishContinue, ClaimsOf
  <2>3. session' \in [Browsers -> Session \cup {None}]
    BY <2>1, <2>2 DEF CibaLoginRequest, Session
  <2> QED
    BY <1>8, <2>3 DEF FinishContinue
<1>9. ASSUME NEW b \in Browsers, ContinueLost(b) PROVE TypeOK'
  BY <1>9 DEF ContinueLost
<1>10. ASSUME NEW q \in RequestIds, Expire(q) PROVE TypeOK'
  BY <1>10 DEF Expire
<1>11. ASSUME NEW r \in ConsentRequests, SaveConsent(r) PROVE TypeOK'
  <2>1. /\ consenting[r].request \in RequestIds
        /\ consenting[r].saved \in CibaLoginRequest
        /\ consenting[r].saved.credential \in CredentialIds
    BY <1>11 DEF SaveConsent, Consent, ConsentInv, CibaLoginRequest
  <2> QED
    BY <1>11, <2>1 DEF SaveConsent, Approval
<1>12. ASSUME NEW r \in ConsentRequests, ConsentLost(r) PROVE TypeOK'
  BY <1>12 DEF ConsentLost
<1>13. ASSUME UNCHANGED vars PROVE TypeOK'
  BY <1>13 DEF vars
<1> QED
  BY <1>1, <1>2, <1>3, <1>4, <1>5, <1>6, <1>7, <1>8, <1>9, <1>10, <1>11, <1>12, <1>13
  DEF Next

LEMMA RequestStep ==
  ASSUME Inv, [Next]_vars
  PROVE  \A q \in RequestIds : RequestInv(q)'
<1>1. ASSUME NEW b \in Browsers, NEW u \in Usernames, CibaLoginStart(b, u)
      PROVE  \A q \in RequestIds : RequestInv(q)'
  BY <1>1 DEF CibaLoginStart, Inv, TypeOK, RequestInv, Created
<1>2. ASSUME NEW r \in ConsentRequests, SaveConsent(r)
      PROVE  \A q \in RequestIds : RequestInv(q)'
  <2>1. /\ consenting[r].request \in RequestIds
        /\ consenting[r].saved.credential # None
        /\ AccountOf[consenting[r].saved.credential] = consenting[r].saved.subject
    BY <1>2 DEF Inv, TypeOK, ConsentInv, SaveConsent, Consent
  <2> QED
    BY <1>2, <2>1 DEF SaveConsent, Inv, TypeOK, RequestInv, Created
<1> QED
  BY <1>1, <1>2, RequestsStay
  DEF Next, vars, SignIn, SignOut, CookieExpires, ConsentYes, ConsentNo, Continue,
      FinishContinue, ContinueLost, Expire, ConsentLost

LEMMA ConsentStep ==
  ASSUME Inv, [Next]_vars, KeepsRequests
  PROVE  \A r \in ConsentRequests : ConsentInv(r)'
<1>1. ASSUME NEW b \in Browsers, NEW q \in RequestIds, NEW r \in ConsentRequests,
             ConsentYes(b, q, r)
      PROVE  \A s \in ConsentRequests : ConsentInv(s)'
  <2>1. /\ session[b].credential \in CredentialIds
        /\ AccountOf[session[b].credential] = loginRequests[q].subject
        /\ loginRequests[q] \in CibaLoginRequest
        /\ Created(q)
    BY <1>1 DEF ConsentYes, MayDecide, Inv, TypeOK, SessionInv, Session, Created
  <2>2. ConsentInv(r)'
    BY <1>1, <2>1, NoneIsNoValue
    DEF ConsentYes, Inv, TypeOK, ConsentInv, Created, CibaLoginRequest
  <2>3. \A s \in ConsentRequests \ {r} : consenting'[s] = consenting[s]
    BY <1>1 DEF ConsentYes, Inv, TypeOK
  <2> QED
    BY <2>2, <2>3, ConsentStays
<1>2. ASSUME NEW r \in ConsentRequests, SaveConsent(r) \/ ConsentLost(r)
      PROVE  \A s \in ConsentRequests : ConsentInv(s)'
  <2>1. consenting'[r] = None
    BY <1>2 DEF SaveConsent, ConsentLost, Inv, TypeOK
  <2>2. \A s \in ConsentRequests \ {r} : consenting'[s] = consenting[s]
    BY <1>2 DEF SaveConsent, ConsentLost, Inv, TypeOK
  <2> QED
    BY <2>1, <2>2, ConsentStays DEF ConsentInv
<1>3. ASSUME UNCHANGED consenting
      PROVE  \A s \in ConsentRequests : ConsentInv(s)'
  BY <1>3, ConsentStays
<1> QED
  BY <1>1, <1>2, <1>3
  DEF Next, vars, SignIn, SignOut, CibaLoginStart, CookieExpires, ConsentNo, Continue,
      FinishContinue, ContinueLost, Expire

\* The session of every browser but b is left alone by the actions of b.
LEMMA SessionStep ==
  ASSUME Inv, [Next]_vars, KeepsRequests
  PROVE  \A b \in Browsers : SessionInv(b)'
<1> DEFINE Others(b) ==
      \A o \in Browsers \ {b} :
        /\ session'[o] = session[o]
        /\ requestCookie'[o] = requestCookie[o]
        /\ continuing'[o] = continuing[o]
<1>1. \A b \in Browsers : Others(b) /\ SessionInv(b)' => \A o \in Browsers : SessionInv(o)'
  BY SessionStays
<1>2. \A q \in RequestIds : Created(q) =>
        /\ Created(q)' /\ loginRequests'[q].subject = loginRequests[q].subject
        /\ loginRequests[q].isComplete => loginRequests'[q].isComplete
  BY DEF KeepsRequests, Created
<1>3. \A o \in approved : o \in approved' /\ o.request \in RequestIds
  BY DEF Inv, TypeOK, Approval, KeepsRequests
<1>4. ASSUME NEW b \in Browsers, NEW c \in CredentialIds, SignIn(b, c)
      PROVE  Others(b) /\ SessionInv(b)'
  BY <1>4, <1>2 DEF SignIn, Inv, TypeOK, SessionInv
<1>5. ASSUME NEW b \in Browsers, SignOut(b)
      PROVE  Others(b) /\ SessionInv(b)'
  BY <1>5, <1>2 DEF SignOut, Inv, TypeOK, SessionInv
<1>6. ASSUME NEW b \in Browsers, NEW u \in Usernames, CibaLoginStart(b, u)
      PROVE  Others(b) /\ SessionInv(b)'
  <2>1. Others(b) /\ session'[b] = session[b] /\ continuing'[b] = continuing[b]
    BY <1>6 DEF CibaLoginStart, Inv, TypeOK
  <2>2. requestCookie'[b] # None => loginRequests'[requestCookie'[b]] # None
    <3>1. CASE requestCookie' = requestCookie
      BY <3>1, <1>2 DEF Inv, TypeOK, SessionInv, Created
    <3>2. CASE requestCookie' # requestCookie
      <4>1. PICK q \in RequestIds, s \in Subjects(u) :
              /\ loginRequests' = [loginRequests EXCEPT ![q] =
                   [subject |-> s, isComplete |-> FALSE, credential |-> None]]
              /\ requestCookie' = [requestCookie EXCEPT ![b] = q]
        BY <1>6, <3>2 DEF CibaLoginStart
      <4>2. [subject |-> s, isComplete |-> FALSE, credential |-> None] \in CibaLoginRequest
        BY DEF Subjects, CibaLoginRequest
      <4> QED
        BY <4>1, <4>2, NoneIsNoValue DEF Inv, TypeOK
    <3> QED
      BY <3>1, <3>2
  <2>3. /\ continuing[b] \in RequestIds \cup {None}
        /\ SessionInv(b)
    BY DEF Inv, TypeOK
  <2> QED
    BY <2>1, <2>2, <2>3, <1>2, <1>3 DEF SessionInv, Created
<1>7. ASSUME NEW b \in Browsers, CookieExpires(b) \/ Continue(b) \/ ContinueLost(b)
      PROVE  Others(b) /\ SessionInv(b)'
  <2>1. Others(b) /\ session'[b] = session[b]
    BY <1>7 DEF CookieExpires, Continue, ContinueLost, Inv, TypeOK
  <2>2. /\ requestCookie'[b] \in {requestCookie[b], None}
        /\ \/ continuing'[b] \in {continuing[b], None}
           \/ /\ continuing'[b] = requestCookie[b]
              /\ loginRequests[requestCookie[b]].isComplete
    BY <1>7 DEF CookieExpires, Continue, ContinueLost, Inv, TypeOK
  <2>3. /\ requestCookie[b] \in RequestIds \cup {None}
        /\ continuing[b] \in RequestIds \cup {None}
        /\ SessionInv(b)
    BY DEF Inv, TypeOK
  <2> QED
    BY <2>1, <2>2, <2>3, <1>2, <1>3 DEF SessionInv
<1>8. ASSUME NEW b \in Browsers, FinishContinue(b)
      PROVE  Others(b) /\ SessionInv(b)'
  <2>1. /\ Others(b)
        /\ requestCookie'[b] = requestCookie[b]
        /\ continuing'[b] = None
        /\ UNCHANGED <<loginRequests, approved>>
    BY <1>8 DEF FinishContinue, Inv, TypeOK
  <2>2. PICK p \in ClaimsOf(continuing[b]) :
          \/ /\ loginRequests[p].credential # None
             /\ session' = [session EXCEPT ![b] =
                  [subject |-> loginRequests[continuing[b]].subject,
                   credential |-> loginRequests[p].credential, by |-> "ciba"]]
          \/ UNCHANGED session
    BY <1>8 DEF FinishContinue
  <2>3. /\ p \in RequestIds
        /\ Created(p)
        /\ loginRequests[p].subject = loginRequests[continuing[b]].subject
        /\ RequestInv(p)
    BY DEF ClaimsOf, Created, Inv
  <2>4. CASE UNCHANGED session
    BY <2>4, <2>1, <1>2, <1>3 DEF Inv, TypeOK, SessionInv, Created
  <2>5. CASE session'[b] = [subject |-> loginRequests[continuing[b]].subject,
                            credential |-> loginRequests[p].credential, by |-> "ciba"]
             /\ loginRequests[p].credential # None
    <3> DEFINE o == [request |-> p, credential |-> loginRequests[p].credential]
    <3>1. o \in approved /\ AccountOf[o.credential] = loginRequests[p].subject
      BY <2>3, <2>5 DEF RequestInv
    <3>2. loginRequests'[p] # None /\ o \in approved'
      BY <3>1, <2>1, <2>3 DEF Created
    <3>3. requestCookie'[b] # None => loginRequests'[requestCookie'[b]] # None
      BY <2>1, <1>2 DEF Inv, TypeOK, SessionInv, Created
    <3>4. \E x \in approved' : /\ x.credential = session'[b].credential
                               /\ loginRequests'[x.request] # None
                               /\ loginRequests'[x.request].subject = session'[b].subject
      BY <3>2, <2>1, <2>3, <2>5
    <3> QED
      BY <3>1, <3>3, <3>4, <2>1, <2>3, <2>5 DEF SessionInv, Created
  <2> QED
    BY <2>2, <2>4, <2>5 DEF Inv, TypeOK
<1>9. ASSUME UNCHANGED <<session, requestCookie, continuing>>
      PROVE  \A b \in Browsers : SessionInv(b)'
  BY <1>9, SessionStays
<1> HIDE DEF Others
<1> QED
  BY <1>1, <1>4, <1>5, <1>6, <1>7, <1>8, <1>9
  DEF Next, vars, ConsentYes, ConsentNo, Expire, SaveConsent, ConsentLost

LEMMA ApprovedStep ==
  ASSUME Inv, [Next]_vars, KeepsRequests
  PROVE  ApprovedInv'
<1>1. ASSUME NEW r \in ConsentRequests, SaveConsent(r) PROVE ApprovedInv'
  <2>1. consenting[r].request \in RequestIds /\ Created(consenting[r].request)
    BY <1>1 DEF Inv, TypeOK, ConsentInv, SaveConsent, Consent
  <2> QED
    BY <1>1, <2>1
    DEF SaveConsent, Inv, TypeOK, Approval, ApprovedInv, KeepsRequests, Created
<1> QED
  BY <1>1, ApprovalsStay
  DEF Next, vars, SignIn, SignOut, CibaLoginStart, CookieExpires, ConsentYes, ConsentNo,
      Continue, FinishContinue, ContinueLost, Expire, ConsentLost

LEMMA Invariance == Spec => []Inv
<1>1. Inv /\ [Next]_vars => Inv'
  BY RequestsKept, TypeStep, RequestStep, ConsentStep, SessionStep, ApprovedStep DEF Inv
<1> QED
  BY <1>1, InitInv, PTL DEF Spec
--------------------------------------------------------------------------------
\* Documents, cookies, sessions and the requests under way keep their types.
THEOREM TypeCorrect == Spec => []TypeOK
<1>1. Inv => TypeOK
  BY DEF Inv
<1> QED
  BY <1>1, Invariance, PTL

(***************************************************************************)
(* Though OnPostContinueAsync takes the claims from any request of the     *)
(* subject, the session it makes never mixes two users.                    *)
(***************************************************************************)
THEOREM NoMixedSessions == Spec => []SessionsAreOneUsers
<1>1. Inv => SessionsAreOneUsers
  BY DEF Inv, SessionInv, SessionsAreOneUsers
<1> QED
  BY <1>1, Invariance, PTL

\* Nobody signs in by CIBA with a credential that approved none of the user's requests.
THEOREM CibaIsApproved == Spec => []CibaSessionWasApproved
<1>1. Inv => CibaSessionWasApproved
  BY DEF Inv, SessionInv, CibaSessionWasApproved
<1> QED
  BY <1>1, Invariance, PTL

\* A complete request names the credential of one of its own approvals.
THEOREM CompleteIsApproved == Spec => []CompleteWasApproved
<1>1. Inv => CompleteWasApproved
  BY DEF Inv, RequestInv, Created, CompleteWasApproved
<1> QED
  BY <1>1, Invariance, PTL
--------------------------------------------------------------------------------
\* What BackchannelLogin sees of a request.
LEMMA AbstractRequest ==
  ASSUME Inv, NEW q \in RequestIds
  PROVE  /\ Created(q) => RequestSubject[q] = loginRequests[q].subject /\ RequestSubject[q] # None
         /\ ~Created(q) => RequestSubject[q] = None
BY CibaAssumption DEF Inv, TypeOK, RequestSubject, Created, CibaLoginRequest

\* The consent of a post under way, and what becomes of them when one begins or ends.
Given(r) == [request |-> consenting[r].request, credential |-> consenting[r].saved.credential]

LEMMA AbstractConsents ==
  /\ \A r \in ConsentRequests : consenting[r] # None => Given(r) \in ConsentsGiven
  /\ \A o \in ConsentsGiven : \E r \in ConsentRequests : consenting[r] # None /\ o = Given(r)
BY DEF ConsentsGiven, Given

LEMMA ConsentBegun ==
  ASSUME NEW r \in ConsentRequests, consenting[r] = None, consenting'[r] # None,
         \A s \in ConsentRequests \ {r} : consenting'[s] = consenting[s]
  PROVE  ConsentsGiven' = ConsentsGiven \cup {Given(r)'}
<1>1. /\ \A s \in ConsentRequests : consenting'[s] # None => Given(s)' \in ConsentsGiven'
      /\ \A o \in ConsentsGiven' : \E s \in ConsentRequests : consenting'[s] # None /\ o = Given(s)'
  BY DEF ConsentsGiven, Given
<1>2. \A s \in ConsentRequests \ {r} : Given(s)' = Given(s)
  BY DEF Given
<1> QED
  BY <1>1, <1>2, AbstractConsents

LEMMA ConsentEnded ==
  ASSUME NEW r \in ConsentRequests, consenting[r] # None, consenting'[r] = None,
         \A s \in ConsentRequests \ {r} : consenting'[s] = consenting[s]
  PROVE  /\ Given(r) \in ConsentsGiven
         /\ ConsentsGiven' = ConsentsGiven \/ ConsentsGiven' = ConsentsGiven \ {Given(r)}
<1>1. /\ \A s \in ConsentRequests : consenting'[s] # None => Given(s)' \in ConsentsGiven'
      /\ \A o \in ConsentsGiven' : \E s \in ConsentRequests : consenting'[s] # None /\ o = Given(s)'
  BY DEF ConsentsGiven, Given
<1>2. \A s \in ConsentRequests \ {r} : Given(s)' = Given(s)
  BY DEF Given
<1>3. CASE \E s \in ConsentRequests \ {r} : consenting[s] # None /\ Given(s) = Given(r)
  BY <1>1, <1>2, <1>3, AbstractConsents
<1>4. CASE ~ \E s \in ConsentRequests \ {r} : consenting[s] # None /\ Given(s) = Given(r)
  BY <1>1, <1>2, <1>4, AbstractConsents
<1> QED
  BY <1>3, <1>4, AbstractConsents

LEMMA AskRefines ==
  ASSUME Inv, NEW b \in Browsers, NEW u \in Usernames, CibaLoginStart(b, u)
  PROVE  B!Next
<1>1. PICK q \in RequestIds, s \in AccountIds \cup {Nobody}, l \in CibaLoginRequest :
        /\ ~Created(q)
        /\ l.subject = s
        /\ loginRequests' = [loginRequests EXCEPT ![q] = l]
  <2>1. PICK q \in RequestIds, s \in Subjects(u) :
          /\ ~Created(q)
          /\ loginRequests' = [loginRequests EXCEPT ![q] =
               [subject |-> s, isComplete |-> FALSE, credential |-> None]]
    BY DEF CibaLoginStart, Created
  <2>2. s \in AccountIds \cup {Nobody}
    BY DEF Subjects
  <2>3. [subject |-> s, isComplete |-> FALSE, credential |-> None] \in CibaLoginRequest
    BY <2>2 DEF CibaLoginRequest
  <2> QED
    BY <2>1, <2>2, <2>3
<1>2. l # None
  BY NoneIsNoValue
<1>3. RequestSubject'[q] = s
  BY <1>1, <1>2 DEF RequestSubject, Inv, TypeOK
<1>4. RequestSubject' = [RequestSubject EXCEPT ![q] = s]
  <2>1. \A p \in RequestIds \ {q} : RequestSubject'[p] = RequestSubject[p]
    BY <1>1 DEF RequestSubject, Inv, TypeOK
  <2>2. /\ RequestSubject = [p \in RequestIds |-> RequestSubject[p]]
        /\ RequestSubject' = [p \in RequestIds |-> RequestSubject'[p]]
    BY DEF RequestSubject
  <2> QED
    BY <1>3, <2>1, <2>2
<1>5. RequestSubject[q] = None
  BY <1>1, AbstractRequest
<1>6. UNCHANGED <<ConsentsGiven, approved, session>>
  BY DEF CibaLoginStart, ConsentsGiven
<1>7. B!Ask(q, s)
  BY <1>4, <1>5, <1>6 DEF B!Ask
<1> QED
  BY <1>7 DEF B!Next

LEMMA ConsentRefines ==
  ASSUME Inv, NEW b \in Browsers, NEW q \in RequestIds, NEW r \in ConsentRequests,
         ConsentYes(b, q, r)
  PROVE  B!Next
<1>1. /\ session[b] # None /\ session[b] \in Session
      /\ session[b].subject = loginRequests[q].subject
      /\ Created(q) /\ loginRequests[q] \in CibaLoginRequest
  BY DEF ConsentYes, MayDecide, Inv, TypeOK, Created
<1>2. RequestSubject[q] = session[b].subject
  BY <1>1, AbstractRequest
<1>3. PICK saved \in CibaLoginRequest :
        /\ saved.credential = session[b].credential
        /\ consenting' = [consenting EXCEPT ![r] = [request |-> q, saved |-> saved]]
  <2> DEFINE saved == [loginRequests[q] EXCEPT !.isComplete = TRUE,
                                               !.credential = session[b].credential]
  <2>1. saved \in CibaLoginRequest
    BY <1>1, CompletedRequest, Zenon DEF Session
  <2>2. saved.credential = session[b].credential
    BY <1>1 DEF CibaLoginRequest
  <2> QED
    BY <2>1, <2>2 DEF ConsentYes
<1>4. /\ consenting'[r] = [request |-> q, saved |-> saved]
      /\ \A s \in ConsentRequests \ {r} : consenting'[s] = consenting[s]
  BY <1>3 DEF Inv, TypeOK
<1>5. consenting[r] = None /\ consenting'[r] # None
  BY <1>4, NoneIsNoValue DEF ConsentYes, Consent
<1>6. Given(r)' = [request |-> q, credential |-> session[b].credential]
  BY <1>1, <1>3, <1>4 DEF Given
<1>7. ConsentsGiven' = ConsentsGiven \cup {Given(r)'}
  BY <1>4, <1>5, ConsentBegun
<1>8. UNCHANGED <<RequestSubject, approved, session>>
  BY DEF ConsentYes, RequestSubject
<1>9. B!Consent(b, q)
  BY <1>1, <1>2, <1>6, <1>7, <1>8 DEF B!Consent
<1> QED
  BY <1>9 DEF B!Next

LEMMA EndRefines ==
  ASSUME Inv, NEW r \in ConsentRequests, SaveConsent(r) \/ ConsentLost(r)
  PROVE  B!Next
<1>1. /\ consenting[r] # None /\ consenting'[r] = None
      /\ \A s \in ConsentRequests \ {r} : consenting'[s] = consenting[s]
  BY DEF SaveConsent, ConsentLost, Inv, TypeOK
<1>2. UNCHANGED session
  BY DEF SaveConsent, ConsentLost
<1>3. UNCHANGED RequestSubject
  <2>1. CASE SaveConsent(r)
    <3>1. /\ consenting[r].request \in RequestIds
          /\ consenting[r].saved # None
          /\ Created(consenting[r].request)
          /\ consenting[r].saved.subject = loginRequests[consenting[r].request].subject
      BY <2>1, NoneIsNoValue DEF Inv, TypeOK, ConsentInv, SaveConsent, Consent
    <3> QED
      BY <2>1, <3>1 DEF SaveConsent, RequestSubject, Created, Inv, TypeOK
  <2>2. CASE ConsentLost(r)
    BY <2>2 DEF ConsentLost, RequestSubject
  <2> QED
    BY <2>1, <2>2
<1>4. B!Ends(Given(r))
  BY <1>1, <1>2, <1>3, ConsentEnded DEF B!Ends
<1>5. B!Save(Given(r)) \/ B!Lose(Given(r))
  BY <1>4 DEF SaveConsent, ConsentLost, Given, B!Save, B!Lose
<1>6. Given(r) \in ConsentsGiven
  BY <1>1, AbstractConsents
<1> QED
  BY <1>5, <1>6 DEF B!Next

\* Whoever continues was granted an approved request and is the subject of another's claims.
LEMMA FinishRefines ==
  ASSUME Inv, NEW b \in Browsers, FinishContinue(b)
  PROVE  B!Next \/ UNCHANGED B!vars
<1>1. PICK q \in RequestIds : q = continuing[b] /\ Created(q) /\ loginRequests[q].isComplete
  BY DEF FinishContinue, Inv, TypeOK, SessionInv
<1>2. PICK p \in ClaimsOf(q) :
        \/ /\ loginRequests[p].credential # None
           /\ session' = [session EXCEPT ![b] =
                [subject |-> loginRequests[q].subject,
                 credential |-> loginRequests[p].credential, by |-> "ciba"]]
        \/ UNCHANGED session
  BY <1>1 DEF FinishContinue
<1>3. UNCHANGED <<RequestSubject, ConsentsGiven, approved>>
  BY DEF FinishContinue, RequestSubject, ConsentsGiven
<1>4. CASE UNCHANGED session
  BY <1>3, <1>4 DEF B!vars
<1>5. CASE /\ loginRequests[p].credential # None
           /\ session' = [session EXCEPT ![b] =
                [subject |-> loginRequests[q].subject,
                 credential |-> loginRequests[p].credential, by |-> "ciba"]]
  <2>1. /\ p \in RequestIds /\ Created(p)
        /\ loginRequests[p].subject = loginRequests[q].subject
        /\ loginRequests[p] \in CibaLoginRequest
        /\ loginRequests[q] \in CibaLoginRequest
    BY <1>1 DEF ClaimsOf, Created, Inv, TypeOK
  <2>2. /\ [request |-> p, credential |-> loginRequests[p].credential] \in approved
        /\ [request |-> q, credential |-> loginRequests[q].credential] \in approved
    BY <1>1, <1>5, <2>1 DEF Inv, RequestInv
  <2>3. RequestSubject[p] = RequestSubject[q] /\ RequestSubject[q] = loginRequests[q].subject
    BY <1>1, <2>1, AbstractRequest
  <2>4. B!Approved(q) # {}
    BY <2>2 DEF B!Approved
  <2>5. B!Accept(b, q)
    BY <1>3, <1>5, <2>2, <2>3, <2>4 DEF B!Accept
  <2> QED
    BY <2>5 DEF B!Next
<1> QED
  BY <1>2, <1>4, <1>5

LEMMA SessionRefines ==
  ASSUME Inv, NEW b \in Browsers, SignOut(b) \/ \E c \in CredentialIds : SignIn(b, c)
  PROVE  B!Next
<1>1. UNCHANGED <<RequestSubject, ConsentsGiven, approved>>
  BY DEF SignOut, SignIn, RequestSubject, ConsentsGiven
<1> QED
  BY <1>1 DEF SignOut, SignIn, B!SignOut, B!SignIn, B!Next

LEMMA BackchannelStep == Inv /\ [Next]_vars => [B!Next]_(B!vars)
<1> SUFFICES ASSUME Inv, [Next]_vars
             PROVE  B!Next \/ UNCHANGED B!vars
  OBVIOUS
<1>1. ASSUME UNCHANGED <<loginRequests, session, consenting, approved>>
      PROVE  UNCHANGED B!vars
  BY <1>1 DEF B!vars, RequestSubject, ConsentsGiven
<1>2. ASSUME NEW b \in Browsers,
             \/ CookieExpires(b) \/ Continue(b) \/ ContinueLost(b)
             \/ \E q \in RequestIds : ConsentNo(b, q)
      PROVE  UNCHANGED B!vars
  BY <1>1, <1>2 DEF CookieExpires, Continue, ContinueLost, ConsentNo, vars
<1>3. ASSUME NEW q \in RequestIds, Expire(q)
      PROVE  UNCHANGED B!vars
  BY <1>1, <1>3 DEF Expire
<1>4. ASSUME UNCHANGED vars
      PROVE  UNCHANGED B!vars
  BY <1>1, <1>4 DEF vars
<1> QED
  BY <1>2, <1>3, <1>4, AskRefines, ConsentRefines, EndRefines, FinishRefines, SessionRefines
  DEF Next

LEMMA BackchannelInit == Init => B!Init
  BY DEF Init, B!Init, RequestSubject, ConsentsGiven

(***************************************************************************)
(* Whatever consents overlap, cookies are replaced and claims come from    *)
(* another request, browsers are signed in as BackchannelLogin allows: by  *)
(* approvals that sessions of the same subject gave.                       *)
(***************************************************************************)
THEOREM BackchannelLoginIsImplemented == Spec => ImplementsBackchannelLogin
<1> QED
  BY BackchannelInit, BackchannelStep, Invariance, PTL
  DEF Spec, ImplementsBackchannelLogin, B!Spec
================================================================================
