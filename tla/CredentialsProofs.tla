---------------------------- MODULE CredentialsProofs ----------------------------
(***************************************************************************)
(* Proofs, for any number of browsers, requests, credentials and accounts, *)
(* of the invariants of Credentials.                                       *)
(***************************************************************************)
EXTENDS Credentials, FiniteSetTheorems, TLAPS

(***************************************************************************)
(* What is written later was read earlier: counters carried by requests    *)
(* and by assertions obey the bound the stored ones obey.                  *)
(***************************************************************************)
CountersInFlight ==
  /\ \A c \in Counterless : signCounts[c] = 0
  /\ \A c \in CredentialIds : FirstCounter[c] <= signCounts[c]
  /\ \A b \in Browsers : assertion[b] # None =>
       assertion[b].counter <= signCounts[assertion[b].credential]
  /\ \A r \in LoginRequests : Saving(r) =>
       loggingIn[r].counter <= signCounts[loggingIn[r].credential]
  /\ \A r \in DeviceRequests : editing[r] # None =>
       editing[r].saved.counter <= signCounts[editing[r].credential]

CounterInv == CounterBehindAuthenticator /\ CountersInFlight

(***************************************************************************)
(* Every document a request may write back has an owner a registration     *)
(* stored it with, and so has every login to be answered.                  *)
(***************************************************************************)
OwnersBacked ==
  /\ \A c \in CredentialIds : Exists(c) => Owner(c, credentials[c]) \in registered
  /\ \A r \in LoginRequests : Saving(r) =>
       Owner(loggingIn[r].credential, loggingIn[r].read) \in registered
  /\ \A r \in LoginRequests : Saved(r) =>
       loggingIn[r].owner \in registered
  /\ \A r \in DeviceRequests : editing[r] # None =>
       Owner(editing[r].credential, editing[r].saved) \in registered

OwnerInv == SessionIsBacked /\ OwnersBacked

\* A login request before its save, and after it.
LEMMA SavingIs ==
  ASSUME LoginTypeOK, NEW r \in LoginRequests
  PROVE  /\ Saving(r) => loggingIn[r] \in LoginRequest
         /\ Saved(r) => loggingIn[r] \in LoginResponse
BY DEF LoginTypeOK, LoginRequest, LoginResponse, Saving, Saved

\* What a registration has saved when it is at a later stage.
SavedSoFar(request) ==
  /\ request.stage \in {"attestation", "account"} =>
       \E o \in registered : o.account = request.account
                             /\ o.credential = request.credential
  /\ request.stage = "account" => request.credential \in attestations

AccountInv ==
  /\ AccountFollowsCredential
  /\ \A r \in RegistrationRequests : registering[r] # None => SavedSoFar(registering[r])
--------------------------------------------------------------------------------
LEMMA InitTypeOK == Init => TypeOK
  BY FirstCounterAssumption
  DEF Init, TypeOK, StoreInit, StoreTypeOK, RegistrationInit, RegistrationTypeOK,
      LoginInit, LoginTypeOK, DevicesInit, DevicesTypeOK, Counters

LEMMA RegistrationTypes ==
  ASSUME TypeOK, RegistrationNext, UNCHANGED <<loginVars, editing>>
  PROVE  TypeOK'
<1> USE DEF TypeOK, StoreTypeOK, RegistrationTypeOK, LoginTypeOK, DevicesTypeOK,
            storeVars, loginVars
<1>1. ASSUME NEW b \in Browsers, NEW u \in Usernames, RegistrationStart(b, u)
      PROVE  TypeOK'
  BY <1>1 DEF RegistrationStart, CreateOptions
<1>2. ASSUME NEW b \in Browsers, AddNewDeviceStart(b)
      PROVE  TypeOK'
  BY <1>2 DEF AddNewDeviceStart, CreateOptions, Session
<1>3. ASSUME NEW b \in Browsers, RegistrationCookieLost(b)
      PROVE  TypeOK'
  BY <1>3 DEF RegistrationCookieLost
<1>4. ASSUME NEW b \in Browsers, NEW r \in RegistrationRequests,
             RegistrationComplete(b, r)
      PROVE  TypeOK'
  BY <1>4 DEF RegistrationComplete, RegistrationRequest, CreateOptions
<1>5. ASSUME NEW b \in Browsers, NEW r \in RegistrationRequests,
             AddNewDeviceComplete(b, r)
      PROVE  TypeOK'
  BY <1>5 DEF AddNewDeviceComplete, RegistrationRequest, CreateOptions, Session
<1>6. ASSUME NEW r \in RegistrationRequests, SaveCredential(r)
      PROVE  TypeOK'
  <2> DEFINE request == registering[r]
             doc == NewCredential(request)
  <2>1. request \in RegistrationRequest
    BY <1>6 DEF SaveCredential
  <2>2. doc \in CredentialDoc
    BY <2>1, FirstCounterAssumption DEF NewCredential, RegistrationRequest, CredentialDoc
  <2>3. Owner(request.credential, doc) \in Session
    BY <2>1, <2>2 DEF Owner, Session, RegistrationRequest, CredentialDoc
  <2>4. CASE CreateCredential(request.credential, doc) /\ Advance(r, "attestation")
    <3>1. [request EXCEPT !.stage = "attestation"] \in RegistrationRequest
      BY <2>1 DEF RegistrationRequest
    <3> HIDE DEF request, doc
    <3>2. credentials' \in [CredentialIds -> CredentialDoc \cup {None}]
      BY <2>2, <2>4 DEF CreateCredential
    <3>3. registered' \subseteq Session
      BY <2>3, <2>4 DEF CreateCredential
    <3>4. registering' \in [RegistrationRequests -> RegistrationRequest \cup {None}]
      BY <2>4, <3>1 DEF Advance, request
    <3> QED
      BY <1>6, <2>4, <3>2, <3>3, <3>4 DEF SaveCredential, Advance
  <2>5. CASE Answer(r) /\ UNCHANGED <<credentials, registered>>
    BY <1>6, <2>5 DEF SaveCredential, Answer, DropCookie
  <2> QED
    BY <1>6, <2>4, <2>5 DEF SaveCredential
<1>7. ASSUME NEW r \in RegistrationRequests, SaveAttestation(r)
      PROVE  TypeOK'
  BY <1>7 DEF SaveAttestation, Advance, Answer, DropCookie, RegistrationRequest
<1>8. ASSUME NEW r \in RegistrationRequests, SaveAccount(r)
      PROVE  TypeOK'
  <2>1. SavedAccount(registering[r]) \in AccountDoc
    <3> DEFINE request == registering[r]
    <3>1. request.username \in Usernames /\ request.read \in AccountDoc \cup {None}
      BY <1>8 DEF SaveAccount, RegistrationRequest
    <3>2. CASE request.read = None
      BY <3>1, <3>2 DEF SavedAccount, AccountDoc, DeviceCounts
    <3>3. CASE request.read # None
      <4>1. request.read \in AccountDoc
        BY <3>1, <3>3
      <4> QED
        BY <3>3, <4>1 DEF SavedAccount, AccountDoc, DeviceCounts
    <3> QED
      BY <3>2, <3>3
  <2>2. accounts' \in [AccountIds -> AccountDoc \cup {None}]
    BY <1>8, <2>1 DEF SaveAccount, RegistrationRequest
  <2> QED
    BY <1>8, <2>2 DEF SaveAccount, Answer, DropCookie
<1>9. ASSUME NEW r \in RegistrationRequests, RegistrationInterrupted(r)
      PROVE  TypeOK'
  BY <1>9 DEF RegistrationInterrupted, Answer, DropCookie
<1> QED
  BY <1>1, <1>2, <1>3, <1>4, <1>5, <1>6, <1>7, <1>8, <1>9 DEF RegistrationNext

LEMMA LoginTypes ==
  ASSUME TypeOK, LoginNext, UNCHANGED <<registrationVars, editing>>
  PROVE  TypeOK'
<1> USE DEF TypeOK, StoreTypeOK, RegistrationTypeOK, LoginTypeOK, DevicesTypeOK,
            storeVars, registrationVars
<1>1. ASSUME NEW b \in Browsers, NEW u \in LoginNames, LoginStart(b, u)
      PROVE  TypeOK'
  BY <1>1 DEF LoginStart, AssertionOptions
<1>2. ASSUME NEW b \in Browsers, NEW c \in CredentialIds, Sign(b, c)
      PROVE  TypeOK'
  BY <1>2, MaxCounterAssumption DEF Sign, Assertion, Counters
<1>3. ASSUME NEW b \in Browsers, LoginCookieLost(b)
      PROVE  TypeOK'
  BY <1>3 DEF LoginCookieLost
<1>4. ASSUME NEW b \in Browsers, NEW r \in LoginRequests, LoginComplete(b, r)
      PROVE  TypeOK'
  BY <1>4 DEF LoginComplete, LoginRequest, Assertion, Exists
<1>5. ASSUME NEW r \in LoginRequests, SaveLogin(r)
      PROVE  TypeOK'
  <2> DEFINE request == loggingIn[r]
             doc == [request.read EXCEPT !.counter = request.counter]
             response == [stage |-> "signIn", browser |-> request.browser,
                          owner |-> Owner(request.credential, request.read)]
  <2>1. request \in LoginRequest
    BY <1>5, SavingIs DEF SaveLogin
  <2>2. doc \in CredentialDoc /\ response \in LoginResponse
    BY <2>1 DEF LoginRequest, LoginResponse, CredentialDoc, Owner, Session
  <2>3. /\ loggingIn' = [loggingIn EXCEPT ![r] = response]
        /\ credentials' = [credentials EXCEPT ![request.credential] = doc]
    BY <1>5 DEF SaveLogin, Respond, ReplaceCredential
  <2> HIDE DEF doc, response
  <2> QED
    BY <1>5, <2>2, <2>3 DEF SaveLogin, ReplaceCredential
<1>6. ASSUME NEW r \in LoginRequests, SignIn(r)
      PROVE  TypeOK'
  <2>1. loggingIn[r].owner \in Session
    BY <1>6, SavingIs DEF SignIn, LoginResponse
  <2> QED
    BY <1>6, <2>1 DEF SignIn
<1>7. ASSUME NEW r \in LoginRequests, LoginFails(r)
      PROVE  TypeOK'
  BY <1>7 DEF LoginFails
<1> QED
  BY <1>1, <1>2, <1>3, <1>4, <1>5, <1>6, <1>7 DEF LoginNext

LEMMA DeviceTypes ==
  ASSUME TypeOK, DevicesNext, UNCHANGED <<registrationVars, loginVars>>
  PROVE  TypeOK'
<1> USE DEF TypeOK, StoreTypeOK, RegistrationTypeOK, LoginTypeOK, DevicesTypeOK,
            storeVars, registrationVars, loginVars
<1>1. ASSUME NEW r \in DeviceRequests, NEW b \in Browsers, NEW c \in CredentialIds,
             \/ ChangeDeviceStatus(b, c, r)
             \/ DeleteDevice(b, c, r)
             \/ \E status \in BOOLEAN : UpdateDevice(b, c, status, r)
      PROVE  TypeOK'
  <2>1. PICK op \in {"replace", "delete"}, doc \in CredentialDoc : Begin(r, op, c, doc)
    <3>1. credentials[c] \in CredentialDoc
      BY <1>1 DEF ChangeDeviceStatus, DeleteDevice, UpdateDevice, OwnedBy, Exists
    <3>2. /\ [credentials[c] EXCEPT !.enabled = ~@] \in CredentialDoc
          /\ \A status \in BOOLEAN :
               [credentials[c] EXCEPT !.enabled = status] \in CredentialDoc
      BY <3>1 DEF CredentialDoc
    <3> QED
      BY <1>1, <3>1, <3>2 DEF ChangeDeviceStatus, DeleteDevice, UpdateDevice
  <2>2. [op |-> op, credential |-> c, saved |-> doc] \in DeviceRequest
    BY DEF DeviceRequest
  <2> QED
    BY <2>1, <2>2 DEF Begin
<1>2. ASSUME NEW r \in DeviceRequests, SaveDevice(r)
      PROVE  TypeOK'
  BY <1>2 DEF SaveDevice, ReplaceCredential, DeleteCredential, DeviceRequest
<1>3. ASSUME NEW r \in DeviceRequests, DeviceFails(r)
      PROVE  TypeOK'
  BY <1>3 DEF DeviceFails
<1> QED
  BY <1>1, <1>2, <1>3 DEF DevicesNext

LEMMA NextTypeOK == TypeOK /\ [Next]_vars => TypeOK'
<1> SUFFICES ASSUME TypeOK, [Next]_vars
             PROVE  TypeOK'
  OBVIOUS
<1>1. CASE \E b \in Browsers : Logout(b) /\ UNCHANGED <<registrationVars, loginVars, editing>>
  BY <1>1 DEF Logout, TypeOK, StoreTypeOK, RegistrationTypeOK, LoginTypeOK,
              DevicesTypeOK, registrationVars, loginVars
<1>2. CASE UNCHANGED vars
  BY <1>2 DEF vars, storeVars, registrationVars, loginVars, TypeOK, StoreTypeOK,
              RegistrationTypeOK, LoginTypeOK, DevicesTypeOK
<1> QED
  BY <1>1, <1>2, RegistrationTypes, LoginTypes, DeviceTypes DEF Next

(***************************************************************************)
(* Type correctness of every document, cookie, session and request.        *)
(***************************************************************************)
THEOREM TypeCorrect == Spec => []TypeOK
<1> QED
  BY InitTypeOK, NextTypeOK, PTL DEF Spec
--------------------------------------------------------------------------------
(***************************************************************************)
(* The only steps that write a credential create it with the counter it    *)
(* was minted with, replace it by a document in flight, or delete it.      *)
(***************************************************************************)
LEMMA RegistrationWrites ==
  ASSUME RegistrationNext, TypeOK
  PROVE  /\ UNCHANGED <<signCounts, session>>
         /\ registered \subseteq registered'
         /\ attestations \subseteq attestations'
         /\ \A c \in CredentialIds : credentials'[c] # credentials[c] =>
              /\ credentials'[c].counter = FirstCounter[c]
              /\ Owner(c, credentials'[c]) \in registered'
<1> USE DEF TypeOK, StoreTypeOK, RegistrationTypeOK, storeVars
<1>1. ASSUME NEW r \in RegistrationRequests, SaveCredential(r)
      PROVE  \A c \in CredentialIds : credentials'[c] # credentials[c] =>
               /\ credentials'[c].counter = FirstCounter[c]
               /\ Owner(c, credentials'[c]) \in registered'
  <2> DEFINE request == registering[r]
  <2>1. CASE CreateCredential(request.credential, NewCredential(request))
    BY <1>1, <2>1 DEF CreateCredential, NewCredential
  <2>2. CASE UNCHANGED credentials
    BY <2>2
  <2> QED
    BY <1>1, <2>1, <2>2 DEF SaveCredential
<1>2. ASSUME NEW r \in RegistrationRequests, SaveCredential(r)
      PROVE  /\ UNCHANGED <<signCounts, session, attestations>>
             /\ registered \subseteq registered'
  BY <1>2 DEF SaveCredential, CreateCredential
<1>3. ASSUME NEW r \in RegistrationRequests,
             SaveAttestation(r) \/ SaveAccount(r) \/ RegistrationInterrupted(r)
      PROVE  /\ UNCHANGED <<signCounts, session, registered, credentials>>
             /\ attestations \subseteq attestations'
  BY <1>3 DEF SaveAttestation, SaveAccount, RegistrationInterrupted
<1>4. ASSUME NEW b \in Browsers,
             \/ \E u \in Usernames : RegistrationStart(b, u)
             \/ AddNewDeviceStart(b)
             \/ RegistrationCookieLost(b)
             \/ \E r \in RegistrationRequests :
                  RegistrationComplete(b, r) \/ AddNewDeviceComplete(b, r)
      PROVE  UNCHANGED <<signCounts, session, registered, credentials, attestations>>
  BY <1>4 DEF RegistrationStart, AddNewDeviceStart, RegistrationCookieLost,
              RegistrationComplete, AddNewDeviceComplete
<1> QED
  BY <1>1, <1>2, <1>3, <1>4 DEF RegistrationNext

LEMMA InitCounterInv == Init => CounterInv
<1>1. \A c \in CredentialIds : FirstCounter[c] \in Nat
  BY FirstCounterAssumption DEF Counters
<1> QED
  BY <1>1, NoLoginAssumption
     DEF Init, StoreInit, LoginInit, DevicesInit, CounterInv, CounterBehindAuthenticator,
         CountersInFlight, Exists, Saving, Saved

LEMMA NextCounterInv == TypeOK /\ CounterInv /\ [Next]_vars => CounterInv'
<1> SUFFICES ASSUME TypeOK, CounterInv, [Next]_vars
             PROVE  CounterInv'
  OBVIOUS
<1> USE DEF CounterInv, CounterBehindAuthenticator, CountersInFlight, Exists, Saving, Saved
<1>0. \A c \in CredentialIds : FirstCounter[c] \in Nat
  BY FirstCounterAssumption DEF Counters
<1>1. CASE RegistrationNext /\ UNCHANGED <<loginVars, editing>>
  BY <1>1, RegistrationWrites DEF loginVars
<1>2. CASE LoginNext /\ UNCHANGED <<registrationVars, editing>>
  <2> USE DEF TypeOK, StoreTypeOK, LoginTypeOK, DevicesTypeOK, storeVars
  <2>1. ASSUME NEW b \in Browsers, NEW u \in LoginNames, LoginStart(b, u)
        PROVE  CounterInv'
    BY <1>2, <2>1 DEF LoginStart
  <2>2. ASSUME NEW b \in Browsers, NEW c \in CredentialIds, Sign(b, c)
        PROVE  CounterInv'
    <3> DEFINE count == IF c \in Counterless THEN 0 ELSE signCounts[c] + 1
    <3>1. /\ signCounts' = [signCounts EXCEPT ![c] = count]
          /\ assertion' = [assertion EXCEPT ![b] = [credential |-> c, counter |-> count]]
          /\ UNCHANGED <<credentials, loggingIn, editing>>
      BY <1>2, <2>2 DEF Sign
    <3>2. \A d \in CredentialIds : signCounts[d] \in Nat /\ signCounts'[d] \in Nat
                                   /\ signCounts[d] <= signCounts'[d]
      BY <3>1, MaxCounterAssumption DEF Counters
    <3>3. \A d \in Counterless : signCounts'[d] = 0
      BY <3>1
    <3>4. /\ \A d \in CredentialIds : credentials[d] # None => credentials[d].counter \in Nat
          /\ \A p \in Browsers : assertion[p] # None =>
               assertion[p].counter \in Nat /\ assertion[p].credential \in CredentialIds
          /\ \A r \in LoginRequests : Saving(r) =>
               loggingIn[r].counter \in Nat /\ loggingIn[r].credential \in CredentialIds
          /\ \A r \in DeviceRequests : editing[r] # None =>
               editing[r].saved.counter \in Nat /\ editing[r].credential \in CredentialIds
      BY MaxCounterAssumption, SavingIs
      DEF Counters, CredentialDoc, Assertion, LoginRequest, DeviceRequest
    <3>5. \A p \in Browsers : assertion'[p] # None =>
            assertion'[p].counter <= signCounts'[assertion'[p].credential]
      BY <3>1, <3>2, <3>4
    <3> HIDE DEF count
    <3> QED
      BY <1>0, <3>1, <3>2, <3>3, <3>4, <3>5
  <2>3. ASSUME NEW b \in Browsers, LoginCookieLost(b)
        PROVE  CounterInv'
    BY <1>2, <2>3 DEF LoginCookieLost
  <2>4. ASSUME NEW b \in Browsers, NEW r \in LoginRequests, LoginComplete(b, r)
        PROVE  CounterInv'
    BY <1>2, <2>4 DEF LoginComplete
  <2>5. ASSUME NEW r \in LoginRequests, SaveLogin(r)
        PROVE  CounterInv'
    <3>1. [loggingIn[r].read EXCEPT !.counter = loggingIn[r].counter].counter
            = loggingIn[r].counter
      BY <2>5, SavingIs DEF SaveLogin, LoginRequest, CredentialDoc
    <3>2. /\ loggingIn'[r].stage = "signIn"
          /\ \A q \in LoginRequests : q # r => loggingIn'[q] = loggingIn[q]
      BY <2>5 DEF SaveLogin, Respond
    <3> QED
      BY <1>2, <2>5, <3>1, <3>2 DEF SaveLogin, ReplaceCredential
  <2>6. ASSUME NEW r \in LoginRequests, SignIn(r) \/ LoginFails(r)
        PROVE  CounterInv'
    BY <1>2, <2>6 DEF SignIn, LoginFails
  <2> QED
    BY <1>2, <2>1, <2>2, <2>3, <2>4, <2>5, <2>6 DEF LoginNext
<1>3. CASE DevicesNext /\ UNCHANGED <<registrationVars, loginVars>>
  <2> USE DEF TypeOK, StoreTypeOK, DevicesTypeOK, storeVars, loginVars
  <2>1. ASSUME NEW r \in DeviceRequests, NEW b \in Browsers, NEW c \in CredentialIds,
               \/ ChangeDeviceStatus(b, c, r)
               \/ DeleteDevice(b, c, r)
               \/ \E status \in BOOLEAN : UpdateDevice(b, c, status, r)
        PROVE  CounterInv'
    BY <1>3, <2>1 DEF ChangeDeviceStatus, DeleteDevice, UpdateDevice, OwnedBy, Begin,
                      CredentialDoc
  <2>2. ASSUME NEW r \in DeviceRequests, SaveDevice(r)
        PROVE  CounterInv'
    BY <1>3, <2>2 DEF SaveDevice, ReplaceCredential, DeleteCredential
  <2>3. ASSUME NEW r \in DeviceRequests, DeviceFails(r)
        PROVE  CounterInv'
    BY <1>3, <2>3 DEF DeviceFails
  <2> QED
    BY <1>3, <2>1, <2>2, <2>3 DEF DevicesNext
<1>4. CASE \E b \in Browsers : Logout(b) /\ UNCHANGED <<registrationVars, loginVars, editing>>
  BY <1>4 DEF Logout, loginVars
<1>5. CASE UNCHANGED vars
  BY <1>5 DEF vars, storeVars, loginVars
<1> QED
  BY <1>1, <1>2, <1>3, <1>4, <1>5 DEF Next

(***************************************************************************)
(* No interleaving of logins, edits and registrations stores a counter     *)
(* ahead of the authenticator's, so none locks a genuine one out.          *)
(***************************************************************************)
THEOREM CountersStayBehind == Spec => []CounterBehindAuthenticator
<1>1. Init => TypeOK /\ CounterInv
  BY InitTypeOK, InitCounterInv
<1>2. TypeOK /\ CounterInv /\ [Next]_vars => TypeOK' /\ CounterInv'
  BY NextTypeOK, NextCounterInv
<1>3. CounterInv => CounterBehindAuthenticator
  BY DEF CounterInv
<1> QED
  BY <1>1, <1>2, <1>3, PTL DEF Spec
--------------------------------------------------------------------------------
LEMMA InitOwnerInv == Init => OwnerInv
  BY DEF Init, StoreInit, LoginInit, DevicesInit, OwnerInv, SessionIsBacked,
         OwnersBacked, Exists, Saving, Saved

LEMMA NextOwnerInv == TypeOK /\ OwnerInv /\ [Next]_vars => OwnerInv'
<1> SUFFICES ASSUME TypeOK, OwnerInv, [Next]_vars
             PROVE  OwnerInv'
  OBVIOUS
<1> USE DEF OwnerInv, SessionIsBacked, OwnersBacked, Exists, Saving, Saved
<1>1. CASE RegistrationNext /\ UNCHANGED <<loginVars, editing>>
  <2>1. /\ UNCHANGED session
        /\ registered \subseteq registered'
        /\ \A c \in CredentialIds : credentials'[c] # credentials[c] =>
             Owner(c, credentials'[c]) \in registered'
    BY <1>1, RegistrationWrites
  <2> QED
    BY <1>1, <2>1 DEF loginVars, Owner
<1>2. CASE LoginNext /\ UNCHANGED <<registrationVars, editing>>
  <2> USE DEF TypeOK, StoreTypeOK, LoginTypeOK, DevicesTypeOK, storeVars
  <2>1. ASSUME NEW b \in Browsers,
               \/ \E u \in LoginNames : LoginStart(b, u)
               \/ \E c \in CredentialIds : Sign(b, c)
               \/ LoginCookieLost(b)
        PROVE  OwnerInv'
    BY <1>2, <2>1 DEF LoginStart, Sign, LoginCookieLost, Owner
  <2>2. ASSUME NEW b \in Browsers, NEW r \in LoginRequests, LoginComplete(b, r)
        PROVE  OwnerInv'
    BY <1>2, <2>2 DEF LoginComplete, Owner, LoginRequest, Assertion
  <2>3. ASSUME NEW r \in LoginRequests, SaveLogin(r)
        PROVE  OwnerInv'
    <3> DEFINE request == loggingIn[r]
               doc == [request.read EXCEPT !.counter = request.counter]
    <3>1. request \in LoginRequest
      BY <2>3, SavingIs DEF SaveLogin
    <3>2. Owner(request.credential, doc) = Owner(request.credential, request.read)
      BY <3>1 DEF Owner, LoginRequest, CredentialDoc
    <3>3. Owner(request.credential, request.read) \in registered
      BY <2>3 DEF SaveLogin
    <3>4. /\ credentials' = [credentials EXCEPT ![request.credential] = doc]
          /\ registered' = registered
          /\ loggingIn'[r].stage = "signIn"
          /\ loggingIn'[r].owner = Owner(request.credential, request.read)
          /\ \A q \in LoginRequests : q # r => loggingIn'[q] = loggingIn[q]
          /\ UNCHANGED session
      BY <2>3 DEF SaveLogin, Respond, ReplaceCredential
    <3> HIDE DEF request, doc
    <3>5. \A c \in CredentialIds : Owner(c, credentials'[c]) =
            IF c = request.credential THEN Owner(c, doc) ELSE Owner(c, credentials[c])
      BY <3>4 DEF Owner
    <3>6. \A c \in CredentialIds : credentials'[c] # None =>
            Owner(c, credentials'[c]) \in registered
      BY <3>2, <3>3, <3>4, <3>5
    <3> QED
      BY <1>2, <3>3, <3>4, <3>6 DEF Owner
  <2>4. ASSUME NEW r \in LoginRequests, SignIn(r)
        PROVE  OwnerInv'
    BY <1>2, <2>4 DEF SignIn, Owner
  <2>5. ASSUME NEW r \in LoginRequests, LoginFails(r)
        PROVE  OwnerInv'
    BY <1>2, <2>5 DEF LoginFails, Owner
  <2> QED
    BY <1>2, <2>1, <2>2, <2>3, <2>4, <2>5 DEF LoginNext
<1>3. CASE DevicesNext /\ UNCHANGED <<registrationVars, loginVars>>
  <2> USE DEF TypeOK, StoreTypeOK, LoginTypeOK, DevicesTypeOK, storeVars, loginVars
  <2>1. ASSUME NEW r \in DeviceRequests, NEW b \in Browsers, NEW c \in CredentialIds,
               \/ ChangeDeviceStatus(b, c, r)
               \/ DeleteDevice(b, c, r)
               \/ \E status \in BOOLEAN : UpdateDevice(b, c, status, r)
        PROVE  OwnerInv'
    <3>1. credentials[c] # None /\ credentials[c] \in CredentialDoc
      BY <2>1 DEF ChangeDeviceStatus, DeleteDevice, UpdateDevice, OwnedBy
    <3>2. /\ Owner(c, [credentials[c] EXCEPT !.enabled = ~@]) = Owner(c, credentials[c])
          /\ \A status \in BOOLEAN :
               Owner(c, [credentials[c] EXCEPT !.enabled = status])
                 = Owner(c, credentials[c])
      BY <3>1 DEF Owner, CredentialDoc
    <3>3. PICK op, doc : Begin(r, op, c, doc) /\ Owner(c, doc) = Owner(c, credentials[c])
      BY <2>1, <3>2 DEF ChangeDeviceStatus, DeleteDevice, UpdateDevice
    <3> QED
      BY <1>3, <3>1, <3>3 DEF Begin, Owner
  <2>2. ASSUME NEW r \in DeviceRequests, SaveDevice(r)
        PROVE  OwnerInv'
    BY <1>3, <2>2 DEF SaveDevice, ReplaceCredential, DeleteCredential, Owner
  <2>3. ASSUME NEW r \in DeviceRequests, DeviceFails(r)
        PROVE  OwnerInv'
    BY <1>3, <2>3 DEF DeviceFails, Owner
  <2> QED
    BY <1>3, <2>1, <2>2, <2>3 DEF DevicesNext
<1>4. CASE \E b \in Browsers : Logout(b) /\ UNCHANGED <<registrationVars, loginVars, editing>>
  BY <1>4 DEF Logout, loginVars, TypeOK, StoreTypeOK, Owner
<1>5. CASE UNCHANGED vars
  BY <1>5 DEF vars, storeVars, loginVars, Owner
<1> QED
  BY <1>1, <1>2, <1>3, <1>4, <1>5 DEF Next

(***************************************************************************)
(* A browser is only ever signed in as an owner that a registration saved  *)
(* the credential with.                                                    *)
(***************************************************************************)
THEOREM SessionsAreBacked == Spec => []SessionIsBacked
<1>1. Init => TypeOK /\ OwnerInv
  BY InitTypeOK, InitOwnerInv
<1>2. TypeOK /\ OwnerInv /\ [Next]_vars => TypeOK' /\ OwnerInv'
  BY NextTypeOK, NextOwnerInv
<1>3. OwnerInv => SessionIsBacked
  BY DEF OwnerInv
<1> QED
  BY <1>1, <1>2, <1>3, PTL DEF Spec
--------------------------------------------------------------------------------
LEMMA InitAccountInv == Init => AccountInv
  BY DEF Init, StoreInit, RegistrationInit, AccountInv, AccountFollowsCredential

LEMMA AccountInvKept ==
  ASSUME AccountInv,
         registered \subseteq registered', attestations \subseteq attestations',
         UNCHANGED accounts,
         \A r \in RegistrationRequests : registering'[r] \in {None, registering[r]}
  PROVE  AccountInv'
BY DEF AccountInv, AccountFollowsCredential, SavedUnder, SavedSoFar

LEMMA NextAccountInv == TypeOK /\ AccountInv /\ [Next]_vars => AccountInv'
<1> SUFFICES ASSUME TypeOK, AccountInv, [Next]_vars
             PROVE  AccountInv'
  OBVIOUS
<1> USE DEF TypeOK, StoreTypeOK, RegistrationTypeOK, storeVars, registrationVars
<1>1. CASE RegistrationNext
  <2>1. ASSUME NEW b \in Browsers,
               \/ \E u \in Usernames : RegistrationStart(b, u)
               \/ AddNewDeviceStart(b)
               \/ RegistrationCookieLost(b)
        PROVE  AccountInv'
    BY <2>1, AccountInvKept DEF RegistrationStart, AddNewDeviceStart, RegistrationCookieLost
  <2>2. ASSUME NEW b \in Browsers, NEW r \in RegistrationRequests,
               RegistrationComplete(b, r) \/ AddNewDeviceComplete(b, r)
        PROVE  AccountInv'
    <3>1. /\ UNCHANGED <<registered, attestations, accounts>>
          /\ registering'[r].stage = "credential"
          /\ \A q \in RegistrationRequests \ {r} : registering'[q] = registering[q]
      BY <2>2 DEF RegistrationComplete, AddNewDeviceComplete
    <3> QED
      BY <3>1 DEF AccountInv, AccountFollowsCredential, SavedUnder, SavedSoFar
  <2>3. ASSUME NEW r \in RegistrationRequests, SaveCredential(r)
        PROVE  AccountInv'
    <3> DEFINE request == registering[r]
    <3>1. CASE Answer(r) /\ UNCHANGED <<credentials, registered>>
      BY <2>3, <3>1, AccountInvKept DEF SaveCredential, Answer
    <3>2. CASE /\ CreateCredential(request.credential, NewCredential(request))
               /\ Advance(r, "attestation")
      <4>1. request \in RegistrationRequest
        BY <2>3 DEF SaveCredential
      <4>2. /\ registering'[r].stage = "attestation"
            /\ registering'[r].account = request.account
            /\ registering'[r].credential = request.credential
        BY <3>2, <4>1 DEF Advance, RegistrationRequest
      <4>3. \E o \in registered' : o.account = request.account
                                   /\ o.credential = request.credential
        <5>1. Owner(request.credential, NewCredential(request)) \in registered'
          BY <3>2 DEF CreateCredential
        <5>2. /\ Owner(request.credential, NewCredential(request)).account = request.account
              /\ Owner(request.credential, NewCredential(request)).credential
                   = request.credential
          BY DEF Owner, NewCredential
        <5> QED
          BY <5>1, <5>2
      <4>4. /\ registered \subseteq registered'
            /\ UNCHANGED <<attestations, accounts>>
            /\ \A q \in RegistrationRequests \ {r} : registering'[q] = registering[q]
        BY <2>3, <3>2 DEF SaveCredential, CreateCredential, Advance
      <4> HIDE DEF request
      <4> QED
        BY <4>2, <4>3, <4>4 DEF AccountInv, AccountFollowsCredential, SavedUnder, SavedSoFar
    <3> QED
      BY <2>3, <3>1, <3>2 DEF SaveCredential
  <2>4. ASSUME NEW r \in RegistrationRequests, SaveAttestation(r)
        PROVE  AccountInv'
    <3> DEFINE request == registering[r]
    <3>1. CASE Answer(r) /\ UNCHANGED attestations
      BY <2>4, <3>1, AccountInvKept DEF SaveAttestation, Answer
    <3>2. CASE /\ attestations' = attestations \cup {request.credential}
               /\ Advance(r, "account")
      <4>1. request \in RegistrationRequest /\ request.stage = "attestation"
        BY <2>4 DEF SaveAttestation
      <4>2. /\ registering'[r].stage = "account"
            /\ registering'[r].account = request.account
            /\ registering'[r].credential = request.credential
        BY <3>2, <4>1 DEF Advance, RegistrationRequest
      <4>3. \E o \in registered : o.account = request.account
                                  /\ o.credential = request.credential
        BY <2>4, <4>1 DEF AccountInv, SavedSoFar, SaveAttestation
      <4>4. /\ UNCHANGED <<registered, accounts>>
            /\ \A q \in RegistrationRequests \ {r} : registering'[q] = registering[q]
        BY <2>4, <3>2 DEF SaveAttestation, Advance
      <4> HIDE DEF request
      <4> QED
        BY <3>2, <4>2, <4>3, <4>4 DEF AccountInv, AccountFollowsCredential, SavedUnder, SavedSoFar
    <3> QED
      BY <2>4, <3>1, <3>2 DEF SaveAttestation
  <2>5. ASSUME NEW r \in RegistrationRequests, SaveAccount(r)
        PROVE  AccountInv'
    <3> DEFINE request == registering[r]
    <3>1. CASE UNCHANGED accounts
      BY <2>5, <3>1, AccountInvKept DEF SaveAccount, Answer
    <3>2. CASE accounts' = [accounts EXCEPT ![request.account] = SavedAccount(request)]
      <4>1. \E o \in registered : o.account = request.account
                                  /\ o.credential \in attestations
        BY <2>5 DEF AccountInv, SavedSoFar, SaveAccount
      <4>2. /\ UNCHANGED <<registered, attestations>>
            /\ \A q \in RegistrationRequests : registering'[q] \in {None, registering[q]}
        BY <2>5 DEF SaveAccount, Answer
      <4> HIDE DEF request
      <4> QED
        BY <3>2, <4>1, <4>2 DEF AccountInv, AccountFollowsCredential, SavedUnder, SavedSoFar
    <3> QED
      BY <2>5, <3>1, <3>2 DEF SaveAccount
  <2>6. ASSUME NEW r \in RegistrationRequests, RegistrationInterrupted(r)
        PROVE  AccountInv'
    BY <2>6, AccountInvKept DEF RegistrationInterrupted, Answer
  <2> QED
    BY <1>1, <2>1, <2>2, <2>3, <2>4, <2>5, <2>6 DEF RegistrationNext
<1>2. CASE LoginNext /\ UNCHANGED <<registrationVars, editing>>
  <2>1. UNCHANGED <<registered, attestations, accounts>>
    BY <1>2 DEF LoginNext, LoginStart, Sign, LoginCookieLost, LoginComplete, SaveLogin,
                SignIn, LoginFails, ReplaceCredential
  <2> QED
    BY <1>2, <2>1, AccountInvKept
<1>3. CASE DevicesNext /\ UNCHANGED <<registrationVars, loginVars>>
  <2>1. UNCHANGED <<registered, attestations, accounts>>
    BY <1>3 DEF DevicesNext, ChangeDeviceStatus, DeleteDevice, UpdateDevice, Begin,
                SaveDevice, DeviceFails, ReplaceCredential, DeleteCredential
  <2> QED
    BY <1>3, <2>1, AccountInvKept
<1>4. CASE \E b \in Browsers : Logout(b) /\ UNCHANGED <<registrationVars, loginVars, editing>>
  BY <1>4, AccountInvKept DEF Logout
<1>5. CASE UNCHANGED vars
  BY <1>5, AccountInvKept DEF vars
<1> QED
  BY <1>1, <1>2, <1>3, <1>4, <1>5 DEF Next

(***************************************************************************)
(* No interruption or resubmission leaves an account without a credential  *)
(* and an attestation saved for it.                                        *)
(***************************************************************************)
THEOREM AccountsFollowCredentials == Spec => []AccountFollowsCredential
<1>1. Init => TypeOK /\ AccountInv
  BY InitTypeOK, InitAccountInv
<1>2. TypeOK /\ AccountInv /\ [Next]_vars => TypeOK' /\ AccountInv'
  BY NextTypeOK, NextAccountInv
<1>3. AccountInv => AccountFollowsCredential
  BY DEF AccountInv
<1> QED
  BY <1>1, <1>2, <1>3, PTL DEF Spec
--------------------------------------------------------------------------------
\* Whoever writes the Credentials container.
LEMMA Writers ==
  ASSUME [Next]_vars, credentials' # credentials
  PROVE  \/ \E r \in RegistrationRequests : SaveCredential(r)
         \/ \E r \in LoginRequests : SaveLogin(r)
         \/ \E r \in DeviceRequests : SaveDevice(r)
<1>1. CASE RegistrationNext
  BY <1>1 DEF RegistrationNext, RegistrationStart, AddNewDeviceStart, RegistrationComplete,
              AddNewDeviceComplete, RegistrationCookieLost, SaveAttestation, SaveAccount,
              RegistrationInterrupted, storeVars
<1>2. CASE LoginNext
  BY <1>2 DEF LoginNext, LoginStart, Sign, LoginCookieLost, LoginComplete, SignIn,
              LoginFails, storeVars
<1>3. CASE DevicesNext
  BY <1>3 DEF DevicesNext, ChangeDeviceStatus, DeleteDevice, UpdateDevice, Begin,
              DeviceFails, storeVars
<1>4. CASE \E b \in Browsers : Logout(b)
  BY <1>4 DEF Logout
<1>5. CASE UNCHANGED vars
  BY <1>5 DEF vars, storeVars
<1> QED
  BY <1>1, <1>2, <1>3, <1>4, <1>5 DEF Next

LEMMA ComesBackStep == TypeOK /\ [Next]_vars => [ComesBackByRegistration]_credentials
<1> SUFFICES ASSUME TypeOK, [Next]_vars, credentials' # credentials,
                    NEW c \in CredentialIds, ~Exists(c), credentials'[c] # None
             PROVE  \E r \in RegistrationRequests : SaveCredential(r)
  BY DEF ComesBackByRegistration
<1> USE DEF TypeOK, StoreTypeOK, Exists
<1>1. ASSUME NEW r \in LoginRequests, SaveLogin(r) PROVE FALSE
  BY <1>1 DEF SaveLogin, ReplaceCredential
<1>2. ASSUME NEW r \in DeviceRequests, SaveDevice(r) PROVE FALSE
  BY <1>2 DEF SaveDevice, ReplaceCredential, DeleteCredential
<1> QED
  BY <1>1, <1>2, Writers

(***************************************************************************)
(* A login or an edit that read a credential before its delete does not    *)
(* bring it back.                                                          *)
(***************************************************************************)
THEOREM DeletedAlwaysStaysDeleted == Spec => DeletedStaysDeleted
<1> QED
  BY TypeCorrect, ComesBackStep, PTL DEF Spec, DeletedStaysDeleted
--------------------------------------------------------------------------------
\* An authenticator that counts has answered above the counter that was read.
CountedInv ==
  /\ \A b \in Browsers :
       assertion[b] # None /\ assertion[b].credential \notin Counterless =>
         assertion[b].counter > 0
  /\ \A r \in LoginRequests :
       Saving(r) /\ loggingIn[r].credential \notin Counterless =>
         loggingIn[r].counter > loggingIn[r].read.counter

LEMMA NextCountedInv == TypeOK /\ CountedInv /\ [Next]_vars => CountedInv'
<1> SUFFICES ASSUME TypeOK, CountedInv, [Next]_vars
             PROVE  CountedInv'
  OBVIOUS
<1> USE DEF CountedInv, TypeOK, StoreTypeOK, LoginTypeOK, Saving, Saved
<1>1. ASSUME NEW b \in Browsers, NEW c \in CredentialIds, Sign(b, c)
      PROVE  CountedInv'
  BY <1>1 DEF Sign, Counters
<1>2. ASSUME NEW b \in Browsers, NEW r \in LoginRequests, LoginComplete(b, r)
      PROVE  CountedInv'
  <2> DEFINE a == assertion[b]
  <2>1. /\ a \in Assertion
        /\ a.credential \in CredentialIds
        /\ credentials[a.credential] \in CredentialDoc
        /\ a.credential \notin Counterless => a.counter > credentials[a.credential].counter
    BY <1>2 DEF LoginComplete, Exists, Assertion, CredentialDoc, CounterVerifies, Counters
  <2> QED
    BY <1>2, <2>1 DEF LoginComplete
<1>3. ASSUME UNCHANGED <<assertion, loggingIn>>
      PROVE  CountedInv'
  BY <1>3
<1>4. ASSUME NEW b \in Browsers,
             LoginCookieLost(b) \/ \E u \in LoginNames : LoginStart(b, u)
      PROVE  CountedInv'
  BY <1>4 DEF LoginStart, LoginCookieLost
<1>5. ASSUME NEW r \in LoginRequests, SaveLogin(r) \/ SignIn(r) \/ LoginFails(r)
      PROVE  CountedInv'
  BY <1>5 DEF SaveLogin, Respond, SignIn, LoginFails
<1>6. LoginNext => CountedInv'
  BY <1>1, <1>2, <1>4, <1>5 DEF LoginNext
<1>7. LoginNext \/ UNCHANGED <<assertion, loggingIn>>
  BY DEF Next, vars, loginVars, Logout
<1> QED
  BY <1>3, <1>6, <1>7

LEMMA FallsStep == TypeOK /\ CountedInv /\ [Next]_vars => [FallsOnlyWhenOvertaken]_credentials
<1> SUFFICES ASSUME TypeOK, CountedInv, [Next]_vars, credentials' # credentials,
                    NEW c \in CredentialIds \ Counterless, CounterFalls(c)
             PROVE  \/ \E r \in LoginRequests : LoginOvertaken(c, r)
                    \/ \E r \in DeviceRequests : EditOvertaken(c, r)
  BY DEF FallsOnlyWhenOvertaken
<1> USE DEF TypeOK, StoreTypeOK, LoginTypeOK, DevicesTypeOK, CounterFalls, Exists
<1>0. credentials[c] \in CredentialDoc /\ credentials[c].counter \in Nat
  BY DEF CredentialDoc, Counters
<1>1. ASSUME NEW r \in RegistrationRequests, SaveCredential(r) PROVE FALSE
  <2>1. credentials'[c] = credentials[c]
    BY <1>1 DEF SaveCredential, CreateCredential
  <2> QED
    BY <1>0, <2>1
<1>2. ASSUME NEW r \in LoginRequests, SaveLogin(r)
      PROVE  LoginOvertaken(c, r)
  <2>1. Saving(r) /\ loggingIn'[r] # loggingIn[r]
    BY <1>2 DEF SaveLogin, Respond, Saving
  <2>2. loggingIn[r].credential = c
    BY <1>0, <1>2 DEF SaveLogin, ReplaceCredential
  <2>3. loggingIn[r] \in LoginRequest
    BY <2>1, SavingIs
  <2>4. credentials'[c].counter = loggingIn[r].counter
    BY <1>2, <2>2, <2>3 DEF SaveLogin, ReplaceCredential, LoginRequest, CredentialDoc
  <2>5. loggingIn[r].counter > loggingIn[r].read.counter
    BY <2>1, <2>2 DEF CountedInv
  <2>6. loggingIn[r].counter \in Nat /\ loggingIn[r].read.counter \in Nat
    BY <2>3 DEF LoginRequest, CredentialDoc, Counters
  <2> QED
    BY <1>0, <2>1, <2>2, <2>4, <2>5, <2>6 DEF LoginOvertaken
<1>3. ASSUME NEW r \in DeviceRequests, SaveDevice(r)
      PROVE  EditOvertaken(c, r)
  BY <1>0, <1>3 DEF SaveDevice, ReplaceCredential, DeleteCredential, EditOvertaken
<1> QED
  BY <1>1, <1>2, <1>3, Writers

(***************************************************************************)
(* Of authenticators that count, a login lowers the stored counter only    *)
(* when the document was saved between its read and its save.              *)
(***************************************************************************)
THEOREM FallsAreOvertaken == Spec => CounterFallsOnlyWhenOvertaken
<1>1. Init => TypeOK /\ CountedInv
  BY InitTypeOK DEF Init, LoginInit, CountedInv, Saving
<1>2. TypeOK /\ CountedInv /\ [Next]_vars => TypeOK' /\ CountedInv'
  BY NextTypeOK, NextCountedInv
<1> QED
  BY <1>1, <1>2, FallsStep, PTL DEF Spec, CounterFallsOnlyWhenOvertaken
--------------------------------------------------------------------------------
(***************************************************************************)
(* Each attestation counts for one account, that of the registration which *)
(* saved it: attester says which.  What an account counts, and what a      *)
(* request read of it, is no more than the attestations that are its own,  *)
(* and a request about to count one more has brought that one.             *)
(***************************************************************************)
AttestedFor(attester, a) == {c \in attestations : attester[c] = a}

Counted(attester, a) == Cardinality(AttestedFor(attester, a))

\* What a request read is counted already, and what it will add is not.
ReadBefore(attester, request) ==
  /\ request.read # None => request.read.all \in 1..Counted(attester, request.account)
  /\ request.stage = "account" =>
       /\ request.credential \in AttestedFor(attester, request.account)
       /\ request.read # None => request.read.all < Counted(attester, request.account)

AttestedOnce(attester) ==
  /\ \A c \in attestations : \E o \in registered : o.credential = c /\ o.account = attester[c]
  /\ \A a \in AccountIds : accounts[a] # None => accounts[a].all \in 1..Counted(attester, a)
  /\ \A r \in RegistrationRequests :
       registering[r] # None => ReadBefore(attester, registering[r])

DeviceInv ==
  /\ IsFiniteSet(registered)
  /\ IsFiniteSet(attestations)
  /\ \E attester \in [attestations -> AccountIds] : AttestedOnce(attester)

LEMMA AttestedForIsFinite ==
  ASSUME IsFiniteSet(attestations), NEW attester, NEW a
  PROVE  /\ IsFiniteSet(AttestedFor(attester, a))
         /\ Counted(attester, a) \in Nat
<1>1. AttestedFor(attester, a) \in SUBSET attestations
  BY DEF AttestedFor
<1> QED
  BY <1>1, FS_Subset, FS_CardinalityType DEF Counted

\* The attestations of an account are credentials that were saved for it.
LEMMA AttestedForWereSaved ==
  ASSUME IsFiniteSet(registered), NEW a \in AccountIds,
         NEW attester \in [attestations -> AccountIds],
         \A c \in attestations : \E o \in registered : o.credential = c /\ o.account = attester[c]
  PROVE  LET saved == {o \in SavedUnder(a) : o.credential \in attestations} IN
         /\ Cardinality(saved) \in Nat
         /\ Cardinality(AttestedFor(attester, a)) <= Cardinality(saved)
<1> DEFINE saved == {o \in SavedUnder(a) : o.credential \in attestations}
           owner == [c \in AttestedFor(attester, a) |->
                       CHOOSE o \in registered : o.credential = c /\ o.account = attester[c]]
<1>1. IsFiniteSet(saved) /\ Cardinality(saved) \in Nat
  <2>1. saved \in SUBSET registered
    BY DEF SavedUnder
  <2> QED
    BY <2>1, FS_Subset, FS_CardinalityType
<1>2. \A c \in AttestedFor(attester, a) :
        owner[c] \in registered /\ owner[c].credential = c /\ owner[c].account = a
          /\ c \in attestations
  BY DEF AttestedFor
<1>3. DOMAIN owner = AttestedFor(attester, a) /\ owner = [c \in AttestedFor(attester, a) |-> owner[c]]
  OBVIOUS
<1> HIDE DEF owner
<1>4. owner \in [AttestedFor(attester, a) -> saved]
  BY <1>2, <1>3 DEF SavedUnder
<1>5. owner \in Injection(AttestedFor(attester, a), saved)
  BY <1>2, <1>4 DEF Injection, IsInjective
<1> HIDE DEF saved
<1>6. Cardinality(AttestedFor(attester, a)) <= Cardinality(saved)
  BY <1>1, <1>5, FS_Injection
<1> QED
  BY <1>1, <1>6 DEF saved

\* The devices counted are no more than the attestations, which have one account each.
LEMMA CountedAreAttested ==
  ASSUME IsFiniteSet(attestations), TypeOK,
         NEW attester \in [attestations -> AccountIds], AttestedOnce(attester)
  PROVE  Cardinality(CountedDevices) <= Cardinality(attestations)
<1> DEFINE known == {a \in AccountIds : accounts[a] # None}
           own(a) == AttestedFor(attester, a)
           number == [a \in known |-> CHOOSE f : f \in Bijection(1..Cardinality(own(a)), own(a))]
           device == [d \in CountedDevices |-> number[d[1]][d[2]]]
<1>1. ASSUME NEW a \in known
      PROVE  /\ number[a] \in [1..Cardinality(own(a)) -> own(a)]
             /\ \A i, j \in 1..Cardinality(own(a)) : number[a][i] = number[a][j] => i = j
  <2>1. Bijection(1..Cardinality(own(a)), own(a)) # {}
    BY AttestedForIsFinite, FS_CardinalityType DEF ExistsBijection
  <2>2. number[a] \in Bijection(1..Cardinality(own(a)), own(a))
    BY <2>1
  <2> HIDE DEF number, own
  <2> QED
    BY <2>2 DEF Bijection, Injection, IsInjective
<1>2. ASSUME NEW d \in CountedDevices
      PROVE  /\ d = <<d[1], d[2]>> /\ d[1] \in known
             /\ d[2] \in 1..Cardinality(own(d[1]))
  <2>1. PICK a \in known : d \in {a} \X (1..accounts[a].all)
    BY DEF CountedDevices
  <2>2. accounts[a].all \in 1..Cardinality(own(a)) /\ Cardinality(own(a)) \in Nat
    BY AttestedForIsFinite DEF AttestedOnce, Counted
  <2> HIDE DEF own
  <2>3. d = <<d[1], d[2]>> /\ d[1] = a /\ d[2] \in 1..accounts[a].all
    BY <2>1
  <2> QED
    BY <2>2, <2>3
<1>3. ASSUME NEW d \in CountedDevices
      PROVE  /\ device[d] \in attestations
             /\ attester[device[d]] = d[1]
             /\ device[d] = number[d[1]][d[2]]
  <2>1. device[d] = number[d[1]][d[2]]
    OBVIOUS
  <2>2. number[d[1]][d[2]] \in own(d[1])
    <3> HIDE DEF number, own, device
    <3> QED
      BY <1>1, <1>2
  <2> HIDE DEF number, device
  <2> QED
    BY <2>1, <2>2 DEF AttestedFor
<1>4. device \in [CountedDevices -> attestations]
  <2>1. device = [d \in CountedDevices |-> device[d]]
    OBVIOUS
  <2> HIDE DEF device
  <2> QED
    BY <1>3, <2>1
<1>5. \A d, e \in CountedDevices : device[d] = device[e] => d = e
  <2> HIDE DEF number, own, device
  <2> SUFFICES ASSUME NEW d \in CountedDevices, NEW e \in CountedDevices, device[d] = device[e]
               PROVE  d = e
    OBVIOUS
  <2>1. d[1] = e[1]
    BY <1>3
  <2>2. d[2] = e[2]
    BY <1>1, <1>2, <1>3, <2>1
  <2> QED
    BY <1>2, <2>1, <2>2
<1> HIDE DEF device
<1>6. device \in Injection(CountedDevices, attestations)
  BY <1>4, <1>5 DEF Injection, IsInjective
<1> QED
  BY <1>6, FS_Injection

LEMMA DevicesAreCountedOnce == TypeOK /\ DeviceInv => DevicesCountedOnce
<1> SUFFICES ASSUME TypeOK, DeviceInv PROVE DevicesCountedOnce
  OBVIOUS
<1>1. PICK attester \in [attestations -> AccountIds] : AttestedOnce(attester)
  BY DEF DeviceInv
<1>2. ASSUME NEW a \in AccountIds, accounts[a] # None
      PROVE  accounts[a].all \in
               1..Cardinality({o \in SavedUnder(a) : o.credential \in attestations})
  <2> DEFINE counted == Counted(attester, a)
             saved == Cardinality({o \in SavedUnder(a) : o.credential \in attestations})
  <2>1. accounts[a].all \in 1..counted
    BY <1>1, <1>2 DEF AttestedOnce
  <2>2. counted \in Nat /\ saved \in Nat /\ counted <= saved
    BY <1>1, AttestedForIsFinite, AttestedForWereSaved DEF AttestedOnce, Counted, DeviceInv
  <2> HIDE DEF counted, saved
  <2>3. accounts[a].all \in 1..saved
    BY <2>1, <2>2
  <2> QED
    BY <2>3 DEF saved
<1>3. Cardinality(CountedDevices) <= Cardinality(attestations)
  BY <1>1, CountedAreAttested DEF DeviceInv
<1> QED
  BY <1>2, <1>3 DEF DevicesCountedOnce

LEMMA InitDeviceInv == Init => DeviceInv
<1> SUFFICES ASSUME Init PROVE DeviceInv
  OBVIOUS
<1>1. registered = {} /\ attestations = {} /\ \A a \in AccountIds : accounts[a] = None
  BY DEF Init, StoreInit
<1>2. \A r \in RegistrationRequests : registering[r] = None
  BY DEF Init, RegistrationInit
<1>3. [c \in {} |-> CHOOSE a \in AccountIds : TRUE] \in [attestations -> AccountIds]
  BY <1>1
<1> QED
  BY <1>1, <1>2, <1>3, FS_EmptySet DEF DeviceInv, AttestedOnce

\* A step that attests nothing and counts nothing keeps the accounts of the attestations.
LEMMA DeviceInvKept ==
  ASSUME DeviceInv, IsFiniteSet(registered'), registered \subseteq registered',
         UNCHANGED <<attestations, accounts>>,
         \A r \in RegistrationRequests : registering'[r] # None =>
           \/ registering'[r] = registering[r]
           \/ /\ registering'[r].stage # "account"
              /\ registering'[r].read \in {None, accounts[registering'[r].account]}
              /\ registering'[r].account \in AccountIds
           \/ /\ registering'[r].stage # "account"
              /\ registering[r] # None
              /\ registering'[r].read = registering[r].read
              /\ registering'[r].account = registering[r].account
  PROVE  DeviceInv'
<1>1. PICK attester \in [attestations -> AccountIds] : AttestedOnce(attester)
  BY DEF DeviceInv
<1>2. \A a : /\ Counted(attester, a)' = Counted(attester, a)
             /\ AttestedFor(attester, a)' = AttestedFor(attester, a)
  BY DEF Counted, AttestedFor
<1>3. ASSUME NEW r \in RegistrationRequests, registering'[r] # None
      PROVE  ReadBefore(attester, registering[r])'
  BY <1>1, <1>2, <1>3 DEF AttestedOnce, ReadBefore
<1>4. AttestedOnce(attester)'
  BY <1>1, <1>2, <1>3 DEF AttestedOnce
<1> QED
  BY <1>4 DEF DeviceInv

\* The attestation a registration saves counts for the account of its request.
LEMMA SaveAttestationKeepsDeviceInv ==
  ASSUME TypeOK, AccountInv, DeviceInv, NEW r \in RegistrationRequests, SaveAttestation(r),
         registering[r].credential \notin attestations,
         attestations' = attestations \cup {registering[r].credential},
         Advance(r, "account")
  PROVE  DeviceInv'
<1>1. PICK attester \in [attestations -> AccountIds] : AttestedOnce(attester)
  BY DEF DeviceInv
<1>2. PICK request \in RegistrationRequest : request = registering[r] /\ request # None
  BY DEF SaveAttestation, TypeOK, RegistrationTypeOK
<1> DEFINE new == request.credential
<1>3. /\ request.account \in AccountIds /\ new \notin attestations
      /\ attestations' = attestations \cup {new}
      /\ \E o \in registered : o.account = request.account /\ o.credential = new
  BY <1>2 DEF SaveAttestation, RegistrationRequest, AccountInv, SavedSoFar
<1>4. PICK attesterNow \in [attestations' -> AccountIds] :
        /\ attesterNow[new] = request.account
        /\ \A c \in attestations : attesterNow[c] = attester[c]
  <2> DEFINE f == [c \in attestations' |-> IF c = new THEN request.account ELSE attester[c]]
  <2>1. f \in [attestations' -> AccountIds]
    BY <1>3
  <2>2. f[new] = request.account /\ \A c \in attestations : f[c] = attester[c]
    BY <1>3
  <2> QED
    BY <2>1, <2>2
<1>5. \A a : AttestedFor(attesterNow, a)' =
              AttestedFor(attester, a) \cup (IF a = request.account THEN {new} ELSE {})
  BY <1>3, <1>4 DEF AttestedFor
<1>6. \A a : /\ IsFiniteSet(AttestedFor(attester, a)) /\ Counted(attester, a) \in Nat
             /\ new \notin AttestedFor(attester, a)
  BY <1>3, AttestedForIsFinite DEF DeviceInv, AttestedFor
<1>7. Counted(attesterNow, request.account)' = Counted(attester, request.account) + 1
  BY <1>5, <1>6, FS_AddElement DEF Counted
<1>8. \A a : a # request.account => Counted(attesterNow, a)' = Counted(attester, a)
  BY <1>5 DEF Counted
<1>9. /\ UNCHANGED <<registered, accounts>>
      /\ registering' = [registering EXCEPT ![r] = [request EXCEPT !.stage = "account"]]
  BY <1>2 DEF SaveAttestation, Advance, TypeOK, RegistrationTypeOK
<1>10. /\ registering'[r].read = request.read
       /\ registering'[r].account = request.account
       /\ registering'[r].credential = new
       /\ \A q \in RegistrationRequests \ {r} : registering'[q] = registering[q]
  BY <1>9 DEF RegistrationRequest, TypeOK, RegistrationTypeOK
<1> HIDE DEF new
<1>11. \A c \in attestations' : \E o \in registered' : o.credential = c /\ o.account = attesterNow[c]
  <2>1. \A c \in attestations : \E o \in registered : o.credential = c /\ o.account = attester[c]
    BY <1>1 DEF AttestedOnce
  <2> QED
    BY <1>3, <1>4, <1>9, <2>1
<1>12. \A a \in AccountIds : accounts'[a] # None => accounts'[a].all \in 1..Counted(attesterNow, a)'
  BY <1>1, <1>6, <1>7, <1>8, <1>9 DEF AttestedOnce
<1>13. ASSUME NEW q \in RegistrationRequests \ {r}, registering'[q] # None
       PROVE  ReadBefore(attesterNow, registering[q])'
  <2>1. registering'[q] = registering[q] /\ ReadBefore(attester, registering[q])
    BY <1>1, <1>10, <1>13 DEF AttestedOnce
  <2>2. registering[q].read # None => registering[q].read.all \in Nat
    BY <1>6, <2>1 DEF ReadBefore
  <2> QED
    BY <1>5, <1>6, <1>7, <1>8, <2>1, <2>2 DEF ReadBefore
<1>14. ReadBefore(attesterNow, registering[r])'
  <2>1. request.read # None => request.read.all \in 1..Counted(attester, request.account)
    BY <1>1, <1>2 DEF AttestedOnce, ReadBefore
  <2> QED
    BY <1>5, <1>6, <1>7, <1>10, <2>1 DEF ReadBefore
<1>15. AttestedOnce(attesterNow)'
  BY <1>11, <1>12, <1>13, <1>14 DEF AttestedOnce
<1>16. IsFiniteSet(registered') /\ IsFiniteSet(attestations')
  BY <1>3, <1>9, FS_AddElement DEF DeviceInv
<1> QED
  BY <1>15, <1>16 DEF DeviceInv

\* The account a registration saves counts at most one device more than it read.
LEMMA SaveAccountKeepsDeviceInv ==
  ASSUME TypeOK, DeviceInv, NEW r \in RegistrationRequests, SaveAccount(r),
         accounts' = [accounts EXCEPT ![registering[r].account] = SavedAccount(registering[r])]
  PROVE  DeviceInv'
<1> DEFINE request == registering[r]
<1>1. PICK attester \in [attestations -> AccountIds] : AttestedOnce(attester)
  BY DEF DeviceInv
<1>2. /\ request # None /\ request.stage = "account" /\ request.account \in AccountIds
      /\ UNCHANGED <<registered, attestations>>
      /\ \A q \in RegistrationRequests : registering'[q] # None => registering'[q] = registering[q]
  BY DEF SaveAccount, Answer, TypeOK, RegistrationTypeOK, RegistrationRequest
<1>3. \A a : /\ Counted(attester, a)' = Counted(attester, a)
             /\ AttestedFor(attester, a)' = AttestedFor(attester, a)
  BY <1>2 DEF Counted, AttestedFor
<1>4. /\ request.credential \in AttestedFor(attester, request.account)
      /\ request.read # None =>
           /\ request.read.all \in 1..Counted(attester, request.account)
           /\ request.read.all < Counted(attester, request.account)
  BY <1>1, <1>2 DEF AttestedOnce, ReadBefore
<1>5. Counted(attester, request.account) \in Nat /\ Counted(attester, request.account) > 0
  BY <1>4, AttestedForIsFinite, FS_EmptySet DEF DeviceInv, Counted
<1> HIDE DEF request
<1>6. SavedAccount(request).all \in 1..Counted(attester, request.account)
  BY <1>4, <1>5 DEF SavedAccount
<1>7. \A a \in AccountIds : accounts'[a] # None => accounts'[a].all \in 1..Counted(attester, a)
  <2>1. \A a \in AccountIds : a # request.account => accounts'[a] = accounts[a]
    BY DEF TypeOK, StoreTypeOK, request
  <2>2. accounts'[request.account] = SavedAccount(request)
    BY <1>2 DEF TypeOK, StoreTypeOK, request
  <2> QED
    BY <1>1, <1>6, <2>1, <2>2 DEF AttestedOnce
<1>8. \A q \in RegistrationRequests :
        registering'[q] # None => ReadBefore(attester, registering[q])'
  BY <1>1, <1>2, <1>3 DEF AttestedOnce, ReadBefore
<1>9. AttestedOnce(attester)'
  BY <1>1, <1>2, <1>3, <1>7, <1>8 DEF AttestedOnce
<1> QED
  BY <1>2, <1>9 DEF DeviceInv

LEMMA NextDeviceInv == TypeOK /\ AccountInv /\ DeviceInv /\ [Next]_vars => DeviceInv'
<1> SUFFICES ASSUME TypeOK, AccountInv, DeviceInv, [Next]_vars
             PROVE  DeviceInv'
  OBVIOUS
<1>0. IsFiniteSet(registered)
  BY DEF DeviceInv
<1>1. CASE RegistrationNext
  <2> USE DEF TypeOK, StoreTypeOK, RegistrationTypeOK, storeVars
  <2>1. ASSUME NEW b \in Browsers,
               \/ \E u \in Usernames : RegistrationStart(b, u)
               \/ AddNewDeviceStart(b)
               \/ RegistrationCookieLost(b)
        PROVE  DeviceInv'
    BY <1>0, <2>1, DeviceInvKept DEF RegistrationStart, AddNewDeviceStart, RegistrationCookieLost
  <2>2. ASSUME NEW b \in Browsers, NEW r \in RegistrationRequests,
               RegistrationComplete(b, r) \/ AddNewDeviceComplete(b, r)
        PROVE  DeviceInv'
    <3>1. /\ registering'[r].stage = "credential"
          /\ registering'[r].account \in AccountIds
          /\ registering'[r].read = accounts[registering'[r].account]
      BY <2>2 DEF RegistrationComplete, AddNewDeviceComplete, Session
    <3>2. /\ UNCHANGED <<registered, attestations, accounts>>
          /\ \A q \in RegistrationRequests \ {r} : registering'[q] = registering[q]
      BY <2>2 DEF RegistrationComplete, AddNewDeviceComplete
    <3> QED
      BY <1>0, <3>1, <3>2, DeviceInvKept
  <2>3. ASSUME NEW r \in RegistrationRequests, SaveCredential(r)
        PROVE  DeviceInv'
    <3> DEFINE request == registering[r]
    <3>1. CASE Answer(r) /\ UNCHANGED <<credentials, registered>>
      <4>1. \A q \in RegistrationRequests : registering'[q] # None => registering'[q] = registering[q]
        BY <3>1 DEF Answer
      <4> QED
        BY <1>0, <2>3, <3>1, <4>1, DeviceInvKept DEF SaveCredential
    <3>2. CASE /\ CreateCredential(request.credential, NewCredential(request))
               /\ Advance(r, "attestation")
      <4>1. request \in RegistrationRequest /\ request # None
        BY <2>3 DEF SaveCredential
      <4>2. /\ registering'[r].stage = "attestation"
            /\ registering'[r].account = request.account
            /\ registering'[r].read = request.read
        BY <3>2, <4>1 DEF Advance, RegistrationRequest
      <4>3. IsFiniteSet(registered') /\ registered \subseteq registered'
        BY <1>0, <3>2, FS_AddElement DEF CreateCredential
      <4>4. /\ UNCHANGED <<attestations, accounts>>
            /\ \A q \in RegistrationRequests \ {r} : registering'[q] = registering[q]
        BY <2>3, <3>2 DEF SaveCredential, Advance
      <4> QED
        BY <4>1, <4>2, <4>3, <4>4, DeviceInvKept
    <3> QED
      BY <2>3, <3>1, <3>2 DEF SaveCredential
  <2>4. ASSUME NEW r \in RegistrationRequests, SaveAttestation(r)
        PROVE  DeviceInv'
    <3>1. CASE Answer(r) /\ UNCHANGED attestations
      <4>1. \A q \in RegistrationRequests : registering'[q] # None => registering'[q] = registering[q]
        BY <3>1 DEF Answer
      <4> QED
        BY <1>0, <2>4, <3>1, <4>1, DeviceInvKept DEF SaveAttestation
    <3> QED
      BY <2>4, <3>1, SaveAttestationKeepsDeviceInv DEF SaveAttestation
  <2>5. ASSUME NEW r \in RegistrationRequests, SaveAccount(r)
        PROVE  DeviceInv'
    <3>1. CASE UNCHANGED accounts
      <4>1. \A q \in RegistrationRequests : registering'[q] # None => registering'[q] = registering[q]
        BY <2>5 DEF SaveAccount, Answer
      <4> QED
        BY <1>0, <2>5, <3>1, <4>1, DeviceInvKept DEF SaveAccount
    <3> QED
      BY <2>5, <3>1, SaveAccountKeepsDeviceInv DEF SaveAccount
  <2>6. ASSUME NEW r \in RegistrationRequests, RegistrationInterrupted(r)
        PROVE  DeviceInv'
    <3>1. \A q \in RegistrationRequests : registering'[q] # None => registering'[q] = registering[q]
      BY <2>6 DEF RegistrationInterrupted, Answer
    <3> QED
      BY <1>0, <2>6, <3>1, DeviceInvKept DEF RegistrationInterrupted
  <2> QED
    BY <1>1, <2>1, <2>2, <2>3, <2>4, <2>5, <2>6 DEF RegistrationNext
<1>2. CASE UNCHANGED <<registered, attestations, accounts, registering>>
  BY <1>0, <1>2, DeviceInvKept
<1>3. RegistrationNext \/ UNCHANGED <<registered, attestations, accounts, registering>>
  <2>1. LoginNext => UNCHANGED <<registered, attestations, accounts>>
    BY DEF LoginNext, LoginStart, Sign, LoginCookieLost, LoginComplete, SaveLogin,
           SignIn, LoginFails, ReplaceCredential, storeVars
  <2>2. DevicesNext => UNCHANGED <<registered, attestations, accounts>>
    BY DEF DevicesNext, ChangeDeviceStatus, DeleteDevice, UpdateDevice, Begin,
           SaveDevice, DeviceFails, ReplaceCredential, DeleteCredential, storeVars
  <2>3. (\E b \in Browsers : Logout(b)) => UNCHANGED <<registered, attestations, accounts>>
    BY DEF Logout
  <2> QED
    BY <2>1, <2>2, <2>3 DEF Next, vars, storeVars, registrationVars
<1> QED
  BY <1>1, <1>2, <1>3

(***************************************************************************)
(* However registrations interleave, are interrupted and are submitted     *)
(* again, the devices that the accounts count are attested credentials     *)
(* saved for them, and none is counted by two accounts.                    *)
(***************************************************************************)
THEOREM DevicesAreAlwaysCountedOnce == Spec => []DevicesCountedOnce
<1>1. Init => TypeOK /\ AccountInv /\ DeviceInv
  BY InitTypeOK, InitAccountInv, InitDeviceInv
<1>2. TypeOK /\ AccountInv /\ DeviceInv /\ [Next]_vars => TypeOK' /\ AccountInv' /\ DeviceInv'
  BY NextTypeOK, NextAccountInv, NextDeviceInv
<1> QED
  BY <1>1, <1>2, DevicesAreCountedOnce, PTL DEF Spec
--------------------------------------------------------------------------------
\* A document that is written, and one that is deleted, is the owner's only change.
LEMMA OwnerWritten ==
  ASSUME NEW c \in CredentialIds, NEW doc \in CredentialDoc,
         TypeOK, credentials' = [credentials EXCEPT ![c] = doc]
  PROVE  /\ CurrentOwner' = [CurrentOwner EXCEPT ![c] = Owner(c, doc)]
         /\ Owner(c, doc) \in O!Owners
         /\ Owner(c, doc).credential = c
<1>1. doc # None
  BY NoneAssumption
<1>2. \A d \in CredentialIds : credentials'[d] = IF d = c THEN doc ELSE credentials[d]
  BY DEF TypeOK, StoreTypeOK
<1>3. CurrentOwner' = [CurrentOwner EXCEPT ![c] = Owner(c, doc)]
  BY <1>1, <1>2 DEF CurrentOwner, Exists, Owner
<1>4. Owner(c, doc) \in O!Owners /\ Owner(c, doc).credential = c
  BY DEF Owner, O!Owners, CredentialDoc
<1> QED
  BY <1>3, <1>4

LEMMA OwnerDeleted ==
  ASSUME NEW c \in CredentialIds, TypeOK, credentials' = [credentials EXCEPT ![c] = None]
  PROVE  CurrentOwner' = [CurrentOwner EXCEPT ![c] = None]
<1>1. \A d \in CredentialIds : credentials'[d] = IF d = c THEN None ELSE credentials[d]
  BY DEF TypeOK, StoreTypeOK
<1> QED
  BY <1>1 DEF CurrentOwner, Exists, Owner

LEMMA OwnerGivenOrNot ==
  ASSUME NEW c \in CredentialIds, TypeOK
  PROVE  /\ ~Exists(c) => CurrentOwner[c] = None
         /\ Exists(c) => CurrentOwner[c] # None
<1>1. ASSUME Exists(c) PROVE Owner(c, credentials[c]) \in Session
  BY <1>1 DEF TypeOK, StoreTypeOK, Exists, Owner, Session, CredentialDoc
<1> QED
  BY <1>1, NoneAssumption DEF CurrentOwner, Exists

\* The logins that are saved and not answered, request by request.
LEMMA AdmittedIs ==
  ASSUME NEW p
  PROVE  p \in Admitted <=>
           \E r \in LoginRequests : Saved(r) /\ p = <<loggingIn[r].browser, loggingIn[r].owner>>
BY DEF Admitted

LEMMA AdmittedIsNext ==
  ASSUME NEW p
  PROVE  p \in Admitted' <=>
           \E r \in LoginRequests :
             /\ loggingIn'[r] # None /\ loggingIn'[r].stage = "signIn"
             /\ p = <<loggingIn'[r].browser, loggingIn'[r].owner>>
BY DEF Admitted, Saved

LEMMA AdmittedKept == UNCHANGED loggingIn => UNCHANGED Admitted
BY DEF Admitted, Saved

\* A request that was not saved gets under way, or ends.
LEMMA AdmittedUnlessSaved ==
  ASSUME NEW r \in LoginRequests, ~Saved(r),
         loggingIn'[r] = None \/ loggingIn'[r].stage = "save",
         \A q \in LoginRequests : q # r => loggingIn'[q] = loggingIn[q]
  PROVE  UNCHANGED Admitted
<1>1. ASSUME NEW q \in LoginRequests
      PROVE  Saved(q) <=> loggingIn'[q] # None /\ loggingIn'[q].stage = "signIn"
  BY DEF Saved
<1>2. \A q \in LoginRequests : Saved(q) => loggingIn'[q] = loggingIn[q]
  OBVIOUS
<1>3. \A p : p \in Admitted' <=> p \in Admitted
  BY <1>1, <1>2, AdmittedIs, AdmittedIsNext
<1> QED
  BY <1>3

ownershipVars == <<credentials, registered, session, Admitted>>

LEMMA RegistrationRefines ==
  ASSUME TypeOK, NEW r \in RegistrationRequests, SaveCredential(r), UNCHANGED loggingIn
  PROVE  O!Next \/ UNCHANGED ownershipVars
<1> DEFINE request == registering[r]
           c == request.credential
           doc == NewCredential(request)
<1>1. c \in CredentialIds /\ doc \in CredentialDoc
  BY FirstCounterAssumption
  DEF SaveCredential, TypeOK, RegistrationTypeOK, RegistrationRequest, NewCredential,
      CredentialDoc
<1>2. /\ UNCHANGED <<session, Admitted>>
      /\ CreateCredential(c, doc) \/ UNCHANGED <<credentials, registered>>
  BY AdmittedKept DEF SaveCredential
<1> HIDE DEF c, doc
<1> SUFFICES ASSUME CreateCredential(c, doc) PROVE O!Next
  BY <1>2 DEF ownershipVars
<1>3. /\ CurrentOwner' = [CurrentOwner EXCEPT ![c] = Owner(c, doc)]
      /\ Owner(c, doc) \in O!Owners
      /\ Owner(c, doc).credential = c
  BY <1>1, <1>2, OwnerWritten DEF CreateCredential
<1>4. O!Register(Owner(c, doc))
  BY <1>1, <1>2, <1>3, OwnerGivenOrNot DEF CreateCredential, O!Register
<1> QED
  BY <1>3, <1>4 DEF O!Next

\* A login is saved: the request holds a constant response from then on.
LEMMA LoginRefines ==
  ASSUME TypeOK, OwnerInv, NEW r \in LoginRequests, NEW q, loggingIn[r] = q, SaveLogin(r)
  PROVE  O!Next
<1> DEFINE c == q.credential
           b == q.browser
           doc == [q.read EXCEPT !.counter = q.counter]
           o == Owner(c, q.read)
<1>1. /\ c \in CredentialIds /\ b \in Browsers /\ doc \in CredentialDoc
      /\ Owner(c, doc) = o
      /\ o \in registered
  <2>1. q \in LoginRequest
    BY SavingIs DEF SaveLogin, TypeOK
  <2> QED
    BY <2>1 DEF SaveLogin, LoginRequest, CredentialDoc, Owner, OwnerInv, OwnersBacked
<1>2. ReplaceCredential(c, doc) /\ UNCHANGED session
  BY DEF SaveLogin
<1>3. Admitted' = Admitted \cup {<<b, o>>}
  <2>1. ~Saved(r)
    BY DEF SaveLogin, Saving, Saved
  <2>2. loggingIn'[r] = [stage |-> "signIn", browser |-> b, owner |-> o]
    BY DEF SaveLogin, Respond, TypeOK, LoginTypeOK
  <2>3. loggingIn'[r] # None
    <3>1. [stage |-> "signIn", browser |-> b, owner |-> o] \in LoginResponse
      BY <1>1 DEF LoginResponse, Owner, Session, CredentialDoc
    <3> QED
      BY <2>2, <3>1, NoLoginAssumption
  <2>4. \A p \in LoginRequests : p # r => loggingIn'[p] = loggingIn[p]
    BY DEF SaveLogin, Respond, TypeOK, LoginTypeOK
  <2> HIDE DEF b, o
  <2>5. \A p : p \in Admitted' <=> p \in Admitted \/ p = <<b, o>>
    BY <2>1, <2>2, <2>3, <2>4, AdmittedIs, AdmittedIsNext DEF Saved
  <2> QED
    BY <2>5
<1> HIDE DEF c, b, doc, o
<1>4. /\ CurrentOwner' = [CurrentOwner EXCEPT ![c] = o]
      /\ o \in O!Owners
      /\ o.credential = c
  BY <1>1, <1>2, OwnerWritten DEF ReplaceCredential
<1>5. O!Admit(b, o)
  BY <1>1, <1>2, <1>3, <1>4, OwnerGivenOrNot DEF ReplaceCredential, O!Rewrite, O!Admit
<1> QED
  BY <1>1, <1>4, <1>5 DEF O!Next

\* A saved login is answered, or its answer is lost.
LEMMA AnswerRefines ==
  ASSUME TypeOK, NEW r \in LoginRequests, NEW q, loggingIn[r] = q, Saved(r),
         loggingIn' = [loggingIn EXCEPT ![r] = None],
         UNCHANGED <<credentials, registered>>,
         session' \in {session, [session EXCEPT ![q.browser] = q.owner]}
  PROVE  O!Next
<1> DEFINE b == q.browser
           o == q.owner
<1>1. b \in Browsers /\ o \in O!Owners
  BY SavingIs DEF TypeOK, LoginResponse, Session, O!Owners
<1>2. <<b, o>> \in Admitted
  BY AdmittedIs
<1>3. Admitted' \in {Admitted, Admitted \ {<<b, o>>}}
  <2>1. /\ loggingIn'[r] = None
        /\ \A p \in LoginRequests : p # r => loggingIn'[p] = loggingIn[p]
    BY DEF TypeOK, LoginTypeOK
  <2>2. \A p \in LoginRequests : Saved(p) /\ p = r => <<loggingIn[p].browser, loggingIn[p].owner>> = <<b, o>>
    OBVIOUS
  <2> HIDE DEF b, o
  <2>3. \A p : p \in Admitted' => p \in Admitted
    BY <2>1, AdmittedIs, AdmittedIsNext DEF Saved
  <2>4. \A p : p \in Admitted => p \in Admitted' \/ p = <<b, o>>
    BY <2>1, <2>2, AdmittedIs, AdmittedIsNext DEF Saved
  <2>5. CASE <<b, o>> \in Admitted'
    <3>1. Admitted' = Admitted
      BY <2>3, <2>4, <2>5
    <3> QED
      BY <3>1
  <2>6. CASE <<b, o>> \notin Admitted'
    <3>1. Admitted' = Admitted \ {<<b, o>>}
      BY <2>3, <2>4, <2>6
    <3> QED
      BY <3>1
  <2> QED
    BY <2>5, <2>6
<1>4. CurrentOwner' = CurrentOwner
  BY DEF CurrentOwner, Exists, Owner
<1>5. O!SignIn(b, o)
  BY <1>2, <1>3, <1>4 DEF O!SignIn
<1> QED
  BY <1>1, <1>5 DEF O!Next

LEMMA DeviceRefines ==
  ASSUME TypeOK, OwnerInv, NEW r \in DeviceRequests, SaveDevice(r),
         UNCHANGED loggingIn
  PROVE  O!Next
<1> DEFINE c == editing[r].credential
           doc == editing[r].saved
<1>1. /\ c \in CredentialIds /\ doc \in CredentialDoc
      /\ Owner(c, doc) \in registered
  BY DEF SaveDevice, TypeOK, DevicesTypeOK, DeviceRequest, OwnerInv, OwnersBacked
<1>2. ReplaceCredential(c, doc) \/ DeleteCredential(c)
  BY DEF SaveDevice
<1>3. UNCHANGED <<session, Admitted>>
  BY AdmittedKept DEF SaveDevice
<1> HIDE DEF c, doc
<1>4. CASE ReplaceCredential(c, doc)
  <2>1. /\ CurrentOwner' = [CurrentOwner EXCEPT ![c] = Owner(c, doc)]
        /\ Owner(c, doc) \in O!Owners
        /\ Owner(c, doc).credential = c
    BY <1>1, <1>4, OwnerWritten DEF ReplaceCredential
  <2>2. O!Save(Owner(c, doc))
    BY <1>1, <1>3, <1>4, <2>1, OwnerGivenOrNot DEF ReplaceCredential, O!Rewrite, O!Save
  <2> QED
    BY <2>1, <2>2 DEF O!Next
<1>5. CASE DeleteCredential(c)
  <2>1. O!Delete(c)
    BY <1>1, <1>3, <1>5, OwnerDeleted, OwnerGivenOrNot DEF DeleteCredential, O!Delete
  <2> QED
    BY <1>1, <2>1 DEF O!Next
<1> QED
  BY <1>2, <1>4, <1>5

LEMMA OthersStutter ==
  ASSUME TypeOK, [Next]_vars,
         ~ \E r \in RegistrationRequests : SaveCredential(r) /\ UNCHANGED loggingIn,
         ~ \E r \in LoginRequests : SaveLogin(r) \/ SignIn(r) \/ (Saved(r) /\ LoginFails(r)),
         ~ \E r \in DeviceRequests : SaveDevice(r) /\ UNCHANGED loggingIn,
         ~ \E b \in Browsers : Logout(b) /\ UNCHANGED loggingIn
  PROVE  UNCHANGED ownershipVars
<1> USE DEF ownershipVars
<1>1. CASE RegistrationNext /\ UNCHANGED loggingIn
  BY <1>1, AdmittedKept
  DEF RegistrationNext, RegistrationStart, AddNewDeviceStart, RegistrationComplete,
      AddNewDeviceComplete, RegistrationCookieLost, SaveAttestation, SaveAccount,
      RegistrationInterrupted, storeVars
<1>2. ASSUME NEW b \in Browsers, NEW r \in LoginRequests, LoginComplete(b, r)
      PROVE  UNCHANGED ownershipVars
  <2>1. /\ ~Saved(r) /\ loggingIn'[r].stage = "save"
        /\ \A q \in LoginRequests : q # r => loggingIn'[q] = loggingIn[q]
    BY <1>2 DEF LoginComplete, Saved, TypeOK, LoginTypeOK
  <2> QED
    BY <1>2, <2>1, AdmittedUnlessSaved DEF LoginComplete, storeVars
<1>3. ASSUME NEW r \in LoginRequests, LoginFails(r), ~Saved(r)
      PROVE  UNCHANGED ownershipVars
  <2>1. /\ loggingIn'[r] = None
        /\ \A q \in LoginRequests : q # r => loggingIn'[q] = loggingIn[q]
    BY <1>3 DEF LoginFails, TypeOK, LoginTypeOK
  <2> QED
    BY <1>3, <2>1, AdmittedUnlessSaved DEF LoginFails, storeVars
<1>4. ASSUME NEW b \in Browsers,
             \/ \E u \in LoginNames : LoginStart(b, u)
             \/ \E c \in CredentialIds : Sign(b, c)
             \/ LoginCookieLost(b)
      PROVE  UNCHANGED ownershipVars
  BY <1>4, AdmittedKept DEF LoginStart, Sign, LoginCookieLost, storeVars
<1>5. CASE LoginNext
  BY <1>2, <1>3, <1>4, <1>5 DEF LoginNext
<1>6. CASE DevicesNext /\ UNCHANGED loggingIn
  BY <1>6, AdmittedKept
  DEF DevicesNext, ChangeDeviceStatus, DeleteDevice, UpdateDevice, Begin, DeviceFails, storeVars
<1>7. CASE UNCHANGED vars
  BY <1>7, AdmittedKept DEF vars, storeVars, loginVars
<1> QED
  BY <1>1, <1>5, <1>6, <1>7 DEF Next, loginVars

LEMMA OwnershipStep == TypeOK /\ OwnerInv /\ [Next]_vars => [O!Next]_(O!vars)
<1> SUFFICES ASSUME TypeOK, OwnerInv, [Next]_vars
             PROVE  O!Next \/ UNCHANGED O!vars
  OBVIOUS
<1>1. ASSUME UNCHANGED ownershipVars
      PROVE  UNCHANGED O!vars
  BY <1>1 DEF ownershipVars, O!vars, CurrentOwner, Exists, Owner
<1>2. ASSUME NEW b \in Browsers, Logout(b), UNCHANGED loggingIn
      PROVE  O!Next
  <2>1. O!SignOut(b)
    BY <1>2, AdmittedKept DEF Logout, O!SignOut, CurrentOwner, Exists, Owner
  <2> QED
    BY <2>1 DEF O!Next
<1>3. ASSUME NEW r \in LoginRequests, SaveLogin(r) \/ SignIn(r) \/ (Saved(r) /\ LoginFails(r))
      PROVE  O!Next
  <2>1. PICK q : loggingIn[r] = q
    OBVIOUS
  <2>2. CASE SaveLogin(r)
    BY <2>1, <2>2, LoginRefines
  <2>3. CASE SignIn(r)
    BY <2>1, <2>3, AnswerRefines DEF SignIn
  <2>4. CASE Saved(r) /\ LoginFails(r)
    BY <2>1, <2>4, AnswerRefines DEF LoginFails, storeVars
  <2> QED
    BY <1>3, <2>2, <2>3, <2>4
<1> QED
  BY <1>1, <1>2, <1>3, RegistrationRefines, DeviceRefines, OthersStutter

LEMMA OwnershipInit == Init => O!Init
  BY DEF Init, StoreInit, LoginInit, O!Init, CurrentOwner, Exists, Admitted, Saved

(***************************************************************************)
(* Whatever requests overlap, credentials, owners and sessions change as   *)
(* Ownership says they may.                                                *)
(***************************************************************************)
THEOREM OwnershipIsImplemented == Spec => ImplementsOwnership
<1>1. Init => TypeOK /\ OwnerInv
  BY InitTypeOK, InitOwnerInv
<1>2. TypeOK /\ OwnerInv /\ [Next]_vars => TypeOK' /\ OwnerInv'
  BY NextTypeOK, NextOwnerInv
<1> QED
  BY <1>1, <1>2, OwnershipInit, OwnershipStep, PTL DEF Spec, ImplementsOwnership, O!Spec
================================================================================
