--------------------------- MODULE AccountEmailProofs ---------------------------
(***************************************************************************)
(* Proofs about AccountEmail.  The inductive invariant says of every copy  *)
(* of an account, in the database or in the hands of a request, what the   *)
(* database alone should satisfy: a stale copy is old, but truthful.       *)
(***************************************************************************)
EXTENDS AccountEmail, TLAPS

\* The code in a verification was drawn for this account and this address.
DrawnFor(a, e, code) ==
  /\ code \in 1..Len(drawn)
  /\ drawn[code] = [account |-> a, to |-> e]

Consistent(p) ==
  IF p.verification = None
    THEN p.verified <=> p.email # None
    ELSE ~p.verified /\ p.verification.email = p.email

Truthful(a, p) ==
  /\ Consistent(p)
  /\ p.verified => <<a, p.email>> \in proven
  /\ p.verification # None /\ p.verification.code # Nullified
       => DrawnFor(a, p.verification.email, p.verification.code)

\* The two above in the state a step leads to, for the copies of the state before.
DrawnForNext(a, e, code) ==
  /\ code \in 1..Len(drawn')
  /\ drawn'[code] = [account |-> a, to |-> e]

TruthfulNext(a, p) ==
  /\ Consistent(p)
  /\ p.verified => <<a, p.email>> \in proven'
  /\ p.verification # None /\ p.verification.code # Nullified
       => DrawnForNext(a, p.verification.email, p.verification.code)

\* Saving over the copy that was read forgets no failed attempt.
Keeps(read, saved) ==
  read.verification # None =>
    \/ saved.verified
    \/ /\ saved.verification # None
       /\ saved.verification.failedAttempts >= read.verification.failedAttempts

RequestInv(r) ==
  requests[r] # None =>
    /\ requests[r].stage = "read" =>
         requests[r].op = "update" /\ requests[r].email \in Emails
    /\ requests[r].stage # "read" =>
         /\ requests[r].read \in Profile
         /\ requests[r].saved \in Profile
         /\ Truthful(requests[r].account, requests[r].read)
         /\ Truthful(requests[r].account, requests[r].saved)
         /\ Keeps(requests[r].read, requests[r].saved)
    /\ requests[r].stage # "read" /\ requests[r].op = "update" =>
         /\ requests[r].saved.verification # None
         /\ requests[r].saved.verification.code # Nullified
    /\ requests[r].stage # "read" /\ requests[r].op = "verify" =>
         /\ requests[r].read.verification # None
         /\ requests[r].read.verification.code # Nullified
    /\ requests[r].stage = "send" => requests[r].op = "update"

MailInv == \A m \in mail : DrawnFor(m.account, m.to, m.code)

Inv ==
  /\ TypeOK
  /\ \A a \in AccountIds : Truthful(a, profiles[a])
  /\ \A r \in EmailRequests : RequestInv(r)
  /\ MailInv
--------------------------------------------------------------------------------
\* The sentinel None is none of the values it stands beside.
LEMMA NoneIsNoValue ==
  /\ None \notin Emails
  /\ None \notin EmailVerification
  /\ None \notin Profile
  /\ None \notin Request
BY NoneAssumption

LEMMA InitInv == Init => Inv
BY NoneAssumption, BoundsAssumption
DEF Init, Inv, TypeOK, Profile, Truthful, Consistent, RequestInv, MailInv, Recipient

\* The codes drawn and the proofs of a step extend those before it.
Grows ==
  /\ drawn' \in Seq(Recipient)
  /\ Len(drawn) <= Len(drawn')
  /\ \A n \in 1..Len(drawn) : drawn'[n] = drawn[n]
  /\ proven \subseteq proven'

\* What a truthful copy says stays true while codes are drawn and typed.
LEMMA DrawnForStays ==
  ASSUME TypeOK, Grows, NEW a, NEW e, NEW code, DrawnFor(a, e, code)
  PROVE  DrawnForNext(a, e, code)
<1>1. Len(drawn) \in Nat /\ Len(drawn') \in Nat
  BY DEF TypeOK, Grows
<1> QED
  BY <1>1 DEF DrawnFor, DrawnForNext, Grows

LEMMA TruthfulStays ==
  ASSUME TypeOK, Grows, NEW a, NEW p, Truthful(a, p)
  PROVE  TruthfulNext(a, p)
BY DrawnForStays DEF Truthful, TruthfulNext, Grows

\* A request that a step leaves alone keeps its part of the invariant.
LEMMA RequestStays ==
  ASSUME TypeOK, Grows, NEW r, RequestInv(r), requests'[r] = requests[r]
  PROVE  RequestInv(r)'
<1>1. requests[r] # None /\ requests[r].stage # "read" =>
        /\ TruthfulNext(requests[r].account, requests[r].read)
        /\ TruthfulNext(requests[r].account, requests[r].saved)
  BY TruthfulStays DEF RequestInv
<1> QED
  BY <1>1
  DEF RequestInv, Keeps, Truthful, DrawnFor, TruthfulNext, DrawnForNext, Consistent

\* So does the account of a document that a step leaves alone, and the mail.
LEMMA ProfilesStay ==
  ASSUME TypeOK, Grows, \A a \in AccountIds : Truthful(a, profiles[a]),
         UNCHANGED profiles
  PROVE  \A a \in AccountIds : Truthful(a, profiles[a])'
<1>1. \A a \in AccountIds : TruthfulNext(a, profiles[a])
  BY TruthfulStays
<1> QED
  BY <1>1 DEF Truthful, DrawnFor, TruthfulNext, DrawnForNext, Consistent

LEMMA MailStays ==
  ASSUME TypeOK, Grows, MailInv, UNCHANGED mail
  PROVE  MailInv'
<1>1. \A m \in mail : DrawnForNext(m.account, m.to, m.code)
  BY DrawnForStays DEF MailInv
<1> QED
  BY <1>1 DEF MailInv, DrawnFor, DrawnForNext

LEMMA NothingDrawn ==
  ASSUME TypeOK, UNCHANGED <<drawn, proven>>
  PROVE  Grows
BY DEF TypeOK, Grows

\* The profiles and challenges the operators build have their types.
LEMMA VerifiedType ==
  ASSUME NEW p \in Profile, p.verification # None
  PROVE  Verified(p) \in Profile
BY NoneIsNoValue DEF Profile, EmailVerification, Verified

LEMMA MismatchedType ==
  ASSUME NEW p \in Profile, ChallengeOpen(p)
  PROVE  Mismatched(p) \in Profile
<1> DEFINE v == [email |-> p.verification.email, code |-> Nullified,
                 failedAttempts |-> p.verification.failedAttempts + 1]
<1>1. v \in EmailVerification
  BY BoundsAssumption DEF Profile, EmailVerification, ChallengeOpen, Nullified
<1>2. Mismatched(p) = [p EXCEPT !.verification = v]
  BY DEF Mismatched
<1> HIDE DEF v
<1> QED
  BY <1>1, <1>2 DEF Profile

LEMMA NewProfileType ==
  ASSUME NEW p \in Profile, NEW e \in Emails, NEW code \in 1..MaxCode
  PROVE  NewProfile(p, e, code) \in Profile
<1>1. Challenge(p.verification, e, code) \in EmailVerification
  BY BoundsAssumption DEF Profile, EmailVerification, Challenge, Nullified
<1> QED
  BY <1>1 DEF Profile, NewProfile
--------------------------------------------------------------------------------
\* Between its count and its read an update only holds the address.
LEMMA UpdateAccountInv ==
  ASSUME Inv, NEW a \in AccountIds, NEW e \in Emails, NEW r \in EmailRequests,
         UpdateAccount(a, e, r)
  PROVE  Inv'
<1>1. Grows
  BY NothingDrawn DEF Inv, UpdateAccount
<1>2. TypeOK'
  BY NoneIsNoValue DEF Inv, TypeOK, UpdateAccount, Begin, Request
<1>3. ASSUME NEW s \in EmailRequests PROVE RequestInv(s)'
  <2>1. CASE s = r
    BY <2>1 DEF Inv, TypeOK, UpdateAccount, Begin, RequestInv
  <2>2. CASE s # r
    <3>1. requests'[s] = requests[s]
      BY <2>2 DEF Inv, TypeOK, UpdateAccount, Begin
    <3> QED
      BY <3>1, <1>1, RequestStays DEF Inv
  <2> QED
    BY <2>1, <2>2
<1> QED
  BY <1>1, <1>2, <1>3, ProfilesStay, MailStays DEF Inv, UpdateAccount

\* The new profile names the address and the code drawn for it.
LEMMA ReadAccountInv ==
  ASSUME Inv, NEW r \in EmailRequests, ReadAccount(r)
  PROVE  Inv'
<1> DEFINE request == requests[r]
           p == profiles[request.account]
           n == Len(drawn) + 1
           q == NewProfile(p, request.email, n)
<1>1. /\ request \in Request
      /\ request.account \in AccountIds
      /\ request.email \in Emails
      /\ request.op = "update"
      /\ p \in Profile
      /\ n \in 1..MaxCode
  BY BoundsAssumption
  DEF Inv, TypeOK, RequestInv, ReadAccount, Waiting, Request
<1>2. q \in Profile
  BY <1>1, NewProfileType
<1>3. requests' = [requests EXCEPT ![r] =
        [request EXCEPT !.stage = "save", !.read = p, !.saved = q]]
  BY DEF ReadAccount
<1>4. drawn' = Append(drawn, [account |-> request.account, to |-> request.email])
  BY DEF ReadAccount
<1>5. Grows /\ DrawnForNext(request.account, request.email, n)
  <2> DEFINE recipient == [account |-> request.account, to |-> request.email]
  <2>1. recipient \in Recipient /\ drawn \in Seq(Recipient)
    BY <1>1 DEF Inv, TypeOK, Recipient
  <2>2. drawn' = Append(drawn, recipient)
    BY <1>4
  <2> HIDE DEF recipient
  <2>3. /\ drawn' \in Seq(Recipient)
        /\ Len(drawn') = Len(drawn) + 1
        /\ Len(drawn) \in Nat
        /\ drawn'[Len(drawn) + 1] = recipient
        /\ \A k \in 1..Len(drawn) : drawn'[k] = drawn[k]
    BY <2>1, <2>2
  <2> QED
    BY <2>3 DEF ReadAccount, Grows, DrawnForNext, recipient
<1>6. TypeOK'
  <2>1. [request EXCEPT !.stage = "save", !.read = p, !.saved = q] \in Request
    <3> HIDE DEF p, q
    <3> QED BY <1>1, <1>2 DEF Request
  <2>2. requests' \in [EmailRequests -> Request \cup {None}]
    BY <1>3, <2>1 DEF Inv, TypeOK
  <2>3. drawn' \in Seq(Recipient) /\ Len(drawn') <= MaxCode
    BY <1>1, <1>4 DEF Inv, TypeOK, Recipient
  <2> QED
    BY <2>2, <2>3 DEF Inv, TypeOK, ReadAccount
<1>7. TruthfulNext(request.account, p)
  BY <1>1, <1>5, TruthfulStays DEF Inv
<1>8. TruthfulNext(request.account, q) /\ Keeps(p, q)
  <2> DEFINE v == Challenge(p.verification, request.email, n)
  <2>1. v.email = request.email /\ v.code = n
    BY DEF Challenge
  <2>2. v # None
    BY <1>1, <1>2, NoneIsNoValue, BoundsAssumption
    DEF NewProfile, Profile, Challenge, EmailVerification, Nullified
  <2>3. p.verification # None => v.failedAttempts >= p.verification.failedAttempts
    BY <1>1 DEF Challenge, Profile, EmailVerification
  <2>4. /\ q.email = request.email
        /\ q.verified = FALSE
        /\ q.verification = v
    BY DEF NewProfile
  <2> HIDE DEF q, v
  <2> QED
    BY <1>5, <2>1, <2>2, <2>3, <2>4 DEF TruthfulNext, Consistent, Keeps
<1>9. q.verification # None /\ q.verification.code # Nullified
  BY <1>1, <1>2, NoneIsNoValue, BoundsAssumption
  DEF NewProfile, Challenge, EmailVerification, Profile, Nullified
<1>10. ASSUME NEW s \in EmailRequests PROVE RequestInv(s)'
  <2>1. CASE s = r
    <3>1. requests'[r] = [request EXCEPT !.stage = "save", !.read = p, !.saved = q]
      BY <1>3 DEF Inv, TypeOK
    <3> HIDE DEF p, q
    <3>2. /\ requests'[r].stage = "save"
          /\ requests'[r].read = p
          /\ requests'[r].saved = q
          /\ requests'[r].op = "update"
          /\ requests'[r].account = request.account
      BY <3>1, <1>1 DEF Request
    <3> QED
      BY <3>2, <2>1, <1>1, <1>2, <1>7, <1>8, <1>9
      DEF RequestInv, Keeps, Truthful, DrawnFor, TruthfulNext, DrawnForNext, Consistent
  <2>2. CASE s # r
    <3>1. requests'[s] = requests[s]
      BY <2>2, <1>3 DEF Inv, TypeOK
    <3> QED
      BY <3>1, <1>5, RequestStays DEF Inv
  <2> QED
    BY <2>1, <2>2
<1> QED
  BY <1>5, <1>6, <1>10, ProfilesStay, MailStays DEF Inv, ReadAccount

\* A request saves a truthful copy.
LEMMA SaveAccountInv ==
  ASSUME Inv, NEW r \in EmailRequests, SaveAccount(r)
  PROVE  Inv'
<1> DEFINE request == requests[r]
<1>1. /\ request \in Request
      /\ request.account \in AccountIds
      /\ request.saved \in Profile
      /\ request.read \in Profile
      /\ Truthful(request.account, request.saved)
  BY DEF Inv, TypeOK, RequestInv, SaveAccount, Waiting, Request
<1>2. Grows
  BY NothingDrawn DEF Inv, SaveAccount
<1>3. profiles' = [profiles EXCEPT ![request.account] = request.saved]
  BY DEF SaveAccount
<1>4. requests' = [requests EXCEPT ![r] =
        IF request.op = "update" THEN [request EXCEPT !.stage = "send"] ELSE None]
  BY DEF SaveAccount
<1>5. TypeOK'
  <2>1. profiles' \in [AccountIds -> Profile]
    BY <1>1, <1>3 DEF Inv, TypeOK
  <2>2. requests' \in [EmailRequests -> Request \cup {None}]
    BY <1>1, <1>4 DEF Inv, TypeOK, Request
  <2>3. request.op = "verify" => request.read.verification.code \in 1..MaxCode
    BY <1>1, BoundsAssumption
    DEF Inv, RequestInv, SaveAccount, Waiting, Profile, EmailVerification, Nullified
  <2>4. burnt' \subseteq 1..MaxCode
    BY <2>3 DEF Inv, TypeOK, SaveAccount
  <2> QED
    BY <2>1, <2>2, <2>4 DEF Inv, TypeOK, SaveAccount
<1>6. \A a \in AccountIds : Truthful(a, profiles[a])'
  BY <1>1, <1>3 DEF Inv, TypeOK, SaveAccount, Truthful, DrawnFor, Consistent
<1>7. ASSUME NEW s \in EmailRequests PROVE RequestInv(s)'
  <2>1. CASE s = r
    <3>1. CASE request.op = "update"
      <4>1. requests'[r] = [request EXCEPT !.stage = "send"]
        BY <1>4, <3>1 DEF Inv, TypeOK
      <4>2. /\ requests'[r].stage = "send"
            /\ requests'[r].op = "update"
            /\ requests'[r].read = request.read
            /\ requests'[r].saved = request.saved
            /\ requests'[r].account = request.account
        BY <4>1, <1>1, <3>1 DEF Request
      <4>3. RequestInv(r)
        BY DEF Inv
      <4>4. request # None /\ request.stage = "save"
        BY DEF SaveAccount, Waiting
      <4>5. UNCHANGED <<drawn, proven>>
        BY DEF SaveAccount
      <4> QED
        BY <4>2, <4>3, <4>4, <4>5, <2>1, <3>1
        DEF RequestInv, Truthful, DrawnFor, Consistent, Keeps
    <3>2. CASE request.op # "update"
      <4>1. requests'[r] = None
        BY <1>4, <3>2 DEF Inv, TypeOK
      <4> QED
        BY <4>1, <2>1 DEF RequestInv
    <3> QED
      BY <3>1, <3>2
  <2>2. CASE s # r
    <3>1. requests'[s] = requests[s]
      BY <2>2, <1>4 DEF Inv, TypeOK
    <3> QED
      BY <3>1, <1>2, RequestStays DEF Inv
  <2> QED
    BY <2>1, <2>2
<1> QED
  BY <1>2, <1>5, <1>6, <1>7, MailStays DEF Inv, SaveAccount

\* The message goes to the address its code was drawn for.
LEMMA SendEmailInv ==
  ASSUME Inv, NEW r \in EmailRequests, SendEmail(r)
  PROVE  Inv'
<1> DEFINE request == requests[r]
           v == request.saved.verification
           message == [account |-> request.account, to |-> v.email, code |-> v.code]
<1>1. Grows
  BY NothingDrawn DEF Inv, SendEmail
<1>2. /\ request.account \in AccountIds
      /\ v \in EmailVerification
      /\ v.code # Nullified
      /\ DrawnFor(request.account, v.email, v.code)
  BY DEF Inv, TypeOK, RequestInv, SendEmail, Waiting, Request, Profile, Truthful
<1>3. message \in Message
  BY <1>2, BoundsAssumption DEF Message, EmailVerification, Nullified
<1>4. mail' \subseteq mail \cup {message}
  BY DEF SendEmail
<1>5. TypeOK'
  BY <1>3, <1>4 DEF Inv, TypeOK, SendEmail
<1>6. MailInv'
  <2>1. DrawnFor(message.account, message.to, message.code)
    BY <1>2
  <2>2. \A m \in mail' : DrawnFor(m.account, m.to, m.code)
    BY <2>1, <1>4 DEF Inv, MailInv
  <2> QED
    BY <2>2 DEF MailInv, DrawnFor, SendEmail
<1>7. ASSUME NEW s \in EmailRequests PROVE RequestInv(s)'
  <2>1. CASE s = r
    BY <2>1 DEF Inv, TypeOK, SendEmail, RequestInv
  <2>2. CASE s # r
    <3>1. requests'[s] = requests[s]
      BY <2>2 DEF Inv, TypeOK, SendEmail
    <3> QED
      BY <3>1, <1>1, RequestStays DEF Inv
  <2> QED
    BY <2>1, <2>2
<1> QED
  BY <1>1, <1>5, <1>6, <1>7, ProfilesStay DEF Inv, SendEmail

LEMMA RequestLostInv ==
  ASSUME Inv, NEW r \in EmailRequests, RequestLost(r)
  PROVE  Inv'
<1>1. Grows
  BY NothingDrawn DEF Inv, RequestLost
<1>2. TypeOK'
  BY DEF Inv, TypeOK, RequestLost
<1>3. ASSUME NEW s \in EmailRequests PROVE RequestInv(s)'
  <2>1. CASE s = r
    BY <2>1 DEF Inv, TypeOK, RequestLost, RequestInv
  <2>2. CASE s # r
    <3>1. requests'[s] = requests[s]
      BY <2>2 DEF Inv, TypeOK, RequestLost
    <3> QED
      BY <3>1, <1>1, RequestStays DEF Inv
  <2> QED
    BY <2>1, <2>2
<1> QED
  BY <1>1, <1>2, <1>3, ProfilesStay, MailStays DEF Inv, RequestLost

(***************************************************************************)
(* A code that matches was mailed, and codes are drawn once: the message   *)
(* went to the address that the challenge names.                           *)
(***************************************************************************)
LEMMA VerifyEmailInv ==
  ASSUME Inv, NEW a \in AccountIds, NEW code \in Nullified..Mistyped,
         NEW r \in EmailRequests, VerifyEmail(a, code, r)
  PROVE  Inv'
<1> DEFINE p == profiles[a]
           q == IF code = p.verification.code THEN Verified(p) ELSE Mismatched(p)
           request == [op |-> "verify", stage |-> "save", account |-> a, email |-> None,
                       read |-> p, saved |-> q]
<1>1. /\ p \in Profile
      /\ ChallengeOpen(p)
      /\ p.verification \in EmailVerification
      /\ Truthful(a, p)
  BY DEF Inv, TypeOK, VerifyEmail, ChallengeOpen, Profile
<1>2. q \in Profile
  BY <1>1, VerifiedType, MismatchedType DEF ChallengeOpen
<1>3. requests' = [requests EXCEPT ![r] = request]
  BY DEF VerifyEmail, Begin
<1>4. Grows
  BY DEF Inv, TypeOK, VerifyEmail, Grows
<1>5. code = p.verification.code => <<a, p.verification.email>> \in proven'
  <2> SUFFICES ASSUME code = p.verification.code
               PROVE  <<a, p.verification.email>> \in proven'
    OBVIOUS
  <2>1. PICK m \in mail : m.code = code
    BY <1>1, BoundsAssumption
    DEF VerifyEmail, Typed, ChallengeOpen, EmailVerification, Mistyped, Nullified
  <2>2. drawn[code] = [account |-> a, to |-> p.verification.email]
    BY <1>1 DEF Truthful, DrawnFor, ChallengeOpen
  <2>3. drawn[code] = [account |-> m.account, to |-> m.to]
    BY <2>1 DEF Inv, MailInv, DrawnFor
  <2>4. m.account = a /\ m.to = p.verification.email
    BY <2>2, <2>3
  <2> QED
    BY <2>1, <2>4 DEF VerifyEmail
<1>6. proven' \subseteq AccountIds \X Emails
  BY DEF Inv, TypeOK, VerifyEmail, Message
<1>7. TypeOK'
  <2>1. request \in Request
    <3> HIDE DEF p, q
    <3> QED BY <1>1, <1>2 DEF Request
  <2>2. requests' \in [EmailRequests -> Request \cup {None}]
    BY <1>3, <2>1 DEF Inv, TypeOK
  <2> QED
    BY <2>2, <1>6 DEF Inv, TypeOK, VerifyEmail
<1>8. TruthfulNext(a, p)
  BY <1>1, <1>4, TruthfulStays DEF Inv
<1>9. TruthfulNext(a, q) /\ Keeps(p, q)
  <2>1. CASE code = p.verification.code
    BY <2>1, <1>1, <1>5, NoneIsNoValue
    DEF Verified, TruthfulNext, Consistent, Keeps, Profile, EmailVerification
  <2>2. CASE code # p.verification.code
    <3> DEFINE v == [email |-> p.verification.email, code |-> Nullified,
                     failedAttempts |-> p.verification.failedAttempts + 1]
    <3>1. v # None
      BY <1>1, NoneIsNoValue, BoundsAssumption
      DEF EmailVerification, ChallengeOpen, Nullified
    <3>2. /\ q.verification = v
          /\ q.email = p.email
          /\ q.verified = p.verified
      BY <2>2, <1>1 DEF Mismatched, Profile
    <3>3. /\ v.email = p.verification.email
          /\ v.code = Nullified
          /\ v.failedAttempts >= p.verification.failedAttempts
      BY <1>1 DEF EmailVerification
    <3> HIDE DEF q, v
    <3> QED
      BY <3>1, <3>2, <3>3, <1>1
      DEF Truthful, TruthfulNext, Consistent, Keeps, ChallengeOpen
  <2> QED
    BY <2>1, <2>2
<1>10. ASSUME NEW s \in EmailRequests PROVE RequestInv(s)'
  <2>1. CASE s = r
    <3>1. requests'[r] = request
      BY <1>3 DEF Inv, TypeOK
    <3> HIDE DEF q
    <3> QED
      BY <3>1, <2>1, <1>1, <1>2, <1>8, <1>9
      DEF RequestInv, ChallengeOpen, Truthful, DrawnFor, TruthfulNext, DrawnForNext,
          Consistent, Keeps
  <2>2. CASE s # r
    <3>1. requests'[s] = requests[s]
      BY <2>2, <1>3 DEF Inv, TypeOK
    <3> QED
      BY <3>1, <1>4, RequestStays DEF Inv
  <2> QED
    BY <2>1, <2>2
<1> QED
  BY <1>4, <1>7, <1>10, ProfilesStay, MailStays DEF Inv, VerifyEmail

\* The copy of an added device is the account it read.
LEMMA AddDeviceInv ==
  ASSUME Inv, NEW a \in AccountIds, NEW r \in EmailRequests, AddDevice(a, r)
  PROVE  Inv'
<1>1. Grows
  BY NothingDrawn DEF Inv, AddDevice
<1>2. profiles[a] \in Profile /\ Truthful(a, profiles[a])
  BY DEF Inv, TypeOK
<1>3. TypeOK'
  BY <1>2 DEF Inv, TypeOK, AddDevice, Begin, Request
<1>4. Keeps(profiles[a], profiles[a])
  BY <1>2 DEF Keeps, Profile, EmailVerification
<1>5. ASSUME NEW s \in EmailRequests PROVE RequestInv(s)'
  <2>1. CASE s = r
    BY <2>1, <1>2, <1>4
    DEF Inv, TypeOK, AddDevice, Begin, RequestInv, Truthful, DrawnFor, Consistent, Keeps
  <2>2. CASE s # r
    <3>1. requests'[s] = requests[s]
      BY <2>2 DEF Inv, TypeOK, AddDevice, Begin
    <3> QED
      BY <3>1, <1>1, RequestStays DEF Inv
  <2> QED
    BY <2>1, <2>2
<1> QED
  BY <1>1, <1>3, <1>5, ProfilesStay, MailStays DEF Inv, AddDevice
--------------------------------------------------------------------------------
LEMMA StepInv == Inv /\ [Next]_vars => Inv'
<1> SUFFICES ASSUME Inv, [Next]_vars PROVE Inv'
  OBVIOUS
<1>1. CASE Next
  BY <1>1, UpdateAccountInv, ReadAccountInv, SaveAccountInv, SendEmailInv,
     RequestLostInv, VerifyEmailInv, AddDeviceInv DEF Next
<1>2. CASE UNCHANGED vars
  <2>1. Grows
    BY <1>2, NothingDrawn DEF Inv, vars
  <2>2. TypeOK'
    BY <1>2 DEF Inv, TypeOK, vars
  <2>3. \A r \in EmailRequests : RequestInv(r)'
    BY <1>2, <2>1, RequestStays DEF Inv, vars
  <2> QED
    BY <1>2, <2>1, <2>2, <2>3, ProfilesStay, MailStays DEF Inv, vars
<1> QED
  BY <1>1, <1>2

LEMMA Invariance == Spec => []Inv
BY InitInv, StepInv, PTL DEF Spec

\* Documents, requests and messages keep their types; failed attempts are bounded.
THEOREM TypeCorrect == Spec => []TypeOK
<1>1. Inv => TypeOK
  BY DEF Inv
<1> QED
  BY <1>1, Invariance, PTL

(***************************************************************************)
(* VerifyEmailAsync marks an address verified only on a code that was      *)
(* mailed to it for this account, and no stale save undermines that.       *)
(***************************************************************************)
THEOREM VerifiedIsProven == Spec => []VerifiedWasProven
<1>1. Inv => VerifiedWasProven
  BY DEF Inv, Truthful, VerifiedWasProven
<1> QED
  BY <1>1, Invariance, PTL

\* The address under verification is the address of the account.
THEOREM OneAddress == Spec => []AddressUnderProof
<1>1. Inv => AddressUnderProof
  BY DEF Inv, Truthful, Consistent, AddressUnderProof
<1> QED
  BY <1>1, Invariance, PTL

(***************************************************************************)
(* Failed attempts of VerifyEmailAsync are forgotten only by a success or  *)
(* by a request that saves a copy another request made stale.              *)
(***************************************************************************)
THEOREM AttemptsCount == Spec => AttemptsForgottenOnlyWhenOvertaken
<1>1. ASSUME Inv, [Next]_vars, profiles' # profiles,
             NEW a \in AccountIds, Forgets(a)
      PROVE  \E r \in EmailRequests : SavesStale(a, r)
  <2>1. PICK r \in EmailRequests : SaveAccount(r)
    BY <1>1
    DEF Next, vars, UpdateAccount, ReadAccount, SendEmail, RequestLost, VerifyEmail,
        AddDevice
  <2>2. profiles' = [profiles EXCEPT ![requests[r].account] = requests[r].saved]
    BY <2>1 DEF SaveAccount
  <2>3. profiles[a] \in Profile /\ Truthful(a, profiles[a])
    BY <1>1 DEF Inv, TypeOK
  <2>4. requests[r].account = a
    BY <1>1, <2>2, <2>3
    DEF Forgets, Inv, TypeOK, Truthful, Consistent, Profile, EmailVerification
  <2>5. profiles'[a] = requests[r].saved
    BY <1>1, <2>2, <2>4 DEF Inv, TypeOK
  <2>6. Keeps(requests[r].read, requests[r].saved)
    BY <1>1, <2>1 DEF Inv, RequestInv, SaveAccount, Waiting
  <2>7. /\ requests[r].read \in Profile
        /\ requests[r].saved \in Profile
    BY <1>1, <2>1 DEF Inv, RequestInv, SaveAccount, Waiting
  <2>8. requests[r].read # profiles[a]
    BY <1>1, <2>3, <2>5, <2>6, <2>7 DEF Forgets, Keeps, Profile, EmailVerification
  <2> QED
    BY <2>1, <2>4, <2>8 DEF SavesStale
<1>2. Inv /\ [Next]_vars => [AttemptsKept]_profiles
  BY <1>1 DEF AttemptsKept
<1> QED
  BY <1>2, Invariance, PTL DEF Spec, AttemptsForgottenOnlyWhenOvertaken
--------------------------------------------------------------------------------
(***************************************************************************)
(* The refinement.  Beside the invariant it needs that every copy of an    *)
(* account shows an address that a code was drawn for, which the code of a *)
(* nullified challenge does not tell any more.                             *)
(***************************************************************************)
Shows(a, p) == p.email # None => <<a, p.email>> \in AddressesAsked

AskedInv ==
  /\ \A a \in AccountIds : Shows(a, profiles[a])
  /\ \A r \in EmailRequests :
       requests[r] # None /\ requests[r].stage # "read" =>
         Shows(requests[r].account, requests[r].saved)

\* A code drawn for an address says that it was asked for.
LEMMA DrawnIsAsked ==
  ASSUME NEW a, NEW e, NEW code, DrawnFor(a, e, code)
  PROVE  <<a, e>> \in AddressesAsked
BY DEF DrawnFor, AddressesAsked

LEMMA AskedGrows ==
  ASSUME TypeOK, Grows
  PROVE  AddressesAsked \subseteq AddressesAsked'
<1>1. Len(drawn) \in Nat /\ Len(drawn') \in Nat /\ Len(drawn) <= Len(drawn')
  BY DEF TypeOK, Grows
<1>2. \A n \in 1..Len(drawn) : n \in 1..Len(drawn') /\ drawn'[n] = drawn[n]
  BY <1>1 DEF Grows
<1> QED
  BY <1>2 DEF AddressesAsked

\* Codes are drawn in one step, and never withdrawn.
LEMMA ReadAccountAsks ==
  ASSUME Inv, NEW r \in EmailRequests, ReadAccount(r)
  PROVE  AddressesAsked' =
           AddressesAsked \cup {<<requests[r].account, requests[r].email>>}
<1> DEFINE recipient == [account |-> requests[r].account, to |-> requests[r].email]
<1>1. recipient \in Recipient /\ drawn \in Seq(Recipient)
  BY DEF Inv, TypeOK, RequestInv, ReadAccount, Waiting, Request, Recipient
<1>2. drawn' = Append(drawn, recipient)
  BY DEF ReadAccount
<1>3. recipient.account = requests[r].account /\ recipient.to = requests[r].email
  OBVIOUS
<1> HIDE DEF recipient
<1>4. /\ Len(drawn) \in Nat
      /\ Len(drawn') = Len(drawn) + 1
      /\ drawn'[Len(drawn) + 1] = recipient
      /\ \A n \in 1..Len(drawn) : drawn'[n] = drawn[n]
  BY <1>1, <1>2
<1>5. 1..Len(drawn') = 1..Len(drawn) \cup {Len(drawn) + 1}
  BY <1>4
<1> QED
  BY <1>3, <1>4, <1>5 DEF AddressesAsked

LEMMA StepGrows ==
  ASSUME Inv, [Next]_vars
  PROVE  Grows
<1>1. ASSUME NEW r \in EmailRequests, ReadAccount(r)
      PROVE  Grows
  <2> DEFINE recipient == [account |-> requests[r].account, to |-> requests[r].email]
  <2>1. recipient \in Recipient /\ drawn \in Seq(Recipient)
    BY <1>1 DEF Inv, TypeOK, RequestInv, ReadAccount, Waiting, Request, Recipient
  <2>2. drawn' = Append(drawn, recipient) /\ UNCHANGED proven
    BY <1>1 DEF ReadAccount
  <2> HIDE DEF recipient
  <2> QED
    BY <2>1, <2>2 DEF Grows
<1>2. ASSUME NEW a \in AccountIds, NEW code \in Nullified..Mistyped,
             NEW r \in EmailRequests, VerifyEmail(a, code, r)
      PROVE  Grows
  BY <1>2 DEF Inv, TypeOK, VerifyEmail, Grows
<1>3. CASE UNCHANGED <<drawn, proven>>
  BY <1>3, NothingDrawn DEF Inv
<1> QED
  BY <1>1, <1>2, <1>3
  DEF Next, vars, UpdateAccount, SaveAccount, SendEmail, RequestLost, AddDevice

\* What a request will save shows an address that was asked for when it is made.
LEMMA SavedShowsAsked ==
  ASSUME Inv, AskedInv, [Next]_vars, NEW r \in EmailRequests,
         requests'[r] # None, requests'[r].stage # "read"
  PROVE  requests'[r].saved.email # None =>
           <<requests'[r].account, requests'[r].saved.email>> \in AddressesAsked'
<1>1. AddressesAsked \subseteq AddressesAsked'
  BY StepGrows, AskedGrows DEF Inv
<1>2. CASE requests'[r] = requests[r]
  BY <1>1, <1>2 DEF AskedInv, Shows
<1>3. CASE ReadAccount(r)
  <2> DEFINE p == profiles[requests[r].account]
             q == NewProfile(p, requests[r].email, Len(drawn) + 1)
  <2>1. requests[r] \in Request /\ q.email = requests[r].email
    BY <1>3 DEF Inv, TypeOK, ReadAccount, Waiting, NewProfile
  <2>2. requests'[r] = [requests[r] EXCEPT !.stage = "save", !.read = p, !.saved = q]
    BY <1>3 DEF Inv, TypeOK, ReadAccount
  <2> HIDE DEF p, q
  <2>3. requests'[r].saved = q /\ requests'[r].account = requests[r].account
    BY <2>1, <2>2 DEF Request
  <2> QED
    BY <1>3, <2>1, <2>3, ReadAccountAsks
<1>4. CASE SaveAccount(r)
  <2>1. requests[r] \in Request /\ requests[r].stage = "save" /\ requests[r] # None
    BY <1>4 DEF Inv, TypeOK, SaveAccount, Waiting
  <2>2. requests'[r] = [requests[r] EXCEPT !.stage = "send"]
    BY <1>4 DEF Inv, TypeOK, SaveAccount
  <2>3. requests'[r].saved = requests[r].saved /\ requests'[r].account = requests[r].account
    BY <2>1, <2>2 DEF Request
  <2> QED
    BY <1>1, <2>1, <2>3 DEF AskedInv, Shows
<1>5. ASSUME NEW a \in AccountIds, NEW code \in Nullified..Mistyped, VerifyEmail(a, code, r)
      PROVE  requests'[r].account = a /\ requests'[r].saved.email = profiles[a].email
  <2> DEFINE p == profiles[a]
             q == IF code = p.verification.code THEN Verified(p) ELSE Mismatched(p)
  <2>1. requests'[r] = [op |-> "verify", stage |-> "save", account |-> a, email |-> None,
                        read |-> p, saved |-> q]
    BY <1>5 DEF Inv, TypeOK, VerifyEmail, Begin
  <2>2. p \in Profile /\ Consistent(p) /\ p.verification # None
    BY <1>5 DEF Inv, TypeOK, Truthful, VerifyEmail, ChallengeOpen
  <2>3. Verified(p).email = p.email /\ Mismatched(p).email = p.email
    BY <2>2 DEF Verified, Mismatched, Consistent, Profile
  <2> HIDE DEF p
  <2> QED
    BY <2>1, <2>3 DEF p
<1>6. ASSUME NEW a \in AccountIds, AddDevice(a, r)
      PROVE  requests'[r].account = a /\ requests'[r].saved.email = profiles[a].email
  BY <1>6 DEF Inv, TypeOK, AddDevice, Begin
<1>7. ASSUME NEW a \in AccountIds, NEW e \in Emails, UpdateAccount(a, e, r)
      PROVE  FALSE
  BY <1>7 DEF Inv, TypeOK, UpdateAccount, Begin
<1>8. \/ requests'[r] = requests[r]
      \/ ReadAccount(r)
      \/ SaveAccount(r)
      \/ \E a \in AccountIds :
           \/ \E code \in Nullified..Mistyped : VerifyEmail(a, code, r)
           \/ AddDevice(a, r)
           \/ \E e \in Emails : UpdateAccount(a, e, r)
  <2>1. ASSUME NEW s \in EmailRequests, s # r,
               NEW value, requests' = [requests EXCEPT ![s] = value]
        PROVE  requests'[r] = requests[r]
    BY <2>1 DEF Inv, TypeOK
  <2>2. ASSUME NEW s \in EmailRequests, SendEmail(s) \/ RequestLost(s)
        PROVE  requests'[r] = requests[r]
    BY <2>1, <2>2 DEF Inv, TypeOK, SendEmail, RequestLost
  <2>3. ASSUME NEW s \in EmailRequests, s # r, ReadAccount(s) \/ SaveAccount(s)
        PROVE  requests'[r] = requests[r]
    BY <2>1, <2>3 DEF ReadAccount, SaveAccount
  <2>4. ASSUME NEW s \in EmailRequests, s # r, NEW a \in AccountIds,
               \/ \E code \in Nullified..Mistyped : VerifyEmail(a, code, s)
               \/ AddDevice(a, s)
               \/ \E e \in Emails : UpdateAccount(a, e, s)
        PROVE  requests'[r] = requests[r]
    BY <2>1, <2>4 DEF VerifyEmail, AddDevice, UpdateAccount, Begin
  <2>5. CASE UNCHANGED vars
    BY <2>5 DEF vars
  <2> QED
    BY <2>2, <2>3, <2>4, <2>5 DEF Next
<1>9. \A a \in AccountIds : profiles[a].email # None => <<a, profiles[a].email>> \in AddressesAsked
  BY DEF AskedInv, Shows
<1> QED
  BY <1>1, <1>2, <1>3, <1>4, <1>5, <1>6, <1>7, <1>8, <1>9

LEMMA AskedStep ==
  ASSUME Inv, AskedInv, [Next]_vars
  PROVE  AskedInv'
<1>1. AddressesAsked \subseteq AddressesAsked'
  BY StepGrows, AskedGrows DEF Inv
<1>2. ASSUME NEW a \in AccountIds
      PROVE  profiles'[a].email # None => <<a, profiles'[a].email>> \in AddressesAsked'
  <2>1. CASE profiles'[a] = profiles[a]
    BY <1>1, <2>1 DEF AskedInv, Shows
  <2>2. ASSUME NEW r \in EmailRequests, SaveAccount(r), profiles'[a] # profiles[a]
        PROVE  /\ requests[r] # None
               /\ requests[r].stage # "read"
               /\ requests[r].account = a
               /\ profiles'[a] = requests[r].saved
    BY <2>2 DEF Inv, TypeOK, SaveAccount, Waiting
  <2>3. (\E r \in EmailRequests : SaveAccount(r)) \/ UNCHANGED profiles
    BY DEF Next, vars, UpdateAccount, ReadAccount, SendEmail, RequestLost, VerifyEmail,
           AddDevice
  <2> QED
    BY <1>1, <2>1, <2>2, <2>3 DEF AskedInv, Shows
<1> QED
  BY <1>2, SavedShowsAsked DEF AskedInv, Shows

LEMMA AskedInit == Init => AskedInv
  BY DEF Init, AskedInv, Shows
--------------------------------------------------------------------------------
LEMMA ReadAccountRefines ==
  ASSUME Inv, NEW r \in EmailRequests, ReadAccount(r)
  PROVE  P!Next
<1>1. requests[r].account \in AccountIds /\ requests[r].email \in Emails
  BY DEF Inv, TypeOK, RequestInv, ReadAccount, Waiting, Request
<1>2. P!Ask(requests[r].account, requests[r].email)
  BY ReadAccountAsks DEF ReadAccount, P!Ask, AddressShown, AddressesReached
<1> QED
  BY <1>1, <1>2 DEF P!Next

LEMMA SendEmailRefines ==
  ASSUME Inv, NEW r \in EmailRequests, SendEmail(r)
  PROVE  P!Next \/ UNCHANGED P!vars
<1> DEFINE a == requests[r].account
           v == requests[r].saved.verification
           message == [account |-> a, to |-> v.email, code |-> v.code]
<1>1. a \in AccountIds /\ v.email \in Emails /\ <<a, v.email>> \in AddressesAsked
  BY DrawnIsAsked
  DEF Inv, TypeOK, RequestInv, SendEmail, Waiting, Request, Profile, Truthful,
      EmailVerification
<1>2. /\ UNCHANGED <<profiles, drawn, proven>>
      /\ mail' = mail \cup {message} \/ UNCHANGED mail
  BY DEF SendEmail
<1>3. UNCHANGED <<AddressShown, AddressesAsked, proven>>
  BY <1>2 DEF AddressShown, AddressesAsked
<1>4. CASE mail' = mail \cup {message}
  <2>1. AddressesReached' = AddressesReached \cup {<<message.account, message.to>>}
    <3> HIDE DEF message
    <3> QED BY <1>4 DEF AddressesReached
  <2>2. P!Deliver(a, v.email)
    BY <1>1, <1>3, <2>1 DEF P!Deliver
  <2> QED
    BY <1>1, <2>2 DEF P!Next
<1>5. CASE UNCHANGED mail
  BY <1>3, <1>5 DEF P!vars, AddressesReached
<1> QED
  BY <1>2, <1>4, <1>5

\* Codes are drawn once: whatever messages carry this one, they went to one address.
LEMMA VerifyEmailRefines ==
  ASSUME Inv, NEW a \in AccountIds, NEW code \in Nullified..Mistyped,
         NEW r \in EmailRequests, VerifyEmail(a, code, r)
  PROVE  P!Next \/ UNCHANGED P!vars
<1> DEFINE found == {n \in mail : n.account = a /\ n.code = code}
<1>1. /\ proven' = proven \cup {<<a, m.to>> : m \in found}
      /\ UNCHANGED <<profiles, drawn, mail>>
  BY DEF VerifyEmail
<1>2. UNCHANGED <<AddressShown, AddressesAsked, AddressesReached>>
  BY <1>1 DEF AddressShown, AddressesAsked, AddressesReached
<1>3. CASE found = {}
  <2>1. proven' = proven
    BY <1>1, <1>3
  <2> QED
    BY <1>2, <2>1 DEF P!vars
<1>4. CASE found # {}
  <2>1. PICK m \in mail : m.account = a /\ m.code = code
    BY <1>4
  <2>2. \A n \in found : n.to = m.to
    <3>1. ASSUME NEW n \in mail, n.code = code
          PROVE  drawn[code].to = n.to
      <4>1. drawn[code] = [account |-> n.account, to |-> n.to]
        BY <3>1 DEF Inv, MailInv, DrawnFor
      <4> QED
        BY <4>1
    <3> QED
      BY <2>1, <3>1
  <2>3. m.to \in Emails /\ <<a, m.to>> \in AddressesReached
    BY <2>1 DEF Inv, TypeOK, Message, AddressesReached
  <2>4. proven' = proven \cup {<<a, m.to>>}
    BY <1>1, <2>1, <2>2
  <2>5. P!Prove(a, m.to)
    BY <1>2, <2>3, <2>4 DEF P!Prove
  <2> QED
    BY <2>3, <2>5 DEF P!Next
<1> QED
  BY <1>3, <1>4

LEMMA SaveAccountRefines ==
  ASSUME Inv, AskedInv, NEW r \in EmailRequests, SaveAccount(r)
  PROVE  P!Next
<1> DEFINE a == requests[r].account
           p == requests[r].saved
           address == [email |-> p.email, verified |-> p.verified]
<1>1. a \in AccountIds /\ p \in Profile /\ Truthful(a, p) /\ Shows(a, p)
  BY DEF Inv, AskedInv, TypeOK, RequestInv, SaveAccount, Waiting, Request
<1>2. profiles' = [profiles EXCEPT ![a] = p] /\ UNCHANGED <<drawn, mail, proven>>
  BY DEF SaveAccount
<1>3. address \in P!Addresses
  BY <1>1 DEF Profile, P!Addresses
<1> HIDE DEF a, p
<1>4. AddressShown' = [AddressShown EXCEPT ![a] = address]
  BY <1>1, <1>2 DEF Inv, TypeOK, AddressShown
<1>5. P!Show(a, address)
  BY <1>1, <1>2, <1>4 DEF P!Show, Truthful, Shows, AddressesAsked, AddressesReached
<1> QED
  BY <1>1, <1>3, <1>5 DEF P!Next

LEMMA AddressProofStep == Inv /\ AskedInv /\ [Next]_vars => [P!Next]_(P!vars)
<1> SUFFICES ASSUME Inv, AskedInv, [Next]_vars
             PROVE  P!Next \/ UNCHANGED P!vars
  OBVIOUS
<1>1. CASE UNCHANGED <<profiles, drawn, mail, proven>>
  BY <1>1 DEF P!vars, AddressShown, AddressesAsked, AddressesReached
<1>2. \/ UNCHANGED <<profiles, drawn, mail, proven>>
      \/ \E r \in EmailRequests :
           \/ ReadAccount(r) \/ SaveAccount(r) \/ SendEmail(r)
           \/ \E a \in AccountIds, code \in Nullified..Mistyped : VerifyEmail(a, code, r)
  BY DEF Next, vars, UpdateAccount, RequestLost, AddDevice
<1> QED
  BY <1>1, <1>2, ReadAccountRefines, SaveAccountRefines, SendEmailRefines,
     VerifyEmailRefines

LEMMA AddressProofInit == Init => P!Init
  BY DEF Init, P!Init, AddressShown, AddressesAsked, AddressesReached

(***************************************************************************)
(* UpdateAccountAsync, VerifyEmailAsync and CompleteAttestation, however   *)
(* their reads and saves overlap, change the address an account shows and  *)
(* whether it is verified as AddressProof says they may.                   *)
(***************************************************************************)
THEOREM AddressProofIsImplemented == Spec => ImplementsAddressProof
<1>1. Init => Inv /\ AskedInv
  BY InitInv, AskedInit
<1>2. Inv /\ AskedInv /\ [Next]_vars => Inv' /\ AskedInv'
  BY StepInv, AskedStep
<1> QED
  BY <1>1, <1>2, AddressProofInit, AddressProofStep, PTL
  DEF Spec, ImplementsAddressProof, P!Spec
================================================================================
