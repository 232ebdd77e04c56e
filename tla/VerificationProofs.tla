--------------------------- MODULE VerificationProofs ---------------------------
(***************************************************************************)
(* Proofs about Verification, for any number of authenticators of any      *)
(* kinds, ceremonies, sites and answers.  The heart is StatementBinds: in  *)
(* every format but "none", a statement that verifies against some         *)
(* authenticator data and client data was made for exactly these.          *)
(***************************************************************************)
EXTENDS Verification, FiniteSetTheorems, TLAPS

CreationInv ==
  \A m \in creations :
    /\ m.client.type = "create"
    /\ m.auth.rpIdHash = m.client.origin
    /\ m.auth.acd # None
    /\ m.auth.acd.key[1] = m.by
    /\ m.auth.uv = kind[m.by].uv

SigningInv ==
  \A s \in assertions :
    /\ s.client.type = "get"
    /\ s.auth.acd = None
    /\ s.auth.uv = kind[s.key[1]].uv

BegunInv ==
  /\ \A r \in registered : options[r.ceremony] # None
  /\ \A x \in signedIn : options[x.ceremony] # None

KeyedInv ==
  /\ IsFiniteSet(creations) /\ IsFiniteSet(assertions)
  /\ \A r \in registered : r.auth.acd # None

Inv ==
  /\ TypeOK
  /\ KeyedInv
  /\ CreationInv
  /\ SigningInv
  /\ BegunInv
  /\ AttestedHere
  /\ MintedForThisSite
  /\ GenuineModel
  /\ SignedHere

--------------------------------------------------------------------------------
\* What a statement of each format holds.
LEMMA StatementFields ==
  ASSUME NEW a, NEW auth, NEW client, NEW time,
         kind[a] \in Kind, kind[a].fmt # "none"
  PROVE  LET s == StatementOf(a, auth, client, time)
             data == Data(auth, client)
         IN /\ s.fmt = kind[a].fmt
            /\ s.fmt = "packed" => s.sig.over = data
            /\ s.fmt = "fido-u2f" => s.sig.over = U2fData(auth, client)
            /\ s.fmt = "android-key" => s.sig.over = data
            /\ s.fmt \in {"apple", "apple-appattest"} => s.x5c[1].bound = data
            /\ s.fmt = "android-safetynet" => s.info.nonce = data
            /\ s.fmt = "tpm" => s.info.extraData = data
<1> DEFINE s == StatementOf(a, auth, client, time)
           data == Data(auth, client)
           key == auth.acd.key
           site == auth.rpIdHash
<1>1. kind[a].fmt \in Formats /\ Len(kind[a].chain) \in Nat /\ kind[a].full \in BOOLEAN
  BY DEF Kind
<1>2. ASSUME NEW k, NEW b
      PROVE X5c(a, k, b, site)[1] = Certificate(a, k, b, site)
  BY <1>1 DEF X5c
<1>3. CASE kind[a].fmt = "packed"
  <2>1. CASE kind[a].full
    BY <1>3, <2>1 DEF StatementOf, Statement
  <2>2. CASE ~kind[a].full
    BY <1>3, <2>2 DEF StatementOf, Statement
  <2>. QED BY <2>1, <2>2
<1>4. CASE kind[a].fmt = "fido-u2f"
  BY <1>4 DEF StatementOf, Statement
<1>5. CASE kind[a].fmt = "android-key"
  BY <1>5 DEF StatementOf, Statement
<1>6. CASE kind[a].fmt \in {"apple", "apple-appattest"}
  <2>1. s = Statement(a, X5c(a, key, data, site), None, None, None)
    BY <1>6 DEF StatementOf
  <2>2. s.x5c = X5c(a, key, data, site) /\ s.fmt = kind[a].fmt
    BY <2>1 DEF Statement
  <2>3. X5c(a, key, data, site)[1] = Certificate(a, key, data, site)
    BY <1>2
  <2>4. Certificate(a, key, data, site).bound = data
    BY DEF Certificate
  <2>. QED BY <2>2, <2>3, <2>4, <1>6
<1>7. CASE kind[a].fmt = "android-safetynet"
  BY <1>7 DEF StatementOf, Statement
<1>8. CASE kind[a].fmt = "tpm"
  BY <1>8 DEF StatementOf, Statement
<1>9. \/ kind[a].fmt = "packed"
      \/ kind[a].fmt = "fido-u2f"
      \/ kind[a].fmt = "android-key"
      \/ kind[a].fmt \in {"apple", "apple-appattest"}
      \/ kind[a].fmt = "android-safetynet"
      \/ kind[a].fmt = "tpm"
  BY <1>1 DEF Formats
<1>. QED BY Zenon, <1>3, <1>4, <1>5, <1>6, <1>7, <1>8, <1>9

\* Data is injective.
LEMMA DataInjective ==
  ASSUME NEW auth, NEW client, NEW auth2, NEW client2,
         Data(auth, client) = Data(auth2, client2)
  PROVE  auth = auth2 /\ client = client2
BY DEF Data

\* The data a verified statement signs, hashes or names is its own.
LEMMA StatementBinds ==
  ASSUME NEW a, NEW auth, NEW client, NEW time, NEW auth2, NEW client2, NEW t,
         kind[a] \in Kind, kind[a].fmt # "none",
         StatementVerifies(StatementOf(a, auth, client, time), auth2, client2, t)
  PROVE  IF kind[a].fmt = "fido-u2f"
         THEN U2fData(auth, client) = U2fData(auth2, client2)
         ELSE auth = auth2 /\ client = client2
<1> DEFINE s == StatementOf(a, auth, client, time)
<1>1. /\ s.fmt = kind[a].fmt
      /\ s.fmt = "packed" => s.sig.over = Data(auth, client)
      /\ s.fmt = "fido-u2f" => s.sig.over = U2fData(auth, client)
      /\ s.fmt = "android-key" => s.sig.over = Data(auth, client)
      /\ s.fmt \in {"apple", "apple-appattest"} => s.x5c[1].bound = Data(auth, client)
      /\ s.fmt = "android-safetynet" => s.info.nonce = Data(auth, client)
      /\ s.fmt = "tpm" => s.info.extraData = Data(auth, client)
  BY StatementFields
<1>2. StatementVerifies(s, auth2, client2, t)
  OBVIOUS
<1>3. s.fmt \in Formats
  BY <1>1 DEF Kind
<1> HIDE DEF s
<1>4. CASE s.fmt = "packed"
  <2>1. s.sig.over = Data(auth2, client2)
    BY <1>2, <1>4 DEF StatementVerifies, PackedVerifies, Verifies
  <2>. QED BY <2>1, <1>1, <1>4, DataInjective
<1>5. CASE s.fmt = "fido-u2f"
  BY <1>1, <1>2, <1>5 DEF StatementVerifies, FidoU2fVerifies, Verifies
<1>6. CASE s.fmt = "android-key"
  <2>1. s.sig.over = Data(auth2, client2)
    BY <1>2, <1>6 DEF StatementVerifies, AndroidKeyVerifies, Verifies
  <2>. QED BY <2>1, <1>1, <1>6, DataInjective
<1>7. CASE s.fmt \in {"apple", "apple-appattest"}
  <2>1. s.x5c[1].bound = Data(auth2, client2)
    BY <1>2, <1>7 DEF StatementVerifies, AppleVerifies, AppleAppAttestVerifies
  <2>. QED BY <2>1, <1>1, <1>7, DataInjective
<1>8. CASE s.fmt = "android-safetynet"
  <2>1. s.info.nonce = Data(auth2, client2)
    BY <1>2, <1>8 DEF StatementVerifies, SafetyNetVerifies
  <2>. QED BY <2>1, <1>1, <1>8, DataInjective
<1>9. CASE s.fmt = "tpm"
  <2>1. s.info.extraData = Data(auth2, client2)
    BY <1>2, <1>9 DEF StatementVerifies, TpmVerifies, TpmKeyVerifies
  <2>. QED BY <2>1, <1>1, <1>9, DataInjective
<1>10. s.fmt # "none"
  BY <1>1
<1>. QED BY <1>3, <1>4, <1>5, <1>6, <1>7, <1>8, <1>9, <1>10, <1>1 DEF Formats

\* The certificate a statement is trusted by names its maker's authorities.
LEMMA TrustPathFields ==
  ASSUME NEW a, NEW auth, NEW client, NEW time,
         kind[a] \in Kind, kind[a].fmt # "none",
         ~(kind[a].fmt = "packed" /\ ~kind[a].full)
  PROVE  LET path == TrustPath(StatementOf(a, auth, client, time))
         IN /\ path # <<>>
            /\ path[1].above = kind[a].above
            /\ path[1].selfIssued = kind[a].selfIssued
            /\ path[1].name = kind[a].name
<1> DEFINE s == StatementOf(a, auth, client, time)
           path == TrustPath(s)
<1>1. kind[a].fmt \in Formats /\ Len(kind[a].chain) \in Nat /\ kind[a].full \in BOOLEAN
  BY DEF Kind
<1>2. s.fmt = kind[a].fmt
  BY StatementFields
<1>3. PICK k, b, site : s.x5c = X5c(a, k, b, site)
  <2>1. \/ kind[a].fmt \in {"fido-u2f", "android-safetynet"}
        \/ kind[a].fmt = "packed" /\ kind[a].full
        \/ kind[a].fmt = "android-key"
        \/ kind[a].fmt \in {"apple", "apple-appattest"}
        \/ kind[a].fmt = "tpm"
    BY <1>1 DEF Formats
  <2>2. s.x5c = X5c(a, <<a, 0>>, None, auth.rpIdHash)
        \/ s.x5c = X5c(a, auth.acd.key, client, auth.rpIdHash)
        \/ s.x5c = X5c(a, auth.acd.key, Data(auth, client), auth.rpIdHash)
    <3>1. CASE kind[a].fmt \in {"fido-u2f", "android-safetynet"}
      BY <3>1 DEF StatementOf, Statement
    <3>2. CASE kind[a].fmt = "packed" /\ kind[a].full
      BY <3>2 DEF StatementOf, Statement
    <3>3. CASE kind[a].fmt = "android-key"
      BY <3>3 DEF StatementOf, Statement
    <3>4. CASE kind[a].fmt \in {"apple", "apple-appattest"}
      BY <3>4 DEF StatementOf, Statement
    <3>5. CASE kind[a].fmt = "tpm"
      BY <3>5 DEF StatementOf, Statement
    <3>. QED BY Zenon, <2>1, <3>1, <3>2, <3>3, <3>4, <3>5
  <2>. QED BY Zenon, <2>2
<1> DEFINE leaf == Certificate(a, k, b, site)
<1>4. s.x5c[1] = leaf /\ DOMAIN s.x5c = 1..(1 + Len(kind[a].chain))
  <2>1. X5c(a, k, b, site)[1] = leaf
    BY <1>1 DEF X5c
  <2>2. DOMAIN X5c(a, k, b, site) = 1..(1 + Len(kind[a].chain))
    BY DEF X5c
  <2>. QED BY <1>3, <2>1, <2>2
<1>5. leaf.above = kind[a].above /\ leaf.selfIssued = kind[a].selfIssued
        /\ leaf.name = kind[a].name
  BY DEF Certificate
<1>6. path # <<>> /\ path[1] = s.x5c[1]
  <2>1. CASE s.fmt = "android-safetynet"
    BY <2>1 DEF TrustPath
  <2>2. CASE s.fmt # "android-safetynet"
    <3>1. path = s.x5c
      BY <2>2 DEF TrustPath
    <3>2. 1 \in DOMAIN s.x5c
      BY <1>1, <1>4
    <3>. HIDE DEF path, s
    <3>. QED BY <3>1, <3>2
  <2>. QED BY <2>1, <2>2
<1> HIDE DEF leaf, path, s
<1>7. /\ path # <<>>
      /\ path[1].above = kind[a].above
      /\ path[1].selfIssued = kind[a].selfIssued
      /\ path[1].name = kind[a].name
  BY <1>4, <1>5, <1>6
<1>. QED BY <1>7 DEF path, s

\* A trusted chain of a fully attesting model is that of one of its roots.
LEMMA TrustedIsGenuine ==
  ASSUME NEW a, NEW auth, NEW client, NEW time, NEW entry,
         kind[a] \in Kind, kind[a].fmt # "none",
         entry # None, FullAttestation(entry),
         TrustPathTrusted(StatementOf(a, auth, client, time), entry)
  PROVE  \/ kind[a].fmt = "packed" /\ ~kind[a].full
         \/ kind[a].above \cap entry.roots # {}
         \/ kind[a].selfIssued /\ kind[a].name \in entry.roots
<1> SUFFICES ASSUME ~(kind[a].fmt = "packed" /\ ~kind[a].full)
             PROVE  \/ kind[a].above \cap entry.roots # {}
                    \/ kind[a].selfIssued /\ kind[a].name \in entry.roots
  OBVIOUS
<1> DEFINE path == TrustPath(StatementOf(a, auth, client, time))
<1>1. /\ path # <<>>
      /\ path[1].above = kind[a].above
      /\ path[1].selfIssued = kind[a].selfIssued
      /\ path[1].name = kind[a].name
  BY TrustPathFields
<1>2. ValidateTrustChain(path, entry.roots)
  BY <1>1 DEF TrustPathTrusted
<1> HIDE DEF path
<1>. QED BY <1>1, <1>2 DEF ValidateTrustChain

LEMMA FormatOfStatement ==
  ASSUME NEW m, kind[m.by] \in Kind
  PROVE  StatementMade(m).fmt = kind[m.by].fmt
<1>1. CASE kind[m.by].fmt = "none"
  BY <1>1 DEF StatementMade, StatementOf, Statement
<1>2. CASE kind[m.by].fmt # "none"
  BY <1>2, StatementFields DEF StatementMade
<1>. QED BY <1>1, <1>2

--------------------------------------------------------------------------------
LEMMA TypeInit == Init => TypeOK
BY KindsAssumption DEF Init, TypeOK

\* What MakeNewCredential and MakeAssertion are given was seen before.
LEMMA SeenTypes ==
  ASSUME TypeOK
  PROVE  ClientDataSeen \subseteq Client /\ AuthDataSeen \subseteq AuthData
BY DEF TypeOK, ClientDataSeen, AuthDataSeen, Creation, Signing

LEMMA TypeNext == TypeOK /\ KeyedInv /\ CreationInv /\ [Next]_vars => TypeOK'
<1> SUFFICES ASSUME TypeOK, KeyedInv, CreationInv, [Next]_vars PROVE TypeOK'
  OBVIOUS
<1> USE DEF TypeOK
<1>1. ASSUME NEW c \in Ceremonies, NEW uv \in BOOLEAN, RequestNewCredential(c, uv)
      PROVE  TypeOK'
  <2>1. [type |-> "create", uv |-> uv, allowed |-> {}] \in Options
    BY DEF Options
  <2>. QED BY <1>1, <2>1 DEF RequestNewCredential
<1>2. ASSUME NEW c \in Ceremonies, NEW uv \in BOOLEAN,
             NEW allowed \in SUBSET {r.auth.acd.id : r \in registered},
             \A r \in registered : r.auth.acd.id \in Keys,
             GetAssertionOptions(c, uv, allowed)
      PROVE  TypeOK'
  <2>1. [type |-> "get", uv |-> uv, allowed |-> allowed] \in Options
    BY <1>2 DEF Options
  <2>. QED BY <1>2, <2>1 DEF GetAssertionOptions
<1>3. ASSUME NEW a \in Authenticators, NEW c \in Ceremonies, NEW site \in Sites,
             Create(a, c, site), Answers \in Nat
      PROVE  TypeOK'
  <2>1. <<a, Answers + 1>> \in Keys
    BY <1>3 DEF Keys
  <2> DEFINE acd == [aaguid |-> kind[a].aaguid, id |-> <<a, Answers + 1>>,
                     key |-> <<a, Answers + 1>>]
  <2>2. kind[a] \in Kind
    OBVIOUS
  <2>3. acd \in AttestedCredential
    BY <2>1, <2>2 DEF AttestedCredential, Kind
  <2> DEFINE auth == [rpIdHash |-> site, up |-> TRUE, uv |-> kind[a].uv,
                      count |-> IF kind[a].counts THEN Answers + 1 ELSE 0, acd |-> acd]
             client == [type |-> "create", challenge |-> c, origin |-> site]
  <2>4. auth \in AuthData
    BY <1>3, <2>2, <2>3 DEF AuthData, Kind
  <2>5. client \in Client
    BY DEF Client
  <2>6. [by |-> a, at |-> now, client |-> client, auth |-> auth] \in Creation
    BY <2>4, <2>5 DEF Creation
  <2>7. creations' = creations \cup
          {[by |-> a, at |-> now, client |-> client, auth |-> auth]}
    BY <1>3 DEF Create
  <2> HIDE DEF auth, client
  <2>. QED BY <2>6, <2>7, <1>3 DEF Create
<1>4. ASSUME NEW m \in creations, NEW c \in Ceremonies, Sign(m, c), Answers \in Nat,
             m.auth.acd \in AttestedCredential
      PROVE  TypeOK'
  <2>1. m \in Creation /\ kind[m.by] \in Kind
    BY DEF Creation
  <2> DEFINE auth == [rpIdHash |-> m.auth.rpIdHash, up |-> TRUE, uv |-> kind[m.by].uv,
                      count |-> IF kind[m.by].counts THEN Answers + 1 ELSE 0,
                      acd |-> None]
             client == [type |-> "get", challenge |-> c, origin |-> m.auth.rpIdHash]
  <2>2. auth \in AuthData
    BY <1>4, <2>1 DEF AuthData, Kind, Creation
  <2>3. client \in Client
    BY <2>1 DEF Client, Creation, AuthData
  <2>4. m.auth.acd.key \in Keys
    BY <1>4 DEF AttestedCredential
  <2>5. [key |-> m.auth.acd.key, client |-> client, auth |-> auth] \in Signing
    BY <2>2, <2>3, <2>4 DEF Signing
  <2>6. assertions' = assertions \cup
          {[key |-> m.auth.acd.key, client |-> client, auth |-> auth]}
    BY <1>4 DEF Sign
  <2> HIDE DEF auth, client
  <2>. QED BY <2>5, <2>6, <1>4 DEF Sign
<1>5. ASSUME Tick PROVE TypeOK'
  BY <1>5 DEF Tick
<1>6. ASSUME NEW c \in Ceremonies, NEW client \in ClientDataSeen, NEW auth \in AuthDataSeen,
             NEW m \in creations, NEW lazy \in BOOLEAN,
             MakeNewCredential(c, client, auth, m, lazy)
      PROVE  TypeOK'
  <2>1. m \in Creation /\ kind[m.by] \in Kind
    BY DEF Creation
  <2>2. StatementMade(m).fmt \in Formats
    BY <2>1, FormatOfStatement DEF Kind
  <2>3. NewRegistration(c, auth, StatementMade(m).fmt, lazy) \in Registration
    BY <2>2, SeenTypes DEF NewRegistration, Registration
  <2>. QED BY <1>6, <2>3 DEF MakeNewCredential
<1>7. ASSUME NEW c \in Ceremonies, NEW client \in ClientDataSeen, NEW auth \in AuthDataSeen,
             NEW sig \in SignaturesSeen, NEW r \in registered,
             r.auth.acd \in AttestedCredential,
             MakeAssertion(c, client, auth, sig, r)
      PROVE  TypeOK'
  <2>1. [ceremony |-> c, key |-> r.auth.acd.key, auth |-> auth] \in SignIn
    BY <1>7, SeenTypes DEF SignIn, AttestedCredential
  <2>. QED BY <1>7, <2>1 DEF MakeAssertion
<1>8. CASE UNCHANGED vars
  BY <1>8 DEF vars
<1>9. Answers \in Nat
  BY FS_CardinalityType DEF Answers, KeyedInv
<1>10. \A m \in creations : m.auth.acd \in AttestedCredential
  BY DEF Creation, AuthData, CreationInv
<1>11. \A r \in registered : r.auth.acd \in AttestedCredential /\ r.auth.acd.id \in Keys
  BY DEF Registration, AuthData, KeyedInv, AttestedCredential
<1>. HIDE DEF TypeOK
<1>. QED BY <1>1, <1>2, <1>3, <1>4, <1>5, <1>6, <1>7, <1>8, <1>9, <1>10, <1>11 DEF Next

--------------------------------------------------------------------------------
\* What no step can change, and where a new answer or a new result comes from.
LEMMA StepFacts ==
  ASSUME TypeOK, [Next]_vars
  PROVE  /\ kind' = kind /\ entries' = entries
         /\ creations \subseteq creations' /\ assertions \subseteq assertions'
         /\ \A c \in Ceremonies : options[c] # None => options'[c] = options[c]
<1> USE DEF TypeOK
<1>1. ASSUME NEW c \in Ceremonies, NEW uv \in BOOLEAN, RequestNewCredential(c, uv)
      PROVE  \A d \in Ceremonies : options[d] # None => options'[d] = options[d]
  BY <1>1 DEF RequestNewCredential
<1>2. ASSUME NEW c \in Ceremonies, NEW uv \in BOOLEAN, NEW allowed,
             GetAssertionOptions(c, uv, allowed)
      PROVE  \A d \in Ceremonies : options[d] # None => options'[d] = options[d]
  BY <1>2 DEF GetAssertionOptions
<1>. QED BY <1>1, <1>2 DEF Next, vars, RequestNewCredential, GetAssertionOptions,
       Create, Sign, Tick, MakeNewCredential, MakeAssertion

LEMMA CreationStep ==
  ASSUME [Next]_vars, NEW m \in creations', m \notin creations
  PROVE  \E a \in Authenticators, c \in Ceremonies, site \in Sites :
           /\ Create(a, c, site)
           /\ m.by = a
           /\ m.client = [type |-> "create", challenge |-> c, origin |-> site]
           /\ m.auth = [rpIdHash |-> site, up |-> TRUE, uv |-> kind[a].uv,
                        count |-> IF kind[a].counts THEN Answers + 1 ELSE 0,
                        acd |-> [aaguid |-> kind[a].aaguid, id |-> <<a, Answers + 1>>,
                                 key |-> <<a, Answers + 1>>]]
<1>1. PICK a \in Authenticators, c \in Ceremonies, site \in Sites : Create(a, c, site)
  BY DEF Next, vars, RequestNewCredential, GetAssertionOptions, Sign, Tick,
         MakeNewCredential, MakeAssertion
<1>2. m = [by |-> a, at |-> now,
           client |-> [type |-> "create", challenge |-> c, origin |-> site],
           auth |-> [rpIdHash |-> site, up |-> TRUE, uv |-> kind[a].uv,
                     count |-> IF kind[a].counts THEN Answers + 1 ELSE 0,
                     acd |-> [aaguid |-> kind[a].aaguid, id |-> <<a, Answers + 1>>,
                              key |-> <<a, Answers + 1>>]]]
  BY <1>1 DEF Create
<1>. QED BY <1>1, <1>2

LEMMA SigningStep ==
  ASSUME [Next]_vars, NEW s \in assertions', s \notin assertions
  PROVE  \E m \in creations, c \in Ceremonies :
           /\ Sign(m, c)
           /\ s.key = m.auth.acd.key
           /\ s.client.type = "get"
           /\ s.auth.acd = None
           /\ s.auth.uv = kind[m.by].uv
<1>1. PICK m \in creations, c \in Ceremonies : Sign(m, c)
  BY DEF Next, vars, RequestNewCredential, GetAssertionOptions, Create, Tick,
         MakeNewCredential, MakeAssertion
<1>2. s = [key |-> m.auth.acd.key,
           client |-> [type |-> "get", challenge |-> c, origin |-> m.auth.rpIdHash],
           auth |-> [rpIdHash |-> m.auth.rpIdHash, up |-> TRUE, uv |-> kind[m.by].uv,
                     count |-> IF kind[m.by].counts THEN Answers + 1 ELSE 0,
                     acd |-> None]]
  BY <1>1 DEF Sign
<1>. QED BY <1>1, <1>2

LEMMA RegistrationStep ==
  ASSUME [Next]_vars, NEW r \in registered', r \notin registered
  PROVE  \E c \in Ceremonies, client \in ClientDataSeen, auth \in AuthDataSeen,
            m \in creations, lazy \in BOOLEAN :
           /\ MakeNewCredential(c, client, auth, m, lazy)
           /\ r = NewRegistration(c, auth, StatementMade(m).fmt, lazy)
BY DEF Next, vars, RequestNewCredential, GetAssertionOptions, Create, Sign, Tick,
       MakeNewCredential, MakeAssertion

LEMMA SignInStep ==
  ASSUME [Next]_vars, NEW x \in signedIn', x \notin signedIn
  PROVE  \E c \in Ceremonies, client \in ClientDataSeen, auth \in AuthDataSeen,
            sig \in SignaturesSeen, r \in registered :
           /\ MakeAssertion(c, client, auth, sig, r)
           /\ x = [ceremony |-> c, key |-> r.auth.acd.key, auth |-> auth]
BY DEF Next, vars, RequestNewCredential, GetAssertionOptions, Create, Sign, Tick,
       MakeNewCredential, MakeAssertion

--------------------------------------------------------------------------------
LEMMA KeyedNext == Inv /\ [Next]_vars => KeyedInv'
<1> SUFFICES ASSUME Inv, [Next]_vars PROVE KeyedInv'
  OBVIOUS
<1> USE DEF Inv, KeyedInv
<1>1. IsFiniteSet(creations')
  <2>1. ASSUME NEW a \in Authenticators, NEW c \in Ceremonies, NEW site \in Sites,
               Create(a, c, site)
        PROVE  IsFiniteSet(creations')
    BY <2>1, FS_AddElement DEF Create
  <2>2. creations' # creations =>
          \E a \in Authenticators, c \in Ceremonies, site \in Sites : Create(a, c, site)
    BY DEF Next, vars, RequestNewCredential, GetAssertionOptions, Sign, Tick,
           MakeNewCredential, MakeAssertion
  <2>. QED BY <2>1, <2>2
<1>2. IsFiniteSet(assertions')
  <2>1. ASSUME NEW m \in creations, NEW c \in Ceremonies, Sign(m, c)
        PROVE  IsFiniteSet(assertions')
    BY <2>1, FS_AddElement DEF Sign
  <2>2. assertions' # assertions => \E m \in creations, c \in Ceremonies : Sign(m, c)
    BY DEF Next, vars, RequestNewCredential, GetAssertionOptions, Create, Tick,
           MakeNewCredential, MakeAssertion
  <2>. QED BY <2>1, <2>2
<1>3. ASSUME NEW r \in registered', r \notin registered PROVE r.auth.acd # None
  BY <1>3, RegistrationStep DEF MakeNewCredential, CeremonyVerifies, NewRegistration
<1>. QED BY <1>1, <1>2, <1>3

LEMMA CreationNext == Inv /\ [Next]_vars => CreationInv'
<1> SUFFICES ASSUME Inv, [Next]_vars, NEW m \in creations'
             PROVE  /\ m.client.type = "create"
                    /\ m.auth.rpIdHash = m.client.origin
                    /\ m.auth.acd # None
                    /\ m.auth.acd.key[1] = m.by
                    /\ m.auth.uv = kind'[m.by].uv
  BY DEF CreationInv
<1>1. kind' = kind
  BY StepFacts DEF Inv
<1>2. CASE m \in creations
  BY <1>1, <1>2 DEF Inv, CreationInv
<1>3. CASE m \notin creations
  <2>1. PICK a \in Authenticators, c \in Ceremonies, site \in Sites :
          /\ Create(a, c, site)
          /\ m.by = a
          /\ m.client = [type |-> "create", challenge |-> c, origin |-> site]
          /\ m.auth = [rpIdHash |-> site, up |-> TRUE, uv |-> kind[a].uv,
                       count |-> IF kind[a].counts THEN Answers + 1 ELSE 0,
                       acd |-> [aaguid |-> kind[a].aaguid, id |-> <<a, Answers + 1>>,
                                key |-> <<a, Answers + 1>>]]
    BY <1>3, CreationStep
  <2>2. m.auth.acd \in AttestedCredential
    <3>1. kind[a] \in Kind /\ Answers \in Nat
      BY FS_CardinalityType DEF Inv, TypeOK, Answers, KeyedInv
    <3>2. <<a, Answers + 1>> \in Keys
      BY <3>1 DEF Keys
    <3>. QED BY <2>1, <3>1, <3>2 DEF AttestedCredential, Kind
  <2>3. m.auth.acd # None
    BY <2>2, NoneIsNothingAssumption
  <2>. QED BY <1>1, <2>1, <2>3
<1>. QED BY <1>2, <1>3

LEMMA SigningNext == Inv /\ [Next]_vars => SigningInv'
<1> SUFFICES ASSUME Inv, [Next]_vars, NEW s \in assertions'
             PROVE  /\ s.client.type = "get"
                    /\ s.auth.acd = None
                    /\ s.auth.uv = kind'[s.key[1]].uv
  BY DEF SigningInv
<1>1. kind' = kind
  BY StepFacts DEF Inv
<1>2. CASE s \in assertions
  BY <1>1, <1>2 DEF Inv, SigningInv
<1>3. CASE s \notin assertions
  BY <1>1, <1>3, SigningStep DEF Inv, CreationInv
<1>. QED BY <1>2, <1>3

LEMMA BegunNext == Inv /\ [Next]_vars => BegunInv'
<1> SUFFICES ASSUME Inv, [Next]_vars PROVE BegunInv'
  OBVIOUS
<1>1. \A c \in Ceremonies : options[c] # None => options'[c] = options[c]
  BY StepFacts DEF Inv
<1>2. ASSUME NEW r \in registered' PROVE options'[r.ceremony] # None
  <2>1. CASE r \in registered
    BY <1>1, <2>1 DEF Inv, BegunInv, TypeOK, Registration
  <2>2. CASE r \notin registered
    BY <1>1, <2>2, RegistrationStep DEF MakeNewCredential, NewRegistration
  <2>. QED BY <2>1, <2>2
<1>3. ASSUME NEW x \in signedIn' PROVE options'[x.ceremony] # None
  <2>1. CASE x \in signedIn
    BY <1>1, <2>1 DEF Inv, BegunInv, TypeOK, SignIn
  <2>2. CASE x \notin signedIn
    BY <1>1, <2>2, SignInStep DEF MakeAssertion
  <2>. QED BY <2>1, <2>2
<1>. QED BY <1>2, <1>3 DEF BegunInv

LEMMA AttestedNext == Inv /\ [Next]_vars => AttestedHere'
<1> DEFINE Made(r, S) ==
      \E m \in S :
        /\ m.client = [type |-> "create", challenge |-> r.ceremony, origin |-> Home]
        /\ m.auth.rpIdHash = Home
        /\ m.auth.acd.id = r.auth.acd.id
        /\ m.auth.acd.key = r.auth.acd.key
        /\ r.fmt # "fido-u2f" => m.auth = r.auth
<1> SUFFICES ASSUME Inv, [Next]_vars, NEW r \in registered', Attested(r)
             PROVE  Made(r, creations')
  BY DEF AttestedHere
<1>1. creations \subseteq creations'
  BY StepFacts DEF Inv
<1>2. CASE r \in registered
  BY <1>1, <1>2 DEF Inv, AttestedHere
<1>3. CASE r \notin registered
  <2>1. PICK c \in Ceremonies, client \in ClientDataSeen, auth \in AuthDataSeen,
             m \in creations, lazy \in BOOLEAN :
          /\ MakeNewCredential(c, client, auth, m, lazy)
          /\ r = NewRegistration(c, auth, StatementMade(m).fmt, lazy)
    BY <1>3, RegistrationStep
  <2>2. kind[m.by] \in Kind /\ m \in Creation
    BY DEF Inv, TypeOK, Creation
  <2>3. r.ceremony = c /\ r.auth = auth /\ r.fmt = kind[m.by].fmt /\ r.lazy = lazy
    BY <2>1, <2>2, FormatOfStatement DEF NewRegistration
  <2>4. StatementVerifies(StatementOf(m.by, m.auth, m.client, m.at), auth, client, now)
          /\ kind[m.by].fmt # "none"
    BY <2>1, <2>3 DEF Attested, MakeNewCredential, AttestationVerifies, StatementMade
  <2>5. IF kind[m.by].fmt = "fido-u2f"
        THEN U2fData(m.auth, m.client) = U2fData(auth, client)
        ELSE m.auth = auth /\ m.client = client
    BY <2>2, <2>4, StatementBinds
  <2>6. /\ m.client = client /\ m.auth.rpIdHash = auth.rpIdHash
        /\ m.auth.acd.id = auth.acd.id /\ m.auth.acd.key = auth.acd.key
    BY <2>5 DEF U2fData
  <2>7. /\ client.type = "create" /\ client.challenge = c /\ client.origin = Home
        /\ auth.rpIdHash = Home
    BY <2>1 DEF MakeNewCredential, CeremonyVerifies, BaseVerify
  <2>8. m.client = [type |-> "create", challenge |-> c, origin |-> Home]
    BY <2>2, <2>6, <2>7 DEF Creation, Client
  <2>. QED BY <1>1, <2>3, <2>5, <2>6, <2>7, <2>8
<1>. QED BY <1>2, <1>3

LEMMA MintedNext == Inv /\ [Next]_vars => MintedForThisSite'
<1> DEFINE Answered(r, S) ==
      \E x \in S : x.client.challenge = r.ceremony /\ x.client.origin = Home
    Minted(r, S, k, o) ==
      \E m \in S : m.auth = r.auth /\ m.client.origin = Home /\ (o[r.ceremony].uv => k[m.by].uv)
<1> SUFFICES ASSUME Inv, [Next]_vars, NEW r \in registered'
             PROVE  Answered(r, creations') /\ Minted(r, creations', kind', options')
  BY DEF MintedForThisSite
<1>1. kind' = kind /\ creations \subseteq creations'
        /\ \A c \in Ceremonies : options[c] # None => options'[c] = options[c]
  BY StepFacts DEF Inv
<1>2. CASE r \in registered
  <2>1. options'[r.ceremony] = options[r.ceremony]
    BY <1>1, <1>2 DEF Inv, BegunInv, TypeOK, Registration
  <2>2. Answered(r, creations) /\ Minted(r, creations, kind, options)
    BY <1>2 DEF Inv, MintedForThisSite
  <2>. QED BY <1>1, <2>1, <2>2
<1>3. CASE r \notin registered
  <2>1. PICK c \in Ceremonies, client \in ClientDataSeen, auth \in AuthDataSeen,
             m \in creations, lazy \in BOOLEAN :
          /\ MakeNewCredential(c, client, auth, m, lazy)
          /\ r = NewRegistration(c, auth, StatementMade(m).fmt, lazy)
    BY <1>3, RegistrationStep
  <2>2. r.ceremony = c /\ r.auth = auth /\ options' = options
    BY <2>1 DEF NewRegistration, MakeNewCredential
  <2>3. /\ client.type = "create" /\ client.challenge = c /\ client.origin = Home
        /\ auth.rpIdHash = Home /\ auth.acd # None
        /\ options[c].uv => auth.uv
    BY <2>1 DEF MakeNewCredential, CeremonyVerifies, BaseVerify
  <2>4. PICK x \in creations : x.client = client
    BY <2>3 DEF ClientDataSeen, Inv, SigningInv
  <2>5. PICK y \in creations : y.auth = auth
    BY <2>3 DEF AuthDataSeen, Inv, SigningInv
  <2>6. y.client.origin = Home /\ (options[c].uv => kind[y.by].uv)
    BY <2>3, <2>5 DEF Inv, CreationInv
  <2>7. Answered(r, creations')
    BY <1>1, <2>2, <2>3, <2>4
  <2>8. Minted(r, creations', kind', options')
    BY <1>1, <2>2, <2>5, <2>6
  <2>. QED BY <2>7, <2>8
<1>. QED BY <1>2, <1>3

LEMMA GenuineNext == Inv /\ [Next]_vars => GenuineModel'
<1> DEFINE Genuine(r, S, k, roots) ==
      \E m \in S :
        /\ m.auth.acd.key = r.auth.acd.key
        /\ \/ k[m.by].fmt = "packed" /\ ~k[m.by].full
           \/ k[m.by].above \cap roots # {}
           \/ k[m.by].selfIssued /\ k[m.by].name \in roots
<1> SUFFICES ASSUME Inv, [Next]_vars, NEW r \in registered', Attested(r),
                    entries'[r.auth.acd.aaguid] # None,
                    FullAttestation(entries'[r.auth.acd.aaguid])
             PROVE  Genuine(r, creations', kind', entries'[r.auth.acd.aaguid].roots)
  BY DEF GenuineModel
<1> DEFINE entry == entries[r.auth.acd.aaguid]
<1>1. kind' = kind /\ entries' = entries /\ creations \subseteq creations'
  BY StepFacts DEF Inv
<1>2. CASE r \in registered
  <2>1. Genuine(r, creations, kind, entry.roots)
    BY <1>1, <1>2 DEF Inv, GenuineModel
  <2>. QED BY <1>1, <2>1
<1>3. CASE r \notin registered
  <2>1. PICK c \in Ceremonies, client \in ClientDataSeen, auth \in AuthDataSeen,
             m \in creations, lazy \in BOOLEAN :
          /\ MakeNewCredential(c, client, auth, m, lazy)
          /\ r = NewRegistration(c, auth, StatementMade(m).fmt, lazy)
    BY <1>3, RegistrationStep
  <2>2. kind[m.by] \in Kind
    BY DEF Inv, TypeOK, Creation
  <2>3. r.auth = auth /\ r.fmt = kind[m.by].fmt /\ r.lazy = lazy
    BY <2>1, <2>2, FormatOfStatement DEF NewRegistration
  <2>4. /\ StatementVerifies(StatementOf(m.by, m.auth, m.client, m.at), auth, client, now)
        /\ TrustPathTrusted(StatementOf(m.by, m.auth, m.client, m.at), entry)
        /\ kind[m.by].fmt # "none"
    BY <2>1, <2>3 DEF Attested, MakeNewCredential, AttestationVerifies, StatementMade
  <2>5. m.auth.acd.key = auth.acd.key
    <3>1. IF kind[m.by].fmt = "fido-u2f"
          THEN U2fData(m.auth, m.client) = U2fData(auth, client)
          ELSE m.auth = auth /\ m.client = client
      BY <2>2, <2>4, StatementBinds
    <3>. QED BY <3>1 DEF U2fData
  <2>6. entry # None /\ FullAttestation(entry)
    BY <1>1
  <2> HIDE DEF entry
  <2>7. \/ kind[m.by].fmt = "packed" /\ ~kind[m.by].full
        \/ kind[m.by].above \cap entry.roots # {}
        \/ kind[m.by].selfIssued /\ kind[m.by].name \in entry.roots
    BY <2>2, <2>4, <2>6, TrustedIsGenuine
  <2>8. Genuine(r, creations', kind', entry.roots)
    BY <1>1, <2>3, <2>5, <2>7
  <2>. QED BY <1>1, <2>8 DEF entry
<1>. QED BY <1>2, <1>3

\* No statement's signature is one over the client data of a get().
LEMMA StatementSignsCreation ==
  ASSUME NEW a, NEW auth, NEW client, NEW time, NEW key, NEW auth2, NEW client2,
         kind[a] \in Kind,
         Verifies(key, Data(auth2, client2), StatementOf(a, auth, client, time).sig)
  PROVE  client2 = client
<1> DEFINE sig == StatementOf(a, auth, client, time).sig
           data == Data(auth, client)
<1>1. sig # None /\ sig.over = Data(auth2, client2)
  BY DEF Verifies
<1>2. kind[a].fmt \in Formats /\ kind[a].full \in BOOLEAN
  BY DEF Kind
<1>3. CASE kind[a].fmt \in {"none", "apple", "apple-appattest"}
  BY <1>1, <1>3 DEF StatementOf, Statement
<1>4. CASE kind[a].fmt \in {"packed", "android-key"}
  <2>1. sig.over = data
    BY <1>2, <1>4 DEF StatementOf, Statement
  <2>2. Data(auth, client) = Data(auth2, client2)
    BY <1>1, <2>1
  <2>. QED BY <2>2, DataInjective
<1>5. CASE kind[a].fmt = "fido-u2f"
  <2>1. sig.over = U2fData(auth, client)
    BY <1>5 DEF StatementOf, Statement
  <2>2. DOMAIN U2fData(auth, client) # DOMAIN Data(auth2, client2)
    BY DEF U2fData, Data
  <2>. QED BY <1>1, <2>1, <2>2
<1>6. CASE kind[a].fmt = "android-safetynet"
  <2>1. sig.over = [nonce |-> data, timestamp |-> time, ctsProfileMatch |-> kind[a].cts]
    BY <1>6 DEF StatementOf, Statement
  <2>2. DOMAIN sig.over # DOMAIN Data(auth2, client2)
    BY <2>1 DEF Data
  <2>. QED BY <1>1, <2>2
<1>7. CASE kind[a].fmt = "tpm"
  <2>1. sig.over = [extraData |-> data, attested |-> auth.acd.key]
    BY <1>7 DEF StatementOf, Statement
  <2>2. DOMAIN sig.over # DOMAIN Data(auth2, client2)
    BY <2>1 DEF Data
  <2>. QED BY <1>1, <2>2
<1>8. \/ kind[a].fmt \in {"none", "apple", "apple-appattest"}
      \/ kind[a].fmt \in {"packed", "android-key"}
      \/ kind[a].fmt = "fido-u2f"
      \/ kind[a].fmt = "android-safetynet"
      \/ kind[a].fmt = "tpm"
  BY <1>2 DEF Formats
<1>. QED BY Zenon, <1>3, <1>4, <1>5, <1>6, <1>7, <1>8

LEMMA SignedNext == Inv /\ [Next]_vars => SignedHere'
<1> DEFINE Signed(x, S) ==
      \E s \in S :
        /\ s.key = x.key
        /\ s.auth = x.auth
        /\ s.client = [type |-> "get", challenge |-> x.ceremony, origin |-> Home]
<1> SUFFICES ASSUME Inv, [Next]_vars, NEW x \in signedIn'
             PROVE  Signed(x, assertions') /\ (options'[x.ceremony].uv => kind'[x.key[1]].uv)
  BY DEF SignedHere
<1>1. kind' = kind /\ assertions \subseteq assertions'
        /\ \A c \in Ceremonies : options[c] # None => options'[c] = options[c]
  BY StepFacts DEF Inv
<1>2. CASE x \in signedIn
  <2>1. options'[x.ceremony] = options[x.ceremony]
    BY <1>1, <1>2 DEF Inv, BegunInv, TypeOK, SignIn
  <2>2. Signed(x, assertions) /\ (options[x.ceremony].uv => kind[x.key[1]].uv)
    BY <1>2 DEF Inv, SignedHere
  <2>. QED BY <1>1, <2>1, <2>2
<1>3. CASE x \notin signedIn
  <2>1. PICK c \in Ceremonies, client \in ClientDataSeen, auth \in AuthDataSeen,
             sig \in SignaturesSeen, r \in registered :
          /\ MakeAssertion(c, client, auth, sig, r)
          /\ x = [ceremony |-> c, key |-> r.auth.acd.key, auth |-> auth]
    BY <1>3, SignInStep
  <2>2. /\ client.challenge = c /\ client.origin = Home /\ client.type = "get"
        /\ options[c].uv => auth.uv
        /\ Verifies(x.key, Data(auth, client), sig)
        /\ options' = options
    BY <2>1 DEF MakeAssertion, AssertionVerifies, BaseVerify
  <2>3. client \in Client
    BY SeenTypes DEF Inv
  <2>4. client = [type |-> "get", challenge |-> c, origin |-> Home]
    BY <2>2, <2>3 DEF Client
  <2>5. PICK s \in assertions : sig = [by |-> s.key, over |-> Data(s.auth, s.client)]
    <3>1. ASSUME NEW m \in creations, sig = StatementMade(m).sig PROVE FALSE
      <4>1. kind[m.by] \in Kind /\ m.client.type = "create"
        BY DEF Inv, TypeOK, Creation, CreationInv
      <4>2. Verifies(x.key, Data(auth, client),
                     StatementOf(m.by, m.auth, m.client, m.at).sig)
        BY <2>2, <3>1 DEF StatementMade
      <4>3. client = m.client
        BY <4>1, <4>2, StatementSignsCreation
      <4>. QED BY <2>2, <4>1, <4>3
    <3>. QED BY <3>1 DEF SignaturesSeen
  <2>6. s.key = x.key /\ Data(s.auth, s.client) = Data(auth, client)
    BY <2>2, <2>5 DEF Verifies
  <2>7. s.auth = auth /\ s.client = client
    BY <2>6, DataInjective
  <2>8. options[c].uv => kind[x.key[1]].uv
    BY <2>2, <2>6, <2>7 DEF Inv, SigningInv
  <2>9. Signed(x, assertions')
    BY <1>1, <2>1, <2>4, <2>6, <2>7
  <2>. QED BY <1>1, <2>1, <2>2, <2>8, <2>9
<1>. QED BY <1>2, <1>3

--------------------------------------------------------------------------------
LEMMA InvInit == Init => Inv
<1> SUFFICES ASSUME Init PROVE Inv
  OBVIOUS
<1>1. TypeOK
  BY TypeInit
<1>2. KeyedInv
  BY FS_EmptySet DEF Init, KeyedInv
<1>. QED BY <1>1, <1>2 DEF Init, Inv, CreationInv, SigningInv, BegunInv,
       AttestedHere, MintedForThisSite, GenuineModel, SignedHere

LEMMA InvNext == Inv /\ [Next]_vars => Inv'
<1> SUFFICES ASSUME Inv, [Next]_vars PROVE Inv'
  OBVIOUS
<1>1. TypeOK'
  BY TypeNext DEF Inv
<1>. QED BY <1>1, KeyedNext, CreationNext, SigningNext, BegunNext, AttestedNext,
       MintedNext, GenuineNext, SignedNext DEF Inv

LEMMA Invariance == Spec => []Inv
BY InvInit, InvNext, PTL DEF Spec

(***************************************************************************)
(* Types of options, answers and results, for any authenticators.          *)
(***************************************************************************)
THEOREM TypeCorrect == Spec => []TypeOK
<1>1. Inv => TypeOK
  BY DEF Inv
<1>. QED BY <1>1, Invariance, PTL

(***************************************************************************)
(* Whatever parts of whatever answers a response is put together from, a   *)
(* registration with verified attestation belongs to an authenticator that *)
(* answered this ceremony at this site.                                    *)
(***************************************************************************)
THEOREM AttestedCredentialsWereMadeHere == Spec => []AttestedHere
<1>1. Inv => AttestedHere
  BY DEF Inv
<1>. QED BY <1>1, Invariance, PTL

(***************************************************************************)
(* A registration, lazy or not, has a key minted for this site, and its    *)
(* ceremony was answered at this site.                                     *)
(***************************************************************************)
THEOREM CredentialsAreForThisSite == Spec => []MintedForThisSite
<1>1. Inv => MintedForThisSite
  BY DEF Inv
<1>. QED BY <1>1, Invariance, PTL

(***************************************************************************)
(* Where metadata asks for full attestation, certificates lead to a root   *)
(* of the model.                                                           *)
(***************************************************************************)
THEOREM AttestedModelsAreGenuine == Spec => []GenuineModel
<1>1. Inv => GenuineModel
  BY DEF Inv
<1>. QED BY <1>1, Invariance, PTL

(***************************************************************************)
(* An accepted assertion was signed by the holder of the registered key,   *)
(* for this ceremony, at this site; registration signatures never pass.    *)
(***************************************************************************)
THEOREM AssertionsWereSignedHere == Spec => []SignedHere
<1>1. Inv => SignedHere
  BY DEF Inv
<1>. QED BY <1>1, Invariance, PTL
================================================================================
