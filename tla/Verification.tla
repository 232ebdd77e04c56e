------------------------------ MODULE Verification ------------------------------
(***************************************************************************)
(* src/Fido2: the verification of what authenticators answer.  The library *)
(* keeps nothing between calls: the caller keeps the options it asked with *)
(* and the credentials it registered, and passes them back.  Authenticators*)
(* and browsers answer the ceremonies of this and of other sites; a call   *)
(* may be given parts of answers that do not belong together, the case in  *)
(* which verification matters.  A ceremony is named by its challenge.      *)
(***************************************************************************)
EXTENDS AttestationStatements, FiniteSets

CONSTANTS Ceremonies,     \* challenges of RandomNumberGenerator.GetBytes
          Authenticators,
          Pairings,       \* the kinds that the authenticators have together
          Sites,          \* origins, each with its RP id
          Home,           \* the site of the configuration
          AaGuids,
          Entries,        \* what the metadata service may answer per AAGUID
          Undesired,      \* UndesiredAuthenticatorMetadataStatuses
          Conformance,    \* IMetadataService.ConformanceTesting
          MaxTime, MaxAnswers, MaxResults \* bounds

VARIABLES kind,       \* the kind of each authenticator, fixed
          entries,    \* the metadata entry of each AAGUID, fixed
          now,
          options,    \* the options of each ceremony the caller began
          creations,  \* what authenticators answered to create()
          assertions, \* what authenticators answered to get()
          registered, \* the registrations the library accepted
          signedIn    \* the assertions the library accepted

vars == <<kind, entries, now, options, creations, assertions, registered, signedIn>>

\* A key an authenticator minted in its answer n; 0 is its attestation key.
Keys == Authenticators \X Nat

Kind == [fmt : Formats, full : BOOLEAN, ecdaa : BOOLEAN, wellFormed : BOOLEAN,
         profile : BOOLEAN, aaguid : AaGuids, certAaGuid : AaGuids \cup {None},
         selfIssued : BOOLEAN, name : STRING, above : SUBSET STRING,
         chain : Seq(STRING), valid : SUBSET Nat, cts : BOOLEAN,
         uv : BOOLEAN, counts : BOOLEAN]

Entry == [types : SUBSET STRING, roots : SUBSET STRING, status : STRING]

Options == [type : {"create", "get"}, uv : BOOLEAN, allowed : SUBSET Keys]

Client == [type : {"create", "get"}, challenge : Ceremonies, origin : Sites]

AttestedCredential == [aaguid : AaGuids, id : Keys, key : Keys]

AuthData == [rpIdHash : Sites, up : BOOLEAN, uv : BOOLEAN, count : Nat,
             acd : AttestedCredential \cup {None}]

ASSUME KindsAssumption ==
  /\ Pairings \subseteq [Authenticators -> Kind]
  /\ Entries \subseteq [AaGuids -> Entry \cup {None}]

ASSUME SitesAssumption ==
  /\ Home \in Sites
  /\ NoAaGuid \in AaGuids
  /\ AppAaGuids \subseteq AaGuids
  /\ Undesired \subseteq STRING
  /\ Conformance \in BOOLEAN
  /\ Minute \in Nat

ASSUME NoneIsNothingAssumption ==
  None \notin Keys \cup Options \cup Entry \cup AaGuids \cup Client
              \cup AttestedCredential

--------------------------------------------------------------------------------
(***************************************************************************)
(* Authenticators, outside this code: the statement that an authenticator  *)
(* of each format makes about the credential of its answer.                *)
(***************************************************************************)
Certificate(a, key, bound, site) ==
  [key |-> key, keyId |-> key, name |-> kind[a].name, above |-> kind[a].above,
   selfIssued |-> kind[a].selfIssued, profile |-> kind[a].profile,
   valid |-> kind[a].valid, aaguid |-> kind[a].certAaGuid, bound |-> bound,
   appId |-> site]

Authority(a, i, site) ==
  [Certificate(a, None, None, site) EXCEPT !.name = kind[a].chain[i]]

X5c(a, key, bound, site) ==
  [i \in 1..(1 + Len(kind[a].chain)) |->
     IF i = 1 THEN Certificate(a, key, bound, site) ELSE Authority(a, i - 1, site)]

Statement(a, x5c, sig, info, pubArea) ==
  [fmt |-> kind[a].fmt, wellFormed |-> kind[a].wellFormed,
   ecdaa |-> kind[a].ecdaa, x5c |-> x5c, sig |-> sig, info |-> info,
   pubArea |-> pubArea]

StatementOf(a, auth, client, time) ==
  LET attestationKey == <<a, 0>>
      key == auth.acd.key
      site == auth.rpIdHash
      data == Data(auth, client)
      jwt == [nonce |-> data, timestamp |-> time, ctsProfileMatch |-> kind[a].cts]
      certInfo == [extraData |-> data, attested |-> key]
      Certified(k, bound, over, info, pubArea) ==
        Statement(a, X5c(a, k, bound, site), [by |-> k, over |-> over], info, pubArea)
  IN CASE kind[a].fmt = "none" -> Statement(a, <<>>, None, None, None)
       [] kind[a].fmt = "packed" /\ kind[a].full ->
            Certified(attestationKey, None, data, None, None)
       [] kind[a].fmt = "packed" /\ ~kind[a].full ->
            Statement(a, <<>>, [by |-> key, over |-> data], None, None)
       [] kind[a].fmt = "fido-u2f" ->
            Certified(attestationKey, None, U2fData(auth, client), None, None)
       [] kind[a].fmt = "android-key" -> Certified(key, client, data, None, None)
       [] kind[a].fmt \in {"apple", "apple-appattest"} ->
            Statement(a, X5c(a, key, data, site), None, None, None)
       [] kind[a].fmt = "android-safetynet" ->
            Certified(attestationKey, None, jwt, jwt, None)
       [] kind[a].fmt = "tpm" -> Certified(attestationKey, None, certInfo, certInfo, key)

--------------------------------------------------------------------------------
\* An answer to create(): the key it minted, in acd, is that of answer n.
Creation == [by : Authenticators, at : Nat, client : Client, auth : AuthData]

\* An answer to get(), signed with a key minted before.
Signing == [key : Keys, client : Client, auth : AuthData]

Registration == [ceremony : Ceremonies, auth : AuthData, fmt : Formats, lazy : BOOLEAN]

SignIn == [ceremony : Ceremonies, key : Keys, auth : AuthData]

TypeOK ==
  /\ kind \in [Authenticators -> Kind]
  /\ entries \in [AaGuids -> Entry \cup {None}]
  /\ now \in Nat
  /\ options \in [Ceremonies -> Options \cup {None}]
  /\ creations \subseteq Creation
  /\ assertions \subseteq Signing
  /\ registered \subseteq Registration
  /\ signedIn \subseteq SignIn

Init ==
  /\ kind \in Pairings
  /\ entries \in Entries
  /\ now = 0
  /\ options = [c \in Ceremonies |-> None]
  /\ creations = {}
  /\ assertions = {}
  /\ registered = {}
  /\ signedIn = {}

Answers == Cardinality(creations) + Cardinality(assertions)

Results == Cardinality(registered) + Cardinality(signedIn)

--------------------------------------------------------------------------------
\* Fido2.RequestNewCredential.
RequestNewCredential(c, uv) ==
  /\ options[c] = None
  /\ options' = [options EXCEPT ![c] = [type |-> "create", uv |-> uv, allowed |-> {}]]
  /\ UNCHANGED <<kind, entries, now, creations, assertions, registered, signedIn>>

\* Fido2.GetAssertionOptions; an empty list allows every credential.
GetAssertionOptions(c, uv, allowed) ==
  /\ options[c] = None
  /\ options' = [options EXCEPT ![c] = [type |-> "get", uv |-> uv, allowed |-> allowed]]
  /\ UNCHANGED <<kind, entries, now, creations, assertions, registered, signedIn>>

(***************************************************************************)
(* A browser at a site passes a challenge to an authenticator, which mints *)
(* a key for that site, or signs with a key it minted for that site.  The  *)
(* browser writes its own origin and the kind of the call.                 *)
(***************************************************************************)
Create(a, c, site) ==
  LET n == Answers + 1
      acd == [aaguid |-> kind[a].aaguid, id |-> <<a, n>>, key |-> <<a, n>>]
  IN /\ n <= MaxAnswers
     /\ options[c] # None
     /\ options[c].type = "create"
     /\ creations' = creations \cup
          {[by |-> a, at |-> now,
            client |-> [type |-> "create", challenge |-> c, origin |-> site],
            auth |-> [rpIdHash |-> site, up |-> TRUE, uv |-> kind[a].uv,
                      count |-> IF kind[a].counts THEN n ELSE 0, acd |-> acd]]}
     /\ UNCHANGED <<kind, entries, now, options, assertions, registered, signedIn>>

Sign(m, c) ==
  LET n == Answers + 1
      site == m.auth.rpIdHash
  IN /\ n <= MaxAnswers
     /\ options[c] # None
     /\ options[c].type = "get"
     /\ assertions' = assertions \cup
          {[key |-> m.auth.acd.key,
            client |-> [type |-> "get", challenge |-> c, origin |-> site],
            auth |-> [rpIdHash |-> site, up |-> TRUE, uv |-> kind[m.by].uv,
                      count |-> IF kind[m.by].counts THEN n ELSE 0, acd |-> None]]}
     /\ UNCHANGED <<kind, entries, now, options, creations, registered, signedIn>>

Tick ==
  /\ now < MaxTime
  /\ now' = now + 1
  /\ UNCHANGED <<kind, entries, options, creations, assertions, registered, signedIn>>

--------------------------------------------------------------------------------
\* The parts of which a response may be put together.
ClientDataSeen == {m.client : m \in creations} \cup {s.client : s \in assertions}

AuthDataSeen == {m.auth : m \in creations} \cup {s.auth : s \in assertions}

StatementMade(m) == StatementOf(m.by, m.auth, m.client, m.at)

SignaturesSeen ==
  {StatementMade(m).sig : m \in creations}
    \cup {[by |-> s.key, over |-> Data(s.auth, s.client)] : s \in assertions}

\* AuthenticatorResponse.BaseVerify.
BaseVerify(client, c) == client.challenge = c /\ client.origin = Home

CeremonyVerifies_AnyRp(c, client, auth) == \* mutant: the RP id is not compared
  /\ client.type = "create"
  /\ BaseVerify(client, c)
  /\ auth.up
  /\ options[c].uv => auth.uv
  /\ auth.acd # None

\* Steps 3 to 12 of AuthenticatorAttestationResponse.VerifyAsync.
CeremonyVerifies(c, client, auth) ==
  /\ client.type = "create"
  /\ BaseVerify(client, c)
  /\ auth.rpIdHash = Home
  /\ auth.up
  /\ options[c].uv => auth.uv
  /\ auth.acd # None

\* Steps 13 to 16, which lazy attestation leaves for later.
AttestationVerifies(stmt, client, auth) ==
  LET entry == entries[auth.acd.aaguid] IN
  /\ StatementVerifies(stmt, auth, client, now)
  /\ (Conformance /\ entry = None) => stmt.fmt \in {"none", "fido-u2f"}
  /\ TrustPathTrusted(stmt, entry)
  /\ entry # None => entry.status \notin Undesired

\* AttestationVerificationSuccess.
NewRegistration(c, auth, fmt, lazy) ==
  [ceremony |-> c, auth |-> auth, fmt |-> fmt, lazy |-> lazy]

(***************************************************************************)
(* Fido2.MakeNewCredentialAsync on a response whose client data, whose     *)
(* authenticator data and whose statement were made for ceremonies of this *)
(* or another site.  Whether the id is unique is the caller's to answer.   *)
(***************************************************************************)
MakeNewCredential(c, client, auth, m, lazy) ==
  LET stmt == StatementMade(m) IN
  /\ Results < MaxResults
  /\ options[c] # None
  /\ options[c].type = "create"
  /\ CeremonyVerifies(c, client, auth)
  /\ ~lazy => AttestationVerifies(stmt, client, auth)
  /\ registered' = registered \cup {NewRegistration(c, auth, stmt.fmt, lazy)}
  /\ UNCHANGED <<kind, entries, now, options, creations, assertions, signedIn>>

\* Step 17: the counter the caller stored is that of its last result.
CounterVerifies(key, auth) ==
  auth.count > 0 =>
    /\ \A r \in registered : r.auth.acd.key = key => r.auth.count < auth.count
    /\ \A s \in signedIn : s.key = key => s.auth.count < auth.count

AssertionVerifies_AuthDataOnly(c, client, auth, sig, id, key) == \* mutant: the client data is not signed
  /\ BaseVerify(client, c)
  /\ options[c].allowed # {} => id \in options[c].allowed
  /\ client.type = "get"
  /\ auth.rpIdHash = Home
  /\ options[c].uv => auth.uv
  /\ sig # None
  /\ sig.by = key
  /\ "auth" \in DOMAIN sig.over /\ sig.over.auth = auth
  /\ CounterVerifies(key, auth)

\* AuthenticatorAssertionResponse.VerifyAsync; no AppID was asked for.
AssertionVerifies(c, client, auth, sig, id, key) ==
  /\ BaseVerify(client, c)
  /\ options[c].allowed # {} => id \in options[c].allowed
  /\ client.type = "get"
  /\ auth.rpIdHash = Home
  /\ options[c].uv => auth.uv
  /\ Verifies(key, Data(auth, client), sig)
  /\ CounterVerifies(key, auth)

(***************************************************************************)
(* Fido2.MakeAssertionAsync: the caller looks the credential up by the id  *)
(* in the response.                                                        *)
(***************************************************************************)
MakeAssertion(c, client, auth, sig, r) ==
  /\ Results < MaxResults
  /\ options[c] # None
  /\ options[c].type = "get"
  /\ AssertionVerifies(c, client, auth, sig, r.auth.acd.id, r.auth.acd.key)
  /\ signedIn' = signedIn \cup {[ceremony |-> c, key |-> r.auth.acd.key, auth |-> auth]}
  /\ UNCHANGED <<kind, entries, now, options, creations, assertions, registered>>

Next ==
  \/ \E c \in Ceremonies, uv \in BOOLEAN :
       \/ RequestNewCredential(c, uv)
       \/ \E allowed \in SUBSET {r.auth.acd.id : r \in registered} :
            GetAssertionOptions(c, uv, allowed)
  \/ \E a \in Authenticators, c \in Ceremonies, site \in Sites : Create(a, c, site)
  \/ \E m \in creations, c \in Ceremonies : Sign(m, c)
  \/ Tick
  \/ \E c \in Ceremonies, client \in ClientDataSeen, auth \in AuthDataSeen :
       \/ \E m \in creations, lazy \in BOOLEAN :
            MakeNewCredential(c, client, auth, m, lazy)
       \/ \E sig \in SignaturesSeen, r \in registered :
            MakeAssertion(c, client, auth, sig, r)

Spec == Init /\ [][Next]_vars

--------------------------------------------------------------------------------
Attested(r) == ~r.lazy /\ r.fmt # "none"

(***************************************************************************)
(* Every format ties its statement to this ceremony: a registration that   *)
(* attestation was verified for has the key of an authenticator that       *)
(* answered this very challenge at this site.  But for U2F, which does not *)
(* sign them, the flags, the counter and the AAGUID are that answer's too. *)
(***************************************************************************)
AttestedHere ==
  \A r \in registered : Attested(r) =>
    \E m \in creations :
      /\ m.client = [type |-> "create", challenge |-> r.ceremony, origin |-> Home]
      /\ m.auth.rpIdHash = Home
      /\ m.auth.acd.id = r.auth.acd.id
      /\ m.auth.acd.key = r.auth.acd.key
      /\ r.fmt # "fido-u2f" => m.auth = r.auth

(***************************************************************************)
(* Without its statement a registration still says that somebody answered  *)
(* this ceremony at this site, and that its key was minted for this site,  *)
(* where an authenticator verified the user if the options required it.    *)
(***************************************************************************)
MintedForThisSite ==
  \A r \in registered :
    /\ \E x \in creations : x.client.challenge = r.ceremony /\ x.client.origin = Home
    /\ \E m \in creations :
         /\ m.auth = r.auth
         /\ m.client.origin = Home
         /\ options[r.ceremony].uv => kind[m.by].uv

(***************************************************************************)
(* When metadata lists full attestation for the model that a registration  *)
(* names, and the statement has certificates, the authenticator that       *)
(* answered has a certificate from, or is itself, one of the model's roots.*)
(***************************************************************************)
GenuineModel ==
  \A r \in registered :
    LET entry == entries[r.auth.acd.aaguid] IN
    (Attested(r) /\ entry # None /\ FullAttestation(entry)) =>
      \E m \in creations :
        /\ m.auth.acd.key = r.auth.acd.key
        /\ \/ kind[m.by].fmt = "packed" /\ ~kind[m.by].full
           \/ kind[m.by].above \cap entry.roots # {}
           \/ kind[m.by].selfIssued /\ kind[m.by].name \in entry.roots

(***************************************************************************)
(* An accepted assertion is one the holder of the registered key signed    *)
(* for this very ceremony at this site, with the user verified if the      *)
(* options required it; no signature of a registration is taken for one.   *)
(***************************************************************************)
SignedHere ==
  \A x \in signedIn :
    /\ \E s \in assertions :
         /\ s.key = x.key
         /\ s.auth = x.auth
         /\ s.client = [type |-> "get", challenge |-> x.ceremony, origin |-> Home]
    /\ options[x.ceremony].uv => kind[x.key[1]].uv
================================================================================
