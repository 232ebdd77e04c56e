------------------------ MODULE AuthorizationCodesProofs -------------------------
(***************************************************************************)
(* What holds of AuthorizationCodes for any number of clients, tabs and    *)
(* requests.  Two facts carry the proofs: every copy of a client, stored   *)
(* or under way, requires PKCE or a secret; and a code that a token was    *)
(* issued for is consumed, which no later save undoes.                     *)
(***************************************************************************)
EXTENDS AuthorizationCodes, TLAPS

\* A code about to be consumed is stored, and has no token yet.
ReadCodes ==
  \A e \in EndpointRequests : endpointRequests[e] # None /\ endpointRequests[e].at = "remove" =>
    /\ oidcPersistedGrants[endpointRequests[e].key] # None
    /\ ~endpointRequests[e].late

\* A code that a token was issued for is consumed.
IssuedCodes ==
  \A token \in tokens : /\ oidcPersistedGrants[token.key] # None
                        /\ oidcPersistedGrants[token.key].consumed

CodeInv == TypeOK /\ ReadCodes /\ IssuedCodes

\* Every copy of a client keeps a secret or requires PKCE, and so do the requests it makes.
PkceOf(doc) == doc.requireClientSecret \/ doc.requirePkce

StoredPkce == \A c \in ClientIds : oidcBasicClients[c] # None => PkceOf(oidcBasicClients[c])

SentPkce ==
  \A r \in ClientRequests : clientRequests[r] # None /\ clientRequests[r].kind # "remove" =>
    PkceOf(clientRequests[r].doc)

RequestPkce ==
  \A e \in EndpointRequests : endpointRequests[e] # None /\ endpointRequests[e].at # "authorize" =>
    endpointRequests[e].secret \/ endpointRequests[e].pkce

PkceInv == StoredPkce /\ SentPkce /\ RequestPkce /\ PublicClientsProve
--------------------------------------------------------------------------------
LEMMA TypeStep == ASSUME TypeOK, ReadCodes, [Next]_vars PROVE TypeOK'
<1> USE DEF TypeOK, ClientTypeOK
<1>1. CASE UNCHANGED vars
  BY <1>1 DEF vars, clientVars, codeVars
<1>2. CASE ClientNext /\ UNCHANGED codeVars
  <2> USE <1>2 DEF codeVars
  <2>1. ASSUME NEW t \in Tabs, GenerateNewClientIdAndSecret(t) PROVE TypeOK'
    BY <2>1 DEF GenerateNewClientIdAndSecret
  <2>2. ASSUME NEW t \in Tabs, NEW a \in AccountIds, NEW secret \in BOOLEAN,
               NEW pkce \in BOOLEAN, NEW r \in ClientRequests,
               AddBasicClient(t, a, secret, pkce, r)
        PROVE  TypeOK'
    <3>1. NewClient(a, secret, pkce) \in OidcBasicClient
      BY DEF NewClient, OidcBasicClient
    <3>2. tempData \in ClientIds
      BY <2>2 DEF AddBasicClient
    <3> HIDE DEF NewClient
    <3> QED
      BY <2>2, <3>1, <3>2 DEF AddBasicClient, Send, ClientRequest
  <2>3. CASE TempDataGone
    BY <2>3 DEF TempDataGone
  <2>4. ASSUME NEW a \in AccountIds, NEW c \in ClientIds, NEW r \in ClientRequests,
               NEW enabled \in BOOLEAN, NEW pkce \in BOOLEAN,
               EditClient(a, c, enabled, pkce, r)
        PROVE  TypeOK'
    <3>1. oidcBasicClients[c] \in OidcBasicClient
      BY <2>4 DEF EditClient, Owns
    <3>2. [oidcBasicClients[c] EXCEPT
             !.enabled = enabled,
             !.requirePkce = oidcBasicClients[c].requireClientSecret => pkce]
            \in OidcBasicClient
      BY <3>1 DEF OidcBasicClient
    <3> QED
      BY <2>4, <3>2 DEF EditClient, Send, ClientRequest
  <2>5. ASSUME NEW a \in AccountIds, NEW c \in ClientIds, NEW r \in ClientRequests,
               ChangeClientStatus(a, c, r)
        PROVE  TypeOK'
    <3>1. oidcBasicClients[c] \in OidcBasicClient
      BY <2>5 DEF ChangeClientStatus, Owns
    <3>2. [oidcBasicClients[c] EXCEPT !.enabled = ~@] \in OidcBasicClient
      BY <3>1 DEF OidcBasicClient
    <3> QED
      BY <2>5, <3>2 DEF ChangeClientStatus, Send, ClientRequest
  <2>6. ASSUME NEW a \in AccountIds, NEW c \in ClientIds, NEW r \in ClientRequests,
               DeleteClient(a, c, r)
        PROVE  TypeOK'
    BY <2>6 DEF DeleteClient, Send, ClientRequest
  <2>7. ASSUME NEW r \in ClientRequests, SaveClient(r) PROVE TypeOK'
    <3>1. clientRequests[r] \in ClientRequest
      BY <2>7 DEF SaveClient
    <3>2. /\ clientRequests[r].client \in ClientIds
          /\ clientRequests[r].kind # "remove" => clientRequests[r].doc \in OidcBasicClient
      BY <3>1 DEF ClientRequest
    <3> QED
      BY <2>7, <3>2 DEF SaveClient, Saved
  <2>8. ASSUME NEW r \in ClientRequests, ClientRequestFails(r) PROVE TypeOK'
    BY <2>8 DEF ClientRequestFails
  <2> QED
    BY <2>1, <2>2, <2>3, <2>4, <2>5, <2>6, <2>7, <2>8, <1>2 DEF ClientNext
<1>3. CASE CodeNext
  <2> USE DEF clientVars
  <2>1. ASSUME NEW e \in EndpointRequests, NEW c \in ClientIds,
               NEW challenge \in BOOLEAN, Authorize(e, c, challenge)
        PROVE  TypeOK'
    BY <2>1 DEF Authorize, EndpointRequest
  <2>2. ASSUME NEW e \in EndpointRequests, NEW c \in ClientIds, TokenRequest(e, c)
        PROVE  TypeOK'
    <3>1. oidcBasicClients[c] \in OidcBasicClient
      BY <2>2 DEF TokenRequest, Found
    <3> QED
      BY <2>2, <3>1 DEF TokenRequest, EndpointRequest, OidcBasicClient
  <2>3. ASSUME NEW e \in EndpointRequests, Store(e) PROVE TypeOK'
    <3>1. endpointRequests[e] \in EndpointRequest
      BY <2>3 DEF Store
    <3>2. /\ endpointRequests[e].client \in ClientIds
          /\ endpointRequests[e].challenge \in BOOLEAN
      BY <3>1, <2>3 DEF Store, EndpointRequest
    <3> QED
      BY <2>3, <3>2 DEF Store, OidcPersistedGrant
  <2>4. ASSUME NEW e \in EndpointRequests, NEW k \in Keys, ReadGrant(e, k)
        PROVE  TypeOK'
    <3>1. endpointRequests[e] \in EndpointRequest /\ oidcPersistedGrants[k] \in OidcPersistedGrant
      BY <2>4 DEF ReadGrant, Unconsumed
    <3>2. /\ endpointRequests[e].secret \in BOOLEAN
          /\ endpointRequests[e].pkce \in BOOLEAN
          /\ oidcPersistedGrants[k].challenge \in BOOLEAN
      BY <3>1, <2>4 DEF ReadGrant, EndpointRequest, OidcPersistedGrant
    <3>3. Issued(k) \in BOOLEAN
      BY DEF Issued
    <3> QED
      BY <2>4, <3>2, <3>3 DEF ReadGrant, EndpointRequest
  <2>5. ASSUME NEW e \in EndpointRequests, NEW verifier \in BOOLEAN,
               RemoveGrant(e, verifier)
        PROVE  TypeOK'
    <3>1. endpointRequests[e] \in EndpointRequest
      BY <2>5 DEF RemoveGrant
    <3>2. /\ endpointRequests[e].key \in Keys
          /\ endpointRequests[e].secret \in BOOLEAN
          /\ endpointRequests[e].challenge \in BOOLEAN
      BY <3>1, <2>5 DEF RemoveGrant, EndpointRequest
    <3>3. oidcPersistedGrants[endpointRequests[e].key] \in OidcPersistedGrant
      BY <3>2, <2>5 DEF RemoveGrant, ReadCodes
    <3>4. [oidcPersistedGrants[endpointRequests[e].key] EXCEPT !.consumed = TRUE]
            \in OidcPersistedGrant
      BY <3>3 DEF OidcPersistedGrant
    <3>5. oidcPersistedGrants' \in [Keys -> OidcPersistedGrant \cup {None}]
      BY <2>5, <3>2, <3>4 DEF RemoveGrant
    <3>6. tokens' \subseteq Token
      BY <2>5, <3>2 DEF RemoveGrant, Token
    <3> QED
      BY <2>5, <3>5, <3>6 DEF RemoveGrant
  <2>6. ASSUME NEW e \in EndpointRequests, EndpointRequestFails(e) PROVE TypeOK'
    BY <2>6 DEF EndpointRequestFails
  <2> QED
    BY <1>3, <2>1, <2>2, <2>3, <2>4, <2>5, <2>6 DEF CodeNext
<1> QED
  BY <1>1, <1>2, <1>3 DEF Next

(***************************************************************************)
(* What a request does to the codes: a code is stored as unconsumed, read  *)
(* while no token has it, and consumed before its token is issued.         *)
(***************************************************************************)
LEMMA CodeStep == ASSUME CodeInv, [Next]_vars PROVE CodeInv'
<1> USE DEF CodeInv
<1>1. TypeOK'
  BY TypeStep
<1>2. CASE UNCHANGED codeVars
  BY <1>1, <1>2 DEF codeVars, ReadCodes, IssuedCodes
<1>3. CASE CodeNext
  <2> oidcPersistedGrants \in [Keys -> OidcPersistedGrant \cup {None}]
      /\ endpointRequests \in [EndpointRequests -> EndpointRequest \cup {None}]
      /\ tokens \subseteq Token
    BY DEF TypeOK
  <2> \A k \in Keys, g \in OidcPersistedGrant : g # None
    BY AuthorizationCodesAssumption
  <2>1. ASSUME NEW e \in EndpointRequests, NEW c \in ClientIds,
               NEW challenge \in BOOLEAN, Authorize(e, c, challenge)
        PROVE  ReadCodes' /\ IssuedCodes'
    BY <2>1 DEF Authorize, ReadCodes, IssuedCodes
  <2>2. ASSUME NEW e \in EndpointRequests, NEW c \in ClientIds, TokenRequest(e, c)
        PROVE  ReadCodes' /\ IssuedCodes'
    BY <2>2 DEF TokenRequest, ReadCodes, IssuedCodes
  <2>3. ASSUME NEW e \in EndpointRequests, Store(e) PROVE ReadCodes' /\ IssuedCodes'
    <3>1. PICK k \in Keys :
            /\ oidcPersistedGrants[k] = None
            /\ oidcPersistedGrants' = [oidcPersistedGrants EXCEPT ![k] =
                 [client |-> endpointRequests[e].client,
                  challenge |-> endpointRequests[e].challenge, consumed |-> FALSE]]
      BY <2>3 DEF Store
    <3>2. /\ tokens' = tokens
          /\ endpointRequests' = [endpointRequests EXCEPT ![e] = None]
      BY <2>3 DEF Store
    <3>3. ReadCodes'
      <4> SUFFICES ASSUME NEW f \in EndpointRequests, endpointRequests'[f] # None,
                          endpointRequests'[f].at = "remove"
                   PROVE  /\ oidcPersistedGrants'[endpointRequests'[f].key] # None
                          /\ ~endpointRequests'[f].late
        BY DEF ReadCodes
      <4>1. endpointRequests'[f] = endpointRequests[f]
        BY <3>2
      <4>2. /\ oidcPersistedGrants[endpointRequests[f].key] # None
            /\ ~endpointRequests[f].late
        BY <4>1 DEF ReadCodes
      <4>3. oidcPersistedGrants'[endpointRequests[f].key]
              = oidcPersistedGrants[endpointRequests[f].key]
        BY <3>1, <4>2
      <4> QED
        BY <4>1, <4>2, <4>3
    <3>4. IssuedCodes'
      BY <3>1, <3>2 DEF IssuedCodes
    <3> QED
      BY <3>3, <3>4
  <2>4. ASSUME NEW e \in EndpointRequests, NEW k \in Keys, ReadGrant(e, k)
        PROVE  ReadCodes' /\ IssuedCodes'
    <3>1. ~Issued(k)
      BY <2>4 DEF ReadGrant, Unconsumed, Issued, IssuedCodes
    <3>2. IssuedCodes'
      BY <2>4 DEF ReadGrant, IssuedCodes
    <3>3. oidcPersistedGrants[k] # None
      BY <2>4 DEF ReadGrant, Unconsumed
    <3> QED
      BY <2>4, <3>1, <3>2, <3>3 DEF ReadGrant, ReadCodes
  <2>5. ASSUME NEW e \in EndpointRequests, NEW verifier \in BOOLEAN,
               RemoveGrant(e, verifier)
        PROVE  ReadCodes' /\ IssuedCodes'
    <3> DEFINE k == endpointRequests[e].key
    <3>1. /\ endpointRequests[e] \in EndpointRequest
          /\ oidcPersistedGrants[k] # None
      BY <2>5 DEF RemoveGrant, ReadCodes
    <3>2. k \in Keys /\ oidcPersistedGrants[k] \in OidcPersistedGrant
      BY <2>5, <3>1 DEF RemoveGrant, EndpointRequest
    <3>3. /\ oidcPersistedGrants' = [oidcPersistedGrants EXCEPT ![k] =
                                       [oidcPersistedGrants[k] EXCEPT !.consumed = TRUE]]
          /\ endpointRequests' = [endpointRequests EXCEPT ![e] = None]
          /\ \A token \in tokens' : token \in tokens \/ token.key = k
      BY <2>5 DEF RemoveGrant
    <3>4. /\ oidcPersistedGrants'[k] # None
          /\ oidcPersistedGrants'[k].consumed
      BY <3>2, <3>3, AuthorizationCodesAssumption DEF OidcPersistedGrant
    <3>5. \A q \in Keys : q # k => oidcPersistedGrants'[q] = oidcPersistedGrants[q]
      BY <3>3
    <3>6. \A f \in EndpointRequests :
            endpointRequests'[f] # None => endpointRequests'[f] = endpointRequests[f]
      BY <3>3
    <3>7. ReadCodes'
      <4> SUFFICES ASSUME NEW f \in EndpointRequests, endpointRequests'[f] # None,
                          endpointRequests'[f].at = "remove"
                   PROVE  /\ oidcPersistedGrants'[endpointRequests'[f].key] # None
                          /\ ~endpointRequests'[f].late
        BY DEF ReadCodes
      <4>1. endpointRequests'[f] = endpointRequests[f]
        BY <3>6
      <4>2. /\ oidcPersistedGrants[endpointRequests[f].key] # None
            /\ ~endpointRequests[f].late
        BY <4>1 DEF ReadCodes
      <4>3. endpointRequests[f].key \in Keys
        BY <4>1 DEF EndpointRequest
      <4> QED
        BY <4>1, <4>2, <4>3, <3>4, <3>5
    <3>8. IssuedCodes'
      <4> SUFFICES ASSUME NEW token \in tokens'
                   PROVE  /\ oidcPersistedGrants'[token.key] # None
                          /\ oidcPersistedGrants'[token.key].consumed
        BY DEF IssuedCodes
      <4>1. CASE token.key = k
        BY <4>1, <3>4
      <4>2. CASE token.key # k
        <5>1. token \in tokens
          BY <4>2, <3>3
        <5>2. token.key \in Keys
          BY <5>1 DEF Token
        <5> QED
          BY <4>2, <5>1, <5>2, <3>5 DEF IssuedCodes
      <4> QED
        BY <4>1, <4>2
    <3> QED
      BY <3>7, <3>8
  <2>6. ASSUME NEW e \in EndpointRequests, EndpointRequestFails(e)
        PROVE  ReadCodes' /\ IssuedCodes'
    BY <2>6 DEF EndpointRequestFails, ReadCodes, IssuedCodes
  <2> QED
    BY <1>1, <1>3, <2>1, <2>2, <2>3, <2>4, <2>5, <2>6 DEF CodeNext
<1> QED
  BY <1>2, <1>3 DEF Next, vars

\* Creating, editing and toggling all keep the rule, and a save only copies.
LEMMA PkceStep == ASSUME TypeOK, PkceInv, [Next]_vars PROVE PkceInv'
<1> USE DEF PkceInv
<1>1. CASE UNCHANGED vars
  BY <1>1 DEF vars, clientVars, codeVars, StoredPkce, SentPkce, RequestPkce,
              PublicClientsProve
<1>2. CASE ClientNext /\ UNCHANGED codeVars
  <2>1. RequestPkce' /\ PublicClientsProve'
    BY <1>2 DEF codeVars, RequestPkce, PublicClientsProve
  <2>2. ASSUME NEW t \in Tabs, GenerateNewClientIdAndSecret(t)
        PROVE  StoredPkce' /\ SentPkce'
    BY <2>2 DEF GenerateNewClientIdAndSecret, StoredPkce, SentPkce
  <2>3. ASSUME NEW t \in Tabs, NEW a \in AccountIds, NEW secret \in BOOLEAN,
               NEW pkce \in BOOLEAN, NEW r \in ClientRequests,
               AddBasicClient(t, a, secret, pkce, r)
        PROVE  StoredPkce' /\ SentPkce'
    <3>1. PkceOf(NewClient(a, secret, pkce))
      BY DEF PkceOf, NewClient
    <3> HIDE DEF PkceOf, NewClient
    <3> QED
      BY <2>3, <3>1 DEF AddBasicClient, Send, StoredPkce, SentPkce, TypeOK, ClientTypeOK
  <2>4. ASSUME TempDataGone PROVE StoredPkce' /\ SentPkce'
    BY <2>4 DEF TempDataGone, StoredPkce, SentPkce
  <2>5. ASSUME NEW a \in AccountIds, NEW c \in ClientIds, NEW r \in ClientRequests,
               \/ \E enabled, pkce \in BOOLEAN : EditClient(a, c, enabled, pkce, r)
               \/ ChangeClientStatus(a, c, r)
               \/ DeleteClient(a, c, r)
        PROVE  StoredPkce' /\ SentPkce'
    <3>1. oidcBasicClients[c] \in OidcBasicClient /\ PkceOf(oidcBasicClients[c])
      BY <2>5 DEF EditClient, ChangeClientStatus, DeleteClient, Owns, StoredPkce,
                  TypeOK, ClientTypeOK
    <3>2. PICK request :
            /\ Send(r, request)
            /\ request.kind # "remove" => PkceOf(request.doc)
      <4>1. ASSUME NEW enabled \in BOOLEAN, NEW pkce \in BOOLEAN,
                   EditClient(a, c, enabled, pkce, r)
            PROVE  \E request : /\ Send(r, request)
                                /\ request.kind # "remove" => PkceOf(request.doc)
        <5> DEFINE doc == [oidcBasicClients[c] EXCEPT
                             !.enabled = enabled,
                             !.requirePkce = oidcBasicClients[c].requireClientSecret => pkce]
        <5>1. PkceOf(doc)
          BY <3>1 DEF PkceOf, OidcBasicClient
        <5> QED
          BY <4>1, <5>1 DEF EditClient
      <4>2. CASE ChangeClientStatus(a, c, r)
        <5> DEFINE doc == [oidcBasicClients[c] EXCEPT !.enabled = ~@]
        <5>1. PkceOf(doc)
          BY <3>1 DEF PkceOf, OidcBasicClient
        <5> QED
          BY <4>2, <5>1 DEF ChangeClientStatus
      <4>3. CASE DeleteClient(a, c, r)
        BY <4>3 DEF DeleteClient
      <4> QED
        BY <2>5, <4>1, <4>2, <4>3
    <3> HIDE DEF PkceOf
    <3> QED
      BY <3>2 DEF Send, StoredPkce, SentPkce, TypeOK, ClientTypeOK
  <2>6. ASSUME NEW r \in ClientRequests, SaveClient(r) PROVE StoredPkce' /\ SentPkce'
    <3>1. clientRequests[r] \in ClientRequest
      BY <2>6 DEF SaveClient, TypeOK, ClientTypeOK
    <3>2. clientRequests[r].kind # "remove" => PkceOf(clientRequests[r].doc)
      BY <2>6 DEF SaveClient, SentPkce
    <3>3. clientRequests[r].client \in ClientIds
      BY <3>1 DEF ClientRequest
    <3> HIDE DEF PkceOf
    <3> QED
      BY <2>6, <3>2, <3>3 DEF SaveClient, Saved, StoredPkce, SentPkce, TypeOK, ClientTypeOK
  <2>7. ASSUME NEW r \in ClientRequests, ClientRequestFails(r)
        PROVE  StoredPkce' /\ SentPkce'
    BY <2>7 DEF ClientRequestFails, StoredPkce, SentPkce, TypeOK, ClientTypeOK
  <2> QED
    BY <1>2, <2>1, <2>2, <2>3, <2>4, <2>5, <2>6, <2>7 DEF ClientNext
<1>3. CASE CodeNext
  <2> endpointRequests \in [EndpointRequests -> EndpointRequest \cup {None}]
    BY DEF TypeOK
  <2>1. ASSUME NEW e \in EndpointRequests, NEW c \in ClientIds,
               NEW challenge \in BOOLEAN, Authorize(e, c, challenge)
        PROVE  PkceInv'
    BY <2>1 DEF Authorize, clientVars, StoredPkce, SentPkce, RequestPkce, PublicClientsProve
  <2>2. ASSUME NEW e \in EndpointRequests, NEW c \in ClientIds, TokenRequest(e, c)
        PROVE  PkceInv'
    <3>1. PkceOf(oidcBasicClients[c])
      BY <2>2 DEF TokenRequest, Found, StoredPkce
    <3> QED
      BY <2>2, <3>1 DEF TokenRequest, clientVars, StoredPkce, SentPkce, RequestPkce,
                        PublicClientsProve, PkceOf
  <2>3. ASSUME NEW e \in EndpointRequests, Store(e) \/ EndpointRequestFails(e)
        PROVE  PkceInv'
    BY <2>3 DEF Store, EndpointRequestFails, clientVars, StoredPkce, SentPkce,
                RequestPkce, PublicClientsProve
  <2>4. ASSUME NEW e \in EndpointRequests, NEW k \in Keys, ReadGrant(e, k)
        PROVE  PkceInv'
    BY <2>4 DEF ReadGrant, clientVars, StoredPkce, SentPkce, RequestPkce, PublicClientsProve
  <2>5. ASSUME NEW e \in EndpointRequests, NEW verifier \in BOOLEAN,
               RemoveGrant(e, verifier)
        PROVE  PkceInv'
    <3>1. endpointRequests[e].secret \/ endpointRequests[e].pkce
      BY <2>5 DEF RemoveGrant, RequestPkce
    <3>2. PublicClientsProve'
      BY <2>5, <3>1 DEF RemoveGrant, ProofHolds, PublicClientsProve
    <3> QED
      BY <2>5, <3>2 DEF RemoveGrant, clientVars, StoredPkce, SentPkce, RequestPkce
  <2> QED
    BY <1>3, <2>1, <2>2, <2>3, <2>4, <2>5 DEF CodeNext
<1> QED
  BY <1>1, <1>2, <1>3 DEF Next
--------------------------------------------------------------------------------
LEMMA Inductive == Spec => [](CodeInv /\ PkceInv)
<1>1. Init => CodeInv /\ PkceInv
  BY DEF Init, ClientInit, CodeInv, TypeOK, ClientTypeOK, ReadCodes, IssuedCodes,
         PkceInv, StoredPkce, SentPkce, RequestPkce, PublicClientsProve
<1>2. CodeInv /\ PkceInv /\ [Next]_vars => CodeInv' /\ PkceInv'
  BY CodeStep, PkceStep DEF CodeInv
<1> QED
  BY <1>1, <1>2, PTL DEF Spec

\* Clients, forms, cookies, codes, requests and tokens keep their types.
THEOREM TypeCorrect == Spec => []TypeOK
<1>1. CodeInv => TypeOK
  BY DEF CodeInv
<1> QED
  BY <1>1, Inductive, PTL

(***************************************************************************)
(* No sequence of creations, edits, toggles and deletes, however their     *)
(* saves overtake each other, gets a public client a token without proof.  *)
(***************************************************************************)
THEOREM PublicClientsAlwaysProve == Spec => []PublicClientsProve
<1>1. PkceInv => PublicClientsProve
  BY DEF PkceInv
<1> QED
  BY <1>1, Inductive, PTL

(***************************************************************************)
(* A code that a token was issued for is consumed, so that a request which *)
(* looks it up afterwards is refused: a second token takes an overlap.     *)
(***************************************************************************)
THEOREM SpentCodesAreAlwaysRefused == Spec => []SpentCodesAreRefused
<1>1. CodeInv => SpentCodesAreRefused
  BY DEF CodeInv, ReadCodes, SpentCodesAreRefused
<1> QED
  BY <1>1, Inductive, PTL
--------------------------------------------------------------------------------
(* The registry of clients. *)

RegisteredClients == [id : ClientIds, account : AccountIds, secret : BOOLEAN]

LEMMA RegisteredIs ==
  ASSUME NEW c \in ClientIds, NEW doc \in OidcBasicClient
  PROVE  /\ Registered(c, doc) \in RegisteredClients /\ Registered(c, doc) # None
         /\ Registered(c, doc).id = c
<1>1. Registered(c, doc) \in RegisteredClients
  BY DEF Registered, RegisteredClients, OidcBasicClient
<1> QED
  BY <1>1, OidcClientsAssumption DEF RegisteredClients, Registered

\* What is under way of a kind, request by request.
LEMMA UnderWayIs ==
  ASSUME NEW kind, NEW o
  PROVE  o \in UnderWay(kind) <=>
           \E r \in ClientRequests :
             /\ clientRequests[r] # None /\ clientRequests[r].kind = kind
             /\ o = Registered(clientRequests[r].client, clientRequests[r].doc)
BY DEF UnderWay

LEMMA SentIsUnderWay ==
  ASSUME ClientTypeOK, NEW r \in ClientRequests, NEW q \in ClientRequest, Send(r, q), NEW kind
  PROVE  UnderWay(kind)' = UnderWay(kind) \cup
           (IF q.kind = kind THEN {Registered(q.client, q.doc)} ELSE {})
<1>1. /\ clientRequests[r] = None /\ clientRequests'[r] = q /\ q # None
      /\ \A p \in ClientRequests : p # r => clientRequests'[p] = clientRequests[p]
  BY OidcClientsAssumption DEF Send, ClientTypeOK
<1> SUFFICES ASSUME NEW o
             PROVE  o \in UnderWay(kind)' <=>
                      o \in UnderWay(kind) \/ (q.kind = kind /\ o = Registered(q.client, q.doc))
  OBVIOUS
<1> DEFINE Is(p) == /\ clientRequests[p] # None /\ clientRequests[p].kind = kind
                    /\ o = Registered(clientRequests[p].client, clientRequests[p].doc)
           Becomes(p) == /\ clientRequests'[p] # None /\ clientRequests'[p].kind = kind
                         /\ o = Registered(clientRequests'[p].client, clientRequests'[p].doc)
<1>2. o \in UnderWay(kind) <=> \E p \in ClientRequests : Is(p)
  BY UnderWayIs
<1>3. o \in UnderWay(kind)' <=> \E p \in ClientRequests : Becomes(p)
  BY DEF UnderWay, Registered
<1>4. \A p \in ClientRequests : p # r => (Becomes(p) <=> Is(p))
  BY <1>1
<1>5. ~Is(r) /\ (Becomes(r) <=> q.kind = kind /\ o = Registered(q.client, q.doc))
  BY <1>1
<1> HIDE DEF Is, Becomes
<1> QED
  BY <1>2, <1>3, <1>4, <1>5

LEMMA EndedWasUnderWay ==
  ASSUME ClientTypeOK, NEW r \in ClientRequests, clientRequests[r] # None,
         clientRequests' = [clientRequests EXCEPT ![r] = None], NEW kind
  PROVE  LET o == Registered(clientRequests[r].client, clientRequests[r].doc)
         IN  IF clientRequests[r].kind = kind
             THEN o \in UnderWay(kind) /\ UnderWay(kind)' \in {UnderWay(kind), UnderWay(kind) \ {o}}
             ELSE UnderWay(kind)' = UnderWay(kind)
<1> DEFINE q == clientRequests[r]
           x == Registered(q.client, q.doc)
           Is(p, o) == /\ clientRequests[p] # None /\ clientRequests[p].kind = kind
                       /\ o = Registered(clientRequests[p].client, clientRequests[p].doc)
           Becomes(p, o) == /\ clientRequests'[p] # None /\ clientRequests'[p].kind = kind
                            /\ o = Registered(clientRequests'[p].client, clientRequests'[p].doc)
<1>1. /\ clientRequests'[r] = None
      /\ \A p \in ClientRequests : p # r => clientRequests'[p] = clientRequests[p]
  BY DEF ClientTypeOK
<1>2. \A o : o \in UnderWay(kind) <=> \E p \in ClientRequests : Is(p, o)
  BY UnderWayIs
<1>3. \A o : o \in UnderWay(kind)' <=> \E p \in ClientRequests : Becomes(p, o)
  BY DEF UnderWay, Registered
<1>4. \A o : \A p \in ClientRequests : Becomes(p, o) <=> p # r /\ Is(p, o)
  BY <1>1
<1>5. \A o : Is(r, o) <=> q.kind = kind /\ o = x
  OBVIOUS
<1> HIDE DEF Is, Becomes, x
<1>6. \A o : o \in UnderWay(kind)' => o \in UnderWay(kind)
  BY <1>2, <1>3, <1>4
<1>7. \A o : o \in UnderWay(kind) => o \in UnderWay(kind)' \/ (q.kind = kind /\ o = x)
  BY <1>2, <1>3, <1>4, <1>5
<1>8. q.kind = kind => x \in UnderWay(kind)
  BY <1>2, <1>5
<1>9. CASE q.kind = kind
  <2>1. CASE x \in UnderWay(kind)'
    <3>1. UnderWay(kind)' = UnderWay(kind)
      BY <1>6, <1>7, <2>1
    <3> QED
      BY <1>8, <1>9, <3>1 DEF x
  <2>2. CASE x \notin UnderWay(kind)'
    <3>1. UnderWay(kind)' = UnderWay(kind) \ {x}
      BY <1>6, <1>7, <2>2
    <3> QED
      BY <1>8, <1>9, <3>1 DEF x
  <2> QED
    BY <2>1, <2>2
<1>10. CASE q.kind # kind
  <2>1. UnderWay(kind)' = UnderWay(kind)
    BY <1>6, <1>7, <1>10
  <2> QED
    BY <1>10, <2>1
<1> QED
  BY <1>9, <1>10

\* The client of each id, as the registry sees it.
RegisteredAs(c) ==
  IF oidcBasicClients[c] = None THEN None ELSE Registered(c, oidcBasicClients[c])

LEMMA RegisteredAsIs ==
  ASSUME ClientTypeOK, NEW c \in ClientIds
  PROVE  RegisteredAs(c) = None <=> oidcBasicClients[c] = None
BY RegisteredIs DEF ClientTypeOK, RegisteredAs

\* A request is sent: a post of the page, or an edit, toggle or delete that read a client.
LEMMA SendRegisters ==
  ASSUME ClientTypeOK, NEW r \in ClientRequests, NEW q \in ClientRequest, Send(r, q),
         \/ q.kind = "create" /\ q.client = tempData
         \/ /\ q.kind = "replace" /\ oidcBasicClients[q.client] # None
            /\ Registered(q.client, q.doc) = Registered(q.client, oidcBasicClients[q.client])
         \/ q.kind = "remove"
  PROVE  Registry!Next \/ UNCHANGED Registry!vars
<1> DEFINE o == Registered(q.client, q.doc)
<1>1. UNCHANGED <<oidcBasicClients, generated, tempData>>
  BY DEF Send
<1>2. /\ UnderWay("create")' = UnderWay("create") \cup (IF q.kind = "create" THEN {o} ELSE {})
      /\ UnderWay("replace")' = UnderWay("replace") \cup (IF q.kind = "replace" THEN {o} ELSE {})
  BY SentIsUnderWay
<1>3. CASE q.kind = "create" /\ q.client = tempData
  <2>1. tempData \in ClientIds /\ q.doc \in OidcBasicClient
    BY <1>3 DEF ClientRequest
  <2>2. tempData # None
    BY <2>1, OidcClientsAssumption
  <2>3. q.doc.account \in AccountIds /\ q.doc.requireClientSecret \in BOOLEAN
    BY <2>1 DEF OidcBasicClient
  <2>4. o = [id |-> tempData, account |-> q.doc.account, secret |-> q.doc.requireClientSecret]
    BY <1>3 DEF Registered
  <2>5. Registry!Post(q.doc.account, q.doc.requireClientSecret)
    BY <1>1, <1>2, <1>3, <2>2, <2>4 DEF Registry!Post, Registered
  <2> QED
    BY <2>3, <2>5 DEF Registry!Next
<1>4. CASE /\ q.kind = "replace" /\ oidcBasicClients[q.client] # None
           /\ o = Registered(q.client, oidcBasicClients[q.client])
  <2>1. q.client \in ClientIds
    BY <1>4 DEF ClientRequest
  <2>2. RegisteredAs(q.client) = o /\ RegisteredAs(q.client) # None
    BY <1>4, <2>1, RegisteredAsIs DEF RegisteredAs
  <2>3. Registry!Edit(q.client)
    BY <1>1, <1>2, <1>4, <2>1, <2>2 DEF Registry!Edit, RegisteredAs, Registered
  <2> QED
    BY <2>1, <2>3 DEF Registry!Next
<1>5. CASE q.kind = "remove"
  BY <1>1, <1>2, <1>5 DEF Registry!vars, Registered
<1> QED
  BY <1>3, <1>4, <1>5

\* A request ends without a save.
LEMMA FailRegisters ==
  ASSUME ClientTypeOK, NEW r \in ClientRequests, ClientRequestFails(r)
  PROVE  Registry!Next \/ UNCHANGED Registry!vars
<1> DEFINE q == clientRequests[r]
           o == Registered(q.client, q.doc)
<1>1. /\ UNCHANGED <<oidcBasicClients, generated, tempData>>
      /\ q # None /\ clientRequests' = [clientRequests EXCEPT ![r] = None]
  BY DEF ClientRequestFails
<1>2. /\ q.kind = "create" => /\ o \in UnderWay("create")
                              /\ UnderWay("create")' \in {UnderWay("create"), UnderWay("create") \ {o}}
      /\ q.kind # "create" => UnderWay("create")' = UnderWay("create")
      /\ q.kind = "replace" => /\ o \in UnderWay("replace")
                               /\ UnderWay("replace")' \in {UnderWay("replace"), UnderWay("replace") \ {o}}
      /\ q.kind # "replace" => UnderWay("replace")' = UnderWay("replace")
  BY <1>1, EndedWasUnderWay
<1> HIDE DEF o
<1>3. CASE q.kind = "create"
  <2>1. Registry!PostEnds(o)
    BY <1>1, <1>2, <1>3 DEF Registry!PostEnds
  <2> QED
    BY <1>1, <1>2, <1>3, <2>1 DEF Registry!Next, Registered
<1>4. CASE q.kind = "replace"
  <2>1. Registry!EditEnds(o)
    BY <1>1, <1>2, <1>4 DEF Registry!EditEnds
  <2> QED
    BY <1>1, <1>2, <1>4, <2>1 DEF Registry!Next, Registered
<1>5. CASE q.kind # "create" /\ q.kind # "replace"
  BY <1>1, <1>2, <1>5 DEF Registry!vars, Registered
<1> QED
  BY <1>3, <1>4, <1>5

LEMMA SavesAreSteps ==
  /\ \A o \in UnderWay("create") : Registry!Create(o) => Registry!Next
  /\ \A o \in UnderWay("replace") : Registry!Rewrite(o) => Registry!Next
  /\ \A c \in ClientIds : Registry!Delete(c) => Registry!Next
BY DEF Registry!Next

\* A save adds, replaces or removes the client that the registry sees.
LEMMA SaveRegisters ==
  ASSUME ClientTypeOK, NEW r \in ClientRequests, NEW q, clientRequests[r] = q, SaveClient(r)
  PROVE  Registry!Next
<1> DEFINE o == Registered(q.client, q.doc)
           seen == [c \in ClientIds |-> RegisteredAs(c)]
<1>1. /\ UNCHANGED <<generated, tempData>>
      /\ q # None /\ clientRequests' = [clientRequests EXCEPT ![r] = None]
      /\ oidcBasicClients[q.client] = None <=> q.kind = "create"
      /\ oidcBasicClients' = [oidcBasicClients EXCEPT ![q.client] =
                                IF q.kind = "remove" THEN None ELSE q.doc]
  BY DEF SaveClient, Saved
<1>2. /\ q.client \in ClientIds /\ q.kind \in {"create", "replace", "remove"}
      /\ q.kind # "remove" => q.doc \in OidcBasicClient
  <2>1. q \in ClientRequest
    BY <1>1 DEF ClientTypeOK
  <2> QED
    BY <2>1 DEF ClientRequest
<1>3. /\ q.kind = "create" => /\ o \in UnderWay("create")
                              /\ UnderWay("create")' \in {UnderWay("create"), UnderWay("create") \ {o}}
      /\ q.kind # "create" => UnderWay("create")' = UnderWay("create")
      /\ q.kind = "replace" => /\ o \in UnderWay("replace")
                               /\ UnderWay("replace")' \in {UnderWay("replace"), UnderWay("replace") \ {o}}
      /\ q.kind # "replace" => UnderWay("replace")' = UnderWay("replace")
  BY <1>1, EndedWasUnderWay
<1>4. seen[q.client] = None <=> q.kind = "create"
  BY <1>1, <1>2, RegisteredAsIs
<1>5. /\ oidcBasicClients'[q.client] = IF q.kind = "remove" THEN None ELSE q.doc
      /\ \A c \in ClientIds : c # q.client => oidcBasicClients'[c] = oidcBasicClients[c]
  BY <1>1, <1>2 DEF ClientTypeOK
<1>6. /\ q.kind = "remove" => seen' = [seen EXCEPT ![q.client] = None]
      /\ q.kind # "remove" => seen' = [seen EXCEPT ![q.client] = o]
  <2>1. ASSUME NEW c \in ClientIds, c # q.client PROVE seen'[c] = seen[c]
    BY <1>5, <2>1 DEF RegisteredAs, Registered
  <2>2. q.kind = "remove" => seen'[q.client] = None
    BY <1>2, <1>5 DEF RegisteredAs
  <2>3. q.kind # "remove" => seen'[q.client] = o
    <3>1. ASSUME q.kind # "remove" PROVE q.doc # None
      BY <1>2, <3>1, OidcClientsAssumption
    <3> QED
      BY <1>2, <1>5, <3>1 DEF RegisteredAs, Registered
  <2>4. seen' = [c \in ClientIds |-> seen'[c]]
    OBVIOUS
  <2> HIDE DEF o, seen
  <2>5. seen \in [ClientIds -> {seen[c] : c \in ClientIds}]
    BY DEF seen
  <2> QED
    BY <1>2, <2>1, <2>2, <2>3, <2>4, <2>5
<1>7. q.kind # "remove" => o.id = q.client
  BY <1>2, RegisteredIs
<1> HIDE DEF o
<1>8. CASE q.kind = "create"
  <2>1. Registry!PostEnds(o)
    BY <1>1, <1>3, <1>8 DEF Registry!PostEnds
  <2>2. Registry!Create(o)
    BY <1>4, <1>6, <1>7, <1>8, <2>1 DEF Registry!Create, RegisteredAs
  <2> QED
    BY <1>3, <1>8, <2>2, SavesAreSteps
<1>9. CASE q.kind = "replace"
  <2>1. Registry!EditEnds(o)
    BY <1>1, <1>3, <1>9 DEF Registry!EditEnds
  <2>2. Registry!Rewrite(o)
    BY <1>4, <1>6, <1>7, <1>9, <2>1 DEF Registry!Rewrite, RegisteredAs
  <2> QED
    BY <1>3, <1>9, <2>2, SavesAreSteps
<1>10. CASE q.kind = "remove"
  <2>1. Registry!Delete(q.client)
    BY <1>1, <1>3, <1>4, <1>6, <1>10 DEF Registry!Delete, RegisteredAs
  <2> QED
    BY <1>2, <2>1, SavesAreSteps
<1> QED
  BY <1>2, <1>8, <1>9, <1>10

LEMMA ClientRegisters ==
  ASSUME ClientTypeOK, ClientNext
  PROVE  Registry!Next \/ UNCHANGED Registry!vars
<1>1. ASSUME NEW t \in Tabs, GenerateNewClientIdAndSecret(t) PROVE Registry!Next
  <2>1. PICK c \in ClientIds \ generated : generated' = generated \cup {c} /\ tempData' = c
    BY <1>1 DEF GenerateNewClientIdAndSecret
  <2>2. UNCHANGED <<oidcBasicClients, clientRequests>>
    BY <1>1 DEF GenerateNewClientIdAndSecret
  <2>3. Registry!Draw(c)
    BY <2>1, <2>2 DEF Registry!Draw, UnderWay, Registered
  <2> QED
    BY <2>3 DEF Registry!Next
<1>2. ASSUME TempDataGone PROVE Registry!Next
  <2>1. Registry!Drop
    BY <1>2 DEF TempDataGone, Registry!Drop, UnderWay, Registered
  <2> QED
    BY <2>1 DEF Registry!Next
<1>3. ASSUME NEW t \in Tabs, NEW a \in AccountIds, NEW secret \in BOOLEAN, NEW pkce \in BOOLEAN,
             NEW r \in ClientRequests, AddBasicClient(t, a, secret, pkce, r)
      PROVE  Registry!Next \/ UNCHANGED Registry!vars
  <2> DEFINE q == [kind |-> "create", client |-> tempData, doc |-> NewClient(a, secret, pkce)]
  <2>1. Send(r, q) /\ tempData \in ClientIds
    BY <1>3 DEF AddBasicClient, ClientTypeOK
  <2>2. NewClient(a, secret, pkce) \in OidcBasicClient
    BY DEF NewClient, OidcBasicClient
  <2>3. q \in ClientRequest
    BY <2>1, <2>2 DEF ClientRequest
  <2> QED
    BY <2>1, <2>3, SendRegisters
<1>4. ASSUME NEW a \in AccountIds, NEW c \in ClientIds, NEW r \in ClientRequests, Owns(a, c)
      PROVE  /\ oidcBasicClients[c] \in OidcBasicClient /\ oidcBasicClients[c] # None
             /\ \A doc \in OidcBasicClient :
                  /\ Send(r, [kind |-> "replace", client |-> c, doc |-> doc])
                  /\ Registered(c, doc) = Registered(c, oidcBasicClients[c])
                  => Registry!Next \/ UNCHANGED Registry!vars
  <2>1. oidcBasicClients[c] \in OidcBasicClient /\ oidcBasicClients[c] # None
    BY <1>4 DEF Owns, ClientTypeOK
  <2>2. \A doc \in OidcBasicClient : [kind |-> "replace", client |-> c, doc |-> doc] \in ClientRequest
    BY DEF ClientRequest
  <2> QED
    BY <2>1, <2>2, SendRegisters
<1>5. ASSUME NEW a \in AccountIds, NEW c \in ClientIds, NEW r \in ClientRequests,
             NEW enabled \in BOOLEAN, NEW pkce \in BOOLEAN, EditClient(a, c, enabled, pkce, r)
      PROVE  Registry!Next \/ UNCHANGED Registry!vars
  <2> DEFINE doc == [oidcBasicClients[c] EXCEPT
                       !.enabled = enabled,
                       !.requirePkce = oidcBasicClients[c].requireClientSecret => pkce]
  <2>1. Owns(a, c) /\ Send(r, [kind |-> "replace", client |-> c, doc |-> doc])
    BY <1>5 DEF EditClient
  <2>2. oidcBasicClients[c] \in OidcBasicClient
    BY <1>4, <2>1
  <2>3. doc \in OidcBasicClient /\ Registered(c, doc) = Registered(c, oidcBasicClients[c])
    BY <2>2 DEF OidcBasicClient, Registered
  <2> HIDE DEF doc
  <2> QED
    BY <1>4, <2>1, <2>3
<1>6. ASSUME NEW a \in AccountIds, NEW c \in ClientIds, NEW r \in ClientRequests,
             ChangeClientStatus(a, c, r)
      PROVE  Registry!Next \/ UNCHANGED Registry!vars
  <2> DEFINE doc == [oidcBasicClients[c] EXCEPT !.enabled = ~@]
  <2>1. Owns(a, c) /\ Send(r, [kind |-> "replace", client |-> c, doc |-> doc])
    BY <1>6 DEF ChangeClientStatus
  <2>2. oidcBasicClients[c] \in OidcBasicClient
    BY <1>4, <2>1
  <2>3. doc \in OidcBasicClient /\ Registered(c, doc) = Registered(c, oidcBasicClients[c])
    BY <2>2 DEF OidcBasicClient, Registered
  <2> HIDE DEF doc
  <2> QED
    BY <1>4, <2>1, <2>3
<1>7. ASSUME NEW a \in AccountIds, NEW c \in ClientIds, NEW r \in ClientRequests,
             DeleteClient(a, c, r)
      PROVE  Registry!Next \/ UNCHANGED Registry!vars
  <2>1. [kind |-> "remove", client |-> c] \in ClientRequest
    BY DEF ClientRequest
  <2> QED
    BY <1>7, <2>1, SendRegisters DEF DeleteClient
<1>8. ASSUME NEW r \in ClientRequests, SaveClient(r) \/ ClientRequestFails(r)
      PROVE  Registry!Next \/ UNCHANGED Registry!vars
  <2>1. PICK q : clientRequests[r] = q
    OBVIOUS
  <2> QED
    BY <1>8, <2>1, SaveRegisters, FailRegisters
<1> QED
  BY <1>1, <1>2, <1>3, <1>5, <1>6, <1>7, <1>8 DEF ClientNext

LEMMA RegistryStep == TypeOK /\ [Next]_vars => [Registry!Next]_(Registry!vars)
<1> SUFFICES ASSUME TypeOK, [Next]_vars
             PROVE  Registry!Next \/ UNCHANGED Registry!vars
  OBVIOUS
<1>1. CASE ClientNext
  BY <1>1, ClientRegisters DEF TypeOK
<1>2. ASSUME UNCHANGED clientVars PROVE UNCHANGED Registry!vars
  BY <1>2 DEF clientVars, Registry!vars, UnderWay, Registered
<1>3. CodeNext => UNCHANGED clientVars
  BY DEF CodeNext, Authorize, TokenRequest, Store, ReadGrant, RemoveGrant, EndpointRequestFails
<1> QED
  BY <1>1, <1>2, <1>3 DEF Next, vars

LEMMA RegistryInit == Init => Registry!Init
BY DEF Init, ClientInit, Registry!Init, UnderWay

(***************************************************************************)
(* The pages implement the registry, for any number of ids, accounts, tabs *)
(* and overlapping requests: a client is created only by a post that held  *)
(* its id, edits keep account and type, and bring back no deleted client.  *)
(***************************************************************************)
THEOREM ClientRegistryIsImplemented == Spec => ImplementsClientRegistry
<1>1. CodeInv => TypeOK
  BY DEF CodeInv
<1> QED
  BY <1>1, Inductive, RegistryInit, RegistryStep, PTL
     DEF Spec, ImplementsClientRegistry, Registry!Spec
================================================================================
