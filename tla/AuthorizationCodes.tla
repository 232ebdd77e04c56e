---------------------------- MODULE AuthorizationCodes ---------------------------
(***************************************************************************)
(* The authorization code flow over the clients of OidcClients: the        *)
(* authorize and token endpoints are Duende IdentityServer, which keeps    *)
(* the codes in PersistedGrantStore and asks ClientStore for the client at *)
(* the start of each request.                                              *)
(*                                                                         *)
(* A request that cannot name the right secret, code verifier or client    *)
(* fails without a trace except that a code it presented may be consumed.  *)
(***************************************************************************)
EXTENDS OidcClients

CONSTANTS Keys,            \* keys of the codes that Duende draws
          EndpointRequests \* slots of requests to the endpoints under way

VARIABLES oidcPersistedGrants, \* OidcPersistedGrants container
          endpointRequests,
          tokens               \* history: the tokens issued

codeVars == <<oidcPersistedGrants, endpointRequests, tokens>>

vars == <<clientVars, codeVars>>

\* challenge: the authorize request had a code challenge, kept in the grant's Data.
OidcPersistedGrant == [client : ClientIds, challenge : BOOLEAN, consumed : BOOLEAN]

\* late: a token had been issued for the code when RemoveAsync read it (history).
EndpointRequest ==
  [at : {"authorize"}, client : ClientIds, challenge : BOOLEAN]
  \cup [at : {"token"}, client : ClientIds, secret : BOOLEAN, pkce : BOOLEAN]
  \cup [at : {"remove"}, key : Keys, secret : BOOLEAN, pkce : BOOLEAN,
        challenge : BOOLEAN, late : BOOLEAN]

Token == [key : Keys, secret : BOOLEAN, proved : BOOLEAN]

ASSUME AuthorizationCodesAssumption ==
  None \notin OidcPersistedGrant \cup EndpointRequest

TypeOK ==
  /\ ClientTypeOK
  /\ oidcPersistedGrants \in [Keys -> OidcPersistedGrant \cup {None}]
  /\ endpointRequests \in [EndpointRequests -> EndpointRequest \cup {None}]
  /\ tokens \subseteq Token

Init ==
  /\ ClientInit
  /\ oidcPersistedGrants = [k \in Keys |-> None]
  /\ endpointRequests = [e \in EndpointRequests |-> None]
  /\ tokens = {}
--------------------------------------------------------------------------------
\* The authorize endpoint: the client is found, and PKCE is used if it requires it.
Authorize(e, c, challenge) ==
  /\ endpointRequests[e] = None
  /\ Found(c)
  /\ oidcBasicClients[c].requirePkce => challenge
  /\ endpointRequests' = [endpointRequests EXCEPT ![e] =
       [at |-> "authorize", client |-> c, challenge |-> challenge]]
  /\ UNCHANGED <<clientVars, oidcPersistedGrants, tokens>>

\* StoreAsync: a new document under a new key.
Store(e) ==
  /\ endpointRequests[e] # None
  /\ endpointRequests[e].at = "authorize"
  /\ \E k \in Keys :
       /\ oidcPersistedGrants[k] = None
       /\ oidcPersistedGrants' = [oidcPersistedGrants EXCEPT ![k] =
            [client |-> endpointRequests[e].client,
             challenge |-> endpointRequests[e].challenge, consumed |-> FALSE]]
  /\ endpointRequests' = [endpointRequests EXCEPT ![e] = None]
  /\ UNCHANGED <<clientVars, tokens>>

\* The token endpoint: the client is found and has authenticated, if it has a secret.
TokenRequest(e, c) ==
  /\ endpointRequests[e] = None
  /\ Found(c)
  /\ endpointRequests' = [endpointRequests EXCEPT ![e] =
       [at |-> "token", client |-> c, secret |-> oidcBasicClients[c].requireClientSecret,
        pkce |-> oidcBasicClients[c].requirePkce]]
  /\ UNCHANGED <<clientVars, oidcPersistedGrants, tokens>>

Issued(k) == \E token \in tokens : token.key = k

Unconsumed_Any(k) == \* mutant: the query forgets ConsumedAt
  oidcPersistedGrants[k] # None

\* GetAsync and RemoveAsync look for a grant with this key that is not consumed.
Unconsumed(k) == oidcPersistedGrants[k] # None /\ ~oidcPersistedGrants[k].consumed

(***************************************************************************)
(* GetAsync finds the code, which is one of the client that presents it,   *)
(* and RemoveAsync reads the document.  One that is gone by the second     *)
(* read is an exception, so the two reads are one step.                    *)
(***************************************************************************)
ReadGrant(e, k) ==
  /\ endpointRequests[e] # None
  /\ endpointRequests[e].at = "token"
  /\ Unconsumed(k)
  /\ oidcPersistedGrants[k].client = endpointRequests[e].client
  /\ endpointRequests' = [endpointRequests EXCEPT ![e] =
       [at |-> "remove", key |-> k, secret |-> endpointRequests[e].secret,
        pkce |-> endpointRequests[e].pkce,
        challenge |-> oidcPersistedGrants[k].challenge, late |-> Issued(k)]]
  /\ UNCHANGED <<clientVars, oidcPersistedGrants, tokens>>

\* The code verifier is asked for when the client or the code calls for it.
ProofHolds(request, verifier) ==
  request.pkce \/ request.challenge => request.challenge /\ verifier

(***************************************************************************)
(* RemoveAsync saves ConsumedAt; the endpoint then checks the verifier and *)
(* issues the token.  Two requests that both read the code both get one.   *)
(***************************************************************************)
RemoveGrant(e, verifier) ==
  /\ endpointRequests[e] # None
  /\ endpointRequests[e].at = "remove"
  /\ LET request == endpointRequests[e] IN
       /\ oidcPersistedGrants' = [oidcPersistedGrants EXCEPT ![request.key].consumed = TRUE]
       /\ tokens' = IF ProofHolds(request, verifier)
                    THEN tokens \cup {[key |-> request.key, secret |-> request.secret,
                                       proved |-> request.challenge /\ verifier]}
                    ELSE tokens
  /\ endpointRequests' = [endpointRequests EXCEPT ![e] = None]
  /\ UNCHANGED clientVars

\* The process stops, the database fails or the key is gone by RemoveAsync.
EndpointRequestFails(e) ==
  /\ endpointRequests[e] # None
  /\ endpointRequests' = [endpointRequests EXCEPT ![e] = None]
  /\ UNCHANGED <<clientVars, oidcPersistedGrants, tokens>>

CodeNext ==
  \E e \in EndpointRequests :
    \/ \E c \in ClientIds :
         \/ \E challenge \in BOOLEAN : Authorize(e, c, challenge)
         \/ TokenRequest(e, c)
    \/ Store(e)
    \/ \E k \in Keys : ReadGrant(e, k)
    \/ \E verifier \in BOOLEAN : RemoveGrant(e, verifier)
    \/ EndpointRequestFails(e)

Next == (ClientNext /\ UNCHANGED codeVars) \/ CodeNext

Spec == Init /\ [][Next]_vars
--------------------------------------------------------------------------------
(***************************************************************************)
(* A client that keeps no secret gets a token only with a code verifier,   *)
(* as AddBasicClientAsync intends ("public clients will default to true"): *)
(* not through an edit, a save that overwrites another, a client disabled  *)
(* or created again while its code is out.                                 *)
(***************************************************************************)
PublicClientsProve == \A token \in tokens : token.secret \/ token.proved

(***************************************************************************)
(* A redemption that can still issue a token read its code before any      *)
(* token was issued for it: a code is redeemed twice only by requests that *)
(* overlap, and ConsumedAt is never lost to a later save.                  *)
(***************************************************************************)
SpentCodesAreRefused ==
  \A e \in EndpointRequests :
    endpointRequests[e] # None /\ endpointRequests[e].at = "remove" =>
      ~endpointRequests[e].late
================================================================================
