------------------------------- MODULE OidcClients -------------------------------
(***************************************************************************)
(* The OAuth applications that users register: the pages under Pages/apps, *)
(* OidcBasicClientService behind them, the OidcBasicClients container and  *)
(* the ClientStore that Duende IdentityServer asks for a client.           *)
(*                                                                         *)
(* A client id and its secret are generated together and travel as one     *)
(* string, so the id stands for both: a client has the secret of its id.   *)
(* Names, scopes, redirect and origin URIs are left out.                   *)
(***************************************************************************)
EXTENDS Naturals, FiniteSets

CONSTANTS AccountIds,
          ClientIds,      \* ids that GenerateNewClientIdAndSecret draws
          Tabs,           \* tabs of one browser, which share its cookies
          ClientRequests, \* slots of requests that create, edit, toggle or delete
          None            \* no document, no form, no cookie, no request

VARIABLES oidcBasicClients, \* OidcBasicClients container
          generated,        \* ids drawn so far
          form,             \* the id and secret a tab shows in the create form
          tempData,         \* GeneratedSecretData, a cookie of the browser
          clientRequests    \* requests between their read and their save

clientVars ==
  <<oidcBasicClients, generated, form, tempData, clientRequests>>

OidcBasicClient == [account : AccountIds, requireClientSecret : BOOLEAN,
                    requirePkce : BOOLEAN, enabled : BOOLEAN]

ClientRequest == [kind : {"create", "replace"}, client : ClientIds, doc : OidcBasicClient]
                 \cup [kind : {"remove"}, client : ClientIds]

ASSUME OidcClientsAssumption ==
  None \notin AccountIds \cup ClientIds \cup OidcBasicClient \cup ClientRequest
            \cup [id : ClientIds, account : AccountIds, secret : BOOLEAN]

ClientTypeOK ==
  /\ oidcBasicClients \in [ClientIds -> OidcBasicClient \cup {None}]
  /\ generated \subseteq ClientIds
  /\ form \in [Tabs -> ClientIds \cup {None}]
  /\ tempData \in ClientIds \cup {None}
  /\ clientRequests \in [ClientRequests -> ClientRequest \cup {None}]

ClientInit ==
  /\ oidcBasicClients = [c \in ClientIds |-> None]
  /\ generated = {}
  /\ form = [t \in Tabs |-> None]
  /\ tempData = None
  /\ clientRequests = [r \in ClientRequests |-> None]
--------------------------------------------------------------------------------
\* OnGetAsync of the create page: draws a new pair, shows it and keeps it in TempData.
GenerateNewClientIdAndSecret(t) ==
  /\ \E c \in ClientIds \ generated :
       /\ generated' = generated \cup {c}
       /\ form' = [form EXCEPT ![t] = c]
       /\ tempData' = c
  /\ UNCHANGED <<oidcBasicClients, clientRequests>>

(***************************************************************************)
(* A response of the page deletes the TempData that its request carried,   *)
(* which every post reads, an invalid one too; or the browser is closed.   *)
(***************************************************************************)
TempDataGone ==
  /\ tempData # None
  /\ tempData' = None
  /\ UNCHANGED <<oidcBasicClients, generated, form, clientRequests>>

\* AddBasicClientAsync: only confidential clients choose whether to use PKCE.
NewClient(a, secret, pkce) ==
  [account |-> a, requireClientSecret |-> secret, requirePkce |-> (secret => pkce),
   enabled |-> TRUE]

Send(r, request) ==
  /\ clientRequests[r] = None
  /\ clientRequests' = [clientRequests EXCEPT ![r] = request]
  /\ UNCHANGED <<oidcBasicClients, generated, form, tempData>>

(***************************************************************************)
(* OnPostAsync of the create page, by the account that is signed in by     *)
(* then: the client gets the pair of the TempData that the post carries,   *)
(* not the one the form shows; without TempData the post is an exception.  *)
(* AddAsync and SaveChangesAsync are in SaveClient, and the browser may    *)
(* have lost or replaced its TempData by then.                             *)
(***************************************************************************)
AddBasicClient(t, a, secret, pkce, r) ==
  /\ form[t] # None
  /\ tempData # None
  /\ Send(r, [kind |-> "create", client |-> tempData, doc |-> NewClient(a, secret, pkce)])
--------------------------------------------------------------------------------
Owns(a, c) == oidcBasicClients[c] # None /\ oidcBasicClients[c].account = a

EditClient_PkceAsAsked(a, c, enabled, pkce, r) == \* mutant: an edit may turn PKCE off
  /\ Owns(a, c)
  /\ Send(r, [kind |-> "replace", client |-> c,
              doc |-> [oidcBasicClients[c] EXCEPT !.enabled = enabled, !.requirePkce = pkce]])

\* EditClientAsync: the document is read now and replaced by SaveClient.
EditClient(a, c, enabled, pkce, r) ==
  /\ Owns(a, c)
  /\ Send(r, [kind |-> "replace", client |-> c,
              doc |-> [oidcBasicClients[c] EXCEPT
                         !.enabled = enabled,
                         !.requirePkce = oidcBasicClients[c].requireClientSecret => pkce]])

ChangeClientStatus(a, c, r) ==
  /\ Owns(a, c)
  /\ Send(r, [kind |-> "replace", client |-> c,
              doc |-> [oidcBasicClients[c] EXCEPT !.enabled = ~@]])

DeleteClient(a, c, r) ==
  /\ Owns(a, c)
  /\ Send(r, [kind |-> "remove", client |-> c])

\* The document after the save of a request.
Saved(request) ==
  [oidcBasicClients EXCEPT ![request.client] =
     IF request.kind = "remove" THEN None ELSE request.doc]

SaveClient_AddIfMissing(r) == \* mutant: the save creates the document it does not find
  /\ clientRequests[r] # None
  /\ oidcBasicClients' = Saved(clientRequests[r])
  /\ clientRequests' = [clientRequests EXCEPT ![r] = None]
  /\ UNCHANGED <<generated, form, tempData>>

(***************************************************************************)
(* SaveChangesAsync adds a document whose id is not there, or else         *)
(* replaces or deletes the whole document, whatever was saved since it was *)
(* read, and fails when it is gone.                                        *)
(***************************************************************************)
SaveClient(r) ==
  /\ clientRequests[r] # None
  /\ oidcBasicClients[clientRequests[r].client] = None <=> clientRequests[r].kind = "create"
  /\ oidcBasicClients' = Saved(clientRequests[r])
  /\ clientRequests' = [clientRequests EXCEPT ![r] = None]
  /\ UNCHANGED <<generated, form, tempData>>

\* The document is gone or there already, the database refuses the save or the process stops.
ClientRequestFails(r) ==
  /\ clientRequests[r] # None
  /\ clientRequests' = [clientRequests EXCEPT ![r] = None]
  /\ UNCHANGED <<oidcBasicClients, generated, form, tempData>>

\* FindClientByIdAsync: a client that is disabled does not exist for the protocol.
Found(c) == oidcBasicClients[c] # None /\ oidcBasicClients[c].enabled

ClientNext ==
  \/ \E t \in Tabs :
       \/ GenerateNewClientIdAndSecret(t)
       \/ \E a \in AccountIds, secret, pkce \in BOOLEAN, r \in ClientRequests :
            AddBasicClient(t, a, secret, pkce, r)
  \/ TempDataGone
  \/ \E a \in AccountIds, c \in ClientIds, r \in ClientRequests :
       \/ \E enabled, pkce \in BOOLEAN : EditClient(a, c, enabled, pkce, r)
       \/ ChangeClientStatus(a, c, r)
       \/ DeleteClient(a, c, r)
  \/ \E r \in ClientRequests : SaveClient(r) \/ ClientRequestFails(r)
--------------------------------------------------------------------------------
\* What no edit changes of a client: its id, its account and whether it has a secret.
Registered(c, doc) == [id |-> c, account |-> doc.account, secret |-> doc.requireClientSecret]

UnderWay(kind) ==
  {Registered(request.client, request.doc) :
     request \in {q \in {clientRequests[r] : r \in ClientRequests} : q # None /\ q.kind = kind}}

Registry ==
  INSTANCE ClientRegistry
    WITH drawn <- generated, held <- tempData,
         posted <- UnderWay("create"), read <- UnderWay("replace"),
         client <- [c \in ClientIds |-> IF oidcBasicClients[c] = None THEN None
                                        ELSE Registered(c, oidcBasicClients[c])]

(***************************************************************************)
(* The pages implement the registry.  An edit or a toggle that read a      *)
(* client before its delete does not bring it back; a post of its create   *)
(* page does, also one that is still under way when the browser has lost   *)
(* or replaced its TempData, but none that was made after.                 *)
(***************************************************************************)
ImplementsClientRegistry == Registry!Spec
================================================================================
