---------------------------- MODULE CredentialStore ----------------------------
(***************************************************************************)
(* The documents of the Credentials, Attestations and Accounts containers  *)
(* (src/Fido2me/Data) and the signed-in sessions of the browsers: the      *)
(* state that the registration, login and device pages share.              *)
(*                                                                         *)
(* The database is Azure Cosmos DB behind EF Core.  The code configures no *)
(* concurrency token, so a save replaces the whole document with the one   *)
(* the request read, changed where the request changed it; a create of an  *)
(* id that exists and a replace or delete of an id that does not fail.     *)
(***************************************************************************)
EXTENDS Naturals, FiniteSets

CONSTANTS CredentialIds,  \* ids that authenticators mint, one per ceremony
          AccountIds,     \* Guid.NewGuid() values
          Usernames,
          Browsers,
          MaxCounter,     \* bound of the 32-bit signature counter
          FirstCounter,   \* the counter each authenticator mints a credential with
          None            \* no document, no cookie, no session, no request

VARIABLES credentials,   \* Credentials container
          attestations,  \* ids of the Attestations container
          accounts,      \* Accounts container
          session,       \* the identity cookie of each browser
          minted,        \* credential ids whose keys an authenticator holds
          signCounts,    \* the counter each authenticator keeps for a credential
          registered     \* history: every owner a credential was stored with

storeVars ==
  <<credentials, attestations, accounts, session, minted, signCounts, registered>>

Counters == 0..MaxCounter

DeviceCounts == Nat

(***************************************************************************)
(* The fields of a Credential the properties tell apart; the others (keys, *)
(* nickname, descriptions) are written with the document and never read    *)
(* by a decision.                                                          *)
(***************************************************************************)
CredentialDoc == [account : AccountIds, username : Usernames,
                  enabled : BOOLEAN, counter : Counters]

AccountDoc == [username : Usernames, all : DeviceCounts, enabled : DeviceCounts]

Session == [credential : CredentialIds, account : AccountIds,
            username : Usernames]

ASSUME NoneAssumption ==
  None \notin CredentialIds \cup AccountIds \cup Usernames \cup CredentialDoc
              \cup AccountDoc \cup Session

ASSUME MaxCounterAssumption == MaxCounter \in Nat

ASSUME FirstCounterAssumption == FirstCounter \in [CredentialIds -> Counters]

Owner(c, doc) == [credential |-> c, account |-> doc.account,
                  username |-> doc.username]

Exists(c) == credentials[c] # None

UsernameExists(u) == \E c \in CredentialIds : Exists(c) /\ credentials[c].username = u

StoreTypeOK ==
  /\ credentials \in [CredentialIds -> CredentialDoc \cup {None}]
  /\ attestations \subseteq CredentialIds
  /\ accounts \in [AccountIds -> AccountDoc \cup {None}]
  /\ session \in [Browsers -> Session \cup {None}]
  /\ minted \subseteq CredentialIds
  /\ signCounts \in [CredentialIds -> Counters]
  /\ registered \subseteq Session

StoreInit ==
  /\ credentials = [c \in CredentialIds |-> None]
  /\ attestations = {}
  /\ accounts = [a \in AccountIds |-> None]
  /\ session = [b \in Browsers |-> None]
  /\ minted = {}
  /\ signCounts = FirstCounter
  /\ registered = {}

(***************************************************************************)
(* The writes EF Core issues for one entity.  Each is a conjunct of the    *)
(* action of the request that saves; its guard is the database's answer.   *)
(***************************************************************************)
CreateCredential(c, doc) ==
  /\ ~Exists(c)
  /\ credentials' = [credentials EXCEPT ![c] = doc]
  /\ registered' = registered \cup {Owner(c, doc)}

ReplaceCredential(c, doc) ==
  /\ Exists(c)
  /\ credentials' = [credentials EXCEPT ![c] = doc]
  /\ UNCHANGED registered

DeleteCredential(c) ==
  /\ Exists(c)
  /\ credentials' = [credentials EXCEPT ![c] = None]
  /\ UNCHANGED registered

(***************************************************************************)
(* Pages/auth/Logout.cshtml.cs OnPostAsync: the identity cookie goes, the  *)
(* requests under way keep the claims they were sent with.                 *)
(***************************************************************************)
Logout(b) ==
  /\ session[b] # None
  /\ session' = [session EXCEPT ![b] = None]
  /\ UNCHANGED <<credentials, attestations, accounts, minted, signCounts,
                 registered>>
================================================================================
