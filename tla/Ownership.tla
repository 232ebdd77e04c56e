-------------------------------- MODULE Ownership --------------------------------
(***************************************************************************)
(* What registration, login and device management promise together: a      *)
(* credential has one owner at a time, and only a registration gives one   *)
(* to a credential that has none.  A request that overlaps others may give *)
(* a credential back an owner that some registration stored it with, never *)
(* a credential that was deleted.  A browser is signed in only as an owner *)
(* that the save of its login left the credential with.                    *)
(***************************************************************************)
CONSTANTS CredentialIds, AccountIds, Usernames, Browsers,
          None \* no owner, or nobody signed in

VARIABLES owner,  \* of each credential
          stored, \* every owner that a registration stored
          admitted, \* browsers whose login is saved and not answered yet
          session \* the owner each browser is signed in as

Owners == [credential : CredentialIds, account : AccountIds, username : Usernames]

Init ==
  /\ owner = [c \in CredentialIds |-> None]
  /\ stored = {}
  /\ admitted = {}
  /\ session = [b \in Browsers |-> None]

Register(o) ==
  /\ owner[o.credential] = None
  /\ owner' = [owner EXCEPT ![o.credential] = o]
  /\ stored' = stored \cup {o}
  /\ UNCHANGED <<admitted, session>>

Rewrite(o) ==
  /\ owner[o.credential] # None
  /\ o \in stored
  /\ owner' = [owner EXCEPT ![o.credential] = o]
  /\ UNCHANGED <<stored, session>>

Save(o) == Rewrite(o) /\ UNCHANGED admitted

Admit(b, o) ==
  /\ Rewrite(o)
  /\ admitted' = admitted \cup {<<b, o>>}

\* The login ends, with an answer or without; one of two alike has another end before it.
SignIn(b, o) ==
  /\ <<b, o>> \in admitted
  /\ admitted' \in {admitted, admitted \ {<<b, o>>}}
  /\ session' \in {session, [session EXCEPT ![b] = o]}
  /\ UNCHANGED <<owner, stored>>

Delete(c) ==
  /\ owner[c] # None
  /\ owner' = [owner EXCEPT ![c] = None]
  /\ UNCHANGED <<stored, admitted, session>>

SignOut(b) ==
  /\ session' = [session EXCEPT ![b] = None]
  /\ UNCHANGED <<owner, stored, admitted>>

Next ==
  \/ \E o \in Owners : Register(o) \/ Save(o)
  \/ \E o \in Owners, b \in Browsers : Admit(b, o) \/ SignIn(b, o)
  \/ \E c \in CredentialIds : Delete(c)
  \/ \E b \in Browsers : SignOut(b)

vars == <<owner, stored, admitted, session>>

Spec == Init /\ [][Next]_vars
================================================================================
