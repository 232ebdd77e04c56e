----------------------------- MODULE BackchannelLogin -----------------------------
(***************************************************************************)
(* What client initiated backchannel authentication promises: a browser is *)
(* signed in as the subject of a request only after a session of that very *)
(* subject consented to the request and the consent was saved, and with a  *)
(* credential that such a session consented with.  The credential may come *)
(* from the approval of another request of the same subject.               *)
(***************************************************************************)
CONSTANTS RequestIds, Browsers, CredentialIds,
          Accounts,  \* whom a request can be about
          AccountOf, \* the account of each credential
          None

VARIABLES subject,   \* whom each request is about, None before it is made
          consents,  \* given by a session and not saved yet
          approvals, \* every consent that was saved
          session    \* who is signed in, with which credential, and by what

Init ==
  /\ subject = [q \in RequestIds |-> None]
  /\ consents = {}
  /\ approvals = {}
  /\ session = [b \in Browsers |-> None]

Ask(q, a) ==
  /\ subject[q] = None
  /\ subject' = [subject EXCEPT ![q] = a]
  /\ UNCHANGED <<consents, approvals, session>>

Consent(b, q) ==
  /\ session[b] # None
  /\ subject[q] = session[b].subject
  /\ consents' = consents \cup {[request |-> q, credential |-> session[b].credential]}
  /\ UNCHANGED <<subject, approvals, session>>

\* A consent is saved or lost; one given twice has another end before it.
Ends(o) ==
  /\ o \in consents
  /\ consents' = consents \/ consents' = consents \ {o}
  /\ UNCHANGED <<subject, session>>

Save(o) == Ends(o) /\ approvals' = approvals \cup {o}

Lose(o) == Ends(o) /\ UNCHANGED approvals

Approved(q) == {o \in approvals : o.request = q}

Accept(b, q) ==
  /\ Approved(q) # {}
  /\ \E o \in approvals :
       /\ subject[o.request] = subject[q]
       /\ session' = [session EXCEPT ![b] =
                        [subject |-> subject[q], credential |-> o.credential, by |-> "ciba"]]
  /\ UNCHANGED <<subject, consents, approvals>>

SignIn(b, c) ==
  /\ session' = [session EXCEPT ![b] =
                   [subject |-> AccountOf[c], credential |-> c, by |-> "fido"]]
  /\ UNCHANGED <<subject, consents, approvals>>

SignOut(b) ==
  /\ session' = [session EXCEPT ![b] = None]
  /\ UNCHANGED <<subject, consents, approvals>>

Next ==
  \/ \E q \in RequestIds, a \in Accounts : Ask(q, a)
  \/ \E o \in consents : Save(o) \/ Lose(o)
  \/ \E b \in Browsers :
       \/ \E q \in RequestIds : Consent(b, q) \/ Accept(b, q)
       \/ \E c \in CredentialIds : SignIn(b, c)
       \/ SignOut(b)

vars == <<subject, consents, approvals, session>>

Spec == Init /\ [][Next]_vars
================================================================================
