------------------------------ MODULE AddressProof ------------------------------
(***************************************************************************)
(* What the verification of an e-mail address promises: an account shows   *)
(* only addresses that were asked for it, and shows one as verified only   *)
(* after a message reached that very address for that very account and its *)
(* code was typed.  Overlapping requests may turn an account back to an    *)
(* address, or to the proof of one, that it had before.                    *)
(***************************************************************************)
CONSTANTS AccountIds, Emails,
          None \* no address

VARIABLES shown,     \* the address of each account, and whether it is verified
          asked,     \* the addresses asked for each account
          delivered, \* those a message has reached
          proven     \* those whose code was typed

Init ==
  /\ shown = [a \in AccountIds |-> [email |-> None, verified |-> FALSE]]
  /\ asked = {}
  /\ delivered = {}
  /\ proven = {}

Ask(a, e) ==
  /\ asked' = asked \cup {<<a, e>>}
  /\ UNCHANGED <<shown, delivered, proven>>

Deliver(a, e) ==
  /\ <<a, e>> \in asked
  /\ delivered' = delivered \cup {<<a, e>>}
  /\ UNCHANGED <<shown, asked, proven>>

Prove(a, e) ==
  /\ <<a, e>> \in delivered
  /\ proven' = proven \cup {<<a, e>>}
  /\ UNCHANGED <<shown, asked, delivered>>

Show(a, address) ==
  /\ address.email # None => <<a, address.email>> \in asked
  /\ address.verified => <<a, address.email>> \in proven
  /\ shown' = [shown EXCEPT ![a] = address]
  /\ UNCHANGED <<asked, delivered, proven>>

Addresses == [email : Emails \cup {None}, verified : BOOLEAN]

Next ==
  \E a \in AccountIds :
    \/ \E e \in Emails : Ask(a, e) \/ Deliver(a, e) \/ Prove(a, e)
    \/ \E address \in Addresses : Show(a, address)

vars == <<shown, asked, delivered, proven>>

Spec == Init /\ [][Next]_vars
================================================================================
