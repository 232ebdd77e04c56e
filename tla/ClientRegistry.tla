----------------------------- MODULE ClientRegistry -----------------------------
(***************************************************************************)
(* What the pages for OAuth applications promise together.  An id is drawn *)
(* once, for a page, and a client is created under it only by a post of    *)
(* that page which the browser made while it held the id.  The account and *)
(* the type of a client do not change: an edit that is late may give it    *)
(* those of the client it read, an earlier one of that id, but it brings   *)
(* back none that was deleted.                                             *)
(***************************************************************************)
CONSTANTS ClientIds, AccountIds,
          None \* no client, or no id held

VARIABLES drawn,  \* the ids that were
          held,   \* the id that the browser holds
          posted, \* clients asked for and not created yet
          read,   \* clients as the edits that are not saved yet read them
          client  \* of each id

Init ==
  /\ drawn = {} /\ posted = {} /\ read = {}
  /\ held = None
  /\ client = [c \in ClientIds |-> None]

Draw(c) ==
  /\ c \notin drawn
  /\ drawn' = drawn \cup {c}
  /\ held' = c
  /\ UNCHANGED <<posted, read, client>>

Drop ==
  /\ held' = None
  /\ UNCHANGED <<drawn, posted, read, client>>

Post(a, secret) ==
  /\ held # None
  /\ posted' = posted \cup {[id |-> held, account |-> a, secret |-> secret]}
  /\ UNCHANGED <<drawn, held, read, client>>

\* A post ends; one made twice has another end before it.
PostEnds(o) ==
  /\ posted' \in {posted, posted \ {o}}
  /\ UNCHANGED <<drawn, held, read>>

Create(o) ==
  /\ client[o.id] = None
  /\ client' = [client EXCEPT ![o.id] = o]
  /\ PostEnds(o)

Edit(c) ==
  /\ client[c] # None
  /\ read' = read \cup {client[c]}
  /\ UNCHANGED <<drawn, held, posted, client>>

EditEnds(o) ==
  /\ read' \in {read, read \ {o}}
  /\ UNCHANGED <<drawn, held, posted>>

Rewrite(o) ==
  /\ client[o.id] # None
  /\ client' = [client EXCEPT ![o.id] = o]
  /\ EditEnds(o)

Delete(c) ==
  /\ client[c] # None
  /\ client' = [client EXCEPT ![c] = None]
  /\ UNCHANGED <<drawn, held, posted, read>>

Next ==
  \/ \E c \in ClientIds : Draw(c) \/ Edit(c) \/ Delete(c)
  \/ Drop
  \/ \E a \in AccountIds, secret \in BOOLEAN : Post(a, secret)
  \/ \E o \in posted : Create(o) \/ (PostEnds(o) /\ UNCHANGED client)
  \/ \E o \in read : Rewrite(o) \/ (EditEnds(o) /\ UNCHANGED client)

vars == <<drawn, held, posted, read, client>>

Spec == Init /\ [][Next]_vars
================================================================================
