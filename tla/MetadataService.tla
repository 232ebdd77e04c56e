------------------------------ MODULE MetadataService ------------------------------
(***************************************************************************)
(* DistributedCacheMetadataService: the metadata BLOB of the FIDO alliance *)
(* behind a distributed cache that the processes of the site share and a   *)
(* memory cache in each process, which holds the BLOB and, by AAGUID, the  *)
(* entries found in it.                                                    *)
(*                                                                         *)
(* Time is counted in ticks.  The service has the one repository that      *)
(* Program.cs configures.  A BLOB is its number, the date of its next      *)
(* update, which may be missing or unreadable, and the AAGUIDs it holds.   *)
(***************************************************************************)
EXTENDS Naturals

CONSTANTS Processes,
          AaGuids,
          Lookups,             \* slots of calls of GetEntryAsync under way
          MemoryInterval,      \* _defaultMemoryCacheInterval, an hour
          BufferPeriod,        \* _nextUpdateBufferPeriod, 25 hours
          DistributedInterval, \* _defaultDistributedCacheInterval, 8 days
          MaxTime, MaxNumber,  \* bounds of the clock and of BLOB numbers
          None

ASSUME MetadataAssumption ==
  /\ MemoryInterval \in Nat \ {0}
  /\ BufferPeriod \in Nat
  /\ DistributedInterval \in Nat \ {0}
  /\ MaxTime \in Nat /\ MaxNumber \in Nat
  /\ None \notin Nat

VARIABLES now,
          published,   \* the BLOB that the repository serves
          distributed, \* the distributed cache
          payloads,    \* the BLOB in the memory cache of a process
          entries,     \* the entries in the memory cache of a process
          lookups,
          answer       \* history: what the last step answered, if it did

vars == <<now, published, distributed, payloads, entries, lookups, answer>>

Blob == [number : Nat, nextUpdate : Nat \cup {None}, holds : SUBSET AaGuids]

Distributed == [blob : Blob, expires : Nat]

\* expires is None for a value that is kept until the process stops;
\* got is the time at which the process got the BLOB (history).
Memory == [blob : Blob \cup {None}, expires : Nat \cup {None}, got : Nat]

\* before is the number of the BLOB in the distributed cache at the fetch (history).
Lookup ==
  [at : {"read"}, process : Processes, aaguid : AaGuids]
  \cup [at : {"fetch"}, process : Processes, aaguid : AaGuids, cached : Blob \cup {None}]
  \cup [at : {"store"}, process : Processes, aaguid : AaGuids, blob : Blob, before : Nat]

\* blob is None when the answer is that there is no entry.
Answer == [from : {"memory", "distributed", "fetch", "fallback"},
           blob : Blob \cup {None}]

ASSUME MetadataNoneAssumption ==
  None \notin Blob \cup Distributed \cup Memory \cup Lookup \cup Answer

TypeOK ==
  /\ now \in Nat
  /\ published \in Blob
  /\ distributed \in Distributed \cup {None}
  /\ payloads \in [Processes -> Memory \cup {None}]
  /\ entries \in [Processes -> [AaGuids -> Memory \cup {None}]]
  /\ lookups \in [Lookups -> Lookup \cup {None}]
  /\ answer \in Answer \cup {None}

Init ==
  /\ now = 0
  /\ published \in [number : {1}, nextUpdate : 1..MaxTime \cup {None}, holds : SUBSET AaGuids]
  /\ distributed = None
  /\ payloads = [p \in Processes |-> None]
  /\ entries = [p \in Processes |-> [g \in AaGuids |-> None]]
  /\ lookups = [l \in Lookups |-> None]
  /\ answer = None
--------------------------------------------------------------------------------
NoAnswer == answer' = None

Tick ==
  /\ now < MaxTime
  /\ now' = now + 1
  /\ UNCHANGED <<published, distributed, payloads, entries, lookups>>
  /\ NoAnswer

\* The repository serves the next BLOB, at any time.
Publish ==
  /\ published.number < MaxNumber
  /\ \E u \in (now + 1)..MaxTime \cup {None}, holds \in SUBSET AaGuids :
       published' = [number |-> published.number + 1, nextUpdate |-> u, holds |-> holds]
  /\ UNCHANGED <<now, distributed, payloads, entries, lookups>>
  /\ NoAnswer

GetNextIncrement_Unaligned(t) == \* mutant: an hour from now instead of the full hour
  t + MemoryInterval

\* The next multiple of the interval: a full hour is followed by the next one.
GetNextIncrement(t) == (t \div MemoryInterval + 1) * MemoryInterval

MemoryExpiry_PastNextUpdate(b) == \* mutant: nextUpdate does not cut the hour short
  GetNextIncrement(now)

\* GetMemoryCacheAbsoluteExpiryTime: the full hour, or nextUpdate if that comes first.
MemoryExpiry(b) ==
  IF b.nextUpdate # None /\ GetNextIncrement(now) > b.nextUpdate
  THEN b.nextUpdate ELSE GetNextIncrement(now)

\* GetDistributedCacheAbsoluteExpiryTime: the interval after nextUpdate or after now.
DistributedExpiry(b) ==
  IF b.nextUpdate # None /\ b.nextUpdate > now
  THEN b.nextUpdate + DistributedInterval ELSE now + DistributedInterval

Alive(m) == m # None /\ (m.expires # None => now < m.expires)

(***************************************************************************)
(* What GetOrCreateAsync leaves in the memory cache: a null value gets no  *)
(* expiry, and a value that has expired already is not kept.               *)
(***************************************************************************)
Cached(b, got) ==
  LET m == [blob |-> b, expires |-> IF b = None THEN None ELSE MemoryExpiry(b), got |-> got]
  IN  IF Alive(m) THEN m ELSE None

\* The BLOB when it has an entry for g, None when there is no entry to find.
EntryOf(b, g) == IF b # None /\ g \in b.holds THEN b ELSE None

Answers(from, b) == answer' = [from |-> from, blob |-> b]

\* The end of a call that had to ask for the BLOB: both factories return.
Finish(l, b, from) ==
  LET p == lookups[l].process
      g == lookups[l].aaguid
  IN  /\ payloads' = [payloads EXCEPT ![p] = Cached(b, now)]
      /\ entries' = [entries EXCEPT ![p][g] = Cached(EntryOf(b, g), now)]
      /\ lookups' = [lookups EXCEPT ![l] = None]
      /\ Answers(from, EntryOf(b, g))

(***************************************************************************)
(* GetEntryAsync up to its first wait: the entry is in the memory cache,   *)
(* or it is looked for in the BLOB there, or the distributed cache is      *)
(* asked.  Calls that miss do not wait for one another.                    *)
(***************************************************************************)
GetEntryAsync(l, p, g) ==
  /\ lookups[l] = None
  /\ \/ /\ Alive(entries[p][g])
        /\ Answers("memory", entries[p][g].blob)
        /\ UNCHANGED <<payloads, entries, lookups>>
     \/ /\ ~Alive(entries[p][g])
        /\ Alive(payloads[p])
        /\ LET b == EntryOf(payloads[p].blob, g) IN
             /\ entries' = [entries EXCEPT ![p][g] = Cached(b, payloads[p].got)]
             /\ Answers("memory", b)
        /\ UNCHANGED <<payloads, lookups>>
     \/ /\ ~Alive(entries[p][g])
        /\ ~Alive(payloads[p])
        /\ lookups' = [lookups EXCEPT ![l] = [at |-> "read", process |-> p, aaguid |-> g]]
        /\ UNCHANGED <<payloads, entries>>
        /\ NoAnswer
  /\ UNCHANGED <<now, published, distributed>>
--------------------------------------------------------------------------------
At(l, at) == lookups[l] # None /\ lookups[l].at = at

Present == distributed # None /\ now < distributed.expires

Usable_UntilEvicted(b) == \* mutant: what the distributed cache still has is good enough
  b.nextUpdate # None

\* A BLOB is used until its successor is overdue by the buffer period.
Usable(b) == b.nextUpdate # None /\ b.nextUpdate + BufferPeriod >= now

(***************************************************************************)
(* GetDistributedCachedBlob up to the fetch.  A value that cannot be read  *)
(* as JSON is treated as none at all, which DistributedLost covers.        *)
(***************************************************************************)
ReadDistributed(l) ==
  /\ At(l, "read")
  /\ \/ /\ Present /\ Usable(distributed.blob)
        /\ Finish(l, distributed.blob, "distributed")
     \/ /\ ~(Present /\ Usable(distributed.blob))
        /\ lookups' = [lookups EXCEPT ![l] =
             [at |-> "fetch", process |-> @.process, aaguid |-> @.aaguid,
              cached |-> IF Present THEN distributed.blob ELSE None]]
        /\ UNCHANGED <<payloads, entries>>
        /\ NoAnswer
  /\ UNCHANGED <<now, published, distributed>>

Number == IF distributed = None THEN 0 ELSE distributed.blob.number

\* GetRepositoryPayloadWithErrorHandling returns the BLOB.
Fetch(l) ==
  /\ At(l, "fetch")
  /\ lookups' = [lookups EXCEPT ![l] =
       [at |-> "store", process |-> @.process, aaguid |-> @.aaguid,
        blob |-> published, before |-> Number]]
  /\ UNCHANGED <<now, published, distributed, payloads, entries>>
  /\ NoAnswer

FetchFails_KeepFallback(l) == \* mutant: the stale BLOB is stored once more
  /\ At(l, "fetch")
  /\ \/ /\ lookups[l].cached = None
        /\ Finish(l, None, "fallback")
     \/ /\ lookups[l].cached # None
        /\ lookups' = [lookups EXCEPT ![l] =
             [at |-> "store", process |-> @.process, aaguid |-> @.aaguid,
              blob |-> @.cached, before |-> Number]]
        /\ UNCHANGED <<payloads, entries>>
        /\ NoAnswer
  /\ UNCHANGED <<now, published, distributed>>

(***************************************************************************)
(* It logs the exception, of a caller that cancelled too, and returns      *)
(* null: the BLOB found in the distributed cache, if any, is used.         *)
(***************************************************************************)
FetchFails(l) ==
  /\ At(l, "fetch")
  /\ Finish(l, lookups[l].cached, "fallback")
  /\ UNCHANGED <<now, published, distributed>>

StoreDistributed(l) ==
  /\ At(l, "store")
  /\ distributed' = [blob |-> lookups[l].blob, expires |-> DistributedExpiry(lookups[l].blob)]
  /\ Finish(l, lookups[l].blob, "fetch")
  /\ UNCHANGED <<now, published>>

\* The distributed cache throws: nothing is cached.
LookupFails(l) ==
  /\ At(l, "read") \/ At(l, "store")
  /\ lookups' = [lookups EXCEPT ![l] = None]
  /\ UNCHANGED <<now, published, distributed, payloads, entries>>
  /\ NoAnswer

Restart(p) ==
  /\ payloads' = [payloads EXCEPT ![p] = None]
  /\ entries' = [entries EXCEPT ![p] = [g \in AaGuids |-> None]]
  /\ lookups' = [l \in Lookups |->
       IF lookups[l] # None /\ lookups[l].process = p THEN None ELSE lookups[l]]
  /\ UNCHANGED <<now, published, distributed>>
  /\ NoAnswer

\* The distributed cache evicts the BLOB or restarts.
DistributedLost ==
  /\ distributed # None
  /\ distributed' = None
  /\ UNCHANGED <<now, published, payloads, entries, lookups>>
  /\ NoAnswer

Next ==
  \/ Tick \/ Publish \/ DistributedLost
  \/ \E l \in Lookups :
       \/ \E p \in Processes, g \in AaGuids : GetEntryAsync(l, p, g)
       \/ ReadDistributed(l) \/ Fetch(l) \/ FetchFails(l) \/ StoreDistributed(l)
       \/ LookupFails(l)
  \/ \E p \in Processes : Restart(p)

Spec == Init /\ [][Next]_vars
--------------------------------------------------------------------------------
InMemory == {payloads[p] : p \in Processes}
            \cup {entries[p][g] : p \in Processes, g \in AaGuids}

(***************************************************************************)
(* What a process still serves from memory is not due to be replaced.      *)
(* GetMemoryCacheAbsoluteExpiryTime means to "Ensure that memory cache     *)
(* expiry time never exceeds the next update time from the service", and   *)
(* this holds of an entry taken late from a BLOB in memory as well.        *)
(***************************************************************************)
MemoryIsCurrent ==
  \A m \in InMemory :
    Alive(m) /\ m.blob # None /\ m.blob.nextUpdate # None => now < m.blob.nextUpdate

(***************************************************************************)
(* Memory starts afresh on the full hour: what a process serves from it    *)
(* was obtained in the same hour, by the BLOB's own lookup and not by that *)
(* of an entry taken from the BLOB later.  Only a null value lasts.        *)
(***************************************************************************)
MemoryIsOfThisHour ==
  \A m \in InMemory :
    Alive(m) /\ m.blob # None => m.got \div MemoryInterval = now \div MemoryInterval

(***************************************************************************)
(* An entry of a BLOB whose successor is overdue by more than the buffer   *)
(* period is an answer only to a call that asked the repository itself and *)
(* got that BLOB, or nothing, from it.                                     *)
(***************************************************************************)
AnswersAreCurrent ==
  answer # None /\ answer.blob # None /\ answer.from \in {"memory", "distributed"} =>
    \/ answer.blob.nextUpdate = None /\ answer.from = "memory"
    \/ answer.blob.nextUpdate # None /\ now <= answer.blob.nextUpdate + BufferPeriod

DistributedFalls == distributed' # None /\ distributed'.blob.number < Number

FallsOnlyWhenOvertaken ==
  DistributedFalls => \E l \in Lookups : At(l, "store") /\ lookups[l].before < Number

(***************************************************************************)
(* The distributed cache goes back to an older BLOB only when a call       *)
(* stores what it had fetched before another call stored the newer one.    *)
(***************************************************************************)
DistributedFallsOnlyWhenOvertaken == [][FallsOnlyWhenOvertaken]_vars
================================================================================
