--------------------------- MODULE MetadataServiceProofs ---------------------------
(***************************************************************************)
(* What holds of MetadataService for any number of processes, AAGUIDs and  *)
(* calls, any intervals and any clock.  A BLOB in memory is tied to the    *)
(* time it was got: it expires by the full hour after that time and by the *)
(* date of the next update, also when it was copied into an entry later.   *)
(* The numbers of the BLOBs at the repository only rise.                   *)
(***************************************************************************)
EXTENDS MetadataService, TLAPS

\* A BLOB in memory expires by the full hour after it was got and by its next update.
Timely(m) ==
  m # None /\ m.blob # None =>
    /\ m.got <= now
    /\ m.expires # None
    /\ m.expires <= GetNextIncrement(m.got)
    /\ m.blob.nextUpdate # None => m.expires <= m.blob.nextUpdate

MemoryInv ==
  \A p \in Processes : Timely(payloads[p]) /\ \A g \in AaGuids : Timely(entries[p][g])

NumberInv ==
  /\ Number <= published.number
  /\ \A l \in Lookups : At(l, "store") =>
       /\ lookups[l].before <= lookups[l].blob.number
       /\ lookups[l].blob.number <= published.number

Inv == TypeOK /\ MemoryInv /\ NumberInv /\ AnswersAreCurrent
--------------------------------------------------------------------------------
\* A full hour is within the hour that it starts.
LEMMA NextIncrement ==
  ASSUME NEW t \in Nat
  PROVE  GetNextIncrement(t) \in Nat /\ t < GetNextIncrement(t)
BY MetadataAssumption, Z3 DEF GetNextIncrement

\* Two times with no full hour between them are in the same hour.
LEMMA SameHour ==
  ASSUME NEW s \in Nat, NEW t \in Nat, s <= t, t < GetNextIncrement(s)
  PROVE  s \div MemoryInterval = t \div MemoryInterval
<1> DEFINE I == MemoryInterval
           q == s \div I
           r == t \div I
<1>1. I \in Nat /\ I > 0
  BY MetadataAssumption
<1>2. /\ q \in Nat /\ r \in Nat
      /\ q * I <= s /\ s < (q + 1) * I
      /\ r * I <= t /\ t < (r + 1) * I
  BY <1>1, Z3
<1>3. t < (q + 1) * I
  BY DEF GetNextIncrement
<1>4. ASSUME NEW a \in Nat, NEW b \in Nat, a < b
      PROVE  /\ (a + 1) * I \in Nat /\ b * I \in Nat
             /\ (a + 1) * I <= b * I
  <2>1. PICK d \in Nat : b = a + 1 + d
    BY <1>4, b - a - 1 \in Nat
  <2>2. (a + 1) * I \in Nat /\ b * I \in Nat /\ d * I \in Nat
    BY <1>1, Z3
  <2>3. b * I = (a + 1) * I + d * I
    BY <2>1, <1>1, Z3
  <2> QED
    BY <2>2, <2>3
<1>5. ~(q < r)
  <2>1. SUFFICES ASSUME q < r PROVE FALSE
    OBVIOUS
  <2>2. (q + 1) * I \in Nat /\ r * I \in Nat /\ (q + 1) * I <= r * I
    BY <1>2, <1>4, <2>1
  <2> HIDE DEF q, r, I
  <2> QED
    BY <1>2, <1>3, <2>2
<1>6. ~(r < q)
  <2>1. SUFFICES ASSUME r < q PROVE FALSE
    OBVIOUS
  <2>2. (r + 1) * I \in Nat /\ q * I \in Nat /\ (r + 1) * I <= q * I
    BY <1>2, <1>4, <2>1
  <2> HIDE DEF q, r, I
  <2> QED
    BY <1>2, <2>2
<1>7. q \in Nat /\ r \in Nat
  BY <1>2
<1> HIDE DEF q, r
<1>8. q = r
  BY <1>5, <1>6, <1>7
<1> QED
  BY <1>8 DEF q, r
--------------------------------------------------------------------------------
LEMMA NoneIsNoRecord ==
  /\ None \notin Blob /\ None \notin Distributed /\ None \notin Memory
  /\ None \notin Lookup /\ None \notin Answer /\ None \notin Nat
BY MetadataNoneAssumption, MetadataAssumption

\* The entry for g is looked for in the BLOB that was got.
LEMMA EntryType ==
  ASSUME NEW b \in Blob \cup {None}, NEW g \in AaGuids
  PROVE  EntryOf(b, g) \in Blob \cup {None}
BY DEF EntryOf

(***************************************************************************)
(* What goes into memory is timely when the BLOB was got in this hour, be  *)
(* it now or when the copy was made from which the entry is taken.         *)
(***************************************************************************)
LEMMA CachedIsTimely ==
  ASSUME now \in Nat, NEW b \in Blob \cup {None}, NEW got \in Nat, got <= now,
         b # None => now < GetNextIncrement(got)
  PROVE  Cached(b, got) \in Memory \cup {None} /\ Timely(Cached(b, got))
<1>1. CASE b = None
  BY <1>1 DEF Cached, Alive, Memory, Timely
<1>2. CASE b # None
  <2>1. b \in Blob
    BY <1>2
  <2>2. b.nextUpdate \in Nat \cup {None}
    BY <2>1 DEF Blob
  <2>3. GetNextIncrement(now) \in Nat /\ GetNextIncrement(got) \in Nat
    BY NextIncrement
  <2>4. got \div MemoryInterval = now \div MemoryInterval
    BY <1>2, SameHour
  <2>5. GetNextIncrement(now) = GetNextIncrement(got)
    BY <2>4 DEF GetNextIncrement
  <2>6. /\ MemoryExpiry(b) \in Nat
        /\ MemoryExpiry(b) <= GetNextIncrement(got)
        /\ b.nextUpdate # None => MemoryExpiry(b) <= b.nextUpdate
    BY <2>2, <2>3, <2>5 DEF MemoryExpiry
  <2> DEFINE m == [blob |-> b, expires |-> MemoryExpiry(b), got |-> got]
  <2>7. m \in Memory
    BY <2>6 DEF Memory
  <2>8. m.blob = b /\ m.expires = MemoryExpiry(b) /\ m.got = got
    OBVIOUS
  <2>9. Timely(m)
    BY <2>6, <2>8, NoneIsNoRecord DEF Timely
  <2>10. Cached(b, got) = m \/ Cached(b, got) = None
    BY <1>2 DEF Cached
  <2> HIDE DEF m
  <2> QED
    BY <2>7, <2>9, <2>10 DEF Timely
<1> QED
  BY <1>1, <1>2
--------------------------------------------------------------------------------
LEMMA InitInv == Init => Inv
<1> SUFFICES ASSUME Init PROVE Inv
  OBVIOUS
<1>1. published \in Blob /\ published.number = 1
  BY MetadataAssumption DEF Init, Blob
<1>2. TypeOK
  BY <1>1 DEF Init, TypeOK
<1>3. MemoryInv
  BY DEF Init, MemoryInv, Timely
<1>4. NumberInv
  BY <1>1 DEF Init, NumberInv, Number, At
<1>5. AnswersAreCurrent
  BY DEF Init, AnswersAreCurrent
<1> QED
  BY <1>2, <1>3, <1>4, <1>5 DEF Inv

(***************************************************************************)
(* The end of a call, whatever it ends with, keeps the types and leaves    *)
(* timely values in memory.                                                *)
(***************************************************************************)
LEMMA FinishKeeps ==
  ASSUME Inv, NEW l \in Lookups, lookups[l] # None, NEW b \in Blob \cup {None},
         NEW from \in {"distributed", "fetch", "fallback"},
         Finish(l, b, from), now' = now
  PROVE  /\ payloads' \in [Processes -> Memory \cup {None}]
         /\ entries' \in [Processes -> [AaGuids -> Memory \cup {None}]]
         /\ lookups' \in [Lookups -> Lookup \cup {None}]
         /\ answer' = [from |-> from, blob |-> EntryOf(b, lookups[l].aaguid)]
         /\ answer' \in Answer
         /\ MemoryInv'
         /\ \A k \in Lookups : lookups'[k] # None => lookups'[k] = lookups[k]
<1> DEFINE p == lookups[l].process
           g == lookups[l].aaguid
<1>1. lookups[l] \in Lookup
  BY DEF Inv, TypeOK
<1>2. p \in Processes /\ g \in AaGuids
  BY <1>1 DEF Lookup
<1>3. now \in Nat /\ now < GetNextIncrement(now)
  BY NextIncrement DEF Inv, TypeOK
<1>4. EntryOf(b, g) \in Blob \cup {None}
  BY <1>2, EntryType
<1>5. Cached(b, now) \in Memory \cup {None} /\ Timely(Cached(b, now))
  BY <1>3, CachedIsTimely
<1>6. Cached(EntryOf(b, g), now) \in Memory \cup {None} /\ Timely(Cached(EntryOf(b, g), now))
  BY <1>3, <1>4, CachedIsTimely
<1>7. /\ payloads' = [payloads EXCEPT ![p] = Cached(b, now)]
      /\ entries' = [entries EXCEPT ![p][g] = Cached(EntryOf(b, g), now)]
      /\ lookups' = [lookups EXCEPT ![l] = None]
      /\ answer' = [from |-> from, blob |-> EntryOf(b, g)]
  BY DEF Finish, Answers
<1>8. /\ payloads \in [Processes -> Memory \cup {None}]
      /\ entries \in [Processes -> [AaGuids -> Memory \cup {None}]]
      /\ lookups \in [Lookups -> Lookup \cup {None}]
  BY DEF Inv, TypeOK
<1>9. answer' \in Answer
  BY <1>4, <1>7 DEF Answer
<1> HIDE DEF p, g
<1>10. /\ payloads' \in [Processes -> Memory \cup {None}]
       /\ entries' \in [Processes -> [AaGuids -> Memory \cup {None}]]
       /\ lookups' \in [Lookups -> Lookup \cup {None}]
       /\ \A k \in Lookups : lookups'[k] # None => lookups'[k] = lookups[k]
  BY <1>2, <1>5, <1>6, <1>7, <1>8
<1>11. ASSUME NEW q \in Processes PROVE Timely(payloads[q])'
  <2>1. Timely(payloads[q])
    BY DEF Inv, MemoryInv
  <2>2. payloads'[q] = payloads[q] \/ payloads'[q] = Cached(b, now)
    BY <1>7, <1>8
  <2>3. Timely(payloads'[q])
    BY <2>1, <2>2, <1>5
  <2> QED
    BY <2>3 DEF Timely
<1>12. ASSUME NEW q \in Processes, NEW h \in AaGuids PROVE Timely(entries[q][h])'
  <2>1. Timely(entries[q][h])
    BY DEF Inv, MemoryInv
  <2>2. entries'[q][h] = entries[q][h] \/ entries'[q][h] = Cached(EntryOf(b, g), now)
    BY <1>7, <1>8
  <2>3. Timely(entries'[q][h])
    BY <2>1, <2>2, <1>6
  <2> QED
    BY <2>3 DEF Timely
<1> QED
  BY <1>7, <1>9, <1>10, <1>11, <1>12 DEF MemoryInv, p, g
--------------------------------------------------------------------------------
LEMMA NumbersType ==
  ASSUME TypeOK
  PROVE  published.number \in Nat /\ Number \in Nat
<1>1. distributed # None => distributed.blob \in Blob
  BY DEF TypeOK, Distributed
<1> QED
  BY <1>1 DEF TypeOK, Blob, Number

\* Numbers stay in order as long as the BLOBs and the calls at "store" are the same.
LEMMA NumbersKept ==
  ASSUME NumberInv, UNCHANGED <<published, distributed>>,
         \A l \in Lookups : At(l, "store")' => At(l, "store") /\ lookups'[l] = lookups[l]
  PROVE  NumberInv'
BY DEF NumberInv, Number

LEMMA TickKeeps == ASSUME Inv, Tick PROVE Inv'
<1> USE DEF Inv, Tick, NoAnswer
<1>1. TypeOK'
  BY DEF TypeOK
<1>2. MemoryInv'
  <2>1. now \in Nat
    BY DEF TypeOK
  <2>2. ASSUME NEW m \in Memory \cup {None}, Timely(m)
        PROVE  m # None /\ m.blob # None =>
                 /\ m.got <= now + 1
                 /\ m.expires # None
                 /\ m.expires <= GetNextIncrement(m.got)
                 /\ m.blob.nextUpdate # None => m.expires <= m.blob.nextUpdate
    BY <2>1, <2>2 DEF Timely, Memory
  <2>3. ASSUME NEW p \in Processes PROVE Timely(payloads[p])'
    BY <2>2 DEF TypeOK, MemoryInv, Timely
  <2>4. ASSUME NEW p \in Processes, NEW g \in AaGuids PROVE Timely(entries[p][g])'
    BY <2>2 DEF TypeOK, MemoryInv, Timely
  <2> QED
    BY <2>3, <2>4 DEF MemoryInv
<1>3. NumberInv'
  BY DEF NumberInv, Number, At
<1>4. AnswersAreCurrent'
  BY DEF AnswersAreCurrent
<1> QED
  BY <1>1, <1>2, <1>3, <1>4

LEMMA PublishKeeps == ASSUME Inv, Publish PROVE Inv'
<1> USE DEF Inv, Publish, NoAnswer
<1>1. published'.number = published.number + 1 /\ published' \in Blob
  BY MetadataAssumption DEF TypeOK, Blob
<1>2. TypeOK'
  BY <1>1 DEF TypeOK
<1>3. MemoryInv'
  BY DEF MemoryInv, Timely
<1>4. NumberInv'
  <2>1. Number' = Number /\ Number \in Nat /\ published.number \in Nat
    BY NumbersType DEF Number
  <2>2. ASSUME NEW l \in Lookups, At(l, "store") PROVE lookups[l].blob.number \in Nat
    BY <2>2 DEF TypeOK, Lookup, Blob, At
  <2> QED
    BY <1>1, <2>1, <2>2 DEF NumberInv, At
<1>5. AnswersAreCurrent'
  BY DEF AnswersAreCurrent
<1> QED
  BY <1>2, <1>3, <1>4, <1>5
--------------------------------------------------------------------------------
LEMMA GetEntryKeeps ==
  ASSUME Inv, NEW l \in Lookups, NEW p \in Processes, NEW g \in AaGuids, GetEntryAsync(l, p, g)
  PROVE  Inv'
<1> USE DEF Inv
<1>1. UNCHANGED <<now, published, distributed>> /\ lookups[l] = None
  BY DEF GetEntryAsync
<1>2. payloads[p] \in Memory \cup {None} /\ entries[p][g] \in Memory \cup {None}
  BY DEF TypeOK
<1>3. ASSUME Alive(entries[p][g]), Answers("memory", entries[p][g].blob),
             UNCHANGED <<payloads, entries, lookups>>
      PROVE  Inv'
  <2>1. entries[p][g] \in Memory /\ Timely(entries[p][g])
    BY <1>2, <1>3 DEF Alive, MemoryInv
  <2>2. answer' \in Answer
    BY <2>1, <1>3 DEF Answers, Answer, Memory
  <2>3. TypeOK'
    BY <1>1, <1>3, <2>2 DEF TypeOK
  <2>4. MemoryInv' /\ NumberInv'
    BY <1>1, <1>3 DEF MemoryInv, Timely, NumberInv, Number, At
  <2>5. AnswersAreCurrent'
    <3> DEFINE m == entries[p][g]
    <3>1. CASE m.blob = None
      BY <3>1, <1>3 DEF Answers, AnswersAreCurrent
    <3>2. CASE m.blob # None /\ m.blob.nextUpdate = None
      BY <3>2, <1>3 DEF Answers, AnswersAreCurrent
    <3>3. CASE m.blob # None /\ m.blob.nextUpdate # None
      <4>1. m.blob \in Blob /\ m.expires # None /\ m.expires <= m.blob.nextUpdate
        BY <3>3, <2>1, <1>3 DEF Timely, Memory, Alive
      <4>2. m.expires \in Nat /\ m.blob.nextUpdate \in Nat
        BY <3>3, <2>1, <4>1 DEF Memory, Blob
      <4>3. now < m.expires
        BY <1>3, <4>1 DEF Alive
      <4>4. now <= m.blob.nextUpdate + BufferPeriod
        BY <4>1, <4>2, <4>3, MetadataAssumption DEF TypeOK
      <4> QED
        BY <3>3, <4>4, <1>1, <1>3 DEF Answers, AnswersAreCurrent
    <3> QED
      BY <3>1, <3>2, <3>3
  <2> QED
    BY <2>3, <2>4, <2>5
<1>4. ASSUME Alive(payloads[p]), UNCHANGED <<payloads, lookups>>,
             entries' = [entries EXCEPT ![p][g] =
                           Cached(EntryOf(payloads[p].blob, g), payloads[p].got)],
             Answers("memory", EntryOf(payloads[p].blob, g))
      PROVE  Inv'
  <2> DEFINE m == payloads[p]
             b == EntryOf(m.blob, g)
  <2>1. m \in Memory /\ Timely(m)
    BY <1>2, <1>4 DEF Alive, MemoryInv
  <2>2. b \in Blob \cup {None} /\ (b # None => m.blob # None /\ b = m.blob)
    BY <2>1, EntryType DEF EntryOf, Memory
  <2>3. b # None => /\ m.got <= now
                    /\ m.expires \in Nat /\ now < m.expires
                    /\ m.expires <= GetNextIncrement(m.got)
                    /\ m.blob.nextUpdate # None => m.expires <= m.blob.nextUpdate
    BY <2>1, <2>2, <1>4 DEF Timely, Memory, Alive
  <2>4. m.got \in Nat /\ now \in Nat
    BY <2>1 DEF Memory, TypeOK
  <2>5. b # None => now < GetNextIncrement(m.got)
    <3>1. GetNextIncrement(m.got) \in Nat
      BY <2>4, NextIncrement
    <3> QED
      BY <2>3, <2>4, <3>1
  <2>6. Cached(b, m.got) \in Memory \cup {None} /\ Timely(Cached(b, m.got))
    <3>1. CASE b # None
      BY <3>1, <2>2, <2>3, <2>4, <2>5, CachedIsTimely
    <3>2. CASE b = None
      BY <3>2, <2>4 DEF Cached, Alive, Memory, Timely
    <3> QED
      BY <3>1, <3>2
  <2>7. answer' = [from |-> "memory", blob |-> b] /\ answer' \in Answer
    BY <1>4, <2>2 DEF Answers, Answer
  <2>8. entries' = [entries EXCEPT ![p][g] = Cached(b, m.got)]
    BY <1>4
  <2>9. AnswersAreCurrent'
    <3>1. CASE b = None \/ b.nextUpdate = None
      BY <3>1, <2>7 DEF AnswersAreCurrent
    <3>2. CASE b # None /\ b.nextUpdate # None
      <4>1. b.nextUpdate \in Nat
        BY <3>2, <2>2 DEF Blob
      <4>2. now <= b.nextUpdate + BufferPeriod
        BY <3>2, <4>1, <2>2, <2>3, <2>4, MetadataAssumption
      <4> QED
        BY <3>2, <4>2, <1>1, <2>7 DEF AnswersAreCurrent
    <3> QED
      BY <3>1, <3>2
  <2> HIDE DEF m, b
  <2>10. TypeOK'
    BY <1>1, <1>4, <2>6, <2>7, <2>8 DEF TypeOK
  <2>11. MemoryInv'
    <3>1. ASSUME NEW q \in Processes PROVE Timely(payloads[q])'
      BY <1>1, <1>4 DEF MemoryInv, Timely
    <3>2. ASSUME NEW q \in Processes, NEW h \in AaGuids PROVE Timely(entries[q][h])'
      <4>1. Timely(entries[q][h])
        BY DEF MemoryInv
      <4>2. entries'[q][h] = entries[q][h] \/ entries'[q][h] = Cached(b, m.got)
        BY <2>8 DEF TypeOK
      <4>3. Timely(entries'[q][h])
        BY <4>1, <4>2, <2>6
      <4> QED
        BY <4>3, <1>1 DEF Timely
    <3> QED
      BY <3>1, <3>2 DEF MemoryInv
  <2>12. NumberInv'
    BY <1>1, <1>4 DEF NumberInv, Number, At
  <2> QED
    BY <2>9, <2>10, <2>11, <2>12
<1>5. ASSUME lookups' = [lookups EXCEPT ![l] = [at |-> "read", process |-> p, aaguid |-> g]],
             UNCHANGED <<payloads, entries>>, NoAnswer
      PROVE  Inv'
  <2>1. TypeOK'
    BY <1>1, <1>5 DEF TypeOK, NoAnswer, Lookup
  <2>2. MemoryInv' /\ AnswersAreCurrent'
    BY <1>1, <1>5 DEF MemoryInv, Timely, NoAnswer, AnswersAreCurrent
  <2>3. NumberInv'
    <3>1. \A k \in Lookups : At(k, "store")' => At(k, "store") /\ lookups'[k] = lookups[k]
      BY <1>5 DEF At, TypeOK
    <3> QED
      BY <1>1, <3>1, NumbersKept
  <2> QED
    BY <2>1, <2>2, <2>3
<1> QED
  BY <1>3, <1>4, <1>5 DEF GetEntryAsync
--------------------------------------------------------------------------------
LEMMA ReadKeeps == ASSUME Inv, NEW l \in Lookups, ReadDistributed(l) PROVE Inv'
<1> USE DEF Inv
<1>1. UNCHANGED <<now, published, distributed>> /\ lookups[l] # None
  BY DEF ReadDistributed, At
<1>2. distributed # None => distributed.blob \in Blob
  BY DEF TypeOK, Distributed
<1>3. ASSUME Present, Usable(distributed.blob), Finish(l, distributed.blob, "distributed")
      PROVE  Inv'
  <2>1. distributed.blob \in Blob
    BY <1>2, <1>3 DEF Present
  <2>2. /\ payloads' \in [Processes -> Memory \cup {None}]
        /\ entries' \in [Processes -> [AaGuids -> Memory \cup {None}]]
        /\ lookups' \in [Lookups -> Lookup \cup {None}]
        /\ answer' = [from |-> "distributed",
                      blob |-> EntryOf(distributed.blob, lookups[l].aaguid)]
        /\ answer' \in Answer
        /\ MemoryInv'
        /\ \A k \in Lookups : lookups'[k] # None => lookups'[k] = lookups[k]
    BY <1>1, <1>3, <2>1, FinishKeeps
  <2>3. TypeOK'
    BY <1>1, <2>2 DEF TypeOK
  <2>4. NumberInv'
    <3>1. \A k \in Lookups : At(k, "store")' => At(k, "store") /\ lookups'[k] = lookups[k]
      BY <2>2 DEF At
    <3> QED
      BY <1>1, <3>1, NumbersKept
  <2>5. AnswersAreCurrent'
    BY <1>1, <1>3, <2>1, <2>2 DEF Usable, EntryOf, AnswersAreCurrent
  <2> QED
    BY <2>2, <2>3, <2>4, <2>5
<1>4. ASSUME lookups' = [lookups EXCEPT ![l] =
               [at |-> "fetch", process |-> @.process, aaguid |-> @.aaguid,
                cached |-> IF Present THEN distributed.blob ELSE None]],
             UNCHANGED <<payloads, entries>>, NoAnswer
      PROVE  Inv'
  <2>1. lookups[l].process \in Processes /\ lookups[l].aaguid \in AaGuids
    BY <1>1 DEF TypeOK, Lookup
  <2>2. (IF Present THEN distributed.blob ELSE None) \in Blob \cup {None}
    BY <1>2 DEF Present
  <2>3. lookups' \in [Lookups -> Lookup \cup {None}]
    BY <1>4, <2>1, <2>2 DEF TypeOK, Lookup
  <2>4. TypeOK'
    BY <1>1, <1>4, <2>3 DEF TypeOK, NoAnswer
  <2>5. MemoryInv' /\ AnswersAreCurrent'
    BY <1>1, <1>4 DEF MemoryInv, Timely, NoAnswer, AnswersAreCurrent
  <2>6. NumberInv'
    <3>1. \A k \in Lookups : At(k, "store")' => At(k, "store") /\ lookups'[k] = lookups[k]
      BY <1>4 DEF At, TypeOK
    <3> QED
      BY <1>1, <3>1, NumbersKept
  <2> QED
    BY <2>4, <2>5, <2>6
<1> QED
  BY <1>3, <1>4 DEF ReadDistributed

LEMMA FetchKeeps == ASSUME Inv, NEW l \in Lookups, Fetch(l) PROVE Inv'
<1> USE DEF Inv
<1>1. /\ UNCHANGED <<now, published, distributed, payloads, entries>>
      /\ NoAnswer /\ lookups[l] # None
      /\ lookups' = [lookups EXCEPT ![l] =
           [at |-> "store", process |-> @.process, aaguid |-> @.aaguid,
            blob |-> published, before |-> Number]]
  BY DEF Fetch, At
<1>2. lookups[l].process \in Processes /\ lookups[l].aaguid \in AaGuids
  BY <1>1 DEF TypeOK, Lookup
<1>3. published \in Blob /\ Number \in Nat /\ published.number \in Nat
  BY NumbersType DEF TypeOK
<1>4. TypeOK'
  BY <1>1, <1>2, <1>3 DEF TypeOK, NoAnswer, Lookup
<1>5. MemoryInv' /\ AnswersAreCurrent'
  BY <1>1 DEF MemoryInv, Timely, NoAnswer, AnswersAreCurrent
<1>6. NumberInv'
  <2>1. ASSUME NEW k \in Lookups, At(k, "store")'
        PROVE  /\ lookups'[k].before <= lookups'[k].blob.number
               /\ lookups'[k].blob.number <= published.number
    <3>1. CASE k = l
      <4>1. lookups'[l].before = Number /\ lookups'[l].blob = published
        BY <1>1 DEF TypeOK
      <4> QED
        BY <3>1, <4>1, <1>3 DEF NumberInv
    <3>2. CASE k # l
      BY <3>2, <2>1, <1>1 DEF At, TypeOK, NumberInv
    <3> QED
      BY <3>1, <3>2
  <2> QED
    BY <1>1, <2>1 DEF NumberInv, Number
<1> QED
  BY <1>4, <1>5, <1>6

LEMMA FetchFailsKeeps == ASSUME Inv, NEW l \in Lookups, FetchFails(l) PROVE Inv'
<1> USE DEF Inv
<1>1. UNCHANGED <<now, published, distributed>> /\ lookups[l] # None
  BY DEF FetchFails, At
<1>2. lookups[l].cached \in Blob \cup {None}
  BY DEF FetchFails, At, TypeOK, Lookup
<1>3. /\ payloads' \in [Processes -> Memory \cup {None}]
      /\ entries' \in [Processes -> [AaGuids -> Memory \cup {None}]]
      /\ lookups' \in [Lookups -> Lookup \cup {None}]
      /\ answer' = [from |-> "fallback", blob |-> EntryOf(lookups[l].cached, lookups[l].aaguid)]
      /\ answer' \in Answer
      /\ MemoryInv'
      /\ \A k \in Lookups : lookups'[k] # None => lookups'[k] = lookups[k]
  BY <1>1, <1>2, FinishKeeps DEF FetchFails
<1>4. TypeOK' /\ AnswersAreCurrent'
  BY <1>1, <1>3 DEF TypeOK, AnswersAreCurrent
<1>5. NumberInv'
  <2>1. \A k \in Lookups : At(k, "store")' => At(k, "store") /\ lookups'[k] = lookups[k]
    BY <1>3 DEF At
  <2> QED
    BY <1>1, <2>1, NumbersKept
<1> QED
  BY <1>3, <1>4, <1>5

LEMMA StoreKeeps == ASSUME Inv, NEW l \in Lookups, StoreDistributed(l) PROVE Inv'
<1> USE DEF Inv
<1> DEFINE b == lookups[l].blob
<1>1. /\ UNCHANGED <<now, published>> /\ lookups[l] # None /\ At(l, "store")
      /\ distributed' = [blob |-> b, expires |-> DistributedExpiry(b)]
  BY DEF StoreDistributed, At
<1>2. b \in Blob
  BY <1>1 DEF At, TypeOK, Lookup
<1>3. b.nextUpdate \in Nat \cup {None} /\ b.number \in Nat
  BY <1>2 DEF Blob
<1>4. DistributedExpiry(b) \in Nat
  BY <1>3, MetadataAssumption DEF DistributedExpiry, TypeOK
<1>5. distributed' \in Distributed /\ distributed' # None
  BY <1>1, <1>2, <1>4, NoneIsNoRecord DEF Distributed
<1>6. /\ payloads' \in [Processes -> Memory \cup {None}]
      /\ entries' \in [Processes -> [AaGuids -> Memory \cup {None}]]
      /\ lookups' \in [Lookups -> Lookup \cup {None}]
      /\ answer' = [from |-> "fetch", blob |-> EntryOf(b, lookups[l].aaguid)]
      /\ answer' \in Answer
      /\ MemoryInv'
      /\ \A k \in Lookups : lookups'[k] # None => lookups'[k] = lookups[k]
  BY <1>1, <1>2, FinishKeeps DEF StoreDistributed
<1>7. TypeOK' /\ AnswersAreCurrent'
  BY <1>1, <1>5, <1>6 DEF TypeOK, AnswersAreCurrent
<1>8. NumberInv'
  <2>1. \A k \in Lookups : At(k, "store")' => At(k, "store") /\ lookups'[k] = lookups[k]
    BY <1>6 DEF At
  <2>2. Number' = b.number
    BY <1>1, <1>5 DEF Number
  <2>3. b.number <= published.number
    BY <1>1 DEF NumberInv
  <2> QED
    BY <1>1, <2>1, <2>2, <2>3 DEF NumberInv
<1> QED
  BY <1>6, <1>7, <1>8

LEMMA LookupFailsKeeps == ASSUME Inv, NEW l \in Lookups, LookupFails(l) PROVE Inv'
<1> USE DEF Inv, LookupFails, NoAnswer
<1>1. TypeOK'
  BY DEF TypeOK
<1>2. MemoryInv' /\ AnswersAreCurrent'
  BY DEF MemoryInv, Timely, AnswersAreCurrent
<1>3. NumberInv'
  <2>1. \A k \in Lookups : At(k, "store")' => At(k, "store") /\ lookups'[k] = lookups[k]
    BY DEF At, TypeOK
  <2> QED
    BY <2>1, NumbersKept
<1> QED
  BY <1>1, <1>2, <1>3

LEMMA RestartKeeps == ASSUME Inv, NEW p \in Processes, Restart(p) PROVE Inv'
<1> USE DEF Inv, Restart, NoAnswer
<1>1. TypeOK'
  BY DEF TypeOK
<1>2. MemoryInv'
  <2>1. ASSUME NEW q \in Processes PROVE Timely(payloads[q])'
    BY DEF MemoryInv, Timely, TypeOK
  <2>2. ASSUME NEW q \in Processes, NEW g \in AaGuids PROVE Timely(entries[q][g])'
    <3>1. entries'[q][g] = entries[q][g] \/ entries'[q][g] = None
      BY DEF TypeOK
    <3> QED
      BY <3>1 DEF MemoryInv, Timely
  <2> QED
    BY <2>1, <2>2 DEF MemoryInv
<1>3. AnswersAreCurrent'
  BY DEF AnswersAreCurrent
<1>4. NumberInv'
  <2>1. \A k \in Lookups : At(k, "store")' => At(k, "store") /\ lookups'[k] = lookups[k]
    BY DEF At
  <2> QED
    BY <2>1, NumbersKept
<1> QED
  BY <1>1, <1>2, <1>3, <1>4

LEMMA LostKeeps == ASSUME Inv, DistributedLost PROVE Inv'
<1> USE DEF Inv, DistributedLost, NoAnswer
<1>1. TypeOK'
  BY DEF TypeOK
<1>2. MemoryInv' /\ AnswersAreCurrent'
  BY DEF MemoryInv, Timely, AnswersAreCurrent
<1>3. NumberInv'
  BY NumbersType DEF NumberInv, Number, At
<1> QED
  BY <1>1, <1>2, <1>3

LEMMA InvStep == Inv /\ [Next]_vars => Inv'
<1> SUFFICES ASSUME Inv, [Next]_vars PROVE Inv'
  OBVIOUS
<1>1. CASE UNCHANGED vars
  BY <1>1 DEF vars, Inv, TypeOK, MemoryInv, Timely, NumberInv, Number, At, AnswersAreCurrent
<1>2. CASE Next
  BY <1>2, TickKeeps, PublishKeeps, LostKeeps, GetEntryKeeps, ReadKeeps, FetchKeeps,
     FetchFailsKeeps, StoreKeeps, LookupFailsKeeps, RestartKeeps DEF Next
<1> QED
  BY <1>1, <1>2

THEOREM Invariance == Spec => []Inv
<1>1. Inv /\ [Next]_vars => Inv'
  BY InvStep
<1> QED
  BY InitInv, <1>1, PTL DEF Spec
--------------------------------------------------------------------------------
(***************************************************************************)
(* Clock, BLOBs, both caches, calls and answers keep their types, whatever *)
(* the intervals are.                                                      *)
(***************************************************************************)
THEOREM TypeCorrect == Spec => []TypeOK
<1>1. Inv => TypeOK
  BY DEF Inv
<1> QED
  BY <1>1, Invariance, PTL

\* What holds of each value in memory by MemoryInv, as the two properties state it.
LEMMA MemoryType ==
  ASSUME Inv, NEW m \in InMemory
  PROVE  m \in Memory \cup {None} /\ Timely(m)
BY DEF Inv, TypeOK, MemoryInv, InMemory

(***************************************************************************)
(* No process serves from memory a BLOB, or an entry of one, after the     *)
(* time at which its successor is due.                                     *)
(***************************************************************************)
THEOREM MemoryIsAlwaysCurrent == Spec => []MemoryIsCurrent
<1>1. ASSUME Inv PROVE MemoryIsCurrent
  <2> SUFFICES ASSUME NEW m \in InMemory, Alive(m), m.blob # None, m.blob.nextUpdate # None
               PROVE  now < m.blob.nextUpdate
    BY DEF MemoryIsCurrent
  <2>1. m \in Memory \cup {None} /\ Timely(m)
    BY <1>1, MemoryType
  <2>2. m \in Memory /\ m.expires # None /\ m.expires <= m.blob.nextUpdate
    BY <2>1 DEF Alive, Timely
  <2>3. m.expires \in Nat /\ m.blob.nextUpdate \in Nat /\ now \in Nat
    BY <2>2, <1>1 DEF Memory, Blob, Inv, TypeOK
  <2> QED
    BY <2>2, <2>3 DEF Alive
<1> QED
  BY <1>1, Invariance, PTL

(***************************************************************************)
(* No process serves from memory what it got before the last full hour,    *)
(* also when the entry was taken from the BLOB in memory later than that.  *)
(***************************************************************************)
THEOREM MemoryIsAlwaysOfThisHour == Spec => []MemoryIsOfThisHour
<1>1. ASSUME Inv PROVE MemoryIsOfThisHour
  <2> SUFFICES ASSUME NEW m \in InMemory, Alive(m), m.blob # None
               PROVE  m.got \div MemoryInterval = now \div MemoryInterval
    BY DEF MemoryIsOfThisHour
  <2>1. m \in Memory \cup {None} /\ Timely(m)
    BY <1>1, MemoryType
  <2>2. m \in Memory /\ m.expires # None /\ m.expires <= GetNextIncrement(m.got)
    BY <2>1 DEF Alive, Timely
  <2>3. m.expires \in Nat /\ m.got \in Nat /\ now \in Nat /\ m.got <= now
    BY <2>1, <2>2, <1>1 DEF Memory, Inv, TypeOK, Timely, Alive
  <2>4. GetNextIncrement(m.got) \in Nat
    BY <2>3, NextIncrement
  <2>5. now < GetNextIncrement(m.got)
    BY <2>2, <2>3, <2>4 DEF Alive
  <2> QED
    BY <2>3, <2>5, SameHour
<1> QED
  BY <1>1, Invariance, PTL

(***************************************************************************)
(* An entry of a BLOB that is overdue by more than the buffer period is    *)
(* never answered from memory or from the distributed cache.               *)
(***************************************************************************)
THEOREM AnswersAreAlwaysCurrent == Spec => []AnswersAreCurrent
<1>1. Inv => AnswersAreCurrent
  BY DEF Inv
<1> QED
  BY <1>1, Invariance, PTL

(***************************************************************************)
(* The distributed cache falls back to an older BLOB only when the call    *)
(* that stores it fetched it before another stored the newer one.          *)
(***************************************************************************)
THEOREM FallsAreOvertaken == Spec => DistributedFallsOnlyWhenOvertaken
<1>1. ASSUME Inv, [Next]_vars PROVE [FallsOnlyWhenOvertaken]_vars
  <2> SUFFICES ASSUME DistributedFalls
               PROVE  \E l \in Lookups : At(l, "store") /\ lookups[l].before < Number
    BY DEF FallsOnlyWhenOvertaken
  <2>1. Number \in Nat
    BY <1>1, NumbersType DEF Inv
  <2>2. distributed' # distributed /\ distributed' # None
    <3>1. distributed' = distributed /\ distributed' # None => distributed'.blob.number = Number
      BY DEF Number
    <3> QED
      BY <2>1, <3>1 DEF DistributedFalls
  <2>3. PICK l \in Lookups : StoreDistributed(l)
    BY <1>1, <2>2 DEF vars, Next, Tick, Publish, DistributedLost, GetEntryAsync, ReadDistributed,
       Fetch, FetchFails, LookupFails, Restart
  <2>4. At(l, "store") /\ distributed'.blob = lookups[l].blob
    BY <2>3 DEF StoreDistributed
  <2>5. lookups[l].before \in Nat /\ lookups[l].blob.number \in Nat
    BY <1>1, <2>4 DEF At, Inv, TypeOK, Lookup, Blob
  <2>6. lookups[l].before <= lookups[l].blob.number
    BY <1>1, <2>4 DEF Inv, NumberInv
  <2>7. lookups[l].blob.number < Number
    BY <2>4 DEF DistributedFalls
  <2> QED
    BY <2>1, <2>4, <2>5, <2>6, <2>7
<1> QED
  BY <1>1, Invariance, PTL DEF Spec, DistributedFallsOnlyWhenOvertaken
================================================================================
