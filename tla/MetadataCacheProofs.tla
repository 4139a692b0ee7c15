------------------------ MODULE MetadataCacheProofs ------------------------
(***************************************************************************)
(* MetadataCache proved for every set of keys, media ids and listings,     *)
(* every lifetime and every size of the cache.  Two facts make the         *)
(* invariants inductive: DatedAnswer, that the item was edited no longer   *)
(* ago than the request lasts when the answer in hand is not what the      *)
(* library lists now, and DatedEntries, that an entry that is not what the *)
(* library lists now has no more left to live than a lifetime less the age *)
(* of the edit.  A third, FailuresDated, is about the failures: what is    *)
(* left of one and its age add up to its lifetime, or to as much less as   *)
(* its request lasted.                                                     *)
(***************************************************************************)
EXTENDS MetadataFailures, FiniteSetTheorems, TLAPS

DatedAnswer ==
  call.active /\ call.response.status = "found" =>
    \/ library[call.key] = call.response
    \/ changed[call.key] <= call.waited

DatedEntries ==
  \A key \in DOMAIN cache :
    ~cache[key].failed =>
      \/ library[key] = Found(cache[key].sources)
      \/ changed[key] + cache[key].ttl <= PosTTL

FiniteCache == IsFiniteSet(DOMAIN cache) /\ CacheIsBounded

Inv == TypeOK /\ DatedAnswer /\ DatedEntries

\* The entries the two answers of Plex are stored as.
FoundEntry ==
  [failed  |-> FALSE,
   sources |-> call.response.sources,
   missing |-> IF call.media = NoID \/ HasMedia(call.response.sources, call.media)
               THEN {} ELSE {call.media},
   ttl     |-> LifeLeft(PosTTL)]
FailedEntry == [failed |-> TRUE, sources |-> <<>>, missing |-> {}, ttl |-> LifeLeft(NegTTL)]

\* What a store does to the entries, whatever it drops of them to find room.
Keeping(key, entry) ==
  /\ DOMAIN cache' \subseteq DOMAIN cache \cup {key}
  /\ cache'[key] = entry
  /\ \A k \in DOMAIN cache' : k # key => k \in DOMAIN cache /\ cache'[k] = cache[k]

-----------------------------------------------------------------------------
(* What the operators of a store yield.                                     *)

\* Sweeping keeps entries as they are and adds none.
LEMMA SweptKeeps ==
  /\ DOMAIN Swept \subseteq DOMAIN cache
  /\ \A key \in DOMAIN Swept : Swept[key] = cache[key]
  BY DEF Swept

\* Making room keeps entries as they are and adds none.
LEMMA RoomKeeps ==
  /\ DOMAIN WithRoom \subseteq DOMAIN cache
  /\ \A key \in DOMAIN WithRoom : WithRoom[key] = cache[key]
  BY SweptKeeps DEF WithRoom

\* And it leaves room for one more.
LEMMA RoomIsLeft ==
  ASSUME FiniteCache
  PROVE  IsFiniteSet(DOMAIN WithRoom) /\ Cardinality(DOMAIN WithRoom) < CacheMax
<1>1. IsFiniteSet(DOMAIN WithRoom)
  BY RoomKeeps, FS_Subset DEF FiniteCache
<1>2. DOMAIN << >> = {} /\ Cardinality({}) = 0
  BY FS_EmptySet
<1>3. Cardinality(DOMAIN WithRoom) < CacheMax
  BY <1>2, CacheAssumption DEF WithRoom
<1> QED BY <1>1, <1>3

\* The fields of a call, and the calls its steps make of it.
LEMMA CallShape ==
  ASSUME NEW c \in Calls
  PROVE  /\ c.active \in BOOLEAN /\ c.key \in Keys \cup {NoCall.key}
         /\ c.media \in MediaIDs \cup {NoID}
         /\ c.waited \in Nat /\ c.waited <= RequestMax
         /\ c.response \in Responses
  BY CacheAssumption DEF Calls

LEMMA NoCallIsCall == NoCall \in Calls /\ ~NoCall.active
<1>1. Failure \in Responses /\ 0 \in 0..RequestMax
  BY CacheAssumption DEF Responses, Items
<1> QED BY <1>1 DEF NoCall, Calls

LEMMA FetchingIsCall ==
  ASSUME NEW key \in Keys, NEW media \in MediaIDs \cup {NoID}
  PROVE  /\ Fetching(key, media) \in Calls
         /\ Fetching(key, media).key = key /\ Fetching(key, media).response = Pending
<1>1. Pending \in Responses /\ 0 \in 0..RequestMax
  BY CacheAssumption DEF Responses
<1> QED BY <1>1 DEF Fetching, Calls

LEMMA AnsweredIsCall ==
  ASSUME NEW c \in Calls, NEW r \in Responses
  PROVE  LET answered == [c EXCEPT !.response = r]
         IN  /\ answered \in Calls
             /\ answered.active = c.active /\ answered.key = c.key
             /\ answered.waited = c.waited /\ answered.response = r
  BY DEF Calls

LEMMA AgedIsCall ==
  ASSUME NEW c \in Calls, c.waited < RequestMax
  PROVE  LET aged == [c EXCEPT !.waited = @ + 1]
         IN  /\ aged \in Calls
             /\ aged.active = c.active /\ aged.key = c.key
             /\ aged.waited = c.waited + 1 /\ aged.response = c.response
<1>1. c.waited + 1 \in 0..RequestMax
  BY CallShape, CacheAssumption
<1> QED BY <1>1 DEF Calls

\* A remembered success holds versions the library can list.
LEMMA EntryShape ==
  ASSUME NEW e \in Entries
  PROVE  /\ e.failed \in BOOLEAN /\ e.ttl \in Nat
         /\ ~e.failed => e \in Successes /\ e.sources \in Listings /\ e.ttl <= PosTTL
<1>1. CASE e \in Failures
  <2>1. e.failed = TRUE /\ e.ttl \in 0..NegTTL
    BY <1>1 DEF Failures
  <2>2. e.ttl \in Nat
    BY <2>1, CacheAssumption
  <2> QED BY <2>1, <2>2
<1>2. CASE e \in Successes
  <2>1. e.failed = FALSE /\ e.sources \in Listings /\ e.ttl \in 0..PosTTL
    BY <1>2 DEF Successes
  <2>2. e.ttl \in Nat /\ e.ttl <= PosTTL
    BY <2>1, CacheAssumption
  <2> QED BY <1>2, <2>1, <2>2
<1> QED BY <1>1, <1>2 DEF Entries

\* Of a lifetime that is over nothing more is taken.
LEMMA AgedEntry ==
  ASSUME NEW e \in Entries
  PROVE  LET aged == [e EXCEPT !.ttl = IF @ > 0 THEN @ - 1 ELSE 0]
         IN  /\ aged \in Entries
             /\ aged.failed = e.failed /\ aged.sources = e.sources
             /\ aged.ttl = IF e.ttl > 0 THEN e.ttl - 1 ELSE 0
<1>1. CASE e \in Failures
  <2>1. (IF e.ttl > 0 THEN e.ttl - 1 ELSE 0) \in 0..NegTTL
    BY <1>1, CacheAssumption DEF Failures
  <2> QED BY <1>1, <2>1 DEF Entries, Failures
<1>2. CASE e \in Successes
  <2>1. (IF e.ttl > 0 THEN e.ttl - 1 ELSE 0) \in 0..PosTTL
    BY <1>2, CacheAssumption DEF Successes
  <2> QED BY <1>2, <2>1 DEF Entries, Successes
<1> QED BY <1>1, <1>2 DEF Entries

\* Only an answer that found the item has its versions.
LEMMA ResponseShape ==
  /\ Failure.status = "failed" /\ Pending.status = "pending"
  /\ \A l : Found(l).status = "found" /\ Found(l).sources = l
  /\ Items \subseteq Responses /\ Failure \in Items
  BY DEF Failure, Pending, Found, Response, Responses, Items

LEMMA FoundAnswer ==
  ASSUME NEW r \in Responses, r.status = "found"
  PROVE  r.sources \in Listings /\ r = Found(r.sources) /\ r \in Items
<1>1. r \in Items /\ r # Failure
  BY ResponseShape DEF Responses
<1>2. PICK l \in Listings : r = Found(l)
  BY <1>1 DEF Items
<1> QED BY <1>1, <1>2, ResponseShape

\* A lifetime counted from the lookup and the request's age add up to no more
\* than the lifetime, unless nothing is left of it.
LEMMA LifeLeftBound ==
  ASSUME TypeOK, NEW ttl \in Nat
  PROVE  /\ LifeLeft(ttl) \in 0..ttl
         /\ LifeLeft(ttl) > 0 => LifeLeft(ttl) + call.waited = ttl
<1>1. call.waited \in Nat
  BY CallShape DEF TypeOK
<1> QED BY <1>1 DEF LifeLeft

LEMMA StoreBounded ==
  ASSUME FiniteCache, NEW key, NEW entry, Store(key, entry)
  PROVE  FiniteCache'
<1>1. DOMAIN cache' = DOMAIN WithRoom \cup {key}
  BY DEF Store
<1>2. /\ IsFiniteSet(DOMAIN WithRoom \cup {key})
      /\ Cardinality(DOMAIN WithRoom \cup {key}) <= Cardinality(DOMAIN WithRoom) + 1
  <2>1. IsFiniteSet(DOMAIN WithRoom)
    BY RoomIsLeft
  <2>2. Cardinality(DOMAIN WithRoom) \in Nat
    BY <2>1, FS_CardinalityType
  <2> HIDE DEF WithRoom
  <2>3. /\ IsFiniteSet(DOMAIN WithRoom \cup {key})
        /\ \/ Cardinality(DOMAIN WithRoom \cup {key}) = Cardinality(DOMAIN WithRoom)
           \/ Cardinality(DOMAIN WithRoom \cup {key}) = Cardinality(DOMAIN WithRoom) + 1
    BY <2>1, FS_AddElement, Zenon
  <2> QED BY <2>2, <2>3
<1>3. Cardinality(DOMAIN WithRoom) \in Nat /\ Cardinality(DOMAIN WithRoom) + 1 <= CacheMax
  BY RoomIsLeft, FS_CardinalityType, CacheAssumption
<1>4. Cardinality(DOMAIN WithRoom \cup {key}) \in Nat
  BY <1>2, FS_CardinalityType
<1>5. Cardinality(DOMAIN WithRoom \cup {key}) <= CacheMax
  BY <1>2, <1>3, <1>4, CacheAssumption
<1> QED BY <1>1, <1>2, <1>5 DEF FiniteCache, CacheIsBounded

\* A store keeps a property of entries that the new one has.
LEMMA StoreKeeps ==
  ASSUME NEW key, NEW entry, Store(key, entry)
  PROVE  Keeping(key, entry)
  BY RoomKeeps DEF Store, Keeping

-----------------------------------------------------------------------------

LEMMA InitInv == Init => Inv
<1> SUFFICES ASSUME Init PROVE Inv
  OBVIOUS
<1>1. DOMAIN cache = {}
  BY DEF Init
<1>2. TypeOK
  BY <1>1, NoCallIsCall, ResponseShape, CacheAssumption DEF Init, TypeOK
<1>3. DatedAnswer /\ DatedEntries
  BY <1>1, NoCallIsCall DEF Init, DatedAnswer, DatedEntries
<1> QED BY <1>2, <1>3 DEF Inv

LEMMA SuccessStored ==
  ASSUME Inv, call.active, call.response.status = "found", Keeping(call.key, FoundEntry),
         reply' = call.response, call' = NoCall, UNCHANGED <<library, changed>>
  PROVE  Inv'
<1>1. /\ FoundEntry.ttl = LifeLeft(PosTTL) /\ ~FoundEntry.failed
      /\ FoundEntry.sources = call.response.sources
  BY DEF FoundEntry
<1>2. /\ call.response \in Items /\ call.response = Found(FoundEntry.sources)
      /\ FoundEntry.sources \in Listings
  BY <1>1, CallShape, FoundAnswer DEF Inv, TypeOK
<1>3. call.key \in Keys /\ call.media \in MediaIDs \cup {NoID}
  BY CallShape DEF Inv, TypeOK
<1>4. LifeLeft(PosTTL) \in 0..PosTTL
      /\ (LifeLeft(PosTTL) > 0 => LifeLeft(PosTTL) + call.waited = PosTTL)
  BY LifeLeftBound, CacheAssumption DEF Inv
<1>5. FoundEntry \in Entries
  BY <1>1, <1>2, <1>3, <1>4 DEF FoundEntry, Entries, Successes
<1>6. TypeOK'
  BY <1>2, <1>3, <1>5, NoCallIsCall DEF Inv, TypeOK, Keeping
<1>7. DatedAnswer'
  BY NoCallIsCall DEF DatedAnswer
<1>8. library[call.key] = call.response \/ changed[call.key] + FoundEntry.ttl <= PosTTL
  <2>1. library[call.key] = call.response \/ changed[call.key] <= call.waited
    BY DEF Inv, DatedAnswer
  <2>2. changed[call.key] \in 0..PosTTL /\ call.waited \in Nat
    BY <1>3, CallShape DEF Inv, TypeOK
  <2> QED BY <1>1, <1>4, <2>1, <2>2, CacheAssumption
<1>9. DatedEntries'
  BY <1>2, <1>8 DEF Inv, DatedEntries, Keeping
<1> QED BY <1>6, <1>7, <1>9 DEF Inv

LEMMA FailureStored ==
  ASSUME Inv, call.active, Keeping(call.key, FailedEntry),
         reply' = Failure, call' = NoCall, UNCHANGED <<library, changed>>
  PROVE  Inv'
<1>1. FailedEntry \in Entries /\ FailedEntry.failed
  BY LifeLeftBound, CacheAssumption DEF FailedEntry, Entries, Failures, Inv
<1>2. TypeOK'
  BY <1>1, NoCallIsCall, ResponseShape DEF Inv, TypeOK, Keeping
<1>3. DatedAnswer'
  BY NoCallIsCall DEF DatedAnswer
<1>4. DatedEntries'
  BY <1>1 DEF Inv, DatedEntries, Keeping
<1> QED BY <1>2, <1>3, <1>4 DEF Inv

LEMMA StoresInv == Inv /\ (FetchSucceeds \/ FetchFails) => Inv'
<1>1. Inv /\ FetchSucceeds => Inv'
  BY StoreKeeps, SuccessStored DEF FetchSucceeds, FoundEntry
<1>2. Inv /\ FetchFails => Inv'
  BY StoreKeeps, FailureStored DEF FetchFails, FailedEntry
<1> QED BY <1>1, <1>2

LEMMA PruneCacheInv == Inv /\ PruneCache => Inv'
<1> SUFFICES ASSUME Inv, PruneCache PROVE Inv'
  OBVIOUS
<1>1. cache' = Swept /\ UNCHANGED <<library, changed, call, reply>>
  BY DEF PruneCache
<1>2. TypeOK' /\ DatedAnswer' /\ DatedEntries'
  BY <1>1, SweptKeeps DEF Inv, TypeOK, DatedAnswer, DatedEntries
<1> QED BY <1>2 DEF Inv

LEMMA LookupInv ==
  ASSUME Inv, NEW key \in Keys, NEW media \in MediaIDs \cup {NoID},
         UseCached(key, media) \/ StartFetch(key, media)
  PROVE  Inv'
<1>1. UNCHANGED <<library, changed, cache>>
  BY DEF UseCached, StartFetch
<1>2. TypeOK'
  <2>1. CASE UseCached(key, media)
    <3>1. key \in DOMAIN cache /\ UNCHANGED call
      BY <2>1 DEF UseCached, Usable, Fresh
    <3>2. reply' \in Items
      BY <2>1, <3>1, EntryShape, ResponseShape DEF UseCached, Items, Inv, TypeOK
    <3> QED BY <1>1, <3>1, <3>2 DEF Inv, TypeOK
  <2>2. CASE StartFetch(key, media)
    BY <1>1, <2>2, FetchingIsCall DEF StartFetch, Inv, TypeOK
  <2> QED BY <2>1, <2>2
<1>3. DatedAnswer'
  BY <1>1, FetchingIsCall, ResponseShape DEF UseCached, StartFetch, Inv, DatedAnswer
<1> QED BY <1>1, <1>2, <1>3 DEF Inv, DatedEntries

LEMMA AbandonedInv == Inv /\ FetchAbandoned => Inv'
<1> SUFFICES ASSUME Inv, FetchAbandoned PROVE Inv'
  OBVIOUS
<1>1. UNCHANGED <<library, changed, cache>> /\ call' = NoCall /\ reply' = Failure
  BY DEF FetchAbandoned
<1>2. TypeOK'
  BY <1>1, NoCallIsCall, ResponseShape DEF Inv, TypeOK
<1>3. DatedAnswer'
  BY <1>1, NoCallIsCall DEF DatedAnswer
<1> QED BY <1>1, <1>2, <1>3 DEF Inv, DatedEntries

\* Plex reads the item: what it will answer is what the library lists now.
LEMMA AnswersInv ==
  Inv /\ (PlexAnswers \/ RequestErrs \/ RequestTimesOut) => Inv'
<1> SUFFICES ASSUME Inv, PlexAnswers \/ RequestErrs \/ RequestTimesOut PROVE Inv'
  OBVIOUS
<1>1. UNCHANGED <<library, changed, cache, reply>> /\ call.active
  BY DEF PlexAnswers, RequestErrs, RequestTimesOut
<1>2. PICK r \in {library[call.key], Failure} : call' = [call EXCEPT !.response = r]
  BY DEF PlexAnswers, RequestErrs, RequestTimesOut
<1>3. r \in Responses
  BY <1>1, <1>2, ResponseShape DEF Inv, TypeOK
<1>4. /\ call' \in Calls
      /\ call'.active = call.active /\ call'.key = call.key /\ call'.response = r
  BY <1>2, <1>3, AnsweredIsCall DEF Inv, TypeOK
<1>5. TypeOK'
  BY <1>1, <1>4 DEF Inv, TypeOK
<1>6. DatedAnswer'
  BY <1>1, <1>2, <1>4, ResponseShape DEF DatedAnswer
<1> QED BY <1>1, <1>5, <1>6 DEF Inv, DatedEntries

LEMMA EditInv ==
  ASSUME Inv, NEW key \in Keys, NEW item \in Items,
         EditLibrary(key, item)
  PROVE  Inv'
<1>1. /\ library' = [library EXCEPT ![key] = item]
      /\ changed' = [changed EXCEPT ![key] = 0]
      /\ UNCHANGED <<cache, call, reply>>
  BY DEF EditLibrary
<1>2. TypeOK'
  <2>1. 0 \in 0..PosTTL
    BY CacheAssumption
  <2> QED BY <1>1, <2>1 DEF Inv, TypeOK
<1>3. DatedAnswer'
  <2> SUFFICES ASSUME call.active, call.response.status = "found", call.key = key
               PROVE  changed'[key] <= call.waited
    BY <1>1 DEF Inv, DatedAnswer, TypeOK
  <2>1. changed'[key] = 0 /\ call.waited \in Nat
    BY <1>1, CallShape DEF Inv, TypeOK
  <2> QED BY <2>1
<1>4. ASSUME NEW k \in DOMAIN cache, ~cache[k].failed
      PROVE  library'[k] = Found(cache[k].sources) \/ changed'[k] + cache[k].ttl <= PosTTL
  <2>1. k \in Keys /\ cache[k].ttl \in Nat /\ cache[k].ttl <= PosTTL
    BY <1>4, EntryShape DEF Inv, TypeOK
  <2>2. CASE k = key
    <3>1. changed'[k] = 0
      BY <1>1, <2>2 DEF Inv, TypeOK
    <3> QED BY <2>1, <3>1
  <2>3. CASE k # key
    BY <1>1, <1>4, <2>1, <2>3 DEF Inv, TypeOK, DatedEntries
  <2> QED BY <2>2, <2>3
<1>5. DatedEntries'
  BY <1>1, <1>4 DEF DatedEntries
<1> QED BY <1>2, <1>3, <1>5 DEF Inv

\* As an entry ages, so does the edit it does not show.
LEMMA TickInv == Inv /\ Tick => Inv'
<1> SUFFICES ASSUME Inv, Tick PROVE Inv'
  OBVIOUS
<1>1. /\ cache' = AgedCache /\ changed' = AgedItems /\ UNCHANGED <<library, reply>>
      /\ call' = IF call.active THEN [call EXCEPT !.waited = @ + 1] ELSE call
      /\ call.active => call.waited < RequestMax
  BY DEF Tick
<1>2. DOMAIN cache' = DOMAIN cache
  BY <1>1 DEF AgedCache
<1>3. ASSUME NEW k \in DOMAIN cache
      PROVE  /\ k \in Keys /\ cache'[k] \in Entries
             /\ cache'[k].failed = cache[k].failed /\ cache'[k].sources = cache[k].sources
             /\ cache'[k].ttl = IF cache[k].ttl > 0 THEN cache[k].ttl - 1 ELSE 0
  BY <1>1, AgedEntry DEF AgedCache, Inv, TypeOK
<1>4. ASSUME NEW k \in Keys
      PROVE  /\ changed[k] \in 0..PosTTL /\ changed'[k] \in 0..PosTTL
             /\ changed'[k] = IF changed[k] < PosTTL THEN changed[k] + 1 ELSE PosTTL
  <2>1. changed[k] \in 0..PosTTL
    BY DEF Inv, TypeOK
  <2>2. changed'[k] = IF changed[k] < PosTTL THEN changed[k] + 1 ELSE PosTTL
    BY <1>1 DEF AgedItems
  <2> QED BY <2>1, <2>2, CacheAssumption
<1>5. changed' \in [Keys -> 0..PosTTL]
  BY <1>1, <1>4 DEF AgedItems
<1>6. /\ call' \in Calls
      /\ call'.active = call.active /\ call'.key = call.key /\ call'.response = call.response
      /\ call.active => call'.waited = call.waited + 1
  BY <1>1, AgedIsCall DEF Inv, TypeOK
<1>7. TypeOK'
  BY <1>1, <1>2, <1>3, <1>5, <1>6 DEF Inv, TypeOK
<1>8. DatedAnswer'
  <2> SUFFICES ASSUME call.active, call.response.status = "found",
                      changed[call.key] <= call.waited
               PROVE  changed'[call.key] <= call'.waited
    BY <1>1, <1>6 DEF Inv, DatedAnswer
  <2>1. call.key \in Keys /\ call.waited \in Nat /\ call'.waited = call.waited + 1
    BY <1>6, CallShape DEF Inv, TypeOK
  <2> QED BY <2>1, <1>4, CacheAssumption
<1>9. ASSUME NEW k \in DOMAIN cache, ~cache'[k].failed
      PROVE  \/ library'[k] = Found(cache'[k].sources)
             \/ changed'[k] + cache'[k].ttl <= PosTTL
  <2>1. cache[k].ttl \in Nat /\ cache[k].ttl <= PosTTL
    BY <1>3, <1>9, EntryShape DEF Inv, TypeOK
  <2>2. library[k] = Found(cache[k].sources) \/ changed[k] + cache[k].ttl <= PosTTL
    BY <1>3, <1>9 DEF Inv, DatedEntries
  <2>3. CASE library[k] = Found(cache[k].sources)
    BY <1>1, <1>3, <2>3
  <2>4. CASE changed[k] + cache[k].ttl <= PosTTL
    BY <1>3, <1>4, <2>1, <2>4, CacheAssumption
  <2> QED BY <2>2, <2>3, <2>4
<1>10. DatedEntries'
  BY <1>2, <1>9 DEF DatedEntries
<1> QED BY <1>7, <1>8, <1>10 DEF Inv

LEMMA NextInv == Inv /\ [Next]_vars => Inv'
<1> SUFFICES ASSUME Inv, [Next]_vars PROVE Inv'
  OBVIOUS
<1>1. CASE Lookup
  BY <1>1, LookupInv DEF Lookup
<1>2. CASE FetchSucceeds \/ FetchFails
  BY <1>2, StoresInv
<1>3. CASE FetchAbandoned
  BY <1>3, AbandonedInv
<1>4. CASE PruneCache
  BY <1>4, PruneCacheInv
<1>5. CASE PlexAnswers \/ RequestErrs \/ RequestTimesOut
  BY <1>5, AnswersInv
<1>6. CASE Edit
  BY <1>6, EditInv DEF Edit
<1>7. CASE Tick
  BY <1>7, TickInv
<1>8. CASE UNCHANGED vars
  BY <1>8 DEF vars, Inv, TypeOK, DatedAnswer, DatedEntries
<1> QED BY <1>1, <1>2, <1>3, <1>4, <1>5, <1>6, <1>7, <1>8 DEF Next

\* The bound holds by itself: only a store adds an entry, and only one.
LEMMA FiniteInv == FiniteCache /\ [Next]_vars => FiniteCache'
<1> SUFFICES ASSUME FiniteCache, [Next]_vars PROVE FiniteCache'
  OBVIOUS
<1>1. CASE FetchSucceeds \/ FetchFails
  BY <1>1, StoreBounded DEF FetchSucceeds, FetchFails
<1>2. CASE PruneCache
  BY <1>2, SweptKeeps, FS_Subset, FS_CardinalityType, CacheAssumption
     DEF PruneCache, FiniteCache, CacheIsBounded
<1>3. CASE Tick
  BY <1>3 DEF Tick, AgedCache, FiniteCache, CacheIsBounded
<1>4. CASE UNCHANGED cache
  BY <1>4 DEF FiniteCache, CacheIsBounded
<1> QED BY <1>1, <1>2, <1>3, <1>4
        DEF Next, Lookup, UseCached, StartFetch, FetchAbandoned, PlexAnswers, RequestErrs,
            RequestTimesOut, Edit, EditLibrary, vars

LEMMA InvServesRecent == Inv => ServedIsRecent
<1> SUFFICES ASSUME Inv, NEW key \in Keys, NEW media \in MediaIDs \cup {NoID},
                    Usable(key, media), ~cache[key].failed
             PROVE  library[key] = Found(cache[key].sources) \/ changed[key] < PosTTL
  BY DEF ServedIsRecent
<1>1. key \in DOMAIN cache /\ cache[key].ttl > 0
  BY DEF Usable, Fresh
<1>2. cache[key].ttl \in Nat /\ changed[key] \in 0..PosTTL
  BY <1>1, EntryShape DEF Inv, TypeOK
<1>3. library[key] = Found(cache[key].sources) \/ changed[key] + cache[key].ttl <= PosTTL
  BY <1>1 DEF Inv, DatedEntries
<1> QED BY <1>1, <1>2, <1>3, CacheAssumption

-----------------------------------------------------------------------------
(* The failures.                                                            *)

\* What a remembered failure has left to live and its age add up to the
\* lifetime of a failure, or to as much less as the request lasted.
FailuresDated ==
  /\ sinceFailure \in [Keys -> 0..NegTTL]
  /\ \A key \in Keys :
       sinceFailure[key] < NegTTL - RequestMax =>
         /\ key \in DOMAIN cache
         /\ cache[key].failed
         /\ sinceFailure[key] + cache[key].ttl >= NegTTL - RequestMax
  /\ \A key \in DOMAIN cache :
       cache[key].failed /\ cache[key].ttl > 0 => sinceFailure[key] + cache[key].ttl <= NegTTL

FailuresInv == Inv /\ FailuresDated

\* The failures of one key in the next state, for the steps that are not a store.
DatedNext(key) ==
  /\ sinceFailure'[key] \in 0..NegTTL
  /\ sinceFailure'[key] < NegTTL - RequestMax =>
       /\ key \in DOMAIN cache'
       /\ cache'[key].failed
       /\ sinceFailure'[key] + cache'[key].ttl >= NegTTL - RequestMax
  /\ key \in DOMAIN cache' /\ cache'[key].failed /\ cache'[key].ttl > 0 =>
       sinceFailure'[key] + cache'[key].ttl <= NegTTL

LEMMA DatedByKey ==
  ASSUME sinceFailure' = [key \in Keys |-> sinceFailure'[key]], TypeOK',
         \A key \in Keys : DatedNext(key)
  PROVE  FailuresDated'
  BY DEF DatedNext, FailuresDated, TypeOK

\* Before a store, what is known of a key.
LEMMA DatedNow ==
  ASSUME FailuresInv, NEW key \in Keys
  PROVE  /\ sinceFailure[key] \in 0..NegTTL
         /\ key \in DOMAIN cache => cache[key].ttl \in Nat
         /\ sinceFailure[key] < NegTTL - RequestMax =>
              /\ key \in DOMAIN cache /\ cache[key].failed /\ Fresh(key)
              /\ sinceFailure[key] + cache[key].ttl >= NegTTL - RequestMax
         /\ key \in DOMAIN cache /\ cache[key].failed /\ cache[key].ttl > 0 =>
              sinceFailure[key] + cache[key].ttl <= NegTTL
<1>1. sinceFailure[key] \in 0..NegTTL
  BY DEF FailuresInv, FailuresDated
<1>2. key \in DOMAIN cache => cache[key].ttl \in Nat
  BY EntryShape DEF FailuresInv, Inv, TypeOK
<1>3. sinceFailure[key] < NegTTL - RequestMax =>
        /\ key \in DOMAIN cache /\ cache[key].failed
        /\ sinceFailure[key] + cache[key].ttl >= NegTTL - RequestMax
  BY DEF FailuresInv, FailuresDated
<1>4. sinceFailure[key] < NegTTL - RequestMax => Fresh(key)
  BY <1>1, <1>2, <1>3, CacheAssumption DEF Fresh
<1>5. key \in DOMAIN cache /\ cache[key].failed /\ cache[key].ttl > 0 =>
        sinceFailure[key] + cache[key].ttl <= NegTTL
  BY DEF FailuresInv, FailuresDated
<1> QED BY <1>1, <1>2, <1>3, <1>4, <1>5

\* A store of another key keeps what a failure is remembered by, or the key is
\* among those it evicted.
LEMMA StoreDates ==
  ASSUME FailuresInv, NEW entry, Store(call.key, entry), NEW key \in Keys, key # call.key,
         sinceFailure'[key] = IF key \in Evicted THEN NegTTL ELSE sinceFailure[key]
  PROVE  DatedNext(key)
<1>1. /\ key \in DOMAIN cache' <=> key \in DOMAIN WithRoom
      /\ key \in DOMAIN cache' => key \in DOMAIN cache /\ cache'[key] = cache[key]
  BY RoomKeeps DEF Store
<1>2. CASE key \in Evicted
  <2>1. key \notin DOMAIN cache' /\ sinceFailure'[key] = NegTTL
    BY <1>1, <1>2 DEF Evicted
  <2> QED BY <2>1, CacheAssumption DEF DatedNext
<1>3. CASE key \notin Evicted
  <2>1. sinceFailure'[key] = sinceFailure[key]
    BY <1>3
  <2>2. Fresh(key) => key \in DOMAIN cache'
    BY <1>1, <1>3 DEF Evicted, Fresh
  <2> QED BY <1>1, <2>1, <2>2, DatedNow DEF DatedNext
<1> QED BY <1>2, <1>3

\* The failure itself is stored with what the request has left of its lifetime.
LEMMA FailureDates ==
  ASSUME FailuresInv, call.active, Store(call.key, FailedEntry), sinceFailure'[call.key] = 0
  PROVE  DatedNext(call.key)
<1>1. call.key \in DOMAIN cache' /\ cache'[call.key] = FailedEntry
  BY DEF Store
<1>2. FailedEntry.failed /\ FailedEntry.ttl = LifeLeft(NegTTL)
  BY DEF FailedEntry
<1>3. LifeLeft(NegTTL) \in 0..NegTTL /\ LifeLeft(NegTTL) >= NegTTL - RequestMax
  <2>1. call.waited \in Nat /\ call.waited <= RequestMax
    BY CallShape DEF FailuresInv, Inv, TypeOK
  <2> QED BY <2>1, CacheAssumption DEF LifeLeft
<1> QED BY <1>1, <1>2, <1>3, CacheAssumption DEF DatedNext

LEMMA SuccessDates ==
  ASSUME FailuresInv, Store(call.key, FoundEntry), sinceFailure'[call.key] = NegTTL
  PROVE  DatedNext(call.key)
<1>1. cache'[call.key] = FoundEntry /\ ~FoundEntry.failed
  BY DEF Store, FoundEntry
<1> QED BY <1>1, CacheAssumption DEF DatedNext

\* As a failure ages, its entry does.
LEMMA TickDates ==
  ASSUME FailuresInv, Tick, NEW key \in Keys, sinceFailure'[key] = Later(sinceFailure[key])
  PROVE  DatedNext(key)
<1>1. /\ DOMAIN cache' = DOMAIN cache
      /\ key \in DOMAIN cache =>
           /\ cache'[key].failed = cache[key].failed
           /\ cache'[key].ttl = IF cache[key].ttl > 0 THEN cache[key].ttl - 1 ELSE 0
  BY AgedEntry DEF Tick, AgedCache, FailuresInv, Inv, TypeOK
<1>2. /\ sinceFailure[key] \in 0..NegTTL
      /\ sinceFailure'[key] = IF sinceFailure[key] < NegTTL THEN sinceFailure[key] + 1 ELSE NegTTL
  BY DatedNow DEF Later
<1>3. sinceFailure'[key] \in 0..NegTTL
  BY <1>2, CacheAssumption
<1>4. ASSUME sinceFailure'[key] < NegTTL - RequestMax
      PROVE  /\ key \in DOMAIN cache' /\ cache'[key].failed
             /\ sinceFailure'[key] + cache'[key].ttl >= NegTTL - RequestMax
  <2>1. sinceFailure[key] < NegTTL - RequestMax /\ sinceFailure'[key] = sinceFailure[key] + 1
    BY <1>2, <1>4, CacheAssumption
  <2>2. /\ key \in DOMAIN cache /\ cache[key].failed /\ cache[key].ttl \in Nat
        /\ sinceFailure[key] + cache[key].ttl >= NegTTL - RequestMax
    BY <2>1, DatedNow
  <2>3. cache[key].ttl > 0 /\ cache'[key].ttl = cache[key].ttl - 1
    BY <1>1, <1>2, <2>1, <2>2, <1>4, CacheAssumption
  <2>4. sinceFailure'[key] + cache'[key].ttl = sinceFailure[key] + cache[key].ttl
    BY <1>2, <2>1, <2>2, <2>3
  <2> QED BY <1>1, <2>2, <2>3, <2>4
<1>5. ASSUME key \in DOMAIN cache', cache'[key].failed, cache'[key].ttl > 0
      PROVE  sinceFailure'[key] + cache'[key].ttl <= NegTTL
  <2>1. cache[key].ttl \in Nat /\ cache[key].ttl > 0 /\ cache'[key].ttl = cache[key].ttl - 1
    BY <1>1, <1>5, DatedNow
  <2>2. sinceFailure[key] + cache[key].ttl <= NegTTL
    BY <1>1, <1>5, <2>1, DatedNow
  <2> QED BY <1>2, <2>1, <2>2, CacheAssumption
<1> QED BY <1>3, <1>4, <1>5 DEF DatedNext

\* No other step touches a failure that has anything left to live.
LEMMA OtherDates ==
  ASSUME FailuresInv, NEW key \in Keys, sinceFailure'[key] = sinceFailure[key],
         cache' = cache \/ cache' = Swept
  PROVE  DatedNext(key)
<1>1. /\ key \in DOMAIN cache' => key \in DOMAIN cache /\ cache'[key] = cache[key]
      /\ Fresh(key) => key \in DOMAIN cache'
  BY DEF Swept, Fresh
<1> QED BY <1>1, DatedNow DEF DatedNext

LEMMA FailuresInit == HistoryInit => FailuresInv
<1> SUFFICES ASSUME HistoryInit PROVE FailuresInv
  OBVIOUS
<1>1. Inv /\ DOMAIN cache = {}
  BY InitInv DEF HistoryInit, Init
<1>2. NegTTL \in 0..NegTTL /\ ~(NegTTL < NegTTL - RequestMax)
  BY CacheAssumption
<1> QED BY <1>1, <1>2 DEF HistoryInit, FailuresInv, FailuresDated

LEMMA FailuresNext == FailuresInv /\ [HistoryNext]_historyVars => FailuresInv'
<1> SUFFICES ASSUME FailuresInv, [HistoryNext]_historyVars PROVE FailuresInv'
  OBVIOUS
<1>1. Inv'
  BY NextInv DEF FailuresInv, HistoryNext, historyVars
<1>2. CASE HistoryNext
  <2>1. sinceFailure' = [key \in Keys |-> sinceFailure'[key]]
    BY <1>2 DEF HistoryNext
  <2>2. ASSUME NEW key \in Keys PROVE DatedNext(key)
    <3>1. sinceFailure'[key] =
            IF FetchFails /\ key = call.key THEN 0
            ELSE IF FetchSucceeds /\ key = call.key THEN NegTTL
            ELSE IF (FetchFails \/ FetchSucceeds) /\ key \in Evicted THEN NegTTL
            ELSE IF Tick THEN Later(sinceFailure[key])
            ELSE sinceFailure[key]
      BY <1>2 DEF HistoryNext
    <3>2. (FetchFails \/ FetchSucceeds) => ~Tick
      <4>1. (FetchFails \/ FetchSucceeds) => call.active /\ ~call'.active
        BY NoCallIsCall DEF FetchFails, FetchSucceeds
      <4>2. Tick /\ call.active => call'.active
        BY AgedIsCall DEF Tick, FailuresInv, Inv, TypeOK
      <4> QED BY <4>1, <4>2
    <3>3. CASE FetchFails
      <4>1. call.active /\ Store(call.key, FailedEntry)
        BY <3>3 DEF FetchFails, FailedEntry
      <4> QED BY <3>1, <3>2, <3>3, <4>1, FailureDates, StoreDates
    <3>4. CASE FetchSucceeds /\ ~FetchFails
      <4>1. Store(call.key, FoundEntry)
        BY <3>4 DEF FetchSucceeds, FoundEntry
      <4> QED BY <3>1, <3>2, <3>4, <4>1, SuccessDates, StoreDates
    <3>5. CASE Tick
      BY <3>1, <3>2, <3>5, TickDates
    <3>6. CASE ~FetchFails /\ ~FetchSucceeds /\ ~Tick
      <4>1. sinceFailure'[key] = sinceFailure[key]
        BY <3>1, <3>6
      <4>2. cache' = cache \/ cache' = Swept
        BY <1>2, <3>6
           DEF HistoryNext, Next, Lookup, UseCached, StartFetch, FetchAbandoned, PruneCache,
               PlexAnswers, RequestErrs, RequestTimesOut, Edit, EditLibrary
      <4> QED BY <4>1, <4>2, OtherDates
    <3> QED BY <3>3, <3>4, <3>5, <3>6
  <2> QED BY <1>1, <2>1, <2>2, DatedByKey DEF FailuresInv, Inv
<1>3. CASE UNCHANGED historyVars
  BY <1>1, <1>3 DEF historyVars, vars, FailuresInv, FailuresDated
<1> QED BY <1>2, <1>3

LEMMA FailuresRemembered == FailuresInv => FailureIsRemembered
  BY DatedNow DEF FailureIsRemembered, Usable

LEMMA FailuresForgotten == FailuresInv => FailureIsForgotten
<1> SUFFICES ASSUME FailuresInv, NEW key \in DOMAIN cache, Fresh(key), cache[key].failed
             PROVE  sinceFailure[key] < NegTTL
  BY DEF FailureIsForgotten
<1>1. key \in Keys
  BY DEF FailuresInv, Inv, TypeOK
<1> QED BY <1>1, DatedNow, CacheAssumption DEF Fresh

-----------------------------------------------------------------------------

\* The cache, the library and the request keep the shapes the code gives
\* them: a remembered failure holds nothing, a lifetime never grows, and no
\* request outlasts its timeout (runner.go:24-35, 341-371).
THEOREM TypeCorrect == Spec => []TypeOK
<1>1. Spec => []Inv
  BY InitInv, NextInv, PTL DEF Spec
<1> QED BY <1>1, PTL DEF Inv

\* A store always finds room and takes one place of it (runner.go:373-383).
THEOREM Bounded == Spec => []CacheIsBounded
<1>1. Init => FiniteCache
  BY FS_EmptySet, CacheAssumption DEF Init, FiniteCache, CacheIsBounded
<1>2. Spec => []FiniteCache
  BY <1>1, FiniteInv, PTL DEF Spec
<1> QED BY <1>2, PTL DEF FiniteCache

\* Because a lifetime starts before the request does, no edit of an item stays
\* unseen for longer than a lifetime (runner.go:341-353, 365).
THEOREM Recent == Spec => []ServedIsRecent
<1>1. Spec => []Inv
  BY InitInv, NextInv, PTL DEF Spec
<1> QED BY <1>1, InvServesRecent, PTL
\* A deleted item or a stalled endpoint does not cost one request per poll: a
\* failure answers every lookup for the negative lifetime less what the
\* request took (runner.go:16-18, 354-363).
THEOREM Remembered == HistorySpec => []FailureIsRemembered
<1>1. HistorySpec => []FailuresInv
  BY FailuresInit, FailuresNext, PTL DEF HistorySpec
<1> QED BY <1>1, FailuresRemembered, PTL

\* And no longer than the negative lifetime, so that an item that recovers is
\* looked at again (runner.go:345-348, 361).
THEOREM Forgotten == HistorySpec => []FailureIsForgotten
<1>1. HistorySpec => []FailuresInv
  BY FailuresInit, FailuresNext, PTL DEF HistorySpec
<1> QED BY <1>1, FailuresForgotten, PTL
=============================================================================
