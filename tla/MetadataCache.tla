--------------------------- MODULE MetadataCache ----------------------------
(***************************************************************************)
(* The lookup of a library item's versions (Runner.sources, store,         *)
(* pruneCache and sweepCacheLocked in internal/guard/runner.go, with       *)
(* Client.Metadata below them), the cache in front of it, and the library  *)
(* it reads.  One lookup runs at a time, on the poll loop's goroutine.     *)
(*                                                                         *)
(* Time is counted down: an entry carries the ticks it has left to live    *)
(* (expires - now in the code), so no clock is needed and a state does not *)
(* grow with time.                                                         *)
(***************************************************************************)
EXTENDS Integers, FiniteSets, Classify

CONSTANTS Keys,       \* rating keys
          MediaIDs,   \* media ids a session can carry (NoID is "none selected")
          Listings,   \* the versions an item can list
          PosTTL,     \* metadataCacheTTL
          NegTTL,     \* metadataNegativeTTL
          CacheMax,   \* metadataCacheMax
          RequestMax  \* the HTTP timeout: the longest a request lasts

ASSUME CacheAssumption ==
  /\ PosTTL \in Nat /\ NegTTL \in Nat
  /\ CacheMax \in Nat \ {0}
  /\ RequestMax \in Nat /\ RequestMax < PosTTL

VARIABLES library,  \* what Plex would answer for each key now
          changed,  \* ticks since the item was last edited, PosTTL standing for longer
          cache,    \* the cached entries, by key
          call,     \* the lookup that is waiting for Plex, if any
          reply     \* what the last lookup returned

vars == <<library, changed, cache, call, reply>>

-----------------------------------------------------------------------------

Response(status, sources) == [status |-> status, sources |-> sources]
Pending == Response("pending", <<>>)
Failure == Response("failed", <<>>)
Found(sources) == Response("found", sources)

\* What Plex would answer for an item, and an answer that may be on its way.
Items == {Failure} \cup {Found(l) : l \in Listings}
Responses == Items \cup {Pending}

\* An entry remembers a failure, or versions and the media ids they lack.
Failures == [failed: {TRUE}, sources: {<<>>}, missing: {{}}, ttl: 0..NegTTL]
Successes == [failed: {FALSE}, sources: Listings, missing: SUBSET MediaIDs, ttl: 0..PosTTL]
Entries == Failures \cup Successes

NoCall == [active |-> FALSE, key |-> "", media |-> NoID, waited |-> 0, response |-> Failure]
Fetching(key, media) ==
  [active |-> TRUE, key |-> key, media |-> media, waited |-> 0, response |-> Pending]
Calls == [active: BOOLEAN, key: Keys \cup {NoCall.key}, media: MediaIDs \cup {NoID},
          waited: 0..RequestMax, response: Responses]

\* Mutant of Fresh: an entry that was not swept yet is used.
FreshWhileCached(key) == key \in DOMAIN cache

Fresh(key) == key \in DOMAIN cache /\ cache[key].ttl > 0

\* The cache answers for the key and the media id: with a remembered failure,
\* or with versions that hold the id or are known to lack it.
Usable(key, media) ==
  /\ Fresh(key)
  /\ \/ cache[key].failed
     \/ media = NoID
     \/ media \in cache[key].missing
     \/ HasMedia(cache[key].sources, media)

Init ==
  /\ library \in [Keys -> Items]
  /\ changed = [key \in Keys |-> PosTTL]
  /\ cache = << >>
  /\ call = NoCall
  /\ reply = Failure

-----------------------------------------------------------------------------
(* The lookup.                                                              *)

\* A fresh entry answers without a request.
UseCached(key, media) ==
  /\ ~call.active
  /\ Usable(key, media)
  /\ reply' = IF cache[key].failed THEN Failure ELSE Found(cache[key].sources)
  /\ UNCHANGED <<library, changed, cache, call>>

\* Otherwise, or when the entry does not know the media id, Plex is asked.
StartFetch(key, media) ==
  /\ ~call.active
  /\ ~Usable(key, media)
  /\ call' = Fetching(key, media)
  /\ UNCHANGED <<library, changed, cache, reply>>

\* Mutant of LifeLeft: the lifetime is counted from the answer.
LifeFromAnswer(ttl) == ttl

\* What is left, when the request returns, of a lifetime counted from the lookup.
LifeLeft(ttl) == IF ttl > call.waited THEN ttl - call.waited ELSE 0

Swept == [key \in {k \in DOMAIN cache : Fresh(k)} |-> cache[key]]

\* Mutant of WithRoom: a full cache is swept and never emptied.
WithRoomSwept == IF Cardinality(DOMAIN cache) < CacheMax THEN cache ELSE Swept

\* Room for one more entry: a full cache is swept, and emptied when that is
\* not enough.
WithRoom ==
  IF Cardinality(DOMAIN cache) < CacheMax THEN cache
  ELSE IF Cardinality(DOMAIN Swept) < CacheMax THEN Swept
  ELSE << >>

Store(key, entry) ==
  cache' = [k \in DOMAIN WithRoom \cup {key} |-> IF k = key THEN entry ELSE WithRoom[k]]

\* Mutant of FetchSucceeds: the absence of a media id is noted as a missing id.
FetchNotesNoID ==
  /\ call.active /\ call.response.status = "found"
  /\ Store(call.key,
       [failed  |-> FALSE,
        sources |-> call.response.sources,
        missing |-> IF HasMedia(call.response.sources, call.media) THEN {} ELSE {call.media},
        ttl     |-> LifeLeft(PosTTL)])
  /\ reply' = call.response
  /\ call' = NoCall
  /\ UNCHANGED <<library, changed>>

\* The versions arrive: they replace the entry, and a media id that was asked
\* for and is not among them is noted as missing.
FetchSucceeds ==
  /\ call.active /\ call.response.status = "found"
  /\ Store(call.key,
       [failed  |-> FALSE,
        sources |-> call.response.sources,
        missing |-> IF call.media = NoID \/ HasMedia(call.response.sources, call.media)
                    THEN {} ELSE {call.media},
        ttl     |-> LifeLeft(PosTTL)])
  /\ reply' = call.response
  /\ call' = NoCall
  /\ UNCHANGED <<library, changed>>

\* Mutants of FetchFails: the failure is not stored, or for as long as a success.
FetchFailsUnstored ==
  /\ call.active /\ call.response = Failure
  /\ reply' = Failure
  /\ call' = NoCall
  /\ UNCHANGED <<library, changed, cache>>

FetchFailsForLong ==
  /\ call.active /\ call.response = Failure
  /\ Store(call.key,
       [failed |-> TRUE, sources |-> <<>>, missing |-> {}, ttl |-> LifeLeft(PosTTL)])
  /\ reply' = Failure
  /\ call' = NoCall
  /\ UNCHANGED <<library, changed>>

\* The request fails while the poll's context is live: that is remembered.
FetchFails ==
  /\ call.active /\ call.response = Failure
  /\ Store(call.key,
       [failed |-> TRUE, sources |-> <<>>, missing |-> {}, ttl |-> LifeLeft(NegTTL)])
  /\ reply' = Failure
  /\ call' = NoCall
  /\ UNCHANGED <<library, changed>>

\* The poll's deadline passes or the service stops: the request ends with an
\* error that says nothing of the item, and nothing is stored.
FetchAbandoned ==
  /\ call.active
  /\ reply' = Failure
  /\ call' = NoCall
  /\ UNCHANGED <<library, changed, cache>>

\* The end of a completed poll drops the expired entries.
PruneCache ==
  /\ ~call.active
  /\ cache' = Swept
  /\ UNCHANGED <<library, changed, call, reply>>

-----------------------------------------------------------------------------
(* Plex, the library's administrator and time.                              *)

\* Plex reads the item.  Its answer may still take time to arrive.
PlexAnswers ==
  /\ call.active /\ call.response = Pending
  /\ call' = [call EXCEPT !.response = library[call.key]]
  /\ UNCHANGED <<library, changed, cache, reply>>

\* Plex errs, or the request runs into its timeout with no answer in hand.
RequestErrs ==
  /\ call.active /\ call.response = Pending
  /\ call' = [call EXCEPT !.response = Failure]
  /\ UNCHANGED <<library, changed, cache, reply>>

RequestTimesOut ==
  /\ call.active /\ call.waited = RequestMax
  /\ call' = [call EXCEPT !.response = Failure]
  /\ UNCHANGED <<library, changed, cache, reply>>

\* An item is edited, re-scanned or removed.
EditLibrary(key, item) ==
  /\ library[key] # item
  /\ library' = [library EXCEPT ![key] = item]
  /\ changed' = [changed EXCEPT ![key] = 0]
  /\ UNCHANGED <<cache, call, reply>>

AgedCache == [key \in DOMAIN cache |->
               [cache[key] EXCEPT !.ttl = IF @ > 0 THEN @ - 1 ELSE 0]]
AgedItems == [key \in Keys |-> IF changed[key] < PosTTL THEN changed[key] + 1 ELSE PosTTL]

Tick ==
  /\ call.active => call.waited < RequestMax
  /\ cache' = AgedCache
  /\ changed' = AgedItems
  /\ call' = IF call.active THEN [call EXCEPT !.waited = @ + 1] ELSE call
  /\ UNCHANGED <<library, reply>>

-----------------------------------------------------------------------------

Lookup == \E key \in Keys, media \in MediaIDs \cup {NoID} :
            UseCached(key, media) \/ StartFetch(key, media)

Edit == \E key \in Keys, item \in Items :
          EditLibrary(key, item)

Next ==
  \/ Lookup
  \/ FetchSucceeds \/ FetchFails \/ FetchAbandoned
  \/ PruneCache
  \/ PlexAnswers \/ RequestErrs \/ RequestTimesOut
  \/ Edit
  \/ Tick

Spec == Init /\ [][Next]_vars

-----------------------------------------------------------------------------

TypeOK ==
  /\ library \in [Keys -> Items]
  /\ changed \in [Keys -> 0..PosTTL]
  /\ DOMAIN cache \subseteq Keys
  /\ \A key \in DOMAIN cache : cache[key] \in Entries
  /\ call \in Calls
  /\ call.active => call.key \in Keys
  /\ reply \in Items

\* The cache never holds more entries than its bound, whatever expires or
\* does not between two stores (runner.go:21-22, 373-383).
CacheIsBounded == Cardinality(DOMAIN cache) <= CacheMax

\* The versions a lookup would be given now are those the library lists now,
\* or the item was edited less than a cache lifetime ago: no edit stays
\* unseen longer, however slowly Plex answered when the entry was filled
\* (runner.go:13-14, 341-353, 365).
ServedIsRecent ==
  \A key \in Keys, media \in MediaIDs \cup {NoID} :
    Usable(key, media) /\ ~cache[key].failed =>
      \/ library[key] = Found(cache[key].sources)
      \/ changed[key] < PosTTL
=============================================================================
