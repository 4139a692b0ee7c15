------------------------- MODULE MCMetadataMissing --------------------------
(***************************************************************************)
(* MetadataCache for TLC with one item that several sessions play, and the *)
(* history of the media ids a lookup did not find.                         *)
(***************************************************************************)
EXTENDS MetadataCache

VARIABLE sinceMissing  \* ticks since each id was looked up and not listed

mcVars == <<vars, sinceMissing>>

MCListing == {<<[id |-> "c", width |-> 3840, height |-> 2160,
                 label |-> [stem |-> "4k", scan |-> ""]]>>}

MCInit ==
  /\ Init
  /\ sinceMissing = [key \in Keys |-> [media \in MediaIDs |-> PosTTL]]

FoundMissing(key, media) ==
  /\ call.key = key /\ call.media = media
  /\ FetchSucceeds
  /\ ~HasMedia(call.response.sources, media)

Later(age) == IF age < PosTTL THEN age + 1 ELSE PosTTL

MCNext ==
  /\ Next
  /\ sinceMissing' =
       [key \in Keys |-> [media \in MediaIDs |->
          IF FoundMissing(key, media) THEN call.waited
          ELSE IF Tick THEN Later(sinceMissing[key][media])
          ELSE sinceMissing[key][media]]]

MCSpec == MCInit /\ [][MCNext]_mcVars

\* A media id that a lookup found missing is answered from the cache for the
\* lifetime of the listing: "missing records session media ids that were
\* looked up and not found in sources, so the item is not fetched again on
\* every poll" (runner.go:58-59).
MissingIDIsRemembered ==
  \A key \in Keys, media \in MediaIDs :
    sinceMissing[key][media] < PosTTL => Usable(key, media)
=============================================================================
