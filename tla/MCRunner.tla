------------------------------ MODULE MCRunner ------------------------------
(***************************************************************************)
(* Runner for TLC: a few sessions of two items, and the documents that     *)
(* list them.                                                              *)
(***************************************************************************)
EXTENDS RunnerHistory

Version(id, stem) == [id |-> id, width |-> 1920, height |-> 1080,
                      label |-> [stem |-> stem, scan |-> ""]]

UHD == <<Version("a", "4k")>>
Both == <<Version("a", "4k"), Version("b", "1080")>>
HD == <<Version("b", "1080")>>

Video(sid, key, item, transcode, media) ==
  [sid |-> sid, sessionKey |-> key, ratingKey |-> item, kind |-> "Video", live |-> FALSE,
   transcode |-> transcode, media |-> media]

Playing(id) == <<[id |-> id, selected |-> TRUE]>>

\* A 4K transcode, the same session without a Session id, a direct play, and a
\* transcode that names no library item.
One == Video("s1", "7", "i1", "transcode", Playing("a"))
Anonymous == Video(NoID, "8", "i1", "transcode", Playing("a"))
Direct == Video("s2", "9", "i1", NoTranscode, Playing("a"))

Nameless == Video("s2", "9", NoID, "transcode", Playing("a"))

MCUHDOnly == {UHD}
MCSwitchDocuments == {<<One>>, <<Anonymous, One>>, <<Direct, Nameless, One, One>>}

\* A session that does not say which version of the item it plays, and a
\* transcode of another item.
Unselected == Video("s2", "9", "i1", "transcode", <<>>)
Other == Video("s3", "9", "i2", "transcode", Playing("a"))

MCListings == {UHD, Both, HD}
MCEvidenceDocuments == {<<One>>, <<Unselected, Other>>}

\* For liveness: the transcode of item i1 comes after one of an item i2 that
\* Plex need never answer for.
MCLiveDocuments == {<<One>>, <<Other, One>>}

LiveSpec == PastSpec /\ ProcessFairness /\ PlexFairness("i1")

\* A 4K transcode that goes on is attempted again and again in enforce mode,
\* as long as its item stays in the library and Plex answers now and then:
\* neither failed polls and backoff, nor stalled lookups of the sessions
\* before it, nor a stale cache entry shut it out for ever
\* (runner.go:158-167, 258-326).
AttemptedAgain ==
  library["i1"].status = "found" => []<>(sinceAttempt["s1"] = 0 \/ stopping)
=============================================================================
