------------------------------ MODULE Verdicts ------------------------------
(***************************************************************************)
(* What the guard concludes about a session from the two documents Plex    *)
(* shows it (Screen, Judge, ParseSessions and ParseMetadataMedia together, *)
(* as Runner.Poll calls them).  The model knows what the guard can only    *)
(* infer: the version that is really being played.  A session starts on a  *)
(* version, the item may be edited while it plays (a version removed,      *)
(* added or replaced), and the guard classifies what the two documents     *)
(* show of it, in whatever way they are written.                           *)
(***************************************************************************)
EXTENDS Documents

CONSTANTS MediaIDs,    \* the ids of the versions
          Qualities,   \* frames and labels, [width, height, label]
          Added,       \* the qualities of the versions that are added
          Sessions,    \* what a session can look like, [kind, live, transcode, media]
          Writings,    \* how the two documents are written
          MaxVersions  \* bound on the versions of the item

\* The forms of the session's attributes and of the library's sizes; whether
\* the library pads its ids; how many versions come before a second item; and
\* what becomes of the two bodies, and of the two responses that carry them.
States == {"container", "blank", "cut off", "other root"}
Responses == [status: 100..599, transfer: {"complete", "broken off", "too large"}]
AllWritings ==
  [session: {"plain", "padded", "capital"},
   sizes: {"plain", "padded", "decimal", "garbled", "missing"},
   padIDs: BOOLEAN,
   first: Nat,
   bodies: [sessions: States, library: States \cup {"no item"}],
   responses: [sessions: Responses, library: Responses]]

\* Ids are not empty and have no white space of their own.
ASSUME VerdictsAssumption ==
  /\ NoID \notin MediaIDs
  /\ \A i, j \in MediaIDs : AsItStands(Value(i, "padded")) # j
  /\ \A q \in Qualities : q.width \in Nat /\ q.height \in Nat
  /\ Added \subseteq Qualities
  /\ \A s \in Sessions : s.live \in BOOLEAN /\ s.media \in Seq([id: MediaIDs, selected: BOOLEAN])
  /\ Writings \subseteq AllWritings
  /\ MaxVersions \in Nat \ {0}

VARIABLES playing,   \* the version the viewer really watches
          session,   \* what the sessions document shows of it, before it is written
          listing,   \* the versions the library lists for the item now
          writing,   \* how the two documents were written, NotWritten before they are
          verdict    \* the guard's verdict, or NoVerdict before it is given

vars == <<playing, session, listing, writing, verdict>>

NoVerdict == [candidate |-> FALSE, terminate |-> FALSE, mediaID |-> "none"]
NotWritten == "not written"

VersionsOf(qualities) ==
  {[id |-> i, width |-> q.width, height |-> q.height, label |-> q.label] :
     i \in MediaIDs, q \in qualities}

\* What Plex shows of a session that plays version v: a Media element that is
\* marked or the only one carries the version's id.
Shows(media, v) ==
  /\ \A i \in DOMAIN media : media[i].selected => media[i].id = v.id
  /\ Len(media) = 1 => media[1].id = v.id

-----------------------------------------------------------------------------
(* The two documents.                                                       *)

\* The element that shows session s, its attributes written in form f.
SessionElement(s, f) ==
  LET media == [i \in DOMAIN s.media |->
                  [id |-> Value(s.media[i].id, f),
                   selected |-> Value(IF s.media[i].selected THEN "1" ELSE "0", f)]]
      player == [id |-> Value("s", f)]
      children == IF s.transcode = NoTranscode THEN [Session |-> player]
                  ELSE [Session |-> player,
                        TranscodeSession |-> [videoDecision |-> Value(s.transcode, f)]]
      attrs == [ratingKey |-> Plain("item"), sessionKey |-> Plain("7"),
                live |-> Value(IF s.live THEN "true" ELSE "0", f)]
  IN  Element(s.kind, attrs, media, children)

\* The Media element of a version.
MediaElement(v, w) ==
  LET id == Value(v.id, IF w.padIDs THEN "padded" ELSE "plain")
  IN  IF w.sizes = "missing" THEN [id |-> id, videoResolution |-> Plain(v.label)]
      ELSE [id |-> id, videoResolution |-> Plain(v.label),
            width |-> Value(v.width, w.sizes), height |-> Value(v.height, w.sizes)]

\* The two bodies.  Media beyond the first ones stand in a second item.
SessionsBody(s, w) == Body(w.bodies.sessions, <<SessionElement(s, w.session)>>)
Item(media) == Element("Video", [ratingKey |-> Plain("item")], media, [x \in {} |-> x])
ItemsOf(versions, w) ==
  LET media == [i \in DOMAIN versions |-> MediaElement(versions[i], w)]
  IN  IF Len(media) <= w.first THEN <<Item(media)>>
      ELSE <<Item(SubSeq(media, 1, w.first)), Item(SubSeq(media, w.first + 1, Len(media)))>>
LibraryBody(versions, w) ==
  IF w.bodies.library = "no item" THEN Body("container", <<>>)
  ELSE Body(w.bodies.library, ItemsOf(versions, w))

Sent(r, body) == Response(r.status, r.transfer, body)

-----------------------------------------------------------------------------

Init ==
  /\ playing \in VersionsOf(Qualities)
  /\ session \in {s \in Sessions : Shows(s.media, playing)}
  /\ listing = <<playing>>
  /\ writing = NotWritten
  /\ verdict = NoVerdict

\* The library administrator adds a version to the item.
AddVersion ==
  /\ verdict = NoVerdict /\ Len(listing) < MaxVersions
  /\ \E v \in VersionsOf(Added) : ~HasMedia(listing, v.id) /\ listing' = Append(listing, v)
  /\ UNCHANGED <<playing, session, writing, verdict>>

\* The library administrator removes a version, the played one included.
RemoveVersion ==
  /\ verdict = NoVerdict
  /\ \E i \in DOMAIN listing : listing' = Seqs!RemoveAt(listing, i)
  /\ UNCHANGED <<playing, session, writing, verdict>>

\* The verdict on the one session of the document, by the two bodies.
Verdict(sessions, versions) ==
  IF ~sessions.ok THEN [NoVerdict EXCEPT !.mediaID = NoID]
  ELSE LET v == Screen(sessions.value[1])
       IN  IF v.candidate /\ versions.ok THEN Judge(v, versions.value) ELSE v

\* The guard parses both documents, screens the session and judges it.
Classify ==
  /\ verdict = NoVerdict
  /\ \E w \in Writings :
       /\ writing' = w
       /\ verdict' = Verdict(ParseSessions(Sent(w.responses.sessions, SessionsBody(session, w))),
                            ParseMetadataMedia(Sent(w.responses.library, LibraryBody(listing, w))))
  /\ UNCHANGED <<playing, session, listing>>

Next == AddVersion \/ RemoveVersion \/ Classify
Spec == Init /\ [][Next]_vars

-----------------------------------------------------------------------------
(* The reference: what 4K means, stated on the shape of the frame instead   *)
(* of by the thresholds of the code.                                        *)

\* A frame is UHD-sized when what of it fits into 3840x2160 has the columns of
\* UHD and is no wider than 2.40:1, or has the lines and is no narrower than 4:3.
Fitting(n, most) == IF n <= most THEN n ELSE most
UHDFrame(w, h) ==
  LET x == Fitting(w, 3840)
      y == Fitting(h, 2160)
  IN  \/ x = 3840 /\ 10 * x <= 24 * y
      \/ y = 2160 /\ 3 * x >= 4 * y

SaysUHD(v) == v.label.stem \in {"4k", "2160", "uhd"}
TrulyUHD(v) == SaysUHD(v) \/ UHDFrame(v.width, v.height)

\* Both responses succeed and their bodies are whole.
Succeeds(r) == r.status \in 200..299 /\ r.transfer = "complete"
Legible ==
  /\ writing.bodies = [sessions |-> "container", library |-> "container"]
  /\ Succeeds(writing.responses.sessions) /\ Succeeds(writing.responses.library)

Judged == verdict # NoVerdict
Listed == \E i \in DOMAIN listing : listing[i] = playing
Transcoding == session.kind = "Video" /\ ~session.live /\ session.transcode = "transcode"

\* A session is condemned only when the version being played is 4K, by a
\* definition of 4K stated on the frame's shape, as long as the item still
\* lists that version: whatever other versions were added or removed, however
\* little the sessions document says about which one is selected, and however
\* the documents are written; what cannot be read, or comes with a redirect or
\* an error, condemns nobody
\* (Judge, classify.go:102-157; decodeContainer, sessions.go:230-244; get,
\* plex.go:159-178).
CondemnedIsUHD ==
  Judged /\ verdict.terminate
    => Transcoding /\ Legible /\ (Listed => TrulyUHD(playing))

\* An item that no longer lists the media id of the session says nothing
\* about what is playing: such a session is left alone even when every
\* version the item lists now is 4K (classify.go:102-106).
VanishedVersionIsLeftAlone ==
  Judged /\ verdict.mediaID # NoID /\ ~HasMedia(listing, playing.id)
    => ~verdict.terminate

\* The other direction: a video transcode of a 4K version that the session
\* identifies and the item lists is condemned, whatever stands beside it and
\* whichever item of the document lists it; where the library gives no sizes
\* that can be read, the label decides alone.
IdentifiedUHDIsCondemned ==
  Judged /\ Transcoding /\ Listed /\ Legible /\ ~writing.padIDs
    /\ verdict.mediaID = playing.id
    => (verdict.terminate <=> IF writing.sizes \in {"garbled", "missing"}
                              THEN SaysUHD(playing) ELSE TrulyUHD(playing))
=============================================================================
