------------------------------ MODULE Classify ------------------------------
(***************************************************************************)
(* The classification of one session (internal/guard/classify.go and the   *)
(* parts of sessions.go and metadata.go it reads): Screen decides without  *)
(* I/O whether a session is a video transcode at all and which library     *)
(* version it plays, Judge decides with the library's versions whether     *)
(* the source is 4K.  All of it is pure, so it is modelled by operators.   *)
(*                                                                         *)
(* A session is a record                                                   *)
(*   [sid, sessionKey, ratingKey, kind, live, transcode, media]            *)
(* where transcode is the video decision of its TranscodeSession element   *)
(* (NoTranscode when the element is missing) and media is the sequence of  *)
(* its Media elements, [id, selected].  A library version is a record      *)
(*   [id, width, height, label]                                            *)
(* whose label has a stem ("4k", "2160", "1080", ...) and a scan letter    *)
(* ("p", "i" or none).                                                     *)
(***************************************************************************)
EXTENDS Integers, Sequences
Sets == INSTANCE FiniteSetsExt

NoTranscode == "no TranscodeSession element"
NoID == ""

UHDMinWidth == 3840
UHDMinHeightWide == 1600
UHDMinHeight == 2160
UHDMinWidthNarrow == 2880

\* Lower-casing, trimming and dropping the trailing scan letter leave the stem.
NormalizeResolution(label) == label.stem

\* Mutant of IsUHD: strict thresholds.
IsUHDStrictly(version) ==
  \/ NormalizeResolution(version.label) \in {"4k", "2160", "uhd"}
  \/ version.width > UHDMinWidth /\ version.height > UHDMinHeightWide
  \/ version.height > UHDMinHeight /\ version.width > UHDMinWidthNarrow

IsUHD(version) ==
  \/ NormalizeResolution(version.label) \in {"4k", "2160", "uhd"}
  \/ version.width >= UHDMinWidth /\ version.height >= UHDMinHeightWide
  \/ version.height >= UHDMinHeight /\ version.width >= UHDMinWidthNarrow

IsVideoTranscode(session) ==
  /\ session.kind = "Video"
  /\ session.transcode = "transcode"

\* The id of the first Media element marked selected, or of the only one.
SelectedMediaID(session) ==
  LET marked == {i \in DOMAIN session.media : session.media[i].selected}
  IN  IF marked # {} THEN session.media[Sets!Min(marked)].id
      ELSE IF Len(session.media) = 1 THEN session.media[1].id
      ELSE NoID

\* The first pass: not a candidate, or a candidate with the media id to match.
Screen(session) ==
  LET candidate == /\ session.kind = "Video"
                   /\ session.transcode # NoTranscode
                   /\ ~session.live
                   /\ IsVideoTranscode(session)
  IN  [candidate |-> candidate,
       terminate |-> FALSE,
       mediaID   |-> IF candidate THEN SelectedMediaID(session) ELSE NoID]

HasMedia(listing, id) == \E i \in DOMAIN listing : listing[i].id = id

\* Mutant of MatchedIsUHD: an id the item does not list falls back to all versions.
MatchedOrAllUHD(listing, id) ==
  \A i \in DOMAIN listing : listing[i].id = id \/ ~HasMedia(listing, id) => IsUHD(listing[i])

\* The verdict on the version that carries the session's media id: the first
\* one listed with it.  An id the item does not list is never acted on.
MatchedIsUHD(listing, id) ==
  LET matches == {i \in DOMAIN listing : listing[i].id = id}
  IN  matches # {} /\ IsUHD(listing[Sets!Min(matches)])

\* Mutant of AllUHD: one 4K version is conclusive.
AnyUHD(listing) == \E i \in DOMAIN listing : IsUHD(listing[i])

\* Without a media id, the item is judged by all its versions.
AllUHD(listing) == \A i \in DOMAIN listing : IsUHD(listing[i])

\* The second pass, with the library's versions of the item.
Judge(verdict, listing) ==
  [verdict EXCEPT !.terminate =
     /\ verdict.candidate
     /\ listing # <<>>
     /\ IF verdict.mediaID # NoID THEN MatchedIsUHD(listing, verdict.mediaID)
                                  ELSE AllUHD(listing)]
=============================================================================
