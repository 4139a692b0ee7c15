----------------------------- MODULE MCClassify -----------------------------
(***************************************************************************)
(* Verdicts for TLC: the frames at every threshold, the views Plex can     *)
(* give of a session, and documents written in every way that one of their *)
(* readers treats differently.                                             *)
(***************************************************************************)
EXTENDS Verdicts

\* The frames that decide: UHD and its crops, one line or one column less of
\* each, the full-frame 3D rips of 1080p, frames larger than UHD on either side
\* of a threshold, and frames that only a label calls 4K.
MCFrames == {<<3840, 2160>>, <<3840, 1600>>, <<2880, 2160>>, <<3839, 2159>>,
             <<3840, 1599>>, <<2879, 2160>>, <<3840, 1080>>, <<1920, 2160>>, <<1920, 1080>>,
             <<4096, 1600>>, <<7680, 1599>>}
MCFullHD == [stem |-> "1080", scan |-> "p"]
MCQualities ==
  {[width |-> f[1], height |-> f[2], label |-> MCFullHD] : f \in MCFrames}
  \cup {[width |-> 1920, height |-> 1080, label |-> l] :
           l \in {[stem |-> "4k", scan |-> ""], [stem |-> "2160", scan |-> "p"],
                 [stem |-> "uhd", scan |-> ""]}}

\* The versions that are added: 4K by frame, 4K by label, and not 4K.
MCAdded ==
  {q \in MCQualities :
     <<q.width, q.height, q.label.stem>> \in {<<3840, 2160, "1080">>, <<1920, 1080, "4k">>,
                                              <<1920, 1080, "1080">>}}

\* No Media element, one, or two of which the first is not marked.
MCElements == [id: MediaIDs, selected: BOOLEAN]
MCMedia == {<< >>} \cup {<<e>> : e \in MCElements}
           \cup {<<d, e>> : d \in [id: MediaIDs, selected: {FALSE}], e \in MCElements}

\* A video transcode in every view, and every other session in one.
MCSessions ==
  [kind: {"Video"}, live: {FALSE}, transcode: {"transcode"}, media: MCMedia]
  \cup [kind: {"Video", "Track"}, live: BOOLEAN, transcode: {NoTranscode, "copy", "transcode"},
        media: {<<[id |-> i, selected |-> TRUE]>> : i \in MediaIDs}]

\* The responses: a success, those just beyond it, and a transfer that fails.
MCSuccess == [status |-> 200, transfer |-> "complete"]
MCFailures ==
  [status: {300, 401}, transfer: {"complete"}]
  \cup [status: {299}, transfer: {"broken off", "too large"}]
MCBothSucceed == [sessions |-> MCSuccess, library |-> MCSuccess]
MCIntact == [sessions |-> "container", library |-> "container"]

MCWritings ==
  [session: {"plain", "padded"}, sizes: {"plain", "padded", "decimal", "garbled", "missing"},
   padIDs: {FALSE}, first: {1, 2}, bodies: {MCIntact}, responses: {MCBothSucceed}]
  \cup [session: {"capital"}, sizes: {"plain"}, padIDs: BOOLEAN, first: {0, 1},
        bodies: {MCIntact}, responses: {MCBothSucceed}]
  \cup [session: {"plain"}, sizes: {"plain"}, padIDs: {FALSE}, first: {1},
        responses: {MCBothSucceed},
        bodies: [sessions: {"container"}, library: {"blank", "cut off", "other root", "no item"}]
                \cup [sessions: {"blank", "cut off", "other root"}, library: {"container"}]]
  \cup [session: {"plain"}, sizes: {"plain"}, padIDs: {FALSE}, first: {1}, bodies: {MCIntact},
        responses: [sessions: {MCSuccess}, library: MCFailures]
                   \cup [sessions: MCFailures, library: {MCSuccess}]]
=============================================================================
