------------------------------ MODULE Documents ------------------------------
(***************************************************************************)
(* The two documents Plex answers with, and what the guard makes of them   *)
(* (internal/guard/plex.go, sessions.go and metadata.go): the response to  *)
(* a request, decodeContainer, ParseSessions and ParseMetadataMedia, as    *)
(* operators.                                                              *)
(*                                                                         *)
(* A response has a status and a body, which may break off or be larger    *)
(* than the guard reads.                                                   *)
(*                                                                         *)
(* A body is blank, cut off, of another root element, or a container of    *)
(* items.  An element is a record of its name, its attributes (a function  *)
(* of the names that are there), its media and its other children.  An     *)
(* attribute's value has a form: plain; padded with white space; capital,  *)
(* which is another case; decimal, a number with a fraction; or garbled,   *)
(* no number at all.                                                       *)
(***************************************************************************)
EXTENDS Classify
Seqs == INSTANCE SequencesExt

Value(text, form) == [text |-> text, form |-> form]
Plain(text) == Value(text, "plain")
Absent == Plain("")
NoLabel == [stem |-> "", scan |-> ""]

Element(name, attrs, media, children) ==
  [name |-> name, attrs |-> attrs, media |-> media, children |-> children]
Body(state, items) == [state |-> state, items |-> items]

Response(status, transfer, body) == [status |-> status, transfer |-> transfer, body |-> body]

\* Mutant of Received: whatever arrives is read.
ReceivedAlways(response) == response.transfer = "complete"

\* Client.get: only a success is read, in full and within the limit.  A redirect
\* is not followed.
Received(response) ==
  response.status \in 200..299 /\ response.transfer = "complete"

\* get: the attribute as it stands, empty when it is not there.
Has(attrs, name) == name \in DOMAIN attrs
Get(attrs, name) == IF Has(attrs, name) THEN attrs[name] ELSE Absent

\* Mutant of IntOf: only what is written as an integer is one.
IntStrictly(attrs, name) ==
  IF Has(attrs, name) /\ attrs[name].form = "plain" THEN attrs[name].text ELSE 0

\* int: a number loses its padding and its fraction; all else is 0.
IntOf(attrs, name) ==
  IF Has(attrs, name) /\ attrs[name].form # "garbled" THEN attrs[name].text ELSE 0

\* flag: "1" and "true", padded or in capitals.
Flag(attrs, name) ==
  Get(attrs, name).text \in {"1", "true"}

\* strings.TrimSpace, which the session's ids go through.
Trimmed(v) == v.text

\* An id that is compared as it stands: padded, it is another id.
AsItStands(v) == IF v.form = "padded" THEN " " \o v.text ELSE v.text

\* decisions: lower-cased and trimmed.
VideoDecision(children) ==
  IF "TranscodeSession" \notin DOMAIN children THEN NoTranscode
  ELSE Get(children["TranscodeSession"], "videoDecision").text

\* One item of the sessions document.  (Screen trims the media ids, and nothing
\* else depends on them.)
SessionOf(e) ==
  [kind       |-> e.name,
   sessionKey |-> AsItStands(Get(e.attrs, "sessionKey")),
   ratingKey  |-> AsItStands(Get(e.attrs, "ratingKey")),
   live       |-> Flag(e.attrs, "live"),
   sid        |-> IF "Session" \in DOMAIN e.children
                  THEN Trimmed(Get(e.children["Session"], "id")) ELSE NoID,
   transcode  |-> VideoDecision(e.children),
   media      |-> [i \in DOMAIN e.media |->
                     [id       |-> Trimmed(Get(e.media[i], "id")),
                      selected |-> Flag(e.media[i], "selected")]]]

\* One Media element of the library's item.
VersionOf(attrs) ==
  [id     |-> AsItStands(Get(attrs, "id")),
   width  |-> IntOf(attrs, "width"),
   height |-> IntOf(attrs, "height"),
   label  |-> IF Has(attrs, "videoResolution") THEN attrs["videoResolution"].text ELSE NoLabel]

\* decodeContainer.
Decoded(body) == body.state = "container"

NotParsed == [ok |-> FALSE]
Result(value) == [ok |-> TRUE, value |-> value]

\* Client.Sessions and ParseSessions.
ParseSessions(response) ==
  LET body == response.body IN
  IF Received(response) /\ Decoded(body) THEN Result([i \in DOMAIN body.items |-> SessionOf(body.items[i])])
                   ELSE NotParsed

\* Client.Metadata and ParseMetadataMedia: the versions of every item of the
\* document, in its order; no item is an error.
ParseMetadataMedia(response) ==
  LET body == response.body IN
  IF Received(response) /\ Decoded(body) /\ body.items # <<>>
  THEN LET versions(item) == [i \in DOMAIN item.media |-> VersionOf(item.media[i])]
       IN  Result(Seqs!FlattenSeq([i \in DOMAIN body.items |-> versions(body.items[i])]))
  ELSE NotParsed
=============================================================================
