--------------------------- MODULE VerdictsProofs ---------------------------
(***************************************************************************)
(* Verdicts proved for every item, every frame and every way of writing    *)
(* the two documents.  The classification is pure, so most of the work is  *)
(* in lemmas about its operators: what the guard reads of a document is    *)
(* what the document's writer meant, but for sizes and ids that cannot be  *)
(* read.  The invariant keeps no more than how the verdict was reached:    *)
(* the session shows the version that is played, the item lists no two     *)
(* versions under one id, and the verdict is the guard's.                  *)
(***************************************************************************)
EXTENDS Verdicts, SequenceTheorems, WellFoundedInduction, TLAPS

Versions == VersionsOf(Qualities)

\* Two ids of one listing differ.
DistinctIDs(l) == \A i, j \in DOMAIN l : i # j => l[i].id # l[j].id

\* What the guard reads of a version and of an item.
Read(v, w) == VersionOf(MediaElement(v, w))
AllRead(versions, w) == [i \in DOMAIN versions |-> Read(versions[i], w)]
ItemRead(item) == [i \in DOMAIN item.media |-> VersionOf(item.media[i])]

\* What it makes of the two responses.
SessionsRead(s, w) == ParseSessions(Sent(w.responses.sessions, SessionsBody(s, w)))
LibraryRead(versions, w) == ParseMetadataMedia(Sent(w.responses.library, LibraryBody(versions, w)))

Whole(r, state) == Succeeds(r) /\ state = "container"

-----------------------------------------------------------------------------
(* What the operators of the library modules yield here.                    *)

LEMMA MinIsMember ==
  ASSUME NEW T, T \subseteq Nat, T # {}
  PROVE  Sets!Min(T) \in T
<1>1. PICK x \in T : \A y \in T : ~(<<y, x>> \in OpToRel(<, Nat))
  BY WFMin, NatLessThanWellFounded, Zenon
<1>2. ASSUME NEW y \in T PROVE x <= y
  <2>1. ~(<<y, x>> \in OpToRel(<, Nat)) /\ <<y, x>> \in Nat \X Nat
    BY <1>1
  <2>2. ~(y < x)
    BY <2>1 DEF OpToRel
  <2>3. x \in Nat /\ y \in Nat
    OBVIOUS
  <2> QED BY <2>2, <2>3
<1> QED BY <1>2 DEF Sets!Min

LEMMA MinOfOne == ASSUME NEW k \in Nat PROVE Sets!Min({k}) = k
  BY MinIsMember

LEMMA FlattenOne == ASSUME NEW a PROVE Seqs!FlattenSeq(<<a>>) = a
<1> DEFINE s == <<a>>
           f == CHOOSE f : f = [i \in 1..Len(s) |-> IF i = 1 THEN s[i] ELSE f[i-1] \o s[i]]
<1>1. Len(s) = 1
  OBVIOUS
<1>2. \E g : g = [i \in 1..Len(s) |-> IF i = 1 THEN s[i] ELSE g[i-1] \o s[i]]
  <2> DEFINE g == [i \in 1..1 |-> a]
  <2>1. g = [i \in 1..Len(s) |-> IF i = 1 THEN s[i] ELSE g[i-1] \o s[i]]
    OBVIOUS
  <2> QED BY <2>1
<1>3. f = [i \in 1..Len(s) |-> IF i = 1 THEN s[i] ELSE f[i-1] \o s[i]]
  BY <1>2
<1>4. f[1] = a
  BY <1>3
<1> QED BY <1>1, <1>4 DEF Seqs!FlattenSeq

LEMMA FlattenTwo == ASSUME NEW a, NEW b PROVE Seqs!FlattenSeq(<<a, b>>) = a \o b
<1> DEFINE s == <<a, b>>
           f == CHOOSE f : f = [i \in 1..Len(s) |-> IF i = 1 THEN s[i] ELSE f[i-1] \o s[i]]
<1>1. Len(s) = 2 /\ s[1] = a /\ s[2] = b
  OBVIOUS
<1>2. \E g : g = [i \in 1..Len(s) |-> IF i = 1 THEN s[i] ELSE g[i-1] \o s[i]]
  <2> DEFINE g == [i \in 1..2 |-> IF i = 1 THEN a ELSE a \o b]
  <2>1. g = [i \in 1..Len(s) |-> IF i = 1 THEN s[i] ELSE g[i-1] \o s[i]]
    BY <1>1
  <2> QED BY <2>1
<1>3. f = [i \in 1..Len(s) |-> IF i = 1 THEN s[i] ELSE f[i-1] \o s[i]]
  BY <1>2
<1> HIDE DEF f
<1>4. f[1] = a
  BY <1>1, <1>3
<1>5. f[2] = a \o b
  <2>1. 2 \in 1..Len(s) /\ 2 - 1 = 1 /\ 2 # 1
    BY <1>1
  <2>2. f[2] = f[1] \o s[2]
    BY <1>3, <2>1
  <2> QED BY <1>1, <1>4, <2>2
<1>6. Seqs!FlattenSeq(s) = f[Len(s)]
  BY <1>1 DEF Seqs!FlattenSeq, f
<1> QED BY <1>1, <1>5, <1>6

LEMMA Removed ==
  ASSUME NEW S, NEW s \in Seq(S), NEW i \in DOMAIN s
  PROVE  LET r == Seqs!RemoveAt(s, i)
         IN  /\ r \in Seq(S) /\ Len(r) = Len(s) - 1
             /\ \A k \in 1..Len(r) : r[k] = IF k < i THEN s[k] ELSE s[k + 1]
<1> DEFINE a == SubSeq(s, 1, i - 1)
           b == SubSeq(s, i + 1, Len(s))
<1>1. i \in 1..Len(s) /\ Len(s) \in Nat /\ \A k \in 1..Len(s) : s[k] \in S
  OBVIOUS
<1>2. /\ a \in Seq(S) /\ Len(a) = i - 1
      /\ \A k \in 1..(i - 1) : a[k] = s[k]
  BY <1>1
<1>3. /\ b \in Seq(S) /\ Len(b) = Len(s) - i
      /\ \A k \in 1..(Len(s) - i) : b[k] = s[i + k]
  BY <1>1
<1> HIDE DEF a, b
<1>4. /\ a \o b \in Seq(S) /\ Len(a \o b) = Len(a) + Len(b)
      /\ \A k \in 1..(Len(a) + Len(b)) :
           (a \o b)[k] = IF k <= Len(a) THEN a[k] ELSE b[k - Len(a)]
  BY <1>2, <1>3, ConcatProperties
<1>5. Seqs!RemoveAt(s, i) = a \o b
  BY DEF Seqs!RemoveAt, a, b
<1>6. \A k \in 1..(Len(s) - 1) : (a \o b)[k] = IF k < i THEN s[k] ELSE s[k + 1]
  <2> SUFFICES ASSUME NEW k \in 1..(Len(s) - 1)
               PROVE  (a \o b)[k] = IF k < i THEN s[k] ELSE s[k + 1]
    OBVIOUS
  <2>1. CASE k < i
    <3>1. k \in 1..(i - 1) /\ k \in 1..(Len(a) + Len(b)) /\ k <= Len(a)
      BY <1>1, <1>2, <1>3, <2>1
    <3>2. (a \o b)[k] = a[k]
      BY <1>4, <3>1
    <3> QED BY <1>2, <2>1, <3>1, <3>2
  <2>2. CASE k >= i
    <3>1. k - (i - 1) \in 1..(Len(s) - i) /\ i + (k - (i - 1)) = k + 1
      BY <1>1, <2>2
    <3>2. (a \o b)[k] = b[k - (i - 1)]
      <4>1. k \in 1..(Len(a) + Len(b)) /\ ~(k <= Len(a)) /\ Len(a) = i - 1
        BY <1>1, <1>2, <1>3, <2>2
      <4> QED BY <1>4, <4>1
    <3>3. b[k - (i - 1)] = s[k + 1]
      BY <1>3, <3>1
    <3>4. ~(k < i)
      BY <1>1, <2>2
    <3> QED BY <3>2, <3>3, <3>4
  <2>3. k < i \/ k >= i
    BY <1>1
  <2> QED BY <2>1, <2>2, <2>3
<1>7. Len(a \o b) = Len(s) - 1
  BY <1>1, <1>2, <1>3, <1>4
<1> QED BY <1>4, <1>5, <1>6, <1>7

-----------------------------------------------------------------------------
(* What the guard reads.                                                    *)

\* The sizes may be lost and the id may keep its padding; the label is read as
\* it is.
LEMMA VersionIsRead ==
  ASSUME NEW v, NEW w \in AllWritings
  PROVE  /\ Read(v, w).id = IF w.padIDs THEN AsItStands(Value(v.id, "padded")) ELSE v.id
         /\ w.sizes \in {"garbled", "missing"} => Read(v, w).width = 0 /\ Read(v, w).height = 0
         /\ w.sizes \notin {"garbled", "missing"} =>
              Read(v, w).width = v.width /\ Read(v, w).height = v.height
         /\ Read(v, w).label = v.label
<1>1. /\ w.padIDs \in BOOLEAN
      /\ w.sizes \in {"plain", "padded", "decimal", "garbled", "missing"}
  BY DEF AllWritings
<1> DEFINE e == MediaElement(v, w)
<1>2. /\ "id" \in DOMAIN e /\ e["id"] = Value(v.id, IF w.padIDs THEN "padded" ELSE "plain")
      /\ "videoResolution" \in DOMAIN e /\ e["videoResolution"] = Value(v.label, "plain")
      /\ w.sizes = "missing" => "width" \notin DOMAIN e /\ "height" \notin DOMAIN e
      /\ w.sizes # "missing" =>
           /\ "width" \in DOMAIN e /\ e["width"] = Value(v.width, w.sizes)
           /\ "height" \in DOMAIN e /\ e["height"] = Value(v.height, w.sizes)
  BY DEF MediaElement, Plain
<1> HIDE DEF e
<1>3. Read(v, w) = [id |-> AsItStands(Get(e, "id")), width |-> IntOf(e, "width"),
                    height |-> IntOf(e, "height"),
                    label |-> IF Has(e, "videoResolution") THEN e["videoResolution"].text
                                                           ELSE NoLabel]
  BY DEF Read, VersionOf, e
<1>4. AsItStands(Get(e, "id")) = IF w.padIDs THEN AsItStands(Value(v.id, "padded")) ELSE v.id
  <2>1. Get(e, "id") = Value(v.id, IF w.padIDs THEN "padded" ELSE "plain")
    BY <1>2 DEF Get, Has
  <2>2. AsItStands(Value(v.id, "plain")) = v.id
    BY DEF AsItStands, Value
  <2> QED BY <2>1, <2>2
<1>5. /\ w.sizes \in {"garbled", "missing"} => IntOf(e, "width") = 0 /\ IntOf(e, "height") = 0
      /\ w.sizes \notin {"garbled", "missing"} =>
           IntOf(e, "width") = v.width /\ IntOf(e, "height") = v.height
  BY <1>1, <1>2 DEF IntOf, Has, Value
<1>6. (IF Has(e, "videoResolution") THEN e["videoResolution"].text ELSE NoLabel) = v.label
  BY <1>2 DEF Has, Value
<1> QED BY <1>3, <1>4, <1>5, <1>6

\* Two items read one after the other are the listing they were cut from.
LEMMA PartsRead ==
  ASSUME NEW S, NEW versions \in Seq(S), NEW w, NEW k \in Nat, k < Len(versions)
  PROVE  LET media == [i \in DOMAIN versions |-> MediaElement(versions[i], w)]
         IN  ItemRead(Item(SubSeq(media, 1, k))) \o ItemRead(Item(SubSeq(media, k + 1, Len(media)))) =
               AllRead(versions, w)
<1> DEFINE media == [i \in DOMAIN versions |-> MediaElement(versions[i], w)]
           n == Len(versions)
           all == AllRead(versions, w)
           T == {Read(v, w) : v \in S}
<1>1. n \in Nat /\ k < n /\ DOMAIN versions = 1..n /\ \A i \in 1..n : versions[i] \in S
  OBVIOUS
<1>2. media = [i \in 1..n |-> MediaElement(versions[i], w)] /\ Len(media) = n
  BY <1>1
<1>3. all = [i \in 1..n |-> VersionOf(media[i])] /\ all \in Seq(T) /\ Len(all) = n
  BY <1>1, <1>2 DEF AllRead, Read
<1> HIDE DEF media, all, T, n
<1>4. ItemRead(Item(SubSeq(media, 1, k))) = SubSeq(all, 1, k)
  <2>1. SubSeq(media, 1, k) = [i \in 1..k |-> media[i]]
    BY <1>1, <1>2
  <2>2. SubSeq(all, 1, k) = [i \in 1..k |-> VersionOf(media[i])]
    BY <1>1, <1>3
  <2> QED BY <2>1, <2>2 DEF ItemRead, Item, Element
<1>5. ItemRead(Item(SubSeq(media, k + 1, n))) = SubSeq(all, k + 1, n)
  <2>1. SubSeq(media, k + 1, n) = [i \in 1..(n - k) |-> media[k + i]]
    BY <1>1, <1>2
  <2>2. SubSeq(all, k + 1, n) = [i \in 1..(n - k) |-> VersionOf(media[k + i])]
    BY <1>1, <1>3
  <2> QED BY <2>1, <2>2 DEF ItemRead, Item, Element
<1>6. SubSeq(all, 1, k) \o SubSeq(all, k + 1, n) = SubSeq(all, 1, n)
  <2>1. /\ 1 \in 1..(Len(all) + 1) /\ k \in (1 - 1)..Len(all) /\ n \in k..Len(all)
        /\ all \in Seq(T)
    BY <1>1, <1>3
  <2> QED BY <2>1, ConcatAdjacentSubSeq
<1>7. SubSeq(all, 1, n) = all
  BY <1>3, SubSeqFull
<1> QED BY <1>2, <1>4, <1>5, <1>6, <1>7 DEF media, all

\* Nothing is read of a body that is not whole, or of a response that did not
\* succeed; of the others, every version of every item, in the listing's order.
LEMMA LibraryIsRead ==
  ASSUME NEW S, NEW versions \in Seq(S), NEW w \in AllWritings
  PROVE  LET r == LibraryRead(versions, w)
         IN  /\ r.ok <=> Whole(w.responses.library, w.bodies.library)
             /\ r.ok => r.value = AllRead(versions, w)
<1> DEFINE body == LibraryBody(versions, w)
           sent == Sent(w.responses.library, body)
           media == [i \in DOMAIN versions |-> MediaElement(versions[i], w)]
           all == Seqs!FlattenSeq([i \in DOMAIN body.items |-> ItemRead(body.items[i])])
<1>1. LibraryRead(versions, w) =
        IF Received(sent) /\ Decoded(body) /\ body.items # <<>>
        THEN [ok |-> TRUE, value |-> all] ELSE [ok |-> FALSE]
  BY DEF LibraryRead, ParseMetadataMedia, Sent, Response, Result, NotParsed, ItemRead
<1>2. Received(sent) <=> Succeeds(w.responses.library)
  BY DEF Received, Succeeds, Sent, Response
<1>3. /\ media \in Seq({MediaElement(v, w) : v \in S}) /\ Len(media) = Len(versions)
      /\ DOMAIN media = DOMAIN versions
  OBVIOUS
<1>4. w.first \in Nat
  BY DEF AllWritings
<1>5. CASE w.bodies.library = "no item"
  <2>1. body.items = <<>>
    BY <1>5 DEF LibraryBody, Body
  <2>2. LibraryRead(versions, w) = [ok |-> FALSE]
    BY <1>1, <2>1
  <2>3. ~Whole(w.responses.library, w.bodies.library)
    BY <1>5 DEF Whole
  <2> QED BY <2>2, <2>3
<1>6. CASE w.bodies.library # "no item"
  <2>1. body = [state |-> w.bodies.library, items |-> ItemsOf(versions, w)]
    BY <1>6 DEF LibraryBody, Body
  <2>2. Decoded(body) <=> w.bodies.library = "container"
    BY <2>1 DEF Decoded
  <2>3. body.items # <<>> /\ all = AllRead(versions, w)
    <3>1. CASE Len(media) <= w.first
      <4>1. body.items = <<Item(media)>>
        BY <2>1, <3>1 DEF ItemsOf
      <4> HIDE DEF body
      <4>2. [i \in DOMAIN body.items |-> ItemRead(body.items[i])] = <<ItemRead(Item(media))>>
        BY <4>1
      <4>3. all = ItemRead(Item(media))
        BY <4>2, FlattenOne
      <4>4. ItemRead(Item(media)) = AllRead(versions, w)
        BY DEF Item, Element, AllRead, Read, ItemRead
      <4> QED BY <4>1, <4>3, <4>4
    <3>2. CASE ~(Len(media) <= w.first)
      <4> DEFINE k == w.first
                 a == SubSeq(media, 1, k)
                 b == SubSeq(media, k + 1, Len(media))
      <4>1. body.items = <<Item(a), Item(b)>>
        BY <2>1, <3>2 DEF ItemsOf
      <4> HIDE DEF body, a, b
      <4>2. [i \in DOMAIN body.items |-> ItemRead(body.items[i])] = <<ItemRead(Item(a)), ItemRead(Item(b))>>
        BY <4>1
      <4>3. all = ItemRead(Item(a)) \o ItemRead(Item(b))
        BY <4>2, FlattenTwo
      <4>4. ItemRead(Item(a)) \o ItemRead(Item(b)) = AllRead(versions, w)
        <5>1. k \in Nat /\ k < Len(versions)
          BY <1>3, <1>4, <3>2
        <5> QED BY <5>1, PartsRead DEF a, b
      <4>5. body.items # <<>>
        BY <4>1
      <4> QED BY <4>3, <4>4, <4>5
    <3> QED BY <3>1, <3>2
  <2> HIDE DEF all, body, sent
  <2>4. CASE Whole(w.responses.library, w.bodies.library)
    BY <1>1, <1>2, <2>2, <2>3, <2>4 DEF Whole
  <2>5. CASE ~Whole(w.responses.library, w.bodies.library)
    BY <1>1, <1>2, <2>2, <2>3, <2>5 DEF Whole
  <2> QED BY <2>4, <2>5
<1> QED BY <1>5, <1>6

\* The session is read as it is, whatever form its attributes are written in.
LEMMA SessionIsRead ==
  ASSUME NEW s \in Sessions, NEW w \in AllWritings
  PROVE  LET r == SessionsRead(s, w)
         IN  /\ r.ok <=> Whole(w.responses.sessions, w.bodies.sessions)
             /\ r.ok => /\ r.value[1].kind = s.kind /\ r.value[1].live = s.live
                        /\ r.value[1].transcode = s.transcode /\ r.value[1].media = s.media
<1> DEFINE f == w.session
           e == SessionElement(s, f)
           media == [i \in DOMAIN s.media |->
                       [id |-> Value(s.media[i].id, f),
                        selected |-> Value(IF s.media[i].selected THEN "1" ELSE "0", f)]]
           player == [id |-> Value("s", f)]
           children == IF s.transcode = NoTranscode THEN [Session |-> player]
                       ELSE [Session |-> player,
                             TranscodeSession |-> [videoDecision |-> Value(s.transcode, f)]]
           attrs == [ratingKey |-> Plain("item"), sessionKey |-> Plain("7"),
                     live |-> Value(IF s.live THEN "true" ELSE "0", f)]
           body == SessionsBody(s, w)
           sent == Sent(w.responses.sessions, body)
<1>1. s.live \in BOOLEAN /\ s.media \in Seq([id: MediaIDs, selected: BOOLEAN])
  <2>1. \A t \in Sessions :
          t.live \in BOOLEAN /\ t.media \in Seq([id: MediaIDs, selected: BOOLEAN])
    BY VerdictsAssumption, Zenon
  <2> QED BY <2>1, Zenon
<1>2. body = [state |-> w.bodies.sessions, items |-> <<e>>]
  BY DEF SessionsBody, Body
<1>3. Received(sent) <=> Succeeds(w.responses.sessions)
  BY DEF Received, Succeeds, Sent, Response
<1>4. Decoded(body) <=> w.bodies.sessions = "container"
  BY <1>2 DEF Decoded
<1>5. SessionsRead(s, w) =
        IF Received(sent) /\ Decoded(body)
        THEN [ok |-> TRUE, value |-> [i \in DOMAIN body.items |-> SessionOf(body.items[i])]]
        ELSE [ok |-> FALSE]
  BY DEF SessionsRead, ParseSessions, Sent, Response, Result, NotParsed
<1>6. [i \in DOMAIN body.items |-> SessionOf(body.items[i])][1] = SessionOf(e)
  <2> HIDE DEF e, body
  <2> QED BY <1>2
<1>7. e = [name |-> s.kind, attrs |-> attrs, media |-> media, children |-> children]
  BY DEF SessionElement, Element
<1>8. SessionOf(e).kind = s.kind
  BY <1>7 DEF SessionOf
<1>9. SessionOf(e).live = s.live
  <2>1. SessionOf(e).live = Flag(attrs, "live")
    BY <1>7 DEF SessionOf
  <2>2. Flag(attrs, "live") <=> s.live
    BY DEF Flag, Get, Has, Value
  <2>3. Flag(attrs, "live") \in BOOLEAN
    BY DEF Flag
  <2> QED BY <1>1, <2>1, <2>2, <2>3
<1>10. SessionOf(e).transcode = s.transcode
  <2>1. SessionOf(e).transcode = VideoDecision(children)
    BY <1>7 DEF SessionOf
  <2>2. VideoDecision(children) = s.transcode
    BY DEF VideoDecision, Get, Has, Value
  <2> QED BY <2>1, <2>2
<1>11. SessionOf(e).media = s.media
  <2>1. SessionOf(e).media =
          [i \in DOMAIN media |-> [id |-> Trimmed(Get(media[i], "id")),
                                   selected |-> Flag(media[i], "selected")]]
    BY <1>7 DEF SessionOf
  <2>2. ASSUME NEW i \in DOMAIN media
        PROVE  [id |-> Trimmed(Get(media[i], "id")), selected |-> Flag(media[i], "selected")] =
                 s.media[i]
    <3>1. i \in 1..Len(s.media)
      BY <1>1
    <3>2. s.media[i] \in [id: MediaIDs, selected: BOOLEAN]
      BY <1>1, <3>1, ElementOfSeq, Zenon
    <3>3. Trimmed(Get(media[i], "id")) = s.media[i].id
      BY DEF Trimmed, Get, Has, Value
    <3>4. Flag(media[i], "selected") <=> s.media[i].selected
      BY DEF Flag, Get, Has, Value
    <3>5. Flag(media[i], "selected") \in BOOLEAN
      BY DEF Flag
    <3>6. Flag(media[i], "selected") = s.media[i].selected
      BY <3>2, <3>4, <3>5
    <3> QED BY <3>2, <3>3, <3>6
  <2>3. DOMAIN media = DOMAIN s.media /\ s.media = [i \in DOMAIN s.media |-> s.media[i]]
    BY <1>1
  <2> QED BY <2>1, <2>2, <2>3
<1> HIDE DEF body, sent, e
<1> QED BY <1>3, <1>4, <1>5, <1>6, <1>8, <1>9, <1>10, <1>11 DEF Whole

-----------------------------------------------------------------------------
(* What it concludes.                                                       *)

\* The id to match is the played version's, or none.
LEMMA SelectedIsPlaying ==
  ASSUME NEW s, s.media \in Seq([id: MediaIDs, selected: BOOLEAN]), NEW v, Shows(s.media, v)
  PROVE  SelectedMediaID(s) \in {v.id, NoID}
<1> DEFINE marked == {i \in DOMAIN s.media : s.media[i].selected}
<1>1. CASE marked # {}
  <2>1. marked \subseteq Nat
    OBVIOUS
  <2>2. Sets!Min(marked) \in marked
    BY <1>1, <2>1, MinIsMember
  <2>3. SelectedMediaID(s) = s.media[Sets!Min(marked)].id
    BY <1>1 DEF SelectedMediaID
  <2> QED BY <2>2, <2>3 DEF Shows
<1>2. CASE marked = {}
  BY <1>2 DEF SelectedMediaID, Shows
<1> QED BY <1>1, <1>2

\* The thresholds are the shape of what fits into a UHD frame.
LEMMA UHDIsRead ==
  ASSUME NEW v \in Versions, NEW w \in AllWritings
  PROVE  /\ IsUHD(Read(v, w)) <=> IF w.sizes \in {"garbled", "missing"} THEN SaysUHD(v)
                                  ELSE TrulyUHD(v)
         /\ SaysUHD(v) => TrulyUHD(v)
<1>1. v.width \in Nat /\ v.height \in Nat
  <2>1. PICK q \in Qualities : v.width = q.width /\ v.height = q.height
    BY DEF Versions, VersionsOf
  <2>2. \A r \in Qualities : r.width \in Nat /\ r.height \in Nat
    BY VerdictsAssumption, Zenon
  <2> QED BY <2>1, <2>2
<1>2. UHDFrame(v.width, v.height) <=>
        \/ v.width >= 3840 /\ v.height >= 1600
        \/ v.height >= 2160 /\ v.width >= 2880
  <2> DEFINE x == v.width
             y == v.height
  <2>1. x \in Nat /\ y \in Nat
    BY <1>1
  <2> HIDE DEF x, y
  <2>2. Fitting(x, 3840) = 3840 <=> x >= 3840
    BY <2>1 DEF Fitting
  <2>3. Fitting(y, 2160) = 2160 <=> y >= 2160
    BY <2>1 DEF Fitting
  <2>4. 10 * 3840 <= 24 * Fitting(y, 2160) <=> y >= 1600
    BY <2>1 DEF Fitting
  <2>5. 3 * Fitting(x, 3840) >= 4 * 2160 <=> x >= 2880
    BY <2>1 DEF Fitting
  <2>6. UHDFrame(x, y) <=> (x >= 3840 /\ y >= 1600) \/ (y >= 2160 /\ x >= 2880)
    BY <2>2, <2>3, <2>4, <2>5 DEF UHDFrame
  <2> QED BY <2>6 DEF x, y
<1>3. CASE w.sizes \in {"garbled", "missing"}
  <2>1. Read(v, w).width = 0 /\ Read(v, w).height = 0 /\ Read(v, w).label = v.label
    BY <1>3, VersionIsRead
  <2> QED BY <1>3, <2>1
          DEF IsUHD, SaysUHD, TrulyUHD, NormalizeResolution, UHDMinWidth, UHDMinHeightWide,
              UHDMinHeight, UHDMinWidthNarrow
<1>4. CASE w.sizes \notin {"garbled", "missing"}
  <2>1. /\ Read(v, w).width = v.width /\ Read(v, w).height = v.height
        /\ Read(v, w).label = v.label
    BY <1>4, VersionIsRead
  <2> QED BY <1>2, <1>4, <2>1
          DEF IsUHD, SaysUHD, TrulyUHD, NormalizeResolution, UHDMinWidth, UHDMinHeightWide,
              UHDMinHeight, UHDMinWidthNarrow
<1> QED BY <1>3, <1>4

\* A media id finds the one version the item lists under it, and nothing when
\* the item lists none or the document pads its ids.
LEMMA MatchIsRead ==
  ASSUME NEW l \in Seq(Versions), DistinctIDs(l), NEW w \in AllWritings, NEW id \in MediaIDs
  PROVE  /\ ~w.padIDs => \A i \in DOMAIN l :
              l[i].id = id => (MatchedIsUHD(AllRead(l, w), id) <=> IsUHD(Read(l[i], w)))
         /\ w.padIDs \/ ~HasMedia(l, id) => ~MatchedIsUHD(AllRead(l, w), id)
<1> DEFINE all == AllRead(l, w)
           matches == {i \in DOMAIN all : all[i].id = id}
<1>1. DOMAIN all = DOMAIN l /\ \A i \in DOMAIN l : all[i] = Read(l[i], w)
  BY DEF AllRead
<1>2. \A i \in DOMAIN l : l[i] \in Versions /\ l[i].id \in MediaIDs /\ i \in Nat
  BY DEF Versions, VersionsOf
<1>3. \A i \in DOMAIN l :
        all[i].id = IF w.padIDs THEN AsItStands(Value(l[i].id, "padded")) ELSE l[i].id
  BY <1>1, VersionIsRead
<1>4. MatchedIsUHD(all, id) <=> matches # {} /\ IsUHD(all[Sets!Min(matches)])
  BY DEF MatchedIsUHD
<1> HIDE DEF all
<1>5. ASSUME ~w.padIDs, NEW i \in DOMAIN l, l[i].id = id
      PROVE  MatchedIsUHD(all, id) <=> IsUHD(Read(l[i], w))
  <2>1. matches = {i}
    BY <1>1, <1>3, <1>5 DEF DistinctIDs
  <2>2. Sets!Min({i}) = i
    BY <1>2, MinOfOne
  <2> QED BY <1>1, <1>4, <2>1, <2>2
<1>6. ASSUME w.padIDs \/ ~HasMedia(l, id)
      PROVE  ~MatchedIsUHD(all, id)
  <2>1. matches = {}
    BY <1>1, <1>2, <1>3, <1>6, VerdictsAssumption DEF HasMedia
  <2> QED BY <1>4, <2>1
<1> QED BY <1>5, <1>6 DEF all

Transcodes(s) == s.kind = "Video" /\ ~s.live /\ s.transcode = "transcode"

\* The verdict on session s, that plays version v, by two documents written as w.
Concluded(s, l, w) == Verdict(SessionsRead(s, w), LibraryRead(l, w))

\* What a verdict says: which version the session was matched with, and that it
\* is condemned exactly when both documents are whole and that version, or
\* without one every version, is read as 4K.
Reached(d, s, v, l, w) ==
  /\ d.mediaID \in {v.id, NoID}
  /\ d.terminate <=>
       /\ Transcodes(s)
       /\ Whole(w.responses.sessions, w.bodies.sessions)
       /\ Whole(w.responses.library, w.bodies.library)
       /\ l # <<>>
       /\ d.mediaID # NoID => MatchedIsUHD(AllRead(l, w), v.id)
       /\ d.mediaID = NoID => AllUHD(AllRead(l, w))

LEMMA ScreenIsRight ==
  ASSUME NEW s \in Sessions, NEW v, Shows(s.media, v), NEW p,
         p.kind = s.kind, p.live = s.live, p.transcode = s.transcode, p.media = s.media
  PROVE  /\ Screen(p) = [candidate |-> Screen(p).candidate, terminate |-> FALSE,
                         mediaID |-> Screen(p).mediaID]
         /\ Screen(p).candidate <=> Transcodes(s)
         /\ Screen(p).mediaID \in {v.id, NoID}
<1> DEFINE candidate == /\ p.kind = "Video" /\ p.transcode # NoTranscode /\ ~p.live
                        /\ IsVideoTranscode(p)
<1>1. Screen(p) = [candidate |-> candidate, terminate |-> FALSE,
                   mediaID |-> IF candidate THEN SelectedMediaID(p) ELSE NoID]
  BY DEF Screen
<1>2. candidate <=> Transcodes(s)
  BY DEF Transcodes, IsVideoTranscode, NoTranscode
<1>3. p.media \in Seq([id: MediaIDs, selected: BOOLEAN])
  <2>1. \A t \in Sessions :
          t.live \in BOOLEAN /\ t.media \in Seq([id: MediaIDs, selected: BOOLEAN])
    BY VerdictsAssumption, Zenon
  <2> QED BY <2>1
<1>4. SelectedMediaID(p) \in {v.id, NoID}
  BY <1>3, SelectedIsPlaying
<1> HIDE DEF candidate
<1> QED BY <1>1, <1>2, <1>4

LEMMA VerdictIsReached ==
  ASSUME NEW s \in Sessions, NEW v \in Versions, Shows(s.media, v),
         NEW l \in Seq(Versions), NEW w \in AllWritings
  PROVE  Reached(Concluded(s, l, w), s, v, l, w)
<1> DEFINE r == SessionsRead(s, w)
           b == LibraryRead(l, w)
           c == Screen(r.value[1])
           all == AllRead(l, w)
<1>1. /\ r.ok <=> Whole(w.responses.sessions, w.bodies.sessions)
      /\ r.ok => /\ r.value[1].kind = s.kind /\ r.value[1].live = s.live
                 /\ r.value[1].transcode = s.transcode /\ r.value[1].media = s.media
  BY SessionIsRead
<1>2. /\ b.ok <=> Whole(w.responses.library, w.bodies.library)
      /\ b.ok => b.value = all
  BY LibraryIsRead
<1>3. Concluded(s, l, w) = IF ~r.ok THEN [NoVerdict EXCEPT !.mediaID = NoID]
                           ELSE IF c.candidate /\ b.ok THEN Judge(c, b.value) ELSE c
  BY DEF Concluded, Verdict
<1>4. all = <<>> <=> l = <<>>
  BY DEF AllRead
<1>5. v.id # NoID
  BY VerdictsAssumption DEF Versions, VersionsOf
<1>6. CASE ~r.ok
  <2>1. /\ Concluded(s, l, w).mediaID = NoID
        /\ Concluded(s, l, w).terminate = FALSE
    BY <1>3, <1>6 DEF NoVerdict
  <2> QED BY <1>1, <1>6, <2>1 DEF Reached
<1>7. CASE r.ok
  <2>1. /\ c = [candidate |-> c.candidate, terminate |-> FALSE, mediaID |-> c.mediaID]
        /\ c.candidate <=> Transcodes(s)
        /\ c.mediaID \in {v.id, NoID}
    BY <1>1, <1>7, ScreenIsRight
  <2> HIDE DEF r, b, c, all
  <2>2. CASE ~(c.candidate /\ b.ok)
    <3>1. Concluded(s, l, w) = c
      BY <1>3, <1>7, <2>2
    <3>2. c.terminate = FALSE
      BY <2>1
    <3> QED BY <1>2, <2>1, <2>2, <3>1, <3>2 DEF Reached
  <2>3. CASE c.candidate /\ b.ok
    <3> DEFINE t == /\ c.candidate /\ all # <<>>
                    /\ IF c.mediaID # NoID THEN MatchedIsUHD(all, c.mediaID) ELSE AllUHD(all)
    <3>1. Concluded(s, l, w) = [c EXCEPT !.terminate = t]
      BY <1>2, <1>3, <1>7, <2>3 DEF Judge
    <3> HIDE DEF t
    <3>2. Concluded(s, l, w).terminate = t /\ Concluded(s, l, w).mediaID = c.mediaID
      BY <2>1, <3>1
    <3>3. t <=> /\ all # <<>>
                /\ c.mediaID # NoID => MatchedIsUHD(all, v.id)
                /\ c.mediaID = NoID => AllUHD(all)
      BY <2>1, <2>3 DEF t
    <3> QED BY <1>1, <1>2, <1>4, <1>7, <2>1, <2>3, <3>2, <3>3 DEF Reached, all
  <2> QED BY <2>2, <2>3
<1> QED BY <1>6, <1>7

-----------------------------------------------------------------------------
(* The invariant.                                                           *)

Known ==
  /\ playing \in Versions
  /\ session \in Sessions /\ Shows(session.media, playing)
  /\ listing \in Seq(Versions) /\ DistinctIDs(listing)

Given == Judged => writing \in Writings /\ verdict = Concluded(session, listing, writing)

Inv == Known /\ Given

LEMMA InitInv == Init => Inv
<1> SUFFICES ASSUME Init PROVE Inv
  OBVIOUS
<1>1. playing \in Versions /\ session \in Sessions /\ Shows(session.media, playing)
  BY DEF Init, Versions
<1>2. listing \in Seq(Versions) /\ DistinctIDs(listing)
  BY <1>1 DEF Init, DistinctIDs
<1>3. ~Judged
  BY DEF Init, Judged
<1> QED BY <1>1, <1>2, <1>3 DEF Inv, Known, Given

LEMMA AddInv == Inv /\ AddVersion => Inv'
<1> SUFFICES ASSUME Inv, AddVersion PROVE Inv'
  OBVIOUS
<1>1. PICK v \in VersionsOf(Added) : ~HasMedia(listing, v.id) /\ listing' = Append(listing, v)
  BY DEF AddVersion
<1>2. v \in Versions
  <2>1. Added \subseteq Qualities
    BY VerdictsAssumption, Zenon
  <2> QED BY <2>1 DEF Versions, VersionsOf
<1>3. listing \in Seq(Versions) /\ DistinctIDs(listing)
  BY DEF Inv, Known
<1>4. /\ listing' \in Seq(Versions)
      /\ DOMAIN listing' = 1..(Len(listing) + 1) /\ Len(listing) \in Nat
      /\ \A i \in 1..Len(listing) : listing'[i] = listing[i]
      /\ listing'[Len(listing) + 1] = v
  BY <1>1, <1>2, <1>3
<1>5. DistinctIDs(listing')
  <2> SUFFICES ASSUME NEW i \in DOMAIN listing', NEW j \in DOMAIN listing', i # j
               PROVE  listing'[i].id # listing'[j].id
    BY DEF DistinctIDs
  <2>1. \A k \in 1..Len(listing) : listing[k].id # v.id
    BY <1>1, <1>3 DEF HasMedia
  <2>2. \A k, m \in 1..Len(listing) : k # m => listing[k].id # listing[m].id
    BY <1>3 DEF DistinctIDs
  <2>3. /\ i \in 1..Len(listing) \/ i = Len(listing) + 1
        /\ j \in 1..Len(listing) \/ j = Len(listing) + 1
    BY <1>4
  <2> QED BY <1>4, <2>1, <2>2, <2>3
<1>6. UNCHANGED <<playing, session>> /\ ~Judged'
  BY DEF AddVersion, Judged
<1> QED BY <1>4, <1>5, <1>6 DEF Inv, Known, Given

LEMMA RemoveInv == Inv /\ RemoveVersion => Inv'
<1> SUFFICES ASSUME Inv, RemoveVersion PROVE Inv'
  OBVIOUS
<1>1. PICK r \in DOMAIN listing : listing' = Seqs!RemoveAt(listing, r)
  BY DEF RemoveVersion
<1>2. listing \in Seq(Versions) /\ DistinctIDs(listing)
  BY DEF Inv, Known
<1>3. /\ listing' \in Seq(Versions) /\ Len(listing') = Len(listing) - 1
      /\ \A k \in 1..Len(listing') : listing'[k] = IF k < r THEN listing[k] ELSE listing[k + 1]
  BY <1>1, <1>2, Removed
<1>4. DistinctIDs(listing')
  <2> SUFFICES ASSUME NEW i \in DOMAIN listing', NEW j \in DOMAIN listing', i # j
               PROVE  listing'[i].id # listing'[j].id
    BY DEF DistinctIDs
  <2> DEFINE was(k) == IF k < r THEN k ELSE k + 1
  <2>1. /\ r \in 1..Len(listing) /\ Len(listing) \in Nat
        /\ i \in 1..(Len(listing) - 1) /\ j \in 1..(Len(listing) - 1)
    BY <1>2, <1>3
  <2>2. was(i) \in 1..Len(listing) /\ was(j) \in 1..Len(listing) /\ was(i) # was(j)
    BY <2>1
  <2>3. listing'[i] = listing[was(i)] /\ listing'[j] = listing[was(j)]
    BY <1>3, <2>1
  <2> HIDE DEF was
  <2>4. listing[was(i)].id # listing[was(j)].id
    BY <1>2, <2>2 DEF DistinctIDs
  <2> QED BY <2>3, <2>4
<1>5. UNCHANGED <<playing, session>> /\ ~Judged'
  BY DEF RemoveVersion, Judged
<1> QED BY <1>3, <1>4, <1>5 DEF Inv, Known, Given

LEMMA ClassifyInv == Inv /\ Classify => Inv'
<1> SUFFICES ASSUME Inv, Classify PROVE Inv'
  OBVIOUS
<1>1. UNCHANGED <<playing, session, listing>>
  BY DEF Classify
<1>2. writing' \in Writings /\ verdict' = Concluded(session, listing, writing')
  BY DEF Classify, Concluded, SessionsRead, LibraryRead
<1>3. Known'
  BY <1>1 DEF Inv, Known
<1>4. Given'
  BY <1>1, <1>2 DEF Given
<1> QED BY <1>3, <1>4 DEF Inv

LEMMA NextInv == Inv /\ [Next]_vars => Inv'
<1> SUFFICES ASSUME Inv, [Next]_vars PROVE Inv'
  OBVIOUS
<1>1. CASE UNCHANGED vars
  BY <1>1 DEF vars, Inv, Known, Given, Judged
<1> QED BY <1>1, AddInv, RemoveInv, ClassifyInv DEF Next

LEMMA Always == Spec => []Inv
  BY InitInv, NextInv, PTL DEF Spec

\* What is known of a verdict that was given.
LEMMA VerdictIsGiven ==
  ASSUME Inv, Judged
  PROVE  /\ writing \in AllWritings
         /\ Reached(verdict, session, playing, listing, writing)
         /\ Transcodes(session) <=> Transcoding
         /\ Legible <=> /\ Whole(writing.responses.sessions, writing.bodies.sessions)
                        /\ Whole(writing.responses.library, writing.bodies.library)
         /\ playing.id \in MediaIDs /\ playing.id # NoID
<1>1. writing \in AllWritings
  <2>1. Writings \subseteq AllWritings
    BY VerdictsAssumption, Zenon
  <2> QED BY <2>1 DEF Inv, Given
<1>2. Reached(verdict, session, playing, listing, writing)
  BY <1>1, VerdictIsReached DEF Inv, Known, Given
<1>3. writing.bodies = [sessions |-> writing.bodies.sessions, library |-> writing.bodies.library]
  BY <1>1 DEF AllWritings
<1>4. playing.id \in MediaIDs /\ playing.id # NoID
  BY VerdictsAssumption DEF Inv, Known, Versions, VersionsOf
<1> QED BY <1>1, <1>2, <1>3, <1>4 DEF Transcodes, Transcoding, Legible, Whole

LEMMA InvCondemns == Inv => CondemnedIsUHD
<1> SUFFICES ASSUME Inv, Judged, verdict.terminate
             PROVE  Transcoding /\ Legible /\ (Listed => TrulyUHD(playing))
  BY DEF CondemnedIsUHD
<1>1. Transcoding /\ Legible
  BY VerdictIsGiven DEF Reached
<1>2. ASSUME Listed PROVE TrulyUHD(playing)
  <2>1. PICK i \in DOMAIN listing : listing[i] = playing
    BY <1>2 DEF Listed
  <2>2. IsUHD(Read(playing, writing))
    <3>1. CASE verdict.mediaID # NoID
      <4>1. MatchedIsUHD(AllRead(listing, writing), playing.id)
        BY <3>1, VerdictIsGiven DEF Reached
      <4> QED BY <2>1, <4>1, VerdictIsGiven, MatchIsRead DEF Inv, Known, HasMedia
    <3>2. CASE verdict.mediaID = NoID
      <4>1. AllUHD(AllRead(listing, writing))
        BY <3>2, VerdictIsGiven DEF Reached
      <4> QED BY <2>1, <4>1 DEF AllUHD, AllRead
    <3> QED BY <3>1, <3>2
  <2> QED BY <2>2, VerdictIsGiven, UHDIsRead DEF Inv, Known
<1> QED BY <1>1, <1>2

LEMMA InvLeavesAlone == Inv => VanishedVersionIsLeftAlone
<1> SUFFICES ASSUME Inv, Judged, verdict.mediaID # NoID, ~HasMedia(listing, playing.id)
             PROVE  ~verdict.terminate
  BY DEF VanishedVersionIsLeftAlone
<1>1. ~MatchedIsUHD(AllRead(listing, writing), playing.id)
  BY VerdictIsGiven, MatchIsRead DEF Inv, Known
<1> QED BY <1>1, VerdictIsGiven DEF Reached

LEMMA InvIdentifies == Inv => IdentifiedUHDIsCondemned
<1> SUFFICES ASSUME Inv, Judged, Transcoding, Listed, Legible, ~writing.padIDs,
                    verdict.mediaID = playing.id
             PROVE  verdict.terminate <=> IF writing.sizes \in {"garbled", "missing"}
                                          THEN SaysUHD(playing) ELSE TrulyUHD(playing)
  BY DEF IdentifiedUHDIsCondemned
<1>1. PICK i \in DOMAIN listing : listing[i] = playing
  BY DEF Listed
<1>2. verdict.terminate <=> MatchedIsUHD(AllRead(listing, writing), playing.id)
  BY <1>1, VerdictIsGiven DEF Reached
<1>3. MatchedIsUHD(AllRead(listing, writing), playing.id) <=> IsUHD(Read(playing, writing))
  BY <1>1, VerdictIsGiven, MatchIsRead DEF Inv, Known
<1> QED BY <1>2, <1>3, VerdictIsGiven, UHDIsRead DEF Inv, Known

-----------------------------------------------------------------------------

\* Nobody is condemned for a version that is not 4K, as long as the item still
\* lists it; nor by a document that could not be read, nor for anything but a
\* video transcode (Screen and Judge, classify.go:66-157; decodeContainer,
\* sessions.go:230-244; get, plex.go:159-178).
THEOREM Condemned == Spec => []CondemnedIsUHD
  BY Always, InvCondemns, PTL

\* A session whose version the item no longer lists is left alone (Judge,
\* classify.go:119-129).
THEOREM LeftAlone == Spec => []VanishedVersionIsLeftAlone
  BY Always, InvLeavesAlone, PTL

\* And a 4K version that the session identifies and the item lists is
\* condemned, for every frame and every listing around it (IsUHD,
\* classify.go:21-34; Judge, classify.go:119-129).
THEOREM Identified == Spec => []IdentifiedUHDIsCondemned
  BY Always, InvIdentifies, PTL
=============================================================================
