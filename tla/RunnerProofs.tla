---------------------------- MODULE RunnerProofs ----------------------------
(***************************************************************************)
(* Runner proved for every set of sessions, documents and items and every  *)
(* interval, window and lifetime.  The proof is in layers: the types, with *)
(* what MetadataCacheProofs proves of the cache; the deadline and the mode *)
(* of the poll that runs; the cooldown beside the attempts it spaces; and  *)
(* the evidence a session is judged by, from the lookup to the attempt.    *)
(***************************************************************************)
EXTENDS RunnerHistory, FiniteSetTheorems, TLAPS

\* The history of failures has no counterpart in Runner, and nothing cited here
\* from MetadataCacheProofs is about it.
MetaP == INSTANCE MetadataCacheProofs WITH sinceFailure <- 0

Poll == {"sessions", "loop", "metadata", "judge", "act", "terminating"}

-----------------------------------------------------------------------------
(* The metadata cache within the poll loop.                                 *)

\* Meta and MetaP are one module: what its operators yield and its steps do
\* is the same under both names.
LEMMA SameOperators ==
  /\ Meta!Failure = MetaP!Failure /\ Meta!NoCall = MetaP!NoCall
  /\ Meta!Items = MetaP!Items
  /\ \A ttl : Meta!LifeLeft(ttl) = MetaP!LifeLeft(ttl)
  /\ \A l, id : Meta!HasMedia(l, id) = MetaP!HasMedia(l, id)
  /\ Meta!NoID = NoID /\ MetaP!NoID = NoID
<1>1. Meta!NoID = NoID /\ MetaP!NoID = NoID
  BY DEF NoID, Meta!NoID, MetaP!NoID
<1>2. /\ Meta!Failure = MetaP!Failure /\ Meta!NoCall = MetaP!NoCall
      /\ Meta!Items = MetaP!Items
  BY <1>1 DEF Meta!Failure, MetaP!Failure, Meta!NoCall, MetaP!NoCall, Meta!Items, MetaP!Items,
       Meta!Response, MetaP!Response, Meta!Found, MetaP!Found
<1>3. /\ \A ttl : Meta!LifeLeft(ttl) = MetaP!LifeLeft(ttl)
      /\ \A l, id : Meta!HasMedia(l, id) = MetaP!HasMedia(l, id)
  BY DEF Meta!LifeLeft, MetaP!LifeLeft, Meta!HasMedia, MetaP!HasMedia
<1> QED BY <1>1, <1>2, <1>3

LEMMA MetaStoreKeeps ==
  ASSUME NEW key, NEW entry, Meta!Store(key, entry)
  PROVE  MetaP!Keeping(key, entry)
<1>1. /\ DOMAIN Meta!WithRoom \subseteq DOMAIN cache
      /\ \A k \in DOMAIN Meta!WithRoom : Meta!WithRoom[k] = cache[k]
  BY DEF Meta!WithRoom, Meta!Swept
<1> QED BY <1>1 DEF Meta!Store, MetaP!Keeping

\* A lookup that returns keeps the invariant of the cache.
LEMMA AnsweredKeeps ==
  MetaP!Inv /\ (Meta!FetchSucceeds \/ Meta!FetchFails \/ Meta!FetchAbandoned) => MetaP!Inv'
<1> USE SameOperators, RunnerAssumption
<1>1. MetaP!Inv /\ Meta!FetchSucceeds => MetaP!Inv'
  BY MetaStoreKeeps, MetaP!SuccessStored DEF Meta!FetchSucceeds, MetaP!FoundEntry
<1>2. MetaP!Inv /\ Meta!FetchFails => MetaP!Inv'
  BY MetaStoreKeeps, MetaP!FailureStored DEF Meta!FetchFails, MetaP!FailedEntry
<1>3. MetaP!Inv /\ Meta!FetchAbandoned => MetaP!Inv'
  BY MetaP!AbandonedInv DEF Meta!FetchAbandoned, MetaP!FetchAbandoned
<1> QED BY <1>1, <1>2, <1>3

LEMMA SameLookups ==
  ASSUME NEW key, NEW media
  PROVE  /\ Meta!Usable(key, media) <=> MetaP!Usable(key, media)
         /\ Meta!UseCached(key, media) => MetaP!UseCached(key, media)
         /\ Meta!StartFetch(key, media) => MetaP!StartFetch(key, media)
<1> USE SameOperators
<1>1. Meta!Usable(key, media) <=> MetaP!Usable(key, media)
  BY DEF Meta!Usable, MetaP!Usable, Meta!Fresh, MetaP!Fresh
<1>2. Meta!UseCached(key, media) => MetaP!UseCached(key, media)
  BY <1>1 DEF Meta!UseCached, MetaP!UseCached, Meta!Found, MetaP!Found, Meta!Response, MetaP!Response
<1>3. Meta!StartFetch(key, media) => MetaP!StartFetch(key, media)
  BY <1>1 DEF Meta!StartFetch, MetaP!StartFetch, Meta!Fetching, MetaP!Fetching,
       Meta!Pending, MetaP!Pending, Meta!Response, MetaP!Response
<1> QED BY <1>1, <1>2, <1>3

LEMMA SameSurroundings ==
  /\ Meta!PruneCache => MetaP!PruneCache
  /\ Meta!PlexAnswers => MetaP!PlexAnswers
  /\ Meta!RequestErrs => MetaP!RequestErrs
  /\ Meta!RequestTimesOut => MetaP!RequestTimesOut
  /\ Meta!Tick => MetaP!Tick
  /\ \A key, item : Meta!EditLibrary(key, item) => MetaP!EditLibrary(key, item)
<1> USE SameOperators
<1>1. Meta!PruneCache => MetaP!PruneCache
  BY DEF Meta!PruneCache, MetaP!PruneCache, Meta!Swept, MetaP!Swept, Meta!Fresh, MetaP!Fresh
<1>2. /\ Meta!PlexAnswers => MetaP!PlexAnswers
      /\ Meta!RequestErrs => MetaP!RequestErrs
  BY DEF Meta!PlexAnswers, MetaP!PlexAnswers, Meta!RequestErrs, MetaP!RequestErrs,
       Meta!Pending, MetaP!Pending, Meta!Response, MetaP!Response
<1>3. Meta!RequestTimesOut => MetaP!RequestTimesOut
  BY DEF Meta!RequestTimesOut, MetaP!RequestTimesOut
<1>4. Meta!Tick => MetaP!Tick
  BY DEF Meta!Tick, MetaP!Tick, Meta!AgedCache, MetaP!AgedCache, Meta!AgedItems, MetaP!AgedItems
<1>5. \A key, item : Meta!EditLibrary(key, item) => MetaP!EditLibrary(key, item)
  BY DEF Meta!EditLibrary, MetaP!EditLibrary
<1> QED BY <1>1, <1>2, <1>3, <1>4, <1>5

-----------------------------------------------------------------------------
(* Types.                                                                   *)

TypeInv == TypeOK /\ queue \in Seq(Sessions) /\ MetaP!Inv

LEMMA ConstantFacts ==
  /\ PosTTL \in Nat /\ NegTTL \in Nat /\ Window \in Nat /\ MaxBackoff \in Nat
  /\ PollInterval \in Nat /\ PollInterval > 0 /\ PollInterval <= MaxBackoff
  /\ ReadyDelay \in Nat /\ MaxReadyDelay \in Nat
  /\ RequestMax \in Nat /\ RequestMax > 0 /\ RequestMax < PosTTL
  /\ PollInterval + RequestMax \in Nat
  /\ ModeContents \subseteq ModeFiles
  BY RunnerAssumption

\* No delay is negative, and none is above its cap.
LEMMA PowerOfTwo ==
  ASSUME NEW n \in Nat
  PROVE  2^n \in Nat
<1>1. IsFiniteSet(1..n) /\ Cardinality(1..n) = n
  BY FS_Interval
<1>2. IsFiniteSet(SUBSET (1..n)) /\ Cardinality(SUBSET (1..n)) = 2^n
  BY <1>1, FS_SUBSET
<1> QED BY <1>2, FS_CardinalityType

LEMMA ProductOfNats ==
  ASSUME NEW m \in Nat, NEW n \in Nat
  PROVE  m * n \in Nat
  OBVIOUS

LEMMA DelaysCapped ==
  ASSUME NEW n \in 1..5
  PROVE  Backoff(n) \in 0..MaxBackoff /\ ReadyBackoff(n) \in 0..MaxReadyDelay
<1>1. n \in Nat /\ n - 1 \in Nat
  OBVIOUS
<1>2. PollInterval * 2^n \in Nat /\ ReadyDelay * 2^(n - 1) \in Nat
  BY <1>1, PowerOfTwo, ProductOfNats, ConstantFacts
<1> QED BY <1>2, ConstantFacts DEF Backoff, ReadyBackoff

\* The session a poll is at.
LEMMA CurrentShape ==
  ASSUME TypeInv, queue # <<>>
  PROVE  /\ Tail(queue) \in Seq(Sessions) /\ Current \in Sessions
         /\ Current.sid \in SessionIDs \cup {NoID} /\ Current.sessionKey \in SessionKeys
         /\ Current.ratingKey \in Keys \cup {NoID}
         /\ Verdict.mediaID \in MediaIDs \cup {NoID}
         /\ CooldownKey(Current) \in CooldownKeys
<1>1. Tail(queue) \in Seq(Sessions) /\ Current \in Sessions
  BY DEF TypeInv, Current
<1>2. /\ Current.sid \in SessionIDs \cup {NoID} /\ Current.sessionKey \in SessionKeys
      /\ Current.ratingKey \in Keys \cup {NoID}
      /\ SelectedMediaID(Current) \in MediaIDs \cup {NoID}
  BY <1>1, DocumentsAssumption
<1>3. Verdict.mediaID \in MediaIDs \cup {NoID}
  BY <1>2 DEF Verdict, Screen
<1>4. mode \in Modes
  BY DEF TypeInv, TypeOK
<1>5. CooldownKey(Current) \in CooldownKeys
  BY <1>2, <1>4 DEF CooldownKey, CooldownKeys
<1> QED BY <1>1, <1>2, <1>3, <1>5

\* What Run and PollOnce do to the cache they do through its own steps, except
\* that the answer in hand is forgotten once it has been judged, and all but
\* the library is with a crash.
LEMMA MetaKept == TypeInv /\ [Next]_vars => MetaP!Inv'
<1> SUFFICES ASSUME TypeInv, [Next]_vars PROVE MetaP!Inv'
  OBVIOUS
<1> USE RunnerAssumption DEF TypeInv
<1>1. CASE LookUpCached \/ LookUpInPlex
  <2>1. /\ Current.ratingKey \in Keys /\ Verdict.mediaID \in MediaIDs \cup {MetaP!NoID}
        /\ \/ Meta!UseCached(Current.ratingKey, Verdict.mediaID)
           \/ Meta!StartFetch(Current.ratingKey, Verdict.mediaID)
    BY <1>1, CurrentShape, SameOperators DEF LookUpCached, LookUpInPlex
  <2>2. \/ MetaP!UseCached(Current.ratingKey, Verdict.mediaID)
        \/ MetaP!StartFetch(Current.ratingKey, Verdict.mediaID)
    BY <2>1, SameLookups
  <2> QED BY <2>1, <2>2, MetaP!LookupInv
<1>2. CASE LookedUp
  BY <1>2, AnsweredKeeps DEF LookedUp
<1>3. CASE PlexOnMetadata \/ MetadataTimesOut
  BY <1>3, SameSurroundings, MetaP!AnswersInv DEF PlexOnMetadata, MetadataTimesOut
<1>4. CASE EndPoll
  BY <1>4, SameSurroundings, MetaP!PruneCacheInv DEF EndPoll
<1>5. CASE Tick
  BY <1>5, SameSurroundings, MetaP!TickInv DEF Tick
<1>6. CASE EditLibrary
  <2>1. PICK key \in Keys, item \in MetaP!Items : MetaP!EditLibrary(key, item)
    BY <1>6, SameOperators, SameSurroundings DEF EditLibrary
  <2> QED BY <2>1, MetaP!EditInv
<1>7. CASE NotUHD \/ AskCooldown
  <2>1. reply' = MetaP!Failure /\ UNCHANGED <<library, changed, cache, call>>
    BY <1>7, SameOperators DEF NotUHD, AskCooldown
  <2> QED BY <2>1, MetaP!ResponseShape
          DEF MetaP!Inv, MetaP!TypeOK, MetaP!DatedAnswer, MetaP!DatedEntries
<1>8. CASE Crash
  <2>1. /\ reply' = MetaP!Failure /\ call' = MetaP!NoCall /\ cache' = << >>
        /\ UNCHANGED <<library, changed>>
    BY <1>8, SameOperators DEF Crash
  <2> QED BY <2>1, MetaP!ResponseShape, MetaP!NoCallIsCall
          DEF MetaP!Inv, MetaP!TypeOK, MetaP!DatedAnswer, MetaP!DatedEntries
<1>9. CASE UNCHANGED metaVars
  BY <1>9 DEF metaVars, MetaP!Inv, MetaP!TypeOK, MetaP!DatedAnswer, MetaP!DatedEntries
<1> QED BY <1>1, <1>2, <1>3, <1>4, <1>5, <1>6, <1>7, <1>8, <1>9
        DEF Next, Step, Receive, Environment, vars, AskAgain, StartPoll, SkipPoll, MissToken,
            LeaveAlone, NoRatingKey, Unresolved, Refrain, SendTerminate, TerminateUnsent,
            StopSleeping, PlexReady, PlexNotReady, SessionsAnswered, SessionsFailed, Terminated,
            TerminateInterrupted, EditModeFile, EditPrefs, Stop

\* In a poll nothing is left to sleep, and only a lookup holds a call.
LEMMA PollFacts ==
  ASSUME TypeInv
  PROVE  /\ pc \in Poll \cup {"connecting", "stopped"} => delay = 0
         /\ pc # "metadata" => ~call.active
         /\ delay \in Nat /\ waited \in Nat /\ budget \in Nat
         /\ cooldown \in [CooldownKeys -> 0..Window]
         /\ \A key \in CooldownKeys : cooldown[key] \in Nat
         /\ sinceAttempt \in [SessionIDs -> 0..Window]
         /\ \A sid \in SessionIDs : sinceAttempt[sid] \in Nat /\ sinceAttempt[sid] <= Window
<1>1. pc \in Poll \cup {"connecting", "stopped"} => delay = 0
  BY ConstantFacts DEF TypeInv, TypeOK, Poll
<1>2. delay \in Nat /\ waited \in Nat /\ budget \in Nat
  BY ConstantFacts DEF TypeInv, TypeOK
<1>3. /\ cooldown \in [CooldownKeys -> 0..Window]
      /\ sinceAttempt \in [SessionIDs -> 0..Window]
      /\ pc # "metadata" => ~call.active
  BY DEF TypeInv, TypeOK
<1> QED BY <1>1, <1>2, <1>3, ConstantFacts

\* The steps that end a poll, a session, or a request.
LEMMA ReturnType ==
  ASSUME TypeInv, NEW err \in BOOLEAN, Return(err), pc # "metadata", UNCHANGED call
  PROVE  TypeOK' /\ queue' \in Seq(Sessions)
<1> USE ConstantFacts DEF Return, fileVars
<1>1. failures' \in 0..5 /\ (~stopping /\ err => failures' \in 1..5)
  BY DEF TypeInv, TypeOK
<1>2. delay' \in 0..MaxBackoff /\ (stopping => delay' = 0)
  <2>1. CASE stopping \/ ~err
    BY <2>1
  <2>2. CASE ~stopping /\ err
    BY <1>1, <2>2, DelaysCapped
  <2> QED BY <2>1, <2>2
<1>3. /\ pc' \in {"stopped", "sleeping"} /\ (delay' > 0 => pc' = "sleeping")
      /\ pc' = "metadata" <=> call'.active
  BY <1>2 DEF TypeInv, TypeOK
<1>4. stopping' \in BOOLEAN /\ modeFile' \in ModeContents /\ prefs' \in PrefsContents
  BY DEF TypeInv, TypeOK
<1>5. /\ mode' \in Modes /\ atStart' \in ModeFiles
      /\ waited' \in 0..RequestMax /\ budget' \in 0..(PollInterval + RequestMax)
      /\ queue' \in Seq(Sessions)
  BY DEF Modes, ModeFiles
<1>6. /\ attempt' \in 0..5 /\ cooldown' \in [CooldownKeys -> 0..Window]
      /\ sinceAttempt' \in [SessionIDs -> 0..Window]
  BY DEF TypeInv, TypeOK
<1> QED BY <1>1, <1>2, <1>3, <1>4, <1>5, <1>6 DEF TypeOK

\* The part of the type that few steps touch.
UnmovedTyped ==
  /\ modeFile \in ModeContents /\ prefs \in PrefsContents /\ atStart \in ModeFiles
  /\ mode \in Modes /\ budget \in 0..(PollInterval + RequestMax)
  /\ failures \in 0..5 /\ attempt \in 0..5
  /\ cooldown \in [CooldownKeys -> 0..Window]
  /\ sinceAttempt \in [SessionIDs -> 0..Window]

LEMMA NextSessionType ==
  ASSUME TypeInv, NextSession, pc \in Poll \ {"metadata"}, queue # <<>>, UNCHANGED call
  PROVE  TypeOK' /\ queue' \in Seq(Sessions)
<1>1. queue' \in Seq(Sessions)
  BY CurrentShape DEF NextSession
<1>2. stopping' \in BOOLEAN /\ (pc' = "metadata" <=> call'.active)
  BY DEF NextSession, TypeInv, TypeOK
<1>3. /\ pc' = "loop" /\ waited' \in 0..RequestMax
      /\ delay' = 0 /\ 0 \in 0..MaxBackoff
  BY ConstantFacts, PollFacts DEF NextSession
<1>4. UnmovedTyped'
  BY DEF NextSession, TypeInv, TypeOK, UnmovedTyped, fileVars, history
<1> QED BY <1>1, <1>2, <1>3, <1>4 DEF TypeOK, UnmovedTyped

\* A step within a poll that moves on to a label.
LEMMA GotoType ==
  ASSUME TypeInv, NEW label \in {"metadata", "judge", "act"}, Goto(label), queue # <<>>,
         delay = 0, cooldown' \in [CooldownKeys -> 0..Window],
         label = "metadata" <=> call'.active
  PROVE  TypeOK' /\ queue' \in Seq(Sessions)
<1>1. stopping' \in BOOLEAN /\ (pc' = "metadata" <=> call'.active)
  BY DEF Goto, TypeInv, TypeOK
<1>2. /\ pc' = label /\ waited' \in 0..RequestMax /\ delay' = 0 /\ 0 \in 0..MaxBackoff
      /\ queue' = queue
  BY ConstantFacts DEF Goto, TypeInv, TypeOK
<1>3. UnmovedTyped'
  BY DEF Goto, TypeInv, TypeOK, UnmovedTyped, fileVars, history
<1> QED BY <1>1, <1>2, <1>3 DEF TypeInv, TypeOK, UnmovedTyped

LEMMA AllowType ==
  ASSUME TypeInv, NEW key \in CooldownKeys, Cool!Allow(key)
  PROVE  cooldown' \in [CooldownKeys -> 0..Window]
<1>1. Window \in 0..Window
  BY ConstantFacts
<1> QED BY <1>1 DEF TypeInv, TypeOK, Cool!Allow, Cool!Grant, Cool!Refuse

LEMMA TickType == TypeInv /\ Tick => TypeOK' /\ queue' \in Seq(Sessions)
<1> SUFFICES ASSUME TypeInv, Tick PROVE TypeOK' /\ queue' \in Seq(Sessions)
  OBVIOUS
<1> USE ConstantFacts, PollFacts
<1>1. /\ UNCHANGED <<pc, stopping, fileVars, mode, queue, failures, attempt, atStart>>
      /\ Waiting \/ delay > 0
  BY DEF Tick
<1>2. /\ delay' \in Nat /\ delay' <= delay
      /\ delay \in 0..(IF pc = "resting" THEN MaxReadyDelay ELSE MaxBackoff)
      /\ delay' > 0 => pc \in {"resting", "sleeping"}
  BY DEF Tick, TypeInv, TypeOK
<1>3. delay > 0 => Idle /\ pc # "connecting"
  BY DEF TypeInv, TypeOK, Idle
<1>4. waited' \in 0..RequestMax
  BY <1>1, <1>3 DEF Tick, Waiting, TypeInv, TypeOK
<1>5. budget' \in 0..(PollInterval + RequestMax)
  BY <1>1, <1>3 DEF Tick, Waiting, Idle, TypeInv, TypeOK
<1>6. cooldown' \in [CooldownKeys -> 0..Window]
  <2>1. \A key \in CooldownKeys :
          (IF cooldown[key] > 0 THEN cooldown[key] - 1 ELSE 0) \in 0..Window
    OBVIOUS
  <2> QED BY <2>1 DEF Tick, Cool!Tick, Cool!Elapse
<1>7. sinceAttempt' \in [SessionIDs -> 0..Window]
  <2>1. \A sid \in SessionIDs : Later(sinceAttempt[sid]) \in 0..Window
    BY DEF Later
  <2> QED BY <2>1 DEF Tick
<1>8. call'.active <=> call.active
  BY DEF Tick, Meta!Tick, TypeInv, MetaP!Inv, MetaP!TypeOK, MetaP!Calls
<1>9. stopping' \in BOOLEAN /\ (pc' = "metadata" <=> call'.active)
  BY <1>1, <1>8 DEF TypeInv, TypeOK
<1>10. delay' \in 0..(IF pc' = "resting" THEN MaxReadyDelay ELSE MaxBackoff)
  BY <1>1, <1>2
<1> QED BY <1>1, <1>2, <1>4, <1>5, <1>6, <1>7, <1>9, <1>10 DEF TypeInv, TypeOK, fileVars

\* waitReady, and the steps into a poll and out of a sleep.
LEMMA IdleType ==
  ASSUME TypeInv,
         \/ PlexReady \/ PlexNotReady \/ AskAgain \/ StartPoll \/ SessionsAnswered
         \/ StopSleeping
  PROVE  TypeOK' /\ queue' \in Seq(Sessions)
<1> USE ConstantFacts DEF fileVars, metaVars, coolVars, history
<1>1. UNCHANGED <<call, stopping, modeFile, prefs, cooldown, sinceAttempt>>
  BY DEF PlexReady, PlexNotReady, AskAgain, StartPoll, SessionsAnswered, StopSleeping
<1>2. stopping' \in BOOLEAN /\ (pc' = "metadata" <=> call'.active)
  BY <1>1 DEF TypeInv, TypeOK, PlexReady, PlexNotReady, AskAgain, StartPoll, SessionsAnswered,
       StopSleeping
<1>3. queue' \in Seq(Sessions)
  BY DocumentsAssumption DEF TypeInv, PlexReady, PlexNotReady, AskAgain, StartPoll,
     SessionsAnswered, StopSleeping
<1>4. attempt' \in 0..5 /\ failures' \in 0..5
  BY DEF TypeInv, TypeOK, PlexReady, PlexNotReady, AskAgain, StartPoll, SessionsAnswered,
     StopSleeping
<1>5. /\ delay' > 0 => pc' \in {"resting", "sleeping"}
      /\ delay' \in 0..(IF pc' = "resting" THEN MaxReadyDelay ELSE MaxBackoff)
  <2>1. CASE PlexNotReady
    <3>1. ~stopping => attempt' \in 1..5 /\ pc' = "resting" /\ delay' = ReadyBackoff(attempt')
      BY <2>1 DEF PlexNotReady, TypeInv, TypeOK
    <3>2. stopping => delay' = 0 /\ pc' = "stopped"
      BY <2>1 DEF PlexNotReady
    <3> QED BY <3>1, <3>2, DelaysCapped
  <2>2. CASE PlexReady \/ AskAgain \/ StartPoll \/ SessionsAnswered \/ StopSleeping
    <3>1. delay' = 0
      BY <2>2, PollFacts DEF Poll, PlexReady, AskAgain, StartPoll, SessionsAnswered, StopSleeping
    <3> QED BY <3>1
  <2> QED BY <2>1, <2>2
<1>6. /\ pc' \in {"sleeping", "stopped", "resting", "connecting", "sessions", "loop"}
      /\ pc' \in {"metadata", "judge", "act", "terminating"} => queue' # <<>>
      /\ waited' \in 0..RequestMax
  BY DEF TypeInv, TypeOK, PlexReady, PlexNotReady, AskAgain, StartPoll, SessionsAnswered,
     StopSleeping
<1>7. mode' \in Modes /\ atStart' \in ModeFiles
  BY DEF TypeInv, TypeOK, Modes, ModeFiles, Baseline, ResolveMode, PlexReady, PlexNotReady,
     AskAgain, StartPoll, SessionsAnswered, StopSleeping
<1>8. budget' \in 0..(PollInterval + RequestMax)
  BY DEF TypeInv, TypeOK, PlexReady, PlexNotReady, AskAgain, StartPoll, SessionsAnswered,
     StopSleeping
<1> QED BY <1>1, <1>2, <1>3, <1>4, <1>5, <1>6, <1>7, <1>8 DEF TypeInv, TypeOK

\* What happens around the loop, and a crash.
LEMMA EnvironmentType ==
  ASSUME TypeInv,
         \/ Unmoved /\ UNCHANGED coolVars /\ stopping' \in BOOLEAN
            /\ modeFile' \in ModeContents /\ prefs' \in PrefsContents
            /\ (call'.active <=> call.active)
         \/ Crash
  PROVE  TypeOK' /\ queue' \in Seq(Sessions)
<1> USE ConstantFacts DEF coolVars, history
<1>1. CASE /\ Unmoved /\ UNCHANGED coolVars /\ stopping' \in BOOLEAN
           /\ modeFile' \in ModeContents /\ prefs' \in PrefsContents
           /\ (call'.active <=> call.active)
  <2>1. UnmovedTyped'
    BY <1>1 DEF Unmoved, TypeInv, TypeOK, UnmovedTyped
  <2>2. stopping' \in BOOLEAN /\ (pc' = "metadata" <=> call'.active)
    BY <1>1 DEF Unmoved, TypeInv, TypeOK
  <2> QED BY <1>1, <2>1, <2>2 DEF Unmoved, TypeInv, TypeOK, UnmovedTyped
<1>2. CASE Crash
  <2>1. stopping' \in BOOLEAN /\ (pc' = "metadata" <=> call'.active)
    BY <1>2, MetaP!NoCallIsCall, SameOperators, RunnerAssumption DEF Crash, TypeInv, TypeOK
  <2>2. UnmovedTyped'
    BY <1>2 DEF Crash, Cool!Restart, Cool!Open, TypeInv, TypeOK, UnmovedTyped, Modes, ModeFiles,
         fileVars
  <2> QED BY <1>2, <2>1, <2>2 DEF Crash, TypeOK, UnmovedTyped
<1> QED BY <1>1, <1>2

LEMMA InPollType ==
  ASSUME TypeInv,
         \/ SkipPoll \/ MissToken \/ SessionsFailed \/ LeaveAlone \/ NoRatingKey
         \/ LookUpCached \/ LookUpInPlex \/ LookedUp \/ Unresolved \/ NotUHD \/ AskCooldown
         \/ Refrain \/ SendTerminate \/ TerminateUnsent \/ Terminated
         \/ TerminateInterrupted \/ EndPoll
  PROVE  TypeOK' /\ queue' \in Seq(Sessions)
<1> USE DEF Poll, metaVars, coolVars
<1>1. CASE SkipPoll \/ MissToken \/ SessionsFailed \/ TerminateInterrupted \/ EndPoll
  <2>1. PICK err \in BOOLEAN : Return(err)
    BY <1>1 DEF SkipPoll, MissToken, SessionsFailed, TerminateInterrupted, EndPoll
  <2>2. pc # "metadata" /\ UNCHANGED call
    BY <1>1 DEF SkipPoll, MissToken, SessionsFailed, TerminateInterrupted, EndPoll,
         Meta!PruneCache
  <2> QED BY <2>1, <2>2, ReturnType
<1>2. CASE LeaveAlone \/ NoRatingKey \/ Unresolved \/ NotUHD \/ Refrain \/ Terminated
  <2>1. /\ pc \in Poll \ {"metadata"} /\ queue # <<>> /\ UNCHANGED call
        /\ NextSession \/ Return(TRUE)
    BY <1>2 DEF LeaveAlone, NoRatingKey, Unresolved, NotUHD, Refrain, Terminated, TypeInv, TypeOK
  <2> QED BY <2>1, ReturnType, NextSessionType
<1>3. CASE LookUpCached \/ LookUpInPlex \/ LookedUp \/ AskCooldown
  <2>1. delay = 0 /\ queue # <<>>
    BY <1>3, PollFacts DEF LookUpCached, LookUpInPlex, LookedUp, AskCooldown, TypeInv, TypeOK
  <2>2. cooldown' \in [CooldownKeys -> 0..Window]
    BY <1>3, <2>1, PollFacts, AllowType, CurrentShape
       DEF LookUpCached, LookUpInPlex, LookedUp, AskCooldown
  <2>3. CASE LookUpInPlex
    <3>1. call'.active
      BY <2>3 DEF LookUpInPlex, Meta!StartFetch, Meta!Fetching
    <3> QED BY <2>1, <2>2, <2>3, <3>1, GotoType DEF LookUpInPlex
  <2>4. CASE LookUpCached \/ LookedUp \/ AskCooldown
    <3>1. ~call'.active
      <4>1. LookUpCached => ~call'.active
        BY DEF LookUpCached, Meta!UseCached
      <4>2. AskCooldown => ~call'.active
        BY PollFacts DEF AskCooldown
      <4>3. ~Meta!NoCall.active
        BY DEF Meta!NoCall
      <4>4. LookedUp => call' = Meta!NoCall
        BY DEF LookedUp, Meta!FetchSucceeds, Meta!FetchFails, Meta!FetchAbandoned
      <4> QED BY <2>4, <4>1, <4>2, <4>3, <4>4
    <3>2. PICK label \in {"judge", "act"} : Goto(label)
      BY <2>4 DEF LookUpCached, LookedUp, AskCooldown
    <3> QED BY <2>1, <2>2, <3>1, <3>2, GotoType
  <2> QED BY <1>3, <2>3, <2>4
<1>4. CASE SendTerminate \/ TerminateUnsent
  <2>1. pc = "act" /\ queue # <<>> /\ UNCHANGED call /\ Current.sid \in SessionIDs
    BY <1>4, CurrentShape DEF SendTerminate, TerminateUnsent, ToTerminate, TypeInv, TypeOK
  <2>2. CASE Return(TRUE)
    BY <2>1, <2>2, ReturnType
  <2>3. CASE ~Return(TRUE)
    <3>1. /\ pc' \in {"terminating", "loop"} /\ waited' = 0
          /\ queue' \in {queue, Tail(queue)} /\ (pc' = "terminating" => queue' = queue)
          /\ UNCHANGED <<stopping, fileVars, mode, budget, delay, failures, attempt, cooldown,
                         atStart>>
          /\ Attempted
      BY <1>4, <2>3 DEF SendTerminate, TerminateUnsent, ToTerminate
    <3>2. UnmovedTyped'
      <4>1. sinceAttempt' \in [SessionIDs -> 0..Window]
        BY <2>1, <3>1, ConstantFacts, PollFacts DEF Attempted
      <4> QED BY <3>1, <4>1 DEF UnmovedTyped, TypeInv, TypeOK, fileVars
    <3>3. stopping' \in BOOLEAN /\ (pc' = "metadata" <=> call'.active)
      BY <2>1, <3>1 DEF TypeInv, TypeOK
    <3>4. queue' \in Seq(Sessions)
      BY <2>1, <3>1, CurrentShape DEF TypeInv
    <3>5. delay' = 0 /\ 0 \in 0..MaxBackoff /\ waited' \in 0..RequestMax
      BY <2>1, <3>1, PollFacts, ConstantFacts
    <3> QED BY <2>1, <3>1, <3>2, <3>3, <3>4, <3>5 DEF UnmovedTyped, TypeOK
  <2> QED BY <2>2, <2>3
<1> QED BY <1>1, <1>2, <1>3, <1>4

LEMMA InitType == Init => TypeInv
<1> SUFFICES ASSUME Init PROVE TypeInv
  OBVIOUS
<1> USE ConstantFacts DEF Init
<1>1. MetaP!Inv
  <2>1. MetaP!Init
    BY SameOperators DEF Meta!Init, MetaP!Init
  <2> QED BY <2>1, MetaP!InitInv, RunnerAssumption
<1>2. ~call.active
  BY DEF Meta!Init, Meta!NoCall
<1>3. cooldown \in [CooldownKeys -> 0..Window] /\ sinceAttempt \in [SessionIDs -> 0..Window]
  BY DEF Cool!Init, Cool!Open
<1>4. stopping \in BOOLEAN /\ (pc = "metadata" <=> call.active)
  BY <1>2
<1>5. modeFile \in ModeContents /\ prefs \in PrefsContents /\ atStart \in ModeFiles /\ mode \in Modes
  BY DEF ModeFiles, Modes
<1>6. /\ pc = "connecting" /\ waited = 0 /\ budget = 0 /\ delay = 0 /\ failures = 0 /\ attempt = 0
      /\ queue \in Seq(Sessions)
  OBVIOUS
<1> QED BY <1>1, <1>3, <1>4, <1>5, <1>6 DEF TypeInv, TypeOK

LEMMA NextType == TypeInv /\ [Next]_vars => TypeInv'
<1> SUFFICES ASSUME TypeInv, [Next]_vars PROVE TypeOK' /\ queue' \in Seq(Sessions)
  BY MetaKept DEF TypeInv
<1>1. CASE \/ EditModeFile \/ EditPrefs \/ EditLibrary \/ PlexOnMetadata \/ Stop
           \/ MetadataTimesOut \/ UNCHANGED vars
  <2>1. Unmoved /\ UNCHANGED coolVars
    BY <1>1 DEF EditModeFile, EditPrefs, EditLibrary, PlexOnMetadata, Stop, MetadataTimesOut,
         vars, Unmoved, coolVars, history
  <2>2. modeFile' \in ModeContents /\ prefs' \in PrefsContents
    BY <1>1 DEF EditModeFile, EditPrefs, EditLibrary, PlexOnMetadata, Stop, MetadataTimesOut,
         vars, fileVars, TypeInv, TypeOK
  <2>3. stopping' \in BOOLEAN
    BY <1>1 DEF EditModeFile, EditPrefs, EditLibrary, PlexOnMetadata, Stop, MetadataTimesOut,
         vars, TypeInv, TypeOK
  <2>4. call'.active <=> call.active
    <3>1. \A r : [call EXCEPT !.response = r].active = call.active
      BY DEF TypeInv, MetaP!Inv, MetaP!TypeOK, MetaP!Calls
    <3> QED BY <1>1, <3>1
            DEF EditModeFile, EditPrefs, EditLibrary, PlexOnMetadata, Stop, MetadataTimesOut, vars,
                metaVars, Meta!EditLibrary, Meta!PlexAnswers, Meta!RequestErrs, Meta!RequestTimesOut
  <2> QED BY <2>1, <2>2, <2>3, <2>4, EnvironmentType
<1>2. CASE Crash
  BY <1>2, EnvironmentType
<1>3. CASE Tick
  BY <1>3, TickType
<1> QED BY <1>1, <1>2, <1>3, IdleType, InPollType DEF Next, Step, Receive, Environment

LEMMA Typed == Spec => []TypeInv
<1> QED BY InitType, NextType, PTL DEF Spec

-----------------------------------------------------------------------------
(* The deadline and the mode of the poll.                                   *)

DeadlineKept ==
  IF pc \in Poll THEN elapsed \in Nat /\ elapsed + budget = PollInterval + RequestMax
  ELSE elapsed = 0

ModeOfPoll == pc \in Poll => mode = ResolveMode(atStart) /\ mode # "off"

\* A poll begins, ends, or lasts, with time passing or without.
LEMMA PollSteps ==
  ASSUME TypeInv, [Next]_vars
  PROVE  \/ /\ UNCHANGED <<mode, atStart, elapsed, budget>>
            /\ pc \in Poll <=> pc' \in Poll
         \/ StartPoll
         \/ pc' \notin Poll /\ elapsed' = 0
         \/ Tick
<1> USE DEF Poll, history
<1>1. CASE Environment \/ MetadataTimesOut \/ UNCHANGED vars
  BY <1>1 DEF Environment, EditModeFile, EditPrefs, EditLibrary, PlexOnMetadata, Stop, Crash,
       MetadataTimesOut, Unmoved, vars
<1>2. CASE \/ PlexReady \/ PlexNotReady \/ AskAgain \/ SessionsAnswered \/ StopSleeping
  BY <1>2 DEF PlexReady, PlexNotReady, AskAgain, SessionsAnswered, StopSleeping
<1>3. CASE \/ SkipPoll \/ MissToken \/ SessionsFailed \/ TerminateInterrupted \/ EndPoll
  BY <1>3 DEF SkipPoll, MissToken, SessionsFailed, TerminateInterrupted, EndPoll, Return
<1>4. CASE \/ LeaveAlone \/ NoRatingKey \/ Unresolved \/ NotUHD \/ Refrain \/ Terminated
  BY <1>4 DEF LeaveAlone, NoRatingKey, Unresolved, NotUHD, Refrain, Terminated, Return, NextSession
<1>5. CASE \/ LookUpCached \/ LookUpInPlex \/ LookedUp \/ AskCooldown
  BY <1>5 DEF LookUpCached, LookUpInPlex, LookedUp, AskCooldown, Goto
<1>6. CASE SendTerminate \/ TerminateUnsent
  BY <1>6 DEF SendTerminate, TerminateUnsent, ToTerminate, Return
<1> QED BY <1>1, <1>2, <1>3, <1>4, <1>5, <1>6 DEF Next, Step, Receive

LEMMA DeadlineStep == TypeInv /\ DeadlineKept /\ [Next]_vars => DeadlineKept'
<1> SUFFICES ASSUME TypeInv, DeadlineKept, [Next]_vars PROVE DeadlineKept'
  OBVIOUS
<1> USE ConstantFacts, PollFacts
<1>1. CASE UNCHANGED <<elapsed, budget>> /\ (pc \in Poll <=> pc' \in Poll)
  BY <1>1 DEF DeadlineKept
<1>2. CASE StartPoll
  BY <1>2 DEF StartPoll, DeadlineKept, Poll
<1>3. CASE pc' \notin Poll /\ elapsed' = 0
  BY <1>3 DEF DeadlineKept
<1>4. CASE Tick
  <2>1. CASE pc \in Poll
    <3>1. budget > 0 /\ pc' = pc /\ budget' = budget - 1 /\ elapsed' = elapsed + 1
      BY <1>4, <2>1 DEF Tick, Waiting, Idle, Poll
    <3> QED BY <2>1, <3>1 DEF DeadlineKept
  <2>2. CASE pc \notin Poll
    <3>1. Idle /\ pc' = pc /\ elapsed' = elapsed
      BY <1>4, <2>2 DEF Tick, Waiting, Idle, Poll, TypeInv, TypeOK
    <3> QED BY <2>2, <3>1 DEF DeadlineKept
  <2> QED BY <2>1, <2>2
<1> QED BY <1>1, <1>2, <1>3, <1>4, PollSteps

LEMMA ModeStep == TypeInv /\ ModeOfPoll /\ [Next]_vars => ModeOfPoll'
<1> SUFFICES ASSUME TypeInv, ModeOfPoll, [Next]_vars PROVE ModeOfPoll'
  OBVIOUS
<1>1. CASE UNCHANGED <<mode, atStart>> /\ (pc \in Poll <=> pc' \in Poll)
  BY <1>1 DEF ModeOfPoll, ResolveMode, Baseline
<1>2. CASE StartPoll
  BY <1>2 DEF StartPoll, ModeOfPoll, ResolveMode, Baseline
<1>3. CASE pc' \notin Poll
  BY <1>3 DEF ModeOfPoll
<1>4. CASE Tick
  BY <1>4 DEF Tick, ModeOfPoll, ResolveMode, Baseline
<1> QED BY <1>1, <1>2, <1>3, <1>4, PollSteps

LEMMA DeadlineAlways == Spec => []DeadlineKept
<1>1. Init => DeadlineKept
  BY DEF Init, DeadlineKept, Poll
<1> QED BY <1>1, Typed, DeadlineStep, PTL DEF Spec

LEMMA ModeAlways == Spec => []ModeOfPoll
<1>1. Init => ModeOfPoll
  BY DEF Init, ModeOfPoll, Poll
<1> QED BY <1>1, Typed, ModeStep, PTL DEF Spec

\* Every mode but off and dry-run enforces, and only a mode file that says so,
\* or none beside an enforcing environment, resolves to it.
LEMMA Enforcing ==
  ASSUME TypeInv, ModeOfPoll, pc \in Poll, mode # "dry-run"
  PROVE  mode = "enforce" /\ (atStart = "enforce" \/ (atStart = "missing" /\ ~DryRun))
<1>1. atStart \in ModeFiles /\ mode \in Modes /\ mode = ResolveMode(atStart) /\ mode # "off"
  BY DEF TypeInv, TypeOK, ModeOfPoll
<1> QED BY <1>1, RunnerAssumption DEF ModeFiles, Modes, ResolveMode, Baseline

-----------------------------------------------------------------------------
(* The cooldown beside the attempts it spaces.                              *)

EnforcedKey(sid) == <<"enforce", sid>>

\* The cooldown has let the session pass, and its attempt is the next step.
Granted(sid) ==
  pc = "act" /\ answer.allowed /\ CooldownKey(Current) = EnforcedKey(sid)

\* A window is never shorter than the attempt it follows asks for,
Spaced == \A sid \in SessionIDs : cooldown[EnforcedKey(sid)] + sinceAttempt[sid] >= Window

\* and never longer, except that it opens a step before the attempt is made,
\* and that a shutdown may come between the two.
Exact ==
  pc # "stopped" =>
    \A sid \in SessionIDs :
      cooldown[EnforcedKey(sid)] > 0 /\ ~Granted(sid) =>
        cooldown[EnforcedKey(sid)] + sinceAttempt[sid] <= Window

\* What the cooldown's answer says of the window while it is acted upon.
Answered ==
  pc = "act" =>
    /\ answer.allowed \in BOOLEAN
    /\ IF answer.allowed
       THEN /\ cooldown[CooldownKey(Current)] = Window
            /\ \A sid \in SessionIDs :
                 CooldownKey(Current) = EnforcedKey(sid) => sinceAttempt[sid] = Window
       ELSE cooldown[CooldownKey(Current)] > 0

CooldownInv == Spaced /\ Exact /\ Answered

\* The poll passes a session over, or stops before its attempt is made.
Forgone ==
  /\ pc = "act" /\ pc' # "act" /\ UNCHANGED <<cooldown, sinceAttempt>>
  /\ pc' = "stopped" \/ ~answer.allowed \/ Current.sid = NoID \/ mode = "dry-run"

Made == Attempt /\ UNCHANGED cooldown /\ Attempted

LEMMA AttemptSteps ==
  ASSUME TypeInv, [Next]_vars
  PROVE  \/ /\ UNCHANGED <<cooldown, sinceAttempt>>
            /\ pc # "act" /\ pc' # "act" /\ (pc = "stopped" => pc' = "stopped")
         \/ UNCHANGED <<cooldown, sinceAttempt, answer, pc, mode, queue>>
         \/ AskCooldown
         \/ Forgone
         \/ Made
         \/ Tick
         \/ Crash
<1> USE DEF history, coolVars
<1>1. CASE \/ EditModeFile \/ EditPrefs \/ EditLibrary \/ PlexOnMetadata \/ Stop
           \/ MetadataTimesOut \/ UNCHANGED vars
  BY <1>1 DEF EditModeFile, EditPrefs, EditLibrary, PlexOnMetadata, Stop, MetadataTimesOut,
       Unmoved, vars
<1>2. CASE \/ PlexReady \/ PlexNotReady \/ AskAgain \/ StartPoll \/ SessionsAnswered
           \/ StopSleeping
  BY <1>2 DEF PlexReady, PlexNotReady, AskAgain, StartPoll, SessionsAnswered, StopSleeping
<1>3. CASE \/ SkipPoll \/ MissToken \/ SessionsFailed \/ TerminateInterrupted \/ EndPoll
  BY <1>3 DEF SkipPoll, MissToken, SessionsFailed, TerminateInterrupted, EndPoll, Return
<1>4. CASE \/ LeaveAlone \/ NoRatingKey \/ Unresolved \/ NotUHD \/ Terminated
  BY <1>4 DEF LeaveAlone, NoRatingKey, Unresolved, NotUHD, Terminated, Return, NextSession
<1>5. CASE \/ LookUpCached \/ LookUpInPlex \/ LookedUp
  BY <1>5 DEF LookUpCached, LookUpInPlex, LookedUp, Goto
<1>6. CASE Refrain
  BY <1>6 DEF Refrain, NextSession, Forgone
<1>7. CASE SendTerminate
  BY <1>7 DEF SendTerminate, Made, Attempt
<1>8. CASE TerminateUnsent
  BY <1>8 DEF TerminateUnsent, ToTerminate, Return, Forgone, Made, Attempt
<1> QED BY <1>1, <1>2, <1>3, <1>4, <1>5, <1>6, <1>7, <1>8
        DEF Next, Step, Receive, Environment

\* Which window a session's attempt opens.
LEMMA KeysOfSessions ==
  ASSUME TypeInv
  PROVE  /\ \A sid \in SessionIDs :
              EnforcedKey(sid) \in CooldownKeys /\ cooldown[EnforcedKey(sid)] \in 0..Window
         /\ \A sid \in SessionIDs :
              CooldownKey(Current) = EnforcedKey(sid) =>
                Current.sid = sid /\ Current.sid # NoID /\ mode = "enforce"
         /\ mode = "enforce" /\ Current.sid # NoID =>
              CooldownKey(Current) = EnforcedKey(Current.sid)
         /\ \A s1, s2 \in SessionIDs : EnforcedKey(s1) = EnforcedKey(s2) => s1 = s2
<1>1. \A sid \in SessionIDs : EnforcedKey(sid) \in CooldownKeys
  BY DEF EnforcedKey, CooldownKeys, Modes
<1>2. \A sid \in SessionIDs : cooldown[EnforcedKey(sid)] \in 0..Window
  BY <1>1, PollFacts
<1>3. ASSUME NEW sid \in SessionIDs, CooldownKey(Current) = EnforcedKey(sid)
      PROVE  Current.sid = sid /\ Current.sid # NoID /\ mode = "enforce"
  <2>1. <<mode, "key", Current.sessionKey>> # <<"enforce", sid>>
    OBVIOUS
  <2> QED BY <1>3, <2>1 DEF CooldownKey, EnforcedKey
<1>4. mode = "enforce" /\ Current.sid # NoID => CooldownKey(Current) = EnforcedKey(Current.sid)
  BY DEF CooldownKey, EnforcedKey
<1>5. \A s1, s2 \in SessionIDs : EnforcedKey(s1) = EnforcedKey(s2) => s1 = s2
  BY DEF EnforcedKey
<1> QED BY <1>1, <1>2, <1>3, <1>4, <1>5

\* The window opens: from here on it is the attempt that is late.
LEMMA AskedStep ==
  ASSUME TypeInv, Spaced, Exact, AskCooldown
  PROVE  CooldownInv'
<1> DEFINE key == CooldownKey(Current)
<1> USE KeysOfSessions, PollFacts, ConstantFacts
<1>1. /\ pc = "judge" /\ pc' = "act" /\ Cool!Allow(key)
      /\ UNCHANGED <<mode, queue, sinceAttempt>>
  BY DEF AskCooldown, Goto, history
<1>2. key \in CooldownKeys /\ CooldownKey(Current)' = key
  BY <1>1, CurrentShape DEF CooldownKey, Current, TypeInv, TypeOK
<1>3. ASSUME NEW sid \in SessionIDs
      PROVE  /\ cooldown[EnforcedKey(sid)] > 0 =>
                  cooldown[EnforcedKey(sid)] + sinceAttempt[sid] <= Window
             /\ cooldown[EnforcedKey(sid)] + sinceAttempt[sid] >= Window
             /\ cooldown[EnforcedKey(sid)] = 0 => sinceAttempt[sid] = Window
  BY <1>1 DEF Spaced, Exact, Granted
<1>4. CASE Cool!Grant(key)
  <2>1. /\ cooldown[key] = 0 /\ cooldown' = [cooldown EXCEPT ![key] = Window]
        /\ answer'.allowed = TRUE
    BY <1>4 DEF Cool!Grant, Cool!Answer
  <2>2. cooldown'[key] = Window /\ \A k \in CooldownKeys : k # key => cooldown'[k] = cooldown[k]
    BY <1>2, <2>1
  <2>3. Spaced'
    <3> SUFFICES ASSUME NEW sid \in SessionIDs
                 PROVE  cooldown'[EnforcedKey(sid)] + sinceAttempt'[sid] >= Window
      BY DEF Spaced, EnforcedKey
    <3> QED BY <1>1, <1>3, <2>2
  <2>4. Exact'
    <3> SUFFICES ASSUME NEW sid \in SessionIDs, cooldown'[EnforcedKey(sid)] > 0, ~Granted(sid)'
                 PROVE  cooldown'[EnforcedKey(sid)] + sinceAttempt'[sid] <= Window
      BY DEF Exact, EnforcedKey
    <3>1. EnforcedKey(sid) # key
      BY <1>1, <1>2, <2>1 DEF Granted, EnforcedKey
    <3> QED BY <1>1, <1>3, <2>2, <3>1
  <2>5. Answered'
    <3>1. \A sid \in SessionIDs : key = EnforcedKey(sid) => sinceAttempt'[sid] = Window
      BY <1>1, <1>3, <2>1
    <3> QED BY <1>2, <2>1, <2>2, <3>1 DEF Answered, EnforcedKey
  <2> QED BY <2>3, <2>4, <2>5 DEF CooldownInv
<1>5. CASE Cool!Refuse(key)
  <2>1. cooldown[key] > 0 /\ cooldown' = cooldown /\ answer'.allowed = FALSE
    BY <1>5 DEF Cool!Refuse, Cool!Answer
  <2>2. Spaced'
    BY <1>1, <2>1 DEF Spaced, EnforcedKey
  <2>3. Exact'
    BY <1>1, <1>3, <2>1 DEF Exact, EnforcedKey
  <2>4. Answered'
    BY <1>2, <2>1 DEF Answered
  <2> QED BY <2>2, <2>3, <2>4 DEF CooldownInv
<1> QED BY <1>1, <1>4, <1>5 DEF Cool!Allow

\* The attempt is made in the step after its window opened.
LEMMA MadeStep ==
  ASSUME TypeInv, ModeOfPoll, CooldownInv, Made
  PROVE  /\ Current.sid \in SessionIDs /\ sinceAttempt[Current.sid] = Window
         /\ CooldownInv'
<1> USE KeysOfSessions, PollFacts, ConstantFacts
<1>1. /\ pc = "act" /\ answer.allowed /\ Current.sid # NoID /\ mode # "dry-run"
      /\ pc' \in {"terminating", "loop"}
      /\ cooldown' = cooldown /\ sinceAttempt' = [sinceAttempt EXCEPT ![Current.sid] = 0]
  BY DEF Made, Attempt, ToTerminate, Attempted
<1>2. Current.sid \in SessionIDs /\ mode = "enforce"
  BY <1>1, CurrentShape, Enforcing DEF TypeInv, TypeOK, Poll
<1>3. CooldownKey(Current) = EnforcedKey(Current.sid)
  BY <1>1, <1>2
<1>4. cooldown[EnforcedKey(Current.sid)] = Window /\ sinceAttempt[Current.sid] = Window
  BY <1>1, <1>2, <1>3 DEF CooldownInv, Answered
<1>5. /\ sinceAttempt'[Current.sid] = 0
      /\ \A sid \in SessionIDs : sid # Current.sid => sinceAttempt'[sid] = sinceAttempt[sid]
  BY <1>1, <1>2
<1>6. Spaced'
  <2> SUFFICES ASSUME NEW sid \in SessionIDs
               PROVE  cooldown[EnforcedKey(sid)] + sinceAttempt'[sid] >= Window
    BY <1>1 DEF Spaced, EnforcedKey
  <2> QED BY <1>4, <1>5 DEF CooldownInv, Spaced
<1>7. Exact'
  <2> SUFFICES ASSUME NEW sid \in SessionIDs, cooldown[EnforcedKey(sid)] > 0
               PROVE  cooldown[EnforcedKey(sid)] + sinceAttempt'[sid] <= Window
    BY <1>1 DEF Exact, EnforcedKey
  <2>1. CASE sid = Current.sid
    BY <1>4, <1>5, <2>1
  <2>2. CASE sid # Current.sid
    BY <1>1, <1>3, <1>5, <2>2 DEF CooldownInv, Exact, Granted
  <2> QED BY <2>1, <2>2
<1>8. Answered'
  BY <1>1 DEF Answered
<1> QED BY <1>2, <1>4, <1>6, <1>7, <1>8 DEF CooldownInv

\* As a window runs out, so does the time to the attempt grow.
LEMMA TickSpaces == TypeInv /\ CooldownInv /\ Tick => CooldownInv'
<1> SUFFICES ASSUME TypeInv, CooldownInv, Tick PROVE CooldownInv'
  OBVIOUS
<1> USE KeysOfSessions, PollFacts, ConstantFacts
<1>1. pc' = pc /\ pc # "act"
  BY DEF Tick, Waiting, Poll
<1>2. ASSUME NEW sid \in SessionIDs
      PROVE  /\ cooldown'[EnforcedKey(sid)] =
                  IF cooldown[EnforcedKey(sid)] > 0 THEN cooldown[EnforcedKey(sid)] - 1 ELSE 0
             /\ sinceAttempt'[sid] =
                  IF sinceAttempt[sid] < Window THEN sinceAttempt[sid] + 1 ELSE Window
             /\ cooldown[EnforcedKey(sid)] + sinceAttempt[sid] >= Window
             /\ pc # "stopped" /\ cooldown[EnforcedKey(sid)] > 0 =>
                  cooldown[EnforcedKey(sid)] + sinceAttempt[sid] <= Window
  BY <1>1 DEF Tick, Cool!Tick, Cool!Elapse, Later, CooldownInv, Spaced, Exact, Granted
<1>3. Spaced'
  <2> SUFFICES ASSUME NEW sid \in SessionIDs
               PROVE  cooldown'[EnforcedKey(sid)] + sinceAttempt'[sid] >= Window
    BY DEF Spaced, EnforcedKey
  <2> QED BY <1>2
<1>4. Exact'
  <2> SUFFICES ASSUME pc # "stopped", NEW sid \in SessionIDs, cooldown'[EnforcedKey(sid)] > 0
               PROVE  cooldown'[EnforcedKey(sid)] + sinceAttempt'[sid] <= Window
    BY <1>1 DEF Exact, EnforcedKey
  <2> QED BY <1>1, <1>2
<1>5. Answered'
  BY <1>1 DEF Answered
<1> QED BY <1>3, <1>4, <1>5 DEF CooldownInv

LEMMA CooldownStep == TypeInv /\ ModeOfPoll /\ CooldownInv /\ [Next]_vars => CooldownInv'
<1> SUFFICES ASSUME TypeInv, ModeOfPoll, CooldownInv, [Next]_vars PROVE CooldownInv'
  OBVIOUS
<1> USE KeysOfSessions, PollFacts, ConstantFacts
<1>1. CASE /\ UNCHANGED <<cooldown, sinceAttempt>>
           /\ pc # "act" /\ pc' # "act" /\ (pc = "stopped" => pc' = "stopped")
  BY <1>1 DEF CooldownInv, Spaced, Exact, Answered, Granted, EnforcedKey
<1>2. CASE UNCHANGED <<cooldown, sinceAttempt, answer, pc, mode, queue>>
  <2>1. CooldownKey(Current)' = CooldownKey(Current)
    BY <1>2 DEF CooldownKey, Current
  <2>2. \A sid \in SessionIDs : Granted(sid)' <=> Granted(sid)
    BY <1>2, <2>1 DEF Granted, EnforcedKey
  <2>3. Answered'
    BY <1>2, <2>1 DEF CooldownInv, Answered, EnforcedKey
  <2> QED BY <1>2, <2>2, <2>3 DEF CooldownInv, Spaced, Exact, EnforcedKey
<1>3. CASE AskCooldown
  BY <1>3, AskedStep DEF CooldownInv
<1>4. CASE Forgone
  <2>1. pc' # "stopped" => \A sid \in SessionIDs : ~Granted(sid)
    BY <1>4 DEF Forgone, Granted
  <2> QED BY <1>4, <2>1 DEF Forgone, CooldownInv, Spaced, Exact, Answered, EnforcedKey
<1>5. CASE Made
  BY <1>5, MadeStep
<1>6. CASE Tick
  BY <1>6, TickSpaces
<1>7. CASE Crash
  <2>1. /\ pc' = "connecting"
        /\ \A sid \in SessionIDs : sinceAttempt'[sid] = Window
        /\ \A sid \in SessionIDs : cooldown'[EnforcedKey(sid)] = 0
    BY <1>7 DEF Crash, Cool!Restart, Cool!Open
  <2> QED BY <2>1 DEF CooldownInv, Spaced, Exact, Answered, EnforcedKey
<1> QED BY <1>1, <1>2, <1>3, <1>4, <1>5, <1>6, <1>7, AttemptSteps

LEMMA CooldownAlways == Spec => []CooldownInv
<1>1. Init => CooldownInv
  <2> SUFFICES ASSUME Init PROVE CooldownInv
    OBVIOUS
  <2>1. /\ pc = "connecting"
        /\ \A sid \in SessionIDs : sinceAttempt[sid] = Window
        /\ \A sid \in SessionIDs : cooldown[EnforcedKey(sid)] = 0
    BY DEF Init, Cool!Init, Cool!Open, EnforcedKey, CooldownKeys, Modes
  <2> QED BY <2>1, ConstantFacts DEF CooldownInv, Spaced, Exact, Answered
<1> QED BY <1>1, Typed, ModeAlways, CooldownStep, PTL DEF Spec

\* An attempt is what Made says: no other step leads from a grant to it.
LEMMA AttemptsAreMade == TypeInv /\ [Next]_vars /\ Attempt => Made
<1> SUFFICES ASSUME TypeInv, [Next]_vars, Attempt PROVE Made
  OBVIOUS
<1>1. pc = "act" /\ pc' \in {"terminating", "loop"} /\ answer.allowed /\ Current.sid # NoID
      /\ mode # "dry-run"
  BY DEF Attempt, ToTerminate
<1> QED BY <1>1, AttemptSteps DEF Forgone, AskCooldown, Tick, Waiting, Crash

-----------------------------------------------------------------------------
(* The evidence a session is judged by.                                     *)

Judging == {"metadata", "judge", "act"}

\* A lookup, and what follows from it, is of a video transcode's own item.
OfCurrent ==
  pc \in Judging =>
    /\ Verdict.candidate /\ Current.ratingKey \in Keys
    /\ pc = "metadata" => call.key = Current.ratingKey

\* The versions in hand are those the library lists, or were not long ago,
Replied ==
  pc = "judge" /\ reply # Meta!Failure =>
    \/ library[Current.ratingKey] = reply
    \/ changed[Current.ratingKey] < PosTTL

\* and so are those that condemned the session.
Condemned ==
  pc = "act" =>
    \/ changed[Current.ratingKey] < PosTTL
    \/ Judge(Verdict, library[Current.ratingKey].sources).terminate

EvidenceInv == OfCurrent /\ Replied /\ Condemned

LEMMA EvidenceSteps ==
  ASSUME TypeInv, [Next]_vars
  PROVE  \/ pc' \notin Judging
         \/ UNCHANGED <<pc, queue, library, changed, reply>> /\ call'.key = call.key
         \/ EditLibrary
         \/ LookUpCached \/ LookUpInPlex \/ LookedUp \/ AskCooldown
         \/ Tick
<1> USE DEF Judging
<1>1. CASE EditModeFile \/ EditPrefs \/ Stop \/ UNCHANGED vars
  BY <1>1 DEF EditModeFile, EditPrefs, Stop, Unmoved, vars, metaVars
<1>2. CASE PlexOnMetadata \/ MetadataTimesOut
  <2>1. \A r : [call EXCEPT !.response = r].key = call.key
    BY DEF TypeInv, MetaP!Inv, MetaP!TypeOK, MetaP!Calls
  <2> QED BY <1>2, <2>1 DEF PlexOnMetadata, MetadataTimesOut, Unmoved, Meta!PlexAnswers,
               Meta!RequestErrs, Meta!RequestTimesOut
<1>3. CASE \/ Crash \/ PlexReady \/ PlexNotReady \/ AskAgain \/ StartPoll \/ SessionsAnswered
           \/ StopSleeping
  BY <1>3 DEF Crash, PlexReady, PlexNotReady, AskAgain, StartPoll, SessionsAnswered, StopSleeping
<1>4. CASE \/ SkipPoll \/ MissToken \/ SessionsFailed \/ TerminateInterrupted \/ EndPoll
           \/ LeaveAlone \/ NoRatingKey \/ Unresolved \/ NotUHD \/ Terminated \/ Refrain
  BY <1>4 DEF SkipPoll, MissToken, SessionsFailed, TerminateInterrupted, EndPoll, LeaveAlone,
       NoRatingKey, Unresolved, NotUHD, Terminated, Refrain, Return, NextSession
<1>5. CASE SendTerminate \/ TerminateUnsent
  BY <1>5 DEF SendTerminate, TerminateUnsent, Return
<1> QED BY <1>1, <1>2, <1>3, <1>4, <1>5 DEF Next, Step, Receive, Environment

\* The cache, and Plex, answer with what is or was not long ago listed.
LEMMA LookedUpStep ==
  ASSUME TypeInv, OfCurrent, LookUpCached \/ LookUpInPlex \/ LookedUp
  PROVE  EvidenceInv'
<1> USE ConstantFacts, SameOperators
<1>1. /\ pc' \in {"metadata", "judge"} /\ Current' = Current /\ Verdict' = Verdict
      /\ queue # <<>>
  BY DEF LookUpCached, LookUpInPlex, LookedUp, Goto, Current, Verdict, TypeInv, TypeOK
<1>2. Verdict.candidate /\ Current.ratingKey \in Keys
  BY <1>1, CurrentShape DEF LookUpCached, LookUpInPlex, LookedUp, OfCurrent, Judging
<1>3. UNCHANGED <<library, changed>>
  BY DEF LookUpCached, LookUpInPlex, LookedUp, Meta!UseCached, Meta!StartFetch,
     Meta!FetchSucceeds, Meta!FetchFails, Meta!FetchAbandoned
<1>4. pc' = "metadata" => call'.key = Current.ratingKey
  BY DEF LookUpCached, LookUpInPlex, LookedUp, Goto, Meta!StartFetch, Meta!Fetching
<1>5. ASSUME pc' = "judge", reply' # Meta!Failure
      PROVE  library[Current.ratingKey] = reply' \/ changed[Current.ratingKey] < PosTTL
  <2> DEFINE key == Current.ratingKey
             media == Verdict.mediaID
  <2>1. CASE LookUpCached
    <3>1. /\ Meta!Usable(key, media) /\ ~cache[key].failed
          /\ reply' = MetaP!Found(cache[key].sources)
      BY <1>5, <2>1 DEF LookUpCached, Meta!UseCached, Meta!Found, MetaP!Found, Meta!Response,
           MetaP!Response
    <3>2. MetaP!ServedIsRecent
      BY MetaP!InvServesRecent, RunnerAssumption DEF TypeInv
    <3>3. media \in MediaIDs \cup {MetaP!NoID} /\ MetaP!Usable(key, media)
      BY <1>1, <3>1, CurrentShape, SameLookups
    <3> QED BY <1>2, <3>1, <3>2, <3>3 DEF MetaP!ServedIsRecent
  <2>2. CASE LookedUp
    <3>1. call.active /\ call.response.status = "found" /\ reply' = call.response
      BY <1>5, <2>2 DEF LookedUp, Meta!FetchSucceeds, Meta!FetchFails, Meta!FetchAbandoned
    <3>2. call.key = key
      BY <2>2 DEF LookedUp, OfCurrent, Judging
    <3>3. library[key] = call.response \/ changed[key] <= call.waited
      BY <3>1, <3>2 DEF TypeInv, MetaP!Inv, MetaP!DatedAnswer
    <3>4. call.waited \in Nat /\ call.waited <= RequestMax /\ changed[key] \in Nat
      BY <1>2, MetaP!CallShape, RunnerAssumption DEF TypeInv, MetaP!Inv, MetaP!TypeOK
    <3> QED BY <3>1, <3>3, <3>4
  <2> QED BY <1>5, <2>1, <2>2 DEF LookUpInPlex, Goto
<1>6. OfCurrent'
  BY <1>1, <1>2, <1>4 DEF OfCurrent
<1>7. Replied'
  BY <1>1, <1>3, <1>5, SameOperators DEF Replied, Meta!Failure, Meta!Response
<1> QED BY <1>1, <1>6, <1>7 DEF EvidenceInv, Condemned

LEMMA EvidenceStep == TypeInv /\ EvidenceInv /\ [Next]_vars => EvidenceInv'
<1> SUFFICES ASSUME TypeInv, EvidenceInv, [Next]_vars PROVE EvidenceInv'
  OBVIOUS
<1> USE ConstantFacts
<1>1. CASE pc' \notin Judging
  BY <1>1 DEF EvidenceInv, OfCurrent, Replied, Condemned, Judging
<1>2. CASE UNCHANGED <<pc, queue, library, changed, reply>> /\ call'.key = call.key
  <2>1. Current' = Current /\ Verdict' = Verdict
    BY <1>2 DEF Current, Verdict
  <2> QED BY <1>2, <2>1 DEF EvidenceInv, OfCurrent, Replied, Condemned, Meta!Failure, Meta!Response
<1>3. CASE EditLibrary
  <2>1. /\ UNCHANGED <<pc, queue, call, reply>> /\ Current' = Current /\ Verdict' = Verdict
        /\ \E key \in Keys, item \in Meta!Items :
             /\ library' = [library EXCEPT ![key] = item]
             /\ changed' = [changed EXCEPT ![key] = 0]
    BY <1>3, RunnerAssumption DEF EditLibrary, Meta!EditLibrary, Unmoved, Current, Verdict
  <2>2. OfCurrent'
    BY <2>1 DEF EvidenceInv, OfCurrent
  <2>3. \A k \in Keys : changed'[k] = 0 \/ (library'[k] = library[k] /\ changed'[k] = changed[k])
    BY <2>1 DEF TypeInv, MetaP!Inv, MetaP!TypeOK
  <2>4. Replied' /\ Condemned'
    BY <2>1, <2>3 DEF EvidenceInv, OfCurrent, Judging, Replied, Condemned, Meta!Failure,
         Meta!Response
  <2> QED BY <2>2, <2>4 DEF EvidenceInv
<1>4. CASE LookUpCached \/ LookUpInPlex \/ LookedUp
  BY <1>4, LookedUpStep DEF EvidenceInv
<1>5. CASE AskCooldown
  <2>1. /\ pc = "judge" /\ pc' = "act" /\ Current' = Current /\ Verdict' = Verdict
        /\ UNCHANGED <<library, changed>>
        /\ reply # Meta!Failure /\ Judge(Verdict, reply.sources).terminate
    BY <1>5 DEF AskCooldown, Goto, JudgedUHD, Current, Verdict
  <2>2. OfCurrent'
    BY <2>1 DEF EvidenceInv, OfCurrent, Judging
  <2>3. Condemned'
    BY <2>1 DEF EvidenceInv, Replied, Condemned
  <2> QED BY <2>1, <2>2, <2>3 DEF EvidenceInv, Replied
<1>6. CASE Tick
  <2>1. pc' = pc /\ queue' = queue /\ Current' = Current /\ Verdict' = Verdict
    BY <1>6 DEF Tick, Current, Verdict
  <2>2. pc # "judge" /\ pc # "act"
    BY <1>6, PollFacts DEF Tick, Waiting, Poll
  <2>3. call'.key = call.key
    BY <1>6, MetaP!AgedIsCall, RunnerAssumption
       DEF Tick, Meta!Tick, TypeInv, MetaP!Inv, MetaP!TypeOK
  <2> QED BY <2>1, <2>2, <2>3 DEF EvidenceInv, OfCurrent, Replied, Condemned
<1> QED BY <1>1, <1>2, <1>3, <1>4, <1>5, <1>6, EvidenceSteps

LEMMA EvidenceAlways == Spec => []EvidenceInv
<1>1. Init => EvidenceInv
  BY DEF Init, EvidenceInv, OfCurrent, Replied, Condemned, Judging
<1> QED BY <1>1, Typed, EvidenceStep, PTL DEF Spec

-----------------------------------------------------------------------------
(* The rest between two polls.                                              *)

\* A poll that could start now would start an interval after the last one.
RestKept ==
  /\ rested \in 0..PollInterval
  /\ pc = "sleeping" => rested + delay >= PollInterval
  /\ pc \in {"connecting", "resting"} => rested = PollInterval

LEMMA NotBelowFactor ==
  ASSUME NEW m \in Nat, NEW n \in Nat, n # 0
  PROVE  m * n >= m
<1>1. m * (n - 1) \in Nat
  BY ProductOfNats
<1>2. m * (n - 1) = m * n - m
  OBVIOUS
<1> QED BY <1>1, <1>2, ProductOfNats

\* No number of failures makes the delay shorter than the interval.
LEMMA BackoffRests ==
  ASSUME NEW n \in 1..5
  PROVE  Backoff(n) >= PollInterval
<1>1. n \in Nat
  OBVIOUS
<1>2. 2^n \in Nat /\ 2^n # 0
  <2>1. IsFiniteSet(1..n) /\ Cardinality(1..n) = n
    BY <1>1, FS_Interval
  <2>2. IsFiniteSet(SUBSET (1..n)) /\ Cardinality(SUBSET (1..n)) = 2^n
    BY <2>1, FS_SUBSET
  <2>3. SUBSET (1..n) # {}
    OBVIOUS
  <2> QED BY <2>2, <2>3, FS_EmptySet, FS_CardinalityType
<1>3. PollInterval * 2^n \in Nat /\ PollInterval * 2^n >= PollInterval
  BY <1>2, NotBelowFactor, ProductOfNats, ConstantFacts
<1> QED BY <1>3, ConstantFacts DEF Backoff

\* Every way a poll returns to the loop is followed by a rest.
LEMMA ReturnRests ==
  ASSUME TypeInv, NEW err \in BOOLEAN, Return(err), pc' = "sleeping"
  PROVE  delay' >= PollInterval
<1>1. ~stopping /\ (err => failures' \in 1..5)
  BY DEF Return, TypeInv, TypeOK
<1>2. delay' = IF err THEN Backoff(failures') ELSE PollInterval
  BY <1>1 DEF Return
<1> QED BY <1>1, <1>2, BackoffRests, ConstantFacts

\* The ways into a sleep, and into waiting for Plex.
LEMMA RestSteps ==
  ASSUME TypeInv, Next, ~Crash
  PROVE  /\ Returns => delay' >= PollInterval
         /\ pc' \in {"connecting", "resting"} => pc \in {"connecting", "resting"}
         /\ pc' = "sleeping" /\ ~Returns =>
              pc = "connecting" \/ (pc = "sleeping" /\ (Tick \/ UNCHANGED delay))
<1> USE DEF Returns, Idle
<1>1. CASE Environment \/ MetadataTimesOut \/ Tick
  <2>1. CASE Tick
    <3>1. pc' = pc /\ (pc = "sleeping" => delay > 0)
      BY <2>1 DEF Tick, Waiting
    <3>2. SkipPoll \/ MissToken => pc = "sleeping" /\ delay = 0
      BY DEF SkipPoll, MissToken
    <3>3. ~Returns
      BY <3>1, <3>2
    <3> QED BY <2>1, <3>1, <3>3
  <2>2. CASE Environment \/ MetadataTimesOut
    <3>1. UNCHANGED <<pc, delay>>
      BY <2>2 DEF Environment, EditModeFile, EditPrefs, EditLibrary, PlexOnMetadata, Stop,
           MetadataTimesOut, Unmoved
    <3>2. SkipPoll \/ MissToken => pc' # "sleeping" \/ delay' >= PollInterval
      BY ReturnRests DEF SkipPoll, MissToken
    <3> QED BY <3>1, <3>2
  <2> QED BY <1>1, <2>1, <2>2
<1>2. CASE \/ PlexReady \/ PlexNotReady \/ AskAgain \/ StartPoll \/ SessionsAnswered
           \/ StopSleeping
  <2>1. \/ pc = "connecting" /\ pc' \in {"sleeping", "resting", "stopped"}
        \/ pc = "resting" /\ pc' = "connecting"
        \/ pc' \in {"sessions", "loop", "stopped"}
    BY <1>2 DEF PlexReady, PlexNotReady, AskAgain, StartPoll, SessionsAnswered, StopSleeping
  <2>2. SkipPoll \/ MissToken => pc = "sleeping"
    BY DEF SkipPoll, MissToken
  <2> QED BY <2>1, <2>2
<1>3. CASE \/ SkipPoll \/ MissToken \/ SessionsFailed \/ TerminateInterrupted \/ EndPoll
           \/ LeaveAlone \/ NoRatingKey \/ Unresolved \/ NotUHD \/ Refrain \/ Terminated
           \/ TerminateUnsent
  <2>1. \/ \E err \in BOOLEAN : Return(err)
        \/ pc' = "loop"
    BY <1>3 DEF SkipPoll, MissToken, SessionsFailed, TerminateInterrupted, EndPoll, LeaveAlone,
         NoRatingKey, Unresolved, NotUHD, Refrain, Terminated, TerminateUnsent, NextSession
  <2>2. pc' \in {"sleeping", "stopped", "loop"}
    BY <2>1 DEF Return
  <2>3. SkipPoll \/ MissToken \/ ~Idle
    BY <1>3 DEF SessionsFailed, TerminateInterrupted, EndPoll, LeaveAlone, NoRatingKey,
         Unresolved, NotUHD, Refrain, Terminated, TerminateUnsent, ToTerminate
  <2> QED BY <2>1, <2>2, <2>3, ReturnRests
<1>4. CASE LookUpCached \/ LookUpInPlex \/ LookedUp \/ AskCooldown \/ SendTerminate
  <2>1. pc' \in {"judge", "metadata", "act", "terminating"}
    BY <1>4 DEF LookUpCached, LookUpInPlex, LookedUp, AskCooldown, SendTerminate, Goto
  <2> QED BY <2>1
<1> QED BY <1>1, <1>2, <1>3, <1>4 DEF Next, Step, Receive

LEMMA DelayTyped == TypeInv /\ Next => delay' \in Nat
<1> SUFFICES ASSUME TypeInv, Next PROVE delay' \in Nat
  OBVIOUS
<1>1. TypeInv'
  BY NextType
<1> QED BY <1>1, ConstantFacts DEF TypeInv, TypeOK

LEMMA SumReaches ==
  ASSUME NEW a \in Nat, NEW b \in Nat, NEW m \in Nat, a >= m \/ b >= m
  PROVE  a + b >= m
  OBVIOUS

LEMMA RestStep == TypeInv /\ RestKept /\ [PastNext]_pastVars => RestKept'
<1> SUFFICES ASSUME TypeInv, RestKept, [PastNext]_pastVars PROVE RestKept'
  OBVIOUS
<1> USE ConstantFacts
<1>1. CASE UNCHANGED pastVars
  BY <1>1 DEF pastVars, vars, RestKept
<1>2. CASE PastNext /\ Crash
  <2>1. pc' = "connecting" /\ rested' = PollInterval
    BY <1>2 DEF PastNext, Crash, Returns
  <2> QED BY <2>1 DEF RestKept
<1>3. CASE PastNext /\ ~Crash
  <2>1. /\ Returns => rested' = 0 /\ pc' = "sleeping" /\ delay' >= PollInterval
        /\ ~Returns => rested' = IF Tick THEN Older(rested, PollInterval) ELSE rested
    BY <1>3, RestSteps DEF PastNext, Returns
  <2>2. rested \in Nat /\ rested <= PollInterval
    BY DEF RestKept
  <2>3. Older(rested, PollInterval) \in 0..PollInterval
        /\ Older(rested, PollInterval) >= rested
        /\ (rested < PollInterval => Older(rested, PollInterval) = rested + 1)
    BY <2>2 DEF Older
  <2>4. rested' \in 0..PollInterval
    BY <2>1, <2>2, <2>3
  <2>5. pc' \in {"connecting", "resting"} => rested' = PollInterval
    BY <1>3, <2>1, <2>2, <2>3, RestSteps DEF PastNext, RestKept
  <2>6. ASSUME pc' = "sleeping" PROVE rested' + delay' >= PollInterval
    <3>1. CASE Returns
      <4>1. rested' = 0 /\ delay' >= PollInterval
        BY <2>1, <3>1
      <4>2. delay' \in Nat
        BY <1>3, DelayTyped DEF PastNext
      <4>3. rested' \in Nat /\ PollInterval \in Nat
        BY <2>4
      <4> QED BY <4>1, <4>2, <4>3, SumReaches
    <3>2. CASE ~Returns /\ pc = "connecting"
      <4>1. rested' = PollInterval /\ rested' >= PollInterval
        BY <2>1, <2>2, <2>3, <3>2 DEF RestKept
      <4>2. delay' \in Nat
        BY <1>3, DelayTyped DEF PastNext
      <4>3. rested' \in Nat /\ PollInterval \in Nat
        BY <2>4
      <4> QED BY <4>1, <4>2, <4>3, SumReaches
    <3>3. CASE ~Returns /\ pc = "sleeping" /\ Tick
      <4>1. /\ delay \in Nat /\ rested + delay >= PollInterval
            /\ delay' = (IF delay > 0 THEN delay - 1 ELSE 0)
        BY <3>3, PollFacts DEF Tick, RestKept
      <4> QED BY <2>1, <2>2, <2>3, <3>3, <4>1
    <3>4. CASE ~Returns /\ pc = "sleeping" /\ ~Tick /\ UNCHANGED delay
      BY <2>1, <3>4 DEF RestKept
    <3> QED BY <1>3, <2>6, <3>1, <3>2, <3>3, <3>4, RestSteps DEF PastNext
  <2> QED BY <2>4, <2>5, <2>6 DEF RestKept
<1> QED BY <1>1, <1>2, <1>3

LEMMA TypedWithPast == PastSpec => []TypeInv
<1>1. [PastNext]_pastVars => [Next]_vars
  BY DEF PastNext, pastVars
<1> QED BY <1>1, InitType, NextType, PTL DEF PastSpec, PastInit

LEMMA RestAlways == PastSpec => []RestKept
<1>1. PastInit => RestKept
  BY ConstantFacts DEF PastInit, Init, RestKept
<1> QED BY <1>1, TypedWithPast, RestStep, PTL DEF PastSpec

-----------------------------------------------------------------------------
(* The failures that are remembered.                                        *)

\* What a remembered failure has left to live and the age of the trouble that
\* caused it add up to no more than its lifetime; so does a failed request
\* that may still be remembered.
TroubleKept ==
  /\ sinceTrouble \in [Keys -> 0..NegTTL]
  /\ \A key \in DOMAIN cache :
       cache[key].failed /\ cache[key].ttl > 0 => sinceTrouble[key] + cache[key].ttl <= NegTTL
  /\ pc = "metadata" /\ call.response = Meta!Failure /\ ~ContextDone =>
       sinceTrouble[call.key] <= call.waited

\* Only a failed lookup under a live context adds a failure to the cache,
LEMMA FailuresAdded ==
  ASSUME TypeInv, Next, ~Tick, NEW key \in DOMAIN cache', cache'[key].failed
  PROVE  \/ key \in DOMAIN cache /\ cache'[key] = cache[key]
         \/ /\ pc = "metadata" /\ call.response = Meta!Failure /\ ~ContextDone
            /\ key = call.key /\ cache'[key].ttl = MetaP!LifeLeft(NegTTL)
<1>1. CASE LookedUp
  <2>1. CASE Meta!FetchSucceeds
    <3>1. MetaP!Keeping(call.key, MetaP!FoundEntry) /\ ~MetaP!FoundEntry.failed
      BY <2>1, MetaStoreKeeps, SameOperators DEF Meta!FetchSucceeds, MetaP!FoundEntry
    <3> QED BY <3>1 DEF MetaP!Keeping
  <2>2. CASE ~ContextDone /\ Meta!FetchFails
    <3>1. /\ MetaP!Keeping(call.key, MetaP!FailedEntry) /\ call.response = Meta!Failure
          /\ MetaP!FailedEntry.ttl = MetaP!LifeLeft(NegTTL)
      BY <2>2, MetaStoreKeeps, SameOperators DEF Meta!FetchFails, MetaP!FailedEntry
    <3> QED BY <1>1, <2>2, <3>1 DEF MetaP!Keeping, LookedUp
  <2>3. CASE Meta!FetchAbandoned
    BY <2>3 DEF Meta!FetchAbandoned
  <2> QED BY <1>1, <2>1, <2>2, <2>3 DEF LookedUp
<1>2. CASE EndPoll
  <2>1. cache' = MetaP!Swept
    BY <1>2, SameSurroundings DEF EndPoll, MetaP!PruneCache
  <2> QED BY <2>1 DEF MetaP!Swept
<1>3. CASE Crash
  BY <1>3 DEF Crash
<1>4. CASE UNCHANGED cache
  BY <1>4
<1> QED BY <1>1, <1>2, <1>3, <1>4
        DEF Next, Step, Receive, Environment, AskAgain, StartPoll, SkipPoll, MissToken,
            LeaveAlone, NoRatingKey, LookUpCached, LookUpInPlex, Unresolved, NotUHD, AskCooldown,
            Refrain, SendTerminate, TerminateUnsent, StopSleeping, PlexReady, PlexNotReady,
            SessionsAnswered, SessionsFailed, MetadataTimesOut, Terminated, TerminateInterrupted,
            EditModeFile, EditPrefs, EditLibrary, PlexOnMetadata, Stop, metaVars, Meta!UseCached,
            Meta!StartFetch, Meta!EditLibrary, Meta!PlexAnswers, Meta!RequestErrs,
            Meta!RequestTimesOut

\* and a lookup that fails under a live context is troubled, or has failed before.
LEMMA LookupsFail ==
  ASSUME TypeInv, Next, ~Tick,
         pc' = "metadata", call'.response = Meta!Failure, ~ContextDone'
  PROVE  /\ pc = "metadata" /\ ~ContextDone
         /\ call'.key = call.key /\ call'.waited = call.waited /\ call.key \in Keys
         /\ call.response = Meta!Failure \/ Troubled(call.key)
<1>1. Meta!Pending # Meta!Failure
  BY DEF Meta!Pending, Meta!Failure, Meta!Response
<1>2. CASE LookUpInPlex
  <2>1. call'.response = Meta!Pending
    BY <1>2 DEF LookUpInPlex, Meta!StartFetch, Meta!Fetching
  <2> QED BY <1>1, <2>1
<1>3. CASE /\ UNCHANGED <<pc, budget>> /\ (~stopping' => ~stopping)
           /\ (UNCHANGED call \/ \E r : call' = [call EXCEPT !.response = r])
  <2>1. pc = "metadata" /\ call.active /\ call \in MetaP!Calls /\ call.key \in Keys
    BY <1>3 DEF TypeInv, TypeOK, MetaP!Inv, MetaP!TypeOK
  <2>2. call'.key = call.key /\ call'.waited = call.waited /\ call'.active
    BY <1>3, <2>1 DEF MetaP!Calls
  <2>3. ~ContextDone
    BY <1>3 DEF ContextDone
  <2> QED BY <2>1, <2>2, <2>3 DEF Troubled
<1> QED BY <1>2, <1>3
        DEF Next, Step, Receive, Environment, AskAgain, StartPoll, SkipPoll, MissToken,
            LeaveAlone, NoRatingKey, LookUpCached, Unresolved, NotUHD, AskCooldown, Refrain,
            SendTerminate, TerminateUnsent, StopSleeping, PlexReady, PlexNotReady,
            SessionsAnswered, SessionsFailed, MetadataTimesOut, LookedUp, Terminated,
            TerminateInterrupted, EndPoll, Crash, EditModeFile, EditPrefs, EditLibrary,
            PlexOnMetadata, Stop, Unmoved, Return, NextSession, Goto, metaVars, Meta!EditLibrary,
            Meta!PlexAnswers, Meta!RequestErrs, Meta!RequestTimesOut

LEMMA TroubleTyped ==
  ASSUME TypeInv, TroubleKept, PastNext
  PROVE  /\ sinceTrouble' \in [Keys -> 0..NegTTL]
         /\ \A key \in Keys :
              /\ sinceTrouble[key] \in 0..NegTTL /\ sinceTrouble'[key] \in 0..NegTTL
              /\ ~Tick => sinceTrouble'[key] <= sinceTrouble[key]
              /\ sinceTrouble'[key] <= sinceTrouble[key] + 1
              /\ Troubled(key) => sinceTrouble'[key] = 0
<1> USE ConstantFacts
<1>1. sinceTrouble' = [key \in Keys |-> IF Troubled(key) THEN 0
                                        ELSE IF Tick THEN Older(sinceTrouble[key], NegTTL)
                                        ELSE sinceTrouble[key]]
  BY DEF PastNext
<1>2. ASSUME NEW key \in Keys
      PROVE  /\ sinceTrouble[key] \in 0..NegTTL
             /\ Older(sinceTrouble[key], NegTTL) \in 0..NegTTL
             /\ Older(sinceTrouble[key], NegTTL) <= sinceTrouble[key] + 1
  BY DEF TroubleKept, Older
<1>3. ASSUME NEW key \in Keys
      PROVE  sinceTrouble'[key] = IF Troubled(key) THEN 0
                                  ELSE IF Tick THEN Older(sinceTrouble[key], NegTTL)
                                  ELSE sinceTrouble[key]
  BY <1>1
<1>4. \A key \in Keys :
        /\ sinceTrouble[key] \in 0..NegTTL /\ sinceTrouble'[key] \in 0..NegTTL
        /\ ~Tick => sinceTrouble'[key] <= sinceTrouble[key]
        /\ sinceTrouble'[key] <= sinceTrouble[key] + 1
        /\ Troubled(key) => sinceTrouble'[key] = 0
  BY <1>2, <1>3
<1>5. sinceTrouble' = [key \in Keys |-> sinceTrouble'[key]]
  BY <1>1
<1> QED BY <1>4, <1>5

LEMMA TroubleStep == TypeInv /\ TroubleKept /\ [PastNext]_pastVars => TroubleKept'
<1> SUFFICES ASSUME TypeInv, TroubleKept, [PastNext]_pastVars PROVE TroubleKept'
  OBVIOUS
<1> USE ConstantFacts
<1>1. CASE UNCHANGED pastVars
  BY <1>1 DEF pastVars, vars, metaVars, TroubleKept, ContextDone
<1>2. CASE PastNext /\ Tick
  <2>1. /\ pc' = pc /\ stopping' = stopping /\ (pc = "metadata" => budget > 0)
        /\ cache' = MetaP!AgedCache
        /\ call' = IF call.active THEN [call EXCEPT !.waited = @ + 1] ELSE call
        /\ call.active => call.waited < RequestMax
    BY <1>2, SameSurroundings, PollFacts DEF Tick, MetaP!Tick, Waiting, Poll
  <2>2. ASSUME NEW key \in DOMAIN cache', cache'[key].failed, cache'[key].ttl > 0
        PROVE  sinceTrouble'[key] + cache'[key].ttl <= NegTTL
    <3>1. key \in DOMAIN cache /\ key \in Keys /\ cache[key] \in MetaP!Entries
      BY <2>1, <2>2 DEF MetaP!AgedCache, TypeInv, MetaP!Inv, MetaP!TypeOK
    <3>2. /\ cache[key].failed /\ cache[key].ttl > 0 /\ cache'[key].ttl = cache[key].ttl - 1
          /\ cache[key].ttl \in Nat
      <4>1. cache'[key] = [cache[key] EXCEPT !.ttl = IF @ > 0 THEN @ - 1 ELSE 0]
        BY <2>1, <3>1 DEF MetaP!AgedCache
      <4>2. /\ cache'[key].failed = cache[key].failed
            /\ cache'[key].ttl = IF cache[key].ttl > 0 THEN cache[key].ttl - 1 ELSE 0
        BY <3>1, <4>1, MetaP!AgedEntry, RunnerAssumption
      <4>3. cache[key].ttl \in Nat
        BY <3>1, MetaP!EntryShape, RunnerAssumption
      <4> QED BY <2>2, <4>2, <4>3
    <3>3. sinceTrouble[key] + cache[key].ttl <= NegTTL
      BY <3>1, <3>2 DEF TroubleKept
    <3> QED BY <1>2, <3>1, <3>2, <3>3, TroubleTyped
  <2>3. ASSUME pc' = "metadata", call'.response = Meta!Failure, ~ContextDone'
        PROVE  sinceTrouble'[call'.key] <= call'.waited
    <3>1. /\ call.active /\ call \in MetaP!Calls /\ call.key \in Keys /\ call.waited \in Nat
          /\ ~ContextDone
      BY <2>1, <2>3, MetaP!CallShape, RunnerAssumption
         DEF TypeInv, TypeOK, MetaP!Inv, MetaP!TypeOK, ContextDone
    <3>2. /\ call'.key = call.key /\ call'.response = call.response
          /\ call'.waited = call.waited + 1
      BY <2>1, <3>1, MetaP!AgedIsCall, RunnerAssumption
    <3>3. sinceTrouble[call.key] <= call.waited
      BY <2>1, <2>3, <3>1, <3>2 DEF TroubleKept
    <3> QED BY <1>2, <3>1, <3>2, <3>3, TroubleTyped
  <2>4. Meta!Failure' = Meta!Failure
    BY DEF Meta!Failure, Meta!Response
  <2> QED BY <1>2, <2>2, <2>3, <2>4, TroubleTyped DEF TroubleKept
<1>3. CASE PastNext /\ ~Tick
  <2>1. Next
    BY <1>3 DEF PastNext
  <2>2. ASSUME NEW key \in DOMAIN cache', cache'[key].failed, cache'[key].ttl > 0
        PROVE  sinceTrouble'[key] + cache'[key].ttl <= NegTTL
    <3>1. CASE key \in DOMAIN cache /\ cache'[key] = cache[key]
      <4>1. key \in Keys /\ cache[key].ttl \in Nat
        BY <3>1, MetaP!EntryShape, RunnerAssumption DEF TypeInv, MetaP!Inv, MetaP!TypeOK
      <4>2. sinceTrouble[key] + cache[key].ttl <= NegTTL
        BY <2>2, <3>1 DEF TroubleKept
      <4> QED BY <1>3, <3>1, <4>1, <4>2, TroubleTyped
    <3>2. CASE /\ pc = "metadata" /\ call.response = Meta!Failure /\ ~ContextDone
               /\ key = call.key /\ cache'[key].ttl = MetaP!LifeLeft(NegTTL)
      <4>1. call.key \in Keys /\ call.waited \in Nat
        BY <3>2, MetaP!CallShape, RunnerAssumption DEF TypeInv, TypeOK, MetaP!Inv, MetaP!TypeOK
      <4>2. sinceTrouble[key] <= call.waited
        BY <3>2 DEF TroubleKept
      <4>3. cache'[key].ttl \in Nat /\ cache'[key].ttl + call.waited = NegTTL
        BY <2>2, <3>2, <4>1 DEF MetaP!LifeLeft
      <4> QED BY <1>3, <3>2, <4>1, <4>2, <4>3, TroubleTyped
    <3> QED BY <1>3, <2>1, <2>2, <3>1, <3>2, FailuresAdded
  <2>3. ASSUME pc' = "metadata", call'.response = Meta!Failure, ~ContextDone'
        PROVE  sinceTrouble'[call'.key] <= call'.waited
    <3>1. /\ pc = "metadata" /\ ~ContextDone
          /\ call'.key = call.key /\ call'.waited = call.waited /\ call.key \in Keys
          /\ call.response = Meta!Failure \/ Troubled(call.key)
      BY <1>3, <2>1, <2>3, LookupsFail
    <3>2. call.waited \in Nat
      BY MetaP!CallShape, RunnerAssumption DEF TypeInv, MetaP!Inv, MetaP!TypeOK
    <3>3. call.response = Meta!Failure => sinceTrouble[call.key] <= call.waited
      BY <3>1 DEF TroubleKept
    <3> QED BY <1>3, <3>1, <3>2, <3>3, TroubleTyped
  <2>4. Meta!Failure' = Meta!Failure
    BY DEF Meta!Failure, Meta!Response
  <2> QED BY <1>3, <2>2, <2>3, <2>4, TroubleTyped DEF TroubleKept
<1> QED BY <1>1, <1>2, <1>3

\* A session is judged without a request only by what the cache remembers.
LEMMA IntoJudging == [Next]_vars /\ pc = "loop" /\ pc' = "judge" => LookUpCached
  BY DEF Next, Step, Receive, Environment, vars, AskAgain, StartPoll, SkipPoll, MissToken,
     LeaveAlone, NoRatingKey, LookUpInPlex, Unresolved, NotUHD, AskCooldown, Refrain,
     SendTerminate, TerminateUnsent, ToTerminate, StopSleeping, PlexReady, PlexNotReady,
     SessionsAnswered, SessionsFailed, MetadataTimesOut, LookedUp, Terminated,
     TerminateInterrupted, EndPoll, Crash, EditModeFile, EditPrefs, EditLibrary,
     PlexOnMetadata, Stop, Tick, Unmoved, Return, NextSession, Goto

LEMMA TroubleAlways == PastSpec => []TroubleKept
<1>1. PastInit => TroubleKept
  BY ConstantFacts DEF PastInit, Init, Meta!Init, TroubleKept
<1> QED BY <1>1, TypedWithPast, TroubleStep, PTL DEF PastSpec

-----------------------------------------------------------------------------

\* The loop's variables keep the shapes the code gives them: no delay outlasts
\* its cap, no request its timeout, and no session its cooldown's window
\* (runner.go:40-56, 106-170).
THEOREM TypeCorrect == Spec => []TypeOK
  BY Typed, PTL DEF TypeInv

\* The deadline a poll is given when it starts ends it, however many of its
\* requests stall: the budget left and the time elapsed always make up the
\* interval and one request timeout (runner.go:206-210).
THEOREM PollBounded == Spec => []PollIsBounded
<1>1. TypeInv /\ DeadlineKept => PollIsBounded
  BY PollFacts, ConstantFacts DEF DeadlineKept, PollIsBounded
<1> QED BY <1>1, Typed, DeadlineAlways, PTL

\* Only a poll that started under an enforcing mode file, or none beside an
\* enforcing environment, attempts anything: the mode is resolved once, and
\* what cannot be understood resolves to dry-run (mode.go:49-79,
\* runner.go:212-218).
THEOREM EnforcedOnly == Spec => OnlyEnforced
<1>1. TypeInv /\ ModeOfPoll /\ [Next]_vars =>
        [Attempt => atStart = "enforce" \/ (atStart = "missing" /\ ~DryRun)]_vars
  BY Enforcing DEF Attempt, ToTerminate, Poll
<1> QED BY <1>1, Typed, ModeAlways, PTL DEF Spec, OnlyEnforced

\* Two attempts on one session lie a window or more apart, for any window,
\* any documents and any failures between them (cooldown.go:25-54,
\* runner.go:288-326).
THEOREM Spacing == Spec => AttemptsAreSpaced
<1>1. TypeInv /\ ModeOfPoll /\ CooldownInv /\ [Next]_vars =>
        [Attempt => sinceAttempt[Current.sid] >= Window]_vars
  BY AttemptsAreMade, MadeStep, ConstantFacts
<1> QED BY <1>1, Typed, ModeAlways, CooldownAlways, PTL DEF Spec, AttemptsAreSpaced

\* What an enforcing poll passes over was attempted within the window: neither
\* a dry-run's window nor another session's stands in for it
\* (runner.go:288-290).
THEOREM PassedOver == Spec => PassedOverOnlyWhenAttempted
<1>1. TypeInv /\ CooldownInv /\ [Next]_vars =>
        [pc = "act" /\ pc' = "loop" /\ mode = "enforce" /\ ~answer.allowed /\ Current.sid # NoID
           => sinceAttempt[Current.sid] < Window]_vars
  <2> SUFFICES ASSUME TypeInv, CooldownInv, pc = "act", mode = "enforce", ~answer.allowed,
                      Current.sid # NoID
               PROVE  sinceAttempt[Current.sid] < Window
    OBVIOUS
  <2>1. Current.sid \in SessionIDs
    BY CurrentShape DEF TypeInv, TypeOK
  <2>2. /\ CooldownKey(Current) = EnforcedKey(Current.sid)
        /\ cooldown[EnforcedKey(Current.sid)] \in 0..Window
    BY <2>1, KeysOfSessions
  <2>3. cooldown[EnforcedKey(Current.sid)] > 0
    BY <2>2 DEF CooldownInv, Answered
  <2>4. cooldown[EnforcedKey(Current.sid)] + sinceAttempt[Current.sid] <= Window
    BY <2>1, <2>3 DEF CooldownInv, Exact, Granted
  <2> QED BY <2>1, <2>2, <2>3, <2>4, PollFacts, ConstantFacts
<1> QED BY <1>1, Typed, CooldownAlways, PTL DEF Spec, PassedOverOnlyWhenAttempted

\* What is attempted is a video transcode of an item that is listed as 4K now
\* or was edited less than a lifetime ago: no cached entry, no late answer and
\* no other item's listing condemns it (runner.go:270-286, 341-371).
THEOREM Justified == Spec => AttemptIsJustified
<1>1. EvidenceInv /\ [Next]_vars =>
        [Attempt =>
           /\ Verdict.candidate
           /\ \/ changed[Current.ratingKey] < PosTTL
              \/ Judge(Verdict, library[Current.ratingKey].sources).terminate]_vars
  BY DEF EvidenceInv, OfCurrent, Condemned, Judging, Attempt, ToTerminate
<1> QED BY <1>1, EvidenceAlways, PTL DEF Spec, AttemptIsJustified

\* However a poll ends, and however many failed before it, the next one begins
\* an interval or more after it returned (runner.go:27-29, 192-204).
THEOREM PollsSpaced == PastSpec => PollsAreSpaced
<1>1. TypeInv /\ RestKept /\ [PastNext]_pastVars => [Begins => rested = PollInterval]_pastVars
  <2> SUFFICES ASSUME RestKept, Begins PROVE rested = PollInterval
    OBVIOUS
  <2>1. pc = "sleeping" /\ delay = 0
    BY DEF Begins, StartPoll, SkipPoll, MissToken
  <2> QED BY <2>1, ConstantFacts DEF RestKept
<1> QED BY <1>1, TypedWithPast, RestAlways, PTL DEF PastSpec, PollsAreSpaced

\* What is held against an item is that a lookup of it failed by itself: the
\* lookups that a poll's deadline or a shutdown cut off are forgotten
\* (runner.go:345-348, 359-364).
THEOREM LeftAloneForTrouble == PastSpec => LeftAloneOnlyOnTrouble
<1>1. ASSUME TypeInv, TroubleKept, [PastNext]_pastVars,
             pc = "loop", pc' = "judge", reply' = Meta!Failure
      PROVE  sinceTrouble[Current.ratingKey] < NegTTL
  <2> DEFINE key == Current.ratingKey
  <2>1. LookUpCached
    BY <1>1, IntoJudging DEF PastNext, pastVars
  <2>2. Meta!UseCached(key, Verdict.mediaID) /\ key \in DOMAIN cache
    BY <2>1 DEF LookUpCached, Meta!UseCached, Meta!Usable, Meta!Fresh
  <2>3. cache[key].failed /\ cache[key].ttl > 0
    BY <1>1, <2>2 DEF Meta!UseCached, Meta!Usable, Meta!Fresh, Meta!Found, Meta!Failure,
         Meta!Response
  <2>4. key \in Keys /\ cache[key].ttl \in Nat
    BY <1>1, <2>2, MetaP!EntryShape, RunnerAssumption DEF TypeInv, MetaP!Inv, MetaP!TypeOK
  <2>5. sinceTrouble[key] + cache[key].ttl <= NegTTL /\ sinceTrouble[key] \in 0..NegTTL
    BY <1>1, <2>2, <2>3, <2>4 DEF TroubleKept
  <2> QED BY <2>3, <2>4, <2>5, ConstantFacts
<1>2. TypeInv /\ TroubleKept /\ [PastNext]_pastVars =>
        [pc = "loop" /\ pc' = "judge" /\ reply' = Meta!Failure
           => sinceTrouble[Current.ratingKey] < NegTTL]_pastVars
  BY <1>1
<1> QED BY <1>2, TypedWithPast, TroubleAlways, PTL DEF PastSpec, LeftAloneOnlyOnTrouble
=============================================================================
