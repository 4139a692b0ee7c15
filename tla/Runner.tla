------------------------------- MODULE Runner -------------------------------
(***************************************************************************)
(* The poll loop (internal/guard/runner.go, Run and PollOnce, with         *)
(* ResolveMode of mode.go): what the guard does with the cooldown, the     *)
(* metadata cache and the classification, between Plex, the operator who   *)
(* edits the mode file and the preferences, and a supervisor who stops and *)
(* restarts the process.                                                   *)
(*                                                                         *)
(* The loop is one goroutine.  Its control state pc moves by one action    *)
(* per step between two points where something else can happen: a request  *)
(* in flight, a sleep, or the next session of the document.  Computation   *)
(* takes no time; requests and sleeps do.  The cooldown is used through    *)
(* its contract, which Cooldown implements, and the metadata cache is the  *)
(* module MetadataCache itself.                                            *)
(***************************************************************************)
EXTENDS Integers, Sequences, Classify

CONSTANTS
  Keys, MediaIDs, Listings, PosTTL, NegTTL, CacheMax, RequestMax,  \* MetadataCache
  SessionIDs,    \* Session ids
  SessionKeys,   \* the sessionKeys that stand in for missing ones
  Window,        \* the cooldown's window
  PollInterval,  \* the delay between two polls
  MaxBackoff,    \* the cap of the delay after failures
  ReadyDelay,    \* the first delay of waitReady
  MaxReadyDelay, \* and the cap of the later ones
  DryRun,        \* PLEX_4K_GUARD_DRY_RUN
  Documents,     \* the sessions documents Plex may answer: sequences of sessions
  ModeContents,  \* what the mode file may hold over time
  PrefsContents, \* what the preferences may hold: a "token" or "none"
  EditableKeys,  \* the items the library's administrator edits
  Faults         \* which of "stop" and "crash" happen

ModeFiles == {"missing", "unreadable", "invalid", "enforce", "dry-run", "off"}

ASSUME RunnerAssumption ==
  /\ PosTTL \in Nat /\ NegTTL \in Nat /\ Window \in Nat
  /\ CacheMax \in Nat \ {0}
  /\ PollInterval \in Nat \ {0} /\ MaxBackoff \in Nat /\ MaxBackoff >= PollInterval
  /\ ReadyDelay \in Nat \ {0} /\ MaxReadyDelay \in Nat
  /\ RequestMax \in Nat \ {0} /\ RequestMax < PosTTL
  /\ DryRun \in BOOLEAN
  /\ ModeContents \subseteq ModeFiles
  /\ PrefsContents \subseteq {"token", "none"}
  /\ EditableKeys \subseteq Keys
  /\ Faults \subseteq {"stop", "crash"}

\* What a document lists: sessions whose ids the constants name.
Sessions == UNION {{document[i] : i \in DOMAIN document} : document \in Documents}

ASSUME DocumentsAssumption ==
  /\ Documents \subseteq Seq(Sessions)
  /\ \A s \in Sessions :
       /\ s.sid \in SessionIDs \cup {NoID} /\ s.sessionKey \in SessionKeys
       /\ s.ratingKey \in Keys \cup {NoID}
       /\ SelectedMediaID(s) \in MediaIDs \cup {NoID}

Modes == {"off", "dry-run", "enforce"}

\* One window per mode and session: what the runner hands to Allow.
CooldownKeys == (Modes \X SessionIDs) \cup (Modes \X {"key"} \X SessionKeys)

VARIABLES
  pc,          \* "connecting" or "resting" in waitReady, "sleeping" between two polls,
               \* "sessions", "loop", "metadata", "judge", "act" or "terminating" in
               \* one, or "stopped"
  stopping,    \* the context is cancelled: SIGTERM or SIGINT arrived
  modeFile,    \* what the mode file holds
  prefs,       \* what the preferences hold
  mode,        \* the mode of the poll that is running
  queue,       \* the sessions of the document not handled yet, the current one first
  waited,      \* ticks since the identity, sessions or terminate request was sent
  budget,      \* ticks until the poll's deadline
  delay,       \* ticks left to sleep
  failures,    \* consecutive failed polls, counted to 5
  attempt,     \* failed attempts of waitReady, counted to 5
  library, changed, cache, call, reply,  \* MetadataCache
  cooldown,    \* CooldownContract: the ticks left of each key's window
  answer,      \* what Allow last answered
  atStart,     \* history: what the mode file held when the poll started
  elapsed,     \* history: ticks since the poll started
  sinceAttempt \* history: ticks since each session was last attempted, Window for longer

metaVars == <<library, changed, cache, call, reply>>
coolVars == <<cooldown, answer>>
fileVars == <<modeFile, prefs>>
history == <<atStart, elapsed, sinceAttempt>>
vars == <<pc, stopping, fileVars, mode, queue, waited, budget, delay, failures, attempt,
          metaVars, coolVars, history>>

Meta == INSTANCE MetadataCache
Cool == INSTANCE CooldownContract WITH Ids <- CooldownKeys, left <- cooldown

-----------------------------------------------------------------------------
(* The mode.                                                                *)

Baseline == IF DryRun THEN "dry-run" ELSE "enforce"

\* Mutant of ResolveMode: a file that cannot be understood leaves the baseline.
ResolveModeOrBaseline(content) == IF content \in Modes THEN content ELSE Baseline

\* The mode file wins when it holds a mode; a missing one leaves the baseline;
\* one that cannot be read or understood gives the lesser of the baseline and
\* dry-run.
ResolveMode(content) ==
  CASE content = "missing" -> Baseline
    [] content \in Modes -> content
    [] content \in {"unreadable", "invalid"} -> "dry-run"

-----------------------------------------------------------------------------

\* Mutant of Backoff: the delay is not capped.
BackoffUncapped(n) == PollInterval * 2^n

\* Mutant of Backoff: the delay doubles from the first one of waitReady.
BackoffFromReady(n) ==
  LET d == ReadyDelay * 2^(n - 1) IN IF d < MaxBackoff THEN d ELSE MaxBackoff

\* The delay after a failed poll: exponential, and never above the cap.
Backoff(n) == LET d == PollInterval * 2^n IN IF d < MaxBackoff THEN d ELSE MaxBackoff

\* The delay after a failed attempt to reach Plex.
ReadyBackoff(n) ==
  LET d == ReadyDelay * 2^(n - 1) IN IF d < MaxReadyDelay THEN d ELSE MaxReadyDelay

Current == Head(queue)
Verdict == Screen(Current)

\* The poll returns: Run goes to sleep, or returns when the context is done.
Return(err) ==
  /\ pc' = IF stopping THEN "stopped" ELSE "sleeping"
  /\ failures' = IF stopping THEN failures
                 ELSE IF err THEN (IF failures < 5 THEN failures + 1 ELSE 5) ELSE 0
  /\ delay' = IF stopping THEN 0 ELSE IF err THEN Backoff(failures') ELSE PollInterval
  /\ mode' = "off" /\ queue' = <<>> /\ waited' = 0 /\ budget' = 0
  /\ answer' = Cool!NoAnswer
  /\ atStart' = "missing" /\ elapsed' = 0
  /\ UNCHANGED <<stopping, fileVars, attempt, sinceAttempt, cooldown>>

\* The current session is done with; the loop goes on to the next one.
NextSession ==
  /\ pc' = "loop"
  /\ queue' = Tail(queue)
  /\ waited' = 0
  /\ answer' = Cool!NoAnswer
  /\ UNCHANGED <<stopping, fileVars, mode, budget, delay, failures, attempt, cooldown,
                 history>>

\* pc moves on and only the variables of the metadata cache or of the cooldown
\* may change with it.
Goto(label) ==
  /\ pc' = label
  /\ UNCHANGED <<stopping, fileVars, mode, queue, waited, budget, delay, failures, attempt,
                 history>>

\* The request cannot be made or goes on no longer: the context is done.
ContextDone == stopping \/ budget = 0

\* No poll runs: Plex is waited for, or the next poll is.
Idle == pc \in {"connecting", "resting", "sleeping"}

Init ==
  /\ pc = "connecting" /\ delay = 0 /\ stopping = FALSE /\ failures = 0 /\ attempt = 0
  /\ modeFile \in ModeContents /\ prefs \in PrefsContents
  /\ mode = "off" /\ queue = <<>> /\ waited = 0 /\ budget = 0
  /\ Meta!Init
  /\ Cool!Init
  /\ atStart = "missing" /\ elapsed = 0
  /\ sinceAttempt = [sid \in SessionIDs |-> Window]

-----------------------------------------------------------------------------
(* waitReady.                                                               *)

\* Plex answers the identity request: the first poll is due.
PlexReady ==
  /\ pc = "connecting"
  /\ pc' = "sleeping" /\ delay' = 0 /\ waited' = 0 /\ attempt' = 0
  /\ UNCHANGED <<stopping, fileVars, mode, queue, budget, failures, metaVars, coolVars, history>>

\* It fails or times out: the loop rests, or returns when the context is done.
PlexNotReady ==
  /\ pc = "connecting"
  /\ pc' = IF stopping THEN "stopped" ELSE "resting"
  /\ attempt' = IF attempt < 5 THEN attempt + 1 ELSE 5
  /\ delay' = IF stopping THEN 0 ELSE ReadyBackoff(attempt')
  /\ waited' = 0
  /\ UNCHANGED <<stopping, fileVars, mode, queue, budget, failures, metaVars, coolVars, history>>

\* The rest is over: Plex is asked again.
AskAgain ==
  /\ pc = "resting" /\ delay = 0
  /\ pc' = "connecting"
  /\ UNCHANGED <<stopping, fileVars, mode, queue, waited, budget, delay, failures, attempt,
                 metaVars, coolVars, history>>

-----------------------------------------------------------------------------
(* One poll.                                                                *)

\* The sleep is over; the mode file and the preferences are read, and the
\* sessions document is asked for under the poll's deadline.  (A shutdown that
\* coincides with the end of the sleep may be seen only by that request.)
StartPoll ==
  /\ pc = "sleeping" /\ delay = 0
  /\ ResolveMode(modeFile) # "off" /\ prefs = "token"
  /\ pc' = "sessions"
  /\ mode' = ResolveMode(modeFile)
  /\ budget' = PollInterval + RequestMax
  /\ atStart' = modeFile /\ elapsed' = 0
  /\ UNCHANGED <<stopping, fileVars, queue, waited, delay, failures, attempt, metaVars,
                 coolVars, sinceAttempt>>

\* Off: the poll is skipped, and counts as a success.
SkipPoll ==
  /\ pc = "sleeping" /\ delay = 0
  /\ ResolveMode(modeFile) = "off"
  /\ Return(FALSE)
  /\ UNCHANGED metaVars

\* No token can be read: the poll fails without a request.
MissToken ==
  /\ pc = "sleeping" /\ delay = 0
  /\ ResolveMode(modeFile) # "off" /\ prefs = "none"
  /\ Return(TRUE)
  /\ UNCHANGED metaVars

\* Mutant of SessionsAnswered: the deadline is set once the document is there.
SessionsAnsweredAfresh ==
  /\ pc = "sessions"
  /\ \E document \in Documents : queue' = document
  /\ pc' = "loop" /\ waited' = 0 /\ budget' = PollInterval + RequestMax
  /\ UNCHANGED <<stopping, fileVars, mode, delay, failures, attempt, metaVars, coolVars,
                 history>>

\* Plex answers with a document that can be parsed.
SessionsAnswered ==
  /\ pc = "sessions"
  /\ \E document \in Documents : queue' = document
  /\ pc' = "loop" /\ waited' = 0
  /\ UNCHANGED <<stopping, fileVars, mode, budget, delay, failures, attempt, metaVars,
                 coolVars, history>>

\* The request fails (an error status, a timeout, the deadline, a shutdown) or
\* its answer cannot be parsed.
SessionsFailed ==
  /\ pc = "sessions"
  /\ Return(TRUE)
  /\ UNCHANGED metaVars

\* A session that Screen does not find to be a video transcode is left alone.
LeaveAlone ==
  /\ pc = "loop" /\ queue # <<>>
  /\ ~Verdict.candidate
  /\ NextSession
  /\ UNCHANGED metaVars

\* A session that names no library item fails to resolve, with no request.
NoRatingKey ==
  /\ pc = "loop" /\ queue # <<>>
  /\ Verdict.candidate /\ Current.ratingKey = NoID
  /\ IF stopping THEN Return(TRUE) ELSE NextSession
  /\ UNCHANGED metaVars

\* The versions of a candidate's item are looked up, in the cache or in Plex.
LookUpCached ==
  /\ pc = "loop" /\ queue # <<>>
  /\ Verdict.candidate /\ Current.ratingKey # NoID
  /\ Meta!UseCached(Current.ratingKey, Verdict.mediaID)
  /\ Goto("judge")
  /\ UNCHANGED coolVars

LookUpInPlex ==
  /\ pc = "loop" /\ queue # <<>>
  /\ Verdict.candidate /\ Current.ratingKey # NoID
  /\ Meta!StartFetch(Current.ratingKey, Verdict.mediaID)
  /\ Goto("metadata")
  /\ UNCHANGED coolVars

\* The lookup's request runs into its timeout.
MetadataTimesOut ==
  /\ Meta!RequestTimesOut
  /\ UNCHANGED <<pc, stopping, fileVars, mode, queue, waited, budget, delay, failures,
                 attempt, coolVars, history>>

\* Mutant of LookedUp: a failure is stored whatever the context.
LookedUpRegardless ==
  /\ pc = "metadata"
  /\ \/ Meta!FetchSucceeds
     \/ Meta!FetchFails
     \/ ContextDone /\ Meta!FetchAbandoned
  /\ Goto("judge")
  /\ UNCHANGED coolVars

\* The lookup returns; a failure is stored only while the context is live.
LookedUp ==
  /\ pc = "metadata"
  /\ \/ Meta!FetchSucceeds
     \/ ~ContextDone /\ Meta!FetchFails
     \/ ContextDone /\ Meta!FetchAbandoned
  /\ Goto("judge")
  /\ UNCHANGED coolVars

\* Mutant of Unresolved: one session that cannot be resolved ends the poll.
UnresolvedEndsPoll ==
  /\ pc = "judge" /\ reply = Meta!Failure
  /\ Return(TRUE)
  /\ UNCHANGED metaVars

\* The source could not be resolved: the session is left alone, or the poll
\* returns when the service stops.
Unresolved ==
  /\ pc = "judge" /\ reply = Meta!Failure
  /\ IF stopping THEN Return(TRUE) ELSE NextSession
  /\ UNCHANGED metaVars

JudgedUHD == Judge(Verdict, reply.sources).terminate

NotUHD ==
  /\ pc = "judge" /\ reply # Meta!Failure /\ ~JudgedUHD
  /\ NextSession
  /\ reply' = Meta!Failure
  /\ UNCHANGED <<library, changed, cache, call>>

\* Mutant of CooldownKey: every mode shares the window.
CooldownKeyOfAnyMode(s) ==
  IF s.sid = NoID THEN <<"enforce", "key", s.sessionKey>> ELSE <<"enforce", s.sid>>

\* A session without an id is known by its key, which is marked as one.
CooldownKey(s) ==
  IF s.sid = NoID THEN <<mode, "key", s.sessionKey>> ELSE <<mode, s.sid>>

\* A 4K transcode: the cooldown is asked whether it may be acted upon.
AskCooldown ==
  /\ pc = "judge" /\ reply # Meta!Failure /\ JudgedUHD
  /\ Cool!Allow(CooldownKey(Current))
  /\ Goto("act")
  /\ reply' = Meta!Failure
  /\ UNCHANGED <<library, changed, cache, call>>

\* What is not terminated: a session within its window, one without a Session
\* id, and every session in dry-run.
Refrain ==
  /\ pc = "act"
  /\ ~answer.allowed \/ Current.sid = NoID \/ mode = "dry-run"
  /\ NextSession
  /\ UNCHANGED metaVars

\* Mutant of ToTerminate: the cooldown's answer is not looked at.
ToTerminateAnyway == pc = "act" /\ Current.sid # NoID /\ mode # "dry-run"

ToTerminate == pc = "act" /\ answer.allowed /\ Current.sid # NoID /\ mode # "dry-run"

Attempted == sinceAttempt' = [sinceAttempt EXCEPT ![Current.sid] = 0]

\* The terminate request leaves for Plex.
SendTerminate ==
  /\ ToTerminate /\ ~ContextDone /\ prefs = "token"
  /\ pc' = "terminating" /\ waited' = 0
  /\ Attempted
  /\ UNCHANGED <<stopping, fileVars, mode, queue, budget, delay, failures, attempt,
                 metaVars, coolVars, atStart, elapsed>>

\* It fails before it leaves: the deadline has passed, the token cannot be
\* read any more, or the service stops and the poll returns.
TerminateUnsent ==
  /\ ToTerminate /\ (ContextDone \/ prefs = "none")
  /\ IF stopping
     THEN Return(TRUE)
     ELSE /\ pc' = "loop" /\ queue' = Tail(queue) /\ waited' = 0
          /\ answer' = Cool!NoAnswer
          /\ Attempted
          /\ UNCHANGED <<stopping, fileVars, mode, budget, delay, failures, attempt,
                         cooldown, atStart, elapsed>>
  /\ UNCHANGED metaVars

\* Plex confirms, or the request fails; a failure under a shutdown returns.
Terminated ==
  /\ pc = "terminating"
  /\ NextSession
  /\ UNCHANGED metaVars

TerminateInterrupted ==
  /\ pc = "terminating" /\ stopping
  /\ Return(TRUE)
  /\ UNCHANGED metaVars

\* The document is exhausted: expired cooldowns (which the contract does not
\* show) and expired cache entries are dropped, and the poll is a success.
EndPoll ==
  /\ pc = "loop" /\ queue = <<>>
  /\ Meta!PruneCache
  /\ Return(FALSE)

\* Mutant of StopSleeping: the sleep runs to its end before the context is looked at.
StopSlept ==
  /\ pc \in {"resting", "sleeping"} /\ stopping /\ delay = 0
  /\ pc' = "stopped"
  /\ UNCHANGED <<stopping, fileVars, mode, queue, waited, budget, delay, failures, attempt,
                 metaVars, coolVars, history>>

\* A shutdown ends the sleep, and with it Run.
StopSleeping ==
  /\ pc \in {"resting", "sleeping"} /\ stopping
  /\ pc' = "stopped" /\ delay' = 0
  /\ UNCHANGED <<stopping, fileVars, mode, queue, waited, budget, failures, attempt,
                 metaVars, coolVars, history>>

-----------------------------------------------------------------------------
(* The environment.                                                         *)

Unmoved == UNCHANGED <<pc, mode, queue, waited, budget, delay, failures, attempt, history>>

\* The operator writes, breaks or removes the mode file or the preferences.
EditModeFile ==
  /\ modeFile' \in ModeContents \ {modeFile}
  /\ Unmoved /\ UNCHANGED <<stopping, prefs, metaVars, coolVars>>

EditPrefs ==
  /\ prefs' \in PrefsContents \ {prefs}
  /\ Unmoved /\ UNCHANGED <<stopping, modeFile, metaVars, coolVars>>

\* Plex reads the item or errs.  A request whose context is done gets no answer
\* any more.
PlexOnMetadata ==
  /\ (~ContextDone /\ Meta!PlexAnswers) \/ Meta!RequestErrs
  /\ Unmoved /\ UNCHANGED <<stopping, fileVars, coolVars>>

EditLibrary ==
  /\ \E key \in EditableKeys, item \in Meta!Items :
       Meta!EditLibrary(key, item)
  /\ Unmoved /\ UNCHANGED <<stopping, fileVars, coolVars>>

Stop ==
  /\ "stop" \in Faults /\ ~stopping /\ pc # "stopped"
  /\ stopping' = TRUE
  /\ Unmoved /\ UNCHANGED <<fileVars, metaVars, coolVars>>

\* The process dies and the supervisor starts it again: what it kept in memory
\* is gone.
Crash ==
  /\ "crash" \in Faults /\ pc # "stopped" /\ ~stopping
  /\ pc' = "connecting" /\ delay' = 0 /\ failures' = 0 /\ attempt' = 0
  /\ mode' = "off" /\ queue' = <<>> /\ waited' = 0 /\ budget' = 0
  /\ cache' = << >> /\ call' = Meta!NoCall /\ reply' = Meta!Failure
  /\ Cool!Restart
  /\ atStart' = "missing" /\ elapsed' = 0
  /\ sinceAttempt' = [sid \in SessionIDs |-> Window]
  /\ UNCHANGED <<stopping, fileVars, library, changed>>

\* A request waits for Plex: within its timeout and, in a poll, its deadline.
Waiting ==
  \/ pc = "connecting" /\ waited < RequestMax
  \/ /\ budget > 0
     /\ \/ pc \in {"sessions", "terminating"} /\ waited < RequestMax
        \/ pc = "metadata" /\ call.waited < RequestMax

Later(age) == IF age < Window THEN age + 1 ELSE Window

\* Time passes while the loop sleeps or waits for Plex.
Tick ==
  /\ ~stopping
  /\ Waiting \/ delay > 0
  /\ Meta!Tick
  /\ Cool!Tick
  /\ delay' = IF delay > 0 THEN delay - 1 ELSE 0
  /\ budget' = IF Idle THEN budget ELSE budget - 1
  /\ waited' = IF pc \in {"connecting", "sessions", "terminating"} THEN waited + 1 ELSE waited
  /\ elapsed' = IF Idle THEN elapsed ELSE elapsed + 1
  /\ sinceAttempt' = [sid \in SessionIDs |-> Later(sinceAttempt[sid])]
  /\ UNCHANGED <<pc, stopping, fileVars, mode, queue, failures, attempt, atStart>>

-----------------------------------------------------------------------------

\* The steps the goroutine takes by itself, with no time and no answer needed.
Step ==
  \/ AskAgain
  \/ StartPoll \/ SkipPoll \/ MissToken
  \/ LeaveAlone \/ NoRatingKey \/ LookUpCached \/ LookUpInPlex
  \/ Unresolved \/ NotUHD \/ AskCooldown
  \/ Refrain \/ SendTerminate \/ TerminateUnsent
  \/ EndPoll \/ StopSleeping

\* The steps that take an answer, an error or the end of a request.
Receive ==
  \/ PlexReady \/ PlexNotReady
  \/ SessionsAnswered \/ SessionsFailed
  \/ MetadataTimesOut \/ LookedUp
  \/ Terminated \/ TerminateInterrupted

Environment ==
  \/ EditModeFile \/ EditPrefs \/ EditLibrary
  \/ PlexOnMetadata
  \/ Stop \/ Crash

Next == Step \/ Receive \/ Environment \/ Tick

Spec == Init /\ [][Next]_vars

\* The goroutine keeps running, requests end at the latest with their timeout,
\* and time passes.  Nothing is assumed of Plex.
ProcessFairness ==
  /\ WF_vars(Step)
  /\ WF_vars(Receive)
  /\ WF_vars(Tick)

\* Plex answers some of the identity and sessions requests, and some of the
\* requests for the given item, in time; it may fail or stall any number of
\* them, and all requests for other items.
PlexFairness(key) ==
  /\ SF_vars(PlexReady)
  /\ SF_vars(SessionsAnswered)
  /\ SF_vars(call.key = key /\ PlexOnMetadata /\ call'.response = library[key])
  /\ SF_vars(call.key = key /\ LookedUp /\ reply' = library[key])

-----------------------------------------------------------------------------

TypeOK ==
  /\ pc \in {"connecting", "resting", "sleeping", "sessions", "loop", "metadata", "judge", "act", "terminating",
            "stopped"}
  /\ stopping \in BOOLEAN
  /\ modeFile \in ModeContents /\ prefs \in PrefsContents /\ atStart \in ModeFiles
  /\ mode \in Modes
  /\ waited \in 0..RequestMax /\ budget \in 0..(PollInterval + RequestMax)
  /\ delay > 0 => pc \in {"resting", "sleeping"}
  /\ delay \in 0..(IF pc = "resting" THEN MaxReadyDelay ELSE MaxBackoff)
  /\ failures \in 0..5 /\ attempt \in 0..5
  /\ cooldown \in [CooldownKeys -> 0..Window]
  /\ sinceAttempt \in [SessionIDs -> 0..Window]
  /\ pc = "metadata" <=> call.active
  /\ pc \in {"metadata", "judge", "act", "terminating"} => queue # <<>>

Attempt == ToTerminate /\ pc' \in {"terminating", "loop"}

\* A terminate request is only ever made by a poll that started when the mode
\* file asked for enforcement, or was missing under an enforcing environment:
\* a file that is broken or unreadable never leads to one, and neither does a
\* file edited in the middle of a poll (mode.go:49-79, runner.go:212-218).
OnlyEnforced ==
  [][Attempt => atStart = "enforce" \/ (atStart = "missing" /\ ~DryRun)]_vars

\* Two attempts on one session are at least a window apart while the process
\* lives, whatever polls failed, modes changed or documents listed it twice
\* in between (config.go:53-55 "the minimum time between two termination
\* attempts for the same Plex session id").
AttemptsAreSpaced == [][Attempt => sinceAttempt[Current.sid] >= Window]_vars

\* The converse: an enforcing poll passes over a 4K transcode as being within
\* its window only when it was attempted within that window.  What dry-run
\* reported, or another session did, never counts (runner.go:288-290).
PassedOverOnlyWhenAttempted ==
  [][pc = "act" /\ pc' = "loop" /\ mode = "enforce" /\ ~answer.allowed /\ Current.sid # NoID
       => sinceAttempt[Current.sid] < Window]_vars

\* What is attempted is a video transcode, and the library lists its source
\* as 4K now or was edited less than a cache lifetime ago: no older listing,
\* and no listing of another item, condemns a session.
AttemptIsJustified ==
  [][Attempt =>
       /\ Verdict.candidate
       /\ \/ changed[Current.ratingKey] < PosTTL
          \/ Judge(Verdict, library[Current.ratingKey].sources).terminate]_vars

\* No poll lasts longer than one interval plus one request timeout, however
\* many of its requests stall (runner.go:206-210).
PollIsBounded == elapsed <= PollInterval + RequestMax

\* A shutdown needs neither time nor an answer of Plex: from wherever the loop
\* is, its own steps lead to the end of Run (runner.go:137-139, README.md:83
\* "exits promptly on SIGTERM/SIGINT").
StopsPromptly == stopping ~> pc = "stopped"
=============================================================================
