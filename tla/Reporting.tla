------------------------------ MODULE Reporting ------------------------------
(***************************************************************************)
(* What one process of the guard says in the container log: the warnings   *)
(* and notes of the poll loop (internal/guard/runner.go), the token source *)
(* (token.go) whose every read may tell the redactor of a new token, and   *)
(* the redactor between each line and the log (redact.go).                 *)
(*                                                                         *)
(* A poll is reduced to what is said and to what decides it.  Which        *)
(* sessions a document has, and for how long a lookup is remembered, is    *)
(* left open: Runner and MetadataCache are about that.  An error a request *)
(* returns may carry the token the request was made with, as the redactor  *)
(* supposes of third-party packages.                                       *)
(***************************************************************************)
EXTENDS Naturals

CONSTANTS
  Tokens,           \* tokens Plex may write into its preferences, long enough to be redacted
  Items,            \* library items; one title each
  WarnInterval      \* noTokenWarnInterval

\* Items are told apart from the other topics by a prefix.
ASSUME ReportingAssumption ==
  /\ WarnInterval \in Nat \ {0}
  /\ Items \cap {"mode-file", "mode", "token", "message-file", "message"} = {}

NoToken == "no token"

\* What may be wrong, or not, about a topic: a text, and the token it carries.
Fact(text, token) == [text |-> text, token |-> token]
Fine == Fact("", NoToken)
Silence == Fact("nothing said", NoToken)
Cleared == Fact("condition cleared", NoToken)
Errors == {Fact("request failed", t) : t \in Tokens \cup {NoToken}}

ModeFiles == {"missing", "off", "invalid"}
MessageFiles == {"regular", "blank"}
Topics == {"mode-file", "mode", "token", "message-file", "message"} \cup Items

VARIABLES
  config,      \* the configuration the process loaded
  prefs,       \* the token in the preferences, NoToken when none can be read
  modeFile, messageFile, \* what the two files hold
  pc,          \* "off" (no process), "idle", "polling", "sessions", "loop", "metadata" or "terminating"
  request,     \* the token the request in flight was made with
  item,        \* the item it asks for
  source,      \* TokenSource.last and the redactor's secrets
  sinceWarn,   \* ticks since the missing token was told, WarnInterval when long ago or never
  remembered,  \* per item, the cached result of its lookup; Silence when there is none
  memory,      \* lastWarnings, lastMode and lastMessage
  log,         \* the last line about each topic, before redaction
  found,       \* history: what the poll found about each topic, Silence for nothing
  leaked,      \* history: a line showed a token
  repeated     \* history: a warning followed itself in a log that shows recoveries too

Rank == [debug |-> 0, info |-> 1, warn |-> 2, error |-> 3]
Enabled(level) == Rank[level] >= Rank[config.LogLevel]

files == <<prefs, modeFile, messageFile>>
history == <<found, leaked, repeated>>
reportVars == <<config, files, pc, request, item, source, sinceWarn, remembered, memory, log,
                history>>

\* What the runner remembers and what it has said, threaded through one step.
Said == [memory |-> memory, log |-> log, found |-> found, leaked |-> leaked,
         repeated |-> repeated, source |-> source]
SaidIs(s) ==
  /\ memory' = s.memory /\ log' = s.log /\ found' = s.found
  /\ leaked' = s.leaked /\ repeated' = s.repeated /\ source' = s.source

\* Redact takes the secrets out of a line; another token in it is shown.
Shows(line, src) == line.token \notin src.secrets \cup {NoToken}

\* A line of the given level: written, unless the level is not enabled, redacted.
Say(s, level, topic, line) ==
  IF ~Enabled(level) THEN s
  ELSE [s EXCEPT
         !.log[topic] = line,
         !.leaked = @ \/ Shows(line, s.source),
         !.repeated = @ \/ (/\ level = "warn" /\ topic # "token"
                           /\ Enabled("info") /\ line = s.log[topic])]

Find(s, topic, fact) == [s EXCEPT !.found[topic] = fact]

\* Mutant of WarnChanged: a condition that clears is not forgotten.
WarnOnce(s, topic, fact) ==
  LET prev == s.memory[topic]
      known == IF fact = Fine THEN s ELSE [s EXCEPT !.memory[topic] = fact]
  IN  IF fact # Fine /\ fact # prev THEN Say(known, "warn", topic, fact)
      ELSE IF fact = Fine /\ prev # Fine THEN Say(known, "info", topic, Cleared)
      ELSE known

\* Mutant of WarnChanged: a warning is logged as often as it is met.
WarnAlways(s, topic, fact) ==
  IF fact = Fine THEN s ELSE Say(s, "warn", topic, fact)

\* warnChanged.
WarnChanged(s, topic, fact) ==
  LET prev == s.memory[topic]
      known == [s EXCEPT !.memory[topic] = fact]
  IN  IF fact # Fine /\ fact # prev THEN Say(known, "warn", topic, fact)
      ELSE IF fact = Fine /\ prev # Fine THEN Say(known, "info", topic, Cleared)
      ELSE known

\* noteMode and noteMessage.
NoteChanged(s, topic, state) ==
  IF s.memory[topic] = state THEN s
  ELSE Say([s EXCEPT !.memory[topic] = state], "info", topic, state)

Warn(s, topic, fact) == Find(WarnChanged(s, topic, fact), topic, fact)
Note(s, topic, state) == Find(NoteChanged(s, topic, state), topic, state)

-----------------------------------------------------------------------------
(* The token.                                                               *)

Loaded == Fact("plex token loaded", NoToken)
Unavailable == Fact("plex token unavailable", NoToken)

\* Mutant of Changed: only the first token is told to the redactor.
ChangedFirst(s) ==
  IF s.source.secrets # {} THEN s
  ELSE Say([s EXCEPT !.source.secrets = {prefs}], "info", "token", Loaded)

\* onChange: the redactor is told first, then the log.
Changed(s) == Say([s EXCEPT !.source.secrets = {prefs}], "info", "token", Loaded)

\* Mutant of ReadToken: the last token is not forgotten when none can be read.
ReadTokenKept(s) ==
  IF prefs \in {NoToken, s.source.last} THEN s
  ELSE Changed([s EXCEPT !.source.last = prefs])

\* TokenSource.Token: the token is read from the file each time.
ReadToken(s) ==
  IF prefs = NoToken THEN [s EXCEPT !.source.last = NoToken]
  ELSE IF prefs = s.source.last THEN s
  ELSE Changed([s EXCEPT !.source.last = prefs])

-----------------------------------------------------------------------------
(* The process.                                                             *)

Fresh(line) == [t \in Topics |-> line]

\* "starting": nothing said before is about this process.
Start ==
  /\ pc = "off" /\ pc' = "idle"
  /\ request' = NoToken /\ item' = "" /\ sinceWarn' = WarnInterval
  /\ source' = [last |-> NoToken, secrets |-> {}]
  /\ remembered' = [i \in Items |-> Silence]
  /\ memory' = Fresh(Fine) /\ log' = Fresh(Silence) /\ found' = Fresh(Silence)
  /\ UNCHANGED <<files, leaked, repeated>>

\* The process is gone, and all it kept in memory with it.
Gone ==
  /\ pc' = "off"
  /\ request' = NoToken /\ item' = "" /\ sinceWarn' = WarnInterval
  /\ source' = [last |-> NoToken, secrets |-> {}]
  /\ remembered' = [i \in Items |-> Silence]
  /\ memory' = Fresh(Fine) /\ log' = Fresh(Silence) /\ found' = Fresh(Silence)
  /\ UNCHANGED <<files, leaked, repeated>>

-----------------------------------------------------------------------------
(* One poll.                                                                *)

EffectiveMode ==
  CASE modeFile = "off" -> Fact("off", NoToken)
    [] modeFile = "invalid" -> Fact("dry-run, invalid file", NoToken)
    [] modeFile = "missing" -> Fact("baseline", NoToken)
ModeWarning == IF modeFile = "invalid" THEN Fact("mode file is invalid", NoToken) ELSE Fine

ModeTold(s) == Note(Warn(s, "mode-file", ModeWarning), "mode", EffectiveMode)
NewPoll == [Said EXCEPT !.found = Fresh(Silence)]

Goto(label) ==
  /\ pc' = label /\ request' = NoToken /\ item' = ""
  /\ UNCHANGED <<config, files>>

PollOff ==
  /\ pc = "idle" /\ modeFile = "off"
  /\ SaidIs(ModeTold(NewPoll))
  /\ Goto("idle") /\ UNCHANGED <<sinceWarn, remembered>>

\* noteTokenMissing: the warning is repeated at most once in an interval.
PollWithoutToken ==
  /\ pc = "idle" /\ modeFile # "off" /\ prefs = NoToken
  /\ LET s == Find(ReadToken(ModeTold(NewPoll)), "token", Unavailable)
         due == sinceWarn = WarnInterval
     IN  /\ SaidIs(IF due THEN Say(s, "warn", "token", Unavailable) ELSE s)
         /\ sinceWarn' = IF due THEN 0 ELSE sinceWarn
  /\ Goto("idle") /\ UNCHANGED remembered

\* Mutant of ClearTokenWarning: the interval goes on after the token came back.
KeepTokenWarning == UNCHANGED sinceWarn

ClearTokenWarning == sinceWarn' = WarnInterval

PollWithToken ==
  /\ pc = "idle" /\ modeFile # "off" /\ prefs # NoToken
  /\ SaidIs(Find(ReadToken(ModeTold(NewPoll)), "token", Loaded))
  /\ ClearTokenWarning
  /\ Goto("polling") /\ UNCHANGED remembered

\* A request is made with the token as it is now; label is where it is awaited.
Send(label, i) ==
  /\ prefs # NoToken
  /\ SaidIs(ReadToken(Said))
  /\ pc' = label /\ request' = prefs /\ item' = i
  /\ UNCHANGED <<config, files, sinceWarn, remembered>>

\* The errors a request can end with.
RequestErrors == {e \in Errors : e.token \in {request, NoToken}}

AskSessions == pc = "polling" /\ Send("sessions", "")

\* No token any more: the poll fails with an error that carries none.
SessionsUnsent ==
  /\ pc = "polling" /\ prefs = NoToken
  /\ SaidIs(ReadToken(Said))
  /\ Goto("idle") /\ UNCHANGED <<sinceWarn, remembered>>

\* Each failure is told, whether it was told before or not; it has no topic.
SessionsFailed ==
  /\ pc = "sessions"
  /\ \E e \in RequestErrors :
       leaked' = (leaked \/ (Enabled("warn") /\ Shows(e, source)))
  /\ Goto("idle")
  /\ UNCHANGED <<sinceWarn, remembered, source, memory, log, found, repeated>>

MessageWarning == IF messageFile = "blank" THEN Fact("message file is blank", NoToken) ELSE Fine
Message == IF messageFile = "blank" THEN Fact("default message", NoToken)
                                    ELSE Fact("message of the file", NoToken)

SessionsAnswered ==
  /\ pc = "sessions"
  /\ SaidIs(Note(Warn(Said, "message-file", MessageWarning), "message", Message))
  /\ Goto("loop") /\ UNCHANGED <<sinceWarn, remembered>>

\* The lookup of a session's item: remembered, whether it succeeded or failed,
LookUpCached ==
  /\ pc = "loop"
  /\ \E i \in Items : remembered[i] # Silence /\ SaidIs(Warn(Said, i, remembered[i]))
  /\ Goto("loop") /\ UNCHANGED <<sinceWarn, remembered>>

\* or asked of Plex: not remembered, or without the version the session plays.
Unserved(i) == remembered[i] \in {Silence, Fine}
AskMetadata == pc = "loop" /\ \E i \in Items : Unserved(i) /\ Send("metadata", i)

MetadataUnsent ==
  /\ pc = "loop" /\ prefs = NoToken
  /\ \E i \in Items :
       LET e == Fact("no token for the request", NoToken)
       IN  /\ Unserved(i)
           /\ SaidIs(Warn(ReadToken(Said), i, e))
           /\ remembered' \in {remembered, [remembered EXCEPT ![i] = e]}
  /\ Goto("loop") /\ UNCHANGED sinceWarn

\* The answer, or an error, which is remembered unless the deadline has passed.
MetadataAnswered ==
  /\ pc = "metadata"
  /\ \E fact \in RequestErrors \cup {Fine} :
       /\ SaidIs(Warn(Said, item, fact))
       /\ \/ remembered' = [remembered EXCEPT ![item] = fact]
          \/ fact # Fine /\ UNCHANGED remembered
  /\ Goto("loop") /\ UNCHANGED sinceWarn

\* A terminate request, of which each failure is told.
AskTerminate == pc = "loop" /\ Send("terminating", "")

Terminated ==
  /\ pc = "terminating"
  /\ \E e \in RequestErrors \cup {Fine} :
       leaked' = (leaked \/ Shows(e, source))
  /\ Goto("loop")
  /\ UNCHANGED <<sinceWarn, remembered, source, memory, log, found, repeated>>

EndPoll ==
  /\ pc = "loop"
  /\ Goto("idle")
  /\ UNCHANGED <<sinceWarn, remembered, source, memory, log, history>>

Poll ==
  \/ PollOff \/ PollWithoutToken \/ PollWithToken
  \/ AskSessions \/ SessionsUnsent \/ SessionsFailed \/ SessionsAnswered
  \/ LookUpCached \/ AskMetadata \/ MetadataUnsent \/ MetadataAnswered
  \/ AskTerminate \/ Terminated \/ EndPoll

-----------------------------------------------------------------------------
(* The environment.                                                         *)

Unmoved == UNCHANGED <<config, pc, request, item, source, memory, log, history>>

EditPrefs ==
  /\ prefs' \in (Tokens \cup {NoToken}) \ {prefs}
  /\ Unmoved /\ UNCHANGED <<modeFile, messageFile, sinceWarn, remembered>>

EditModeFile ==
  /\ modeFile' \in ModeFiles \ {modeFile}
  /\ Unmoved /\ UNCHANGED <<prefs, messageFile, sinceWarn, remembered>>

EditMessageFile ==
  /\ messageFile' \in MessageFiles \ {messageFile}
  /\ Unmoved /\ UNCHANGED <<prefs, modeFile, sinceWarn, remembered>>

\* Time passes: the warning of the token ages, and remembered lookups expire.
Tick ==
  /\ pc \in {"idle", "sessions", "metadata", "terminating"}
  /\ sinceWarn' = IF sinceWarn < WarnInterval THEN sinceWarn + 1 ELSE WarnInterval
  /\ remembered' \in {r \in [Items -> UNION {{remembered[i], Silence} : i \in Items}] :
                        \A i \in Items : r[i] \in {remembered[i], Silence}}
  /\ Unmoved /\ UNCHANGED files

-----------------------------------------------------------------------------

Warnings == {"mode-file", "message-file"} \cup Items

\* After a poll the last line about whatever the poll looked at tells what the
\* poll found: a present trouble is the last thing said of it, however often
\* it came and went between polls, and a trouble that is over is not, as far
\* as the log level lets it be said (warnChanged, noteMode, noteMessage,
\* noteTokenMissing and the line of tokenSource, runner.go:99-104 and 401-459).
LogIsCurrent ==
  pc = "idle" =>
    \A t \in Topics : found[t] # Silence =>
      IF found[t] = Fine THEN Enabled("info") => log[t] \in {Silence, Cleared}
      ELSE Enabled(IF t \in Warnings \/ found[t] = Unavailable THEN "warn" ELSE "info")
             => log[t] = found[t]

\* No line shows a token, not even through an error of a request made before
\* the token was replaced, which a remembered lookup may repeat after the
\* redactor has forgotten that token (redact.go:14-16).
NoTokenIsLogged == ~leaked

\* A condition that persists is told once, not at every poll: no warning about
\* a file or an item repeats the last line about it (runner.go:401-403).
WarnedOnce == ~repeated
=============================================================================
