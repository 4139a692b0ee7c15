---------------------------- MODULE ServiceProofs ----------------------------
(***************************************************************************)
(* Service proved for every environment, on every build, with any tokens,  *)
(* items and files beside it.  Configured is what LoadConfig and the run   *)
(* script leave standing when the loop starts: the parsers are proved to   *)
(* accept what the reference accepts and to mean what it means.  Judged    *)
(* says that the exit status that disables the service means that it       *)
(* cannot work.  What the log says comes from ReportingProofs; Service     *)
(* adds the lives of the process, each of which starts with a new ledger.  *)
(***************************************************************************)
EXTENDS Service, ReportingProofs

-----------------------------------------------------------------------------
(* The configuration.                                                       *)

LEMMA RawShape ==
  ASSUME NEW raw \in RawValues
  PROVE  /\ raw.form \in {"blank", "garbled", "NaN", "Inf", "boolean", "seconds", "duration", "url",
                          "path", "level"}
         /\ raw.form = "blank" => raw = Blank
         /\ raw.form = "boolean" => raw.value \in BOOLEAN
         /\ raw.form \in {"seconds", "duration"} => raw.half \in Int
         /\ raw.form = "url" => raw.scheme \in {"http", "https", "ftp"} /\ raw.extra \in BOOLEAN
         /\ raw.form = "path" => raw.absolute \in BOOLEAN
         /\ raw.form = "level" => raw.name \in Levels \cup {"warning"}
  BY DEF RawValues, Blank, Path

\* A duration is accepted exactly where it is meaningful, whatever the build
\* makes of what no integer can hold.
LEMMA DurationIsRight ==
  ASSUME NEW build1, NEW raw \in RawValues, NEW min \in Nat, NEW max \in Nat
  PROVE  LET parsed == ParseDuration(build1, raw, min, max)
         IN  /\ parsed.ok <=> /\ raw.form \in {"seconds", "duration"}
                              /\ raw.half < 2 * (max + 1)
                              /\ \/ raw.half >= 2 * min
                                 \/ raw.form = "duration" /\ min = 0 /\ raw.half > -2
             /\ parsed.ok => parsed.value = IF raw.half < 0 THEN 0 ELSE raw.half \div 2
<1> DEFINE parsed == ParseDuration(build1, raw, min, max)
<1>1. CASE raw.form \in {"seconds", "duration"}
  <2> DEFINE d == TowardsZero(raw.half)
  <2>1. raw.half \in Int
    BY <1>1, RawShape
  <2>2. /\ raw.half >= 0 => d = raw.half \div 2
        /\ raw.half < 0 => d <= 0
        /\ raw.half = -1 => d = 0
        /\ raw.half <= -2 => d < 0
        /\ d \in Int
    BY <2>1 DEF TowardsZero
  <2>3. d <= max <=> raw.half < 2 * (max + 1)
    BY <2>1, <2>2
  <2>4. d >= min <=> \/ raw.half >= 2 * min
                     \/ min = 0 /\ raw.half > -2
    BY <2>1, <2>2
  <2>5. parsed.ok => parsed.value = d
    BY <1>1 DEF ParseDuration, Converted, Numbers, Accepted, Rejected
  <2>6. CASE raw.form = "seconds"
    <3>1. parsed.ok <=> ~Unconvertible(raw, max) /\ d >= min /\ d <= max
      BY <2>6 DEF ParseDuration, Converted, Numbers, Accepted, Rejected
    <3>2. ~Unconvertible(raw, max) <=> raw.half >= 0 /\ raw.half <= 2 * (max + 2)
      BY <2>1, <2>6 DEF Unconvertible, Second
    <3> QED BY <2>1, <2>2, <2>3, <2>4, <2>5, <2>6, <3>1, <3>2
  <2>7. CASE raw.form = "duration"
    <3>1. parsed.ok <=> d >= min /\ d <= max
      BY <2>7 DEF ParseDuration, Numbers, Accepted, Rejected
    <3> HIDE DEF d
    <3>2. parsed.ok => (raw.half < 0 => d = 0)
      BY <2>1, <2>2, <2>4, <3>1
    <3> QED BY <2>1, <2>2, <2>3, <2>4, <2>5, <2>7, <3>1, <3>2
  <2> QED BY <1>1, <2>6, <2>7
<1>2. CASE raw.form \notin {"seconds", "duration"}
  BY <1>2 DEF ParseDuration, Unconvertible, Numbers, Rejected
<1> QED BY <1>1, <1>2

\* Every other kind of value, likewise.
LEMMA ParseIsRight ==
  ASSUME NEW b \in Builds, NEW v \in Variables, NEW raw \in RawValues, raw # Blank
  PROVE  /\ Parse(b, v, raw).ok <=> Meaningful(v, raw)
         /\ Parse(b, v, raw).ok => Parse(b, v, raw).value = Meant(v, raw)
<1>1. /\ DOMAIN Bounds = {"PollInterval", "HTTPTimeout", "Cooldown"}
      /\ Bounds["PollInterval"] = <<2, 300>> /\ Bounds["HTTPTimeout"] = <<1, 60>>
      /\ Bounds["Cooldown"] = <<0, 3600>>
  BY DEF Bounds
<1>2. (\A x : Accepted(x).ok = TRUE /\ Accepted(x).value = x) /\ Rejected.ok = FALSE
  BY DEF Accepted, Rejected
<1>3. CASE v = "DryRun"
  <2>1. Parse(b, v, raw) = IF raw.form = "boolean" THEN Accepted(raw.value) ELSE Rejected
    BY <1>3 DEF Parse, ParseBool
  <2>2. Meaningful(v, raw) <=> raw.form = "boolean"
    BY <1>1, <1>3 DEF Meaningful
  <2>3. Meant(v, raw) = raw.value
    BY <1>1, <1>3 DEF Meant
  <2> QED BY <1>2, <2>1, <2>2, <2>3
<1>4. CASE v \in DOMAIN Bounds
  <2>1. Meant(v, raw) = IF raw.half < 0 THEN 0 ELSE raw.half \div 2
    BY <1>1, <1>4 DEF Meant
  <2>2. Meaningful(v, raw) <=>
          /\ raw.form \in {"seconds", "duration"}
          /\ raw.half < 2 * (Bounds[v][2] * Second + 1)
          /\ \/ raw.half >= 2 * Bounds[v][1] * Second
             \/ raw.form = "duration" /\ Bounds[v][1] = 0 /\ raw.half > -2
    <3>1. v \notin {"DryRun", "PlexURL", "LogLevel", "PreferencesFile", "MessageFile", "ModeFile"}
      BY <1>1, <1>4
    <3> QED BY <1>4, <3>1, Zenon DEF Meaningful
  <2>3. Parse(b, v, raw) = ParseDuration(b, raw, Bounds[v][1] * Second, Bounds[v][2] * Second)
    BY <1>1, <1>4 DEF Parse, MinPollInterval, MaxPollInterval, MinHTTPTimeout, MaxHTTPTimeout,
         MaxCooldown, Second
  <2>4. /\ Bounds[v][1] * Second \in Nat /\ Bounds[v][2] * Second \in Nat
        /\ 2 * (Bounds[v][1] * Second) = 2 * Bounds[v][1] * Second
        /\ Bounds[v][1] * Second = 0 <=> Bounds[v][1] = 0
    BY <1>1, <1>4 DEF Second
  <2> QED BY <2>1, <2>2, <2>3, <2>4, DurationIsRight
<1>5. CASE v = "PlexURL"
  <2>1. Meant(v, raw) = [scheme |-> raw.scheme, host |-> raw.host, path |-> raw.path]
    BY <1>1, <1>5 DEF Meant
  <2>2. Meaningful(v, raw) <=>
          raw.form = "url" /\ raw.scheme # "ftp" /\ raw.host # "" /\ ~raw.extra
    BY <1>1, <1>5 DEF Meaningful
  <2>3. Parse(b, v, raw) = ParseBaseURL(raw)
    BY <1>5 DEF Parse
  <2>4. raw.form = "url" => raw.scheme \in {"http", "https", "ftp"}
    BY RawShape
  <2> QED BY <1>2, <2>1, <2>2, <2>3, <2>4 DEF ParseBaseURL
<1>6. CASE v = "LogLevel"
  <2>1. Meant(v, raw) = IF raw.name = "warning" THEN "warn" ELSE raw.name
    BY <1>1, <1>6 DEF Meant
  <2>2. Meaningful(v, raw) <=> raw.form = "level"
    BY <1>1, <1>6 DEF Meaningful
  <2>3. Parse(b, v, raw) = ParseLevel(raw)
    BY <1>6 DEF Parse
  <2>4. raw.form = "level" => raw.name \in Levels \cup {"warning"}
    BY RawShape
  <2> QED BY <1>2, <2>1, <2>2, <2>3, <2>4 DEF ParseLevel, Levels
<1>7. CASE v \in {"PreferencesFile", "MessageFile", "ModeFile"}
  <2>1. Meant(v, raw) = "given"
    BY <1>1, <1>7 DEF Meant
  <2>2. Meaningful(v, raw) <=> raw.form = "path" /\ raw.absolute
    <3>1. v \notin DOMAIN Bounds \cup {"DryRun", "PlexURL", "LogLevel"}
      BY <1>1, <1>7
    <3> QED BY <1>7, <3>1, Zenon DEF Meaningful
  <2>3. Parse(b, v, raw) = ValidateAbsPath(raw)
    BY <1>7 DEF Parse
  <2>4. /\ ValidateAbsPath(raw).ok <=> raw.form = "path" /\ raw.absolute
        /\ ValidateAbsPath(raw).value = "given"
    BY DEF ValidateAbsPath
  <2> QED BY <2>1, <2>2, <2>3, <2>4
<1> QED BY <1>1, <1>3, <1>4, <1>5, <1>6, <1>7 DEF Variables

\* What is loaded is what the environment asks for, and it is refused exactly
\* when it asks for nothing that can be.
LEMMA LoadIsRight ==
  ASSUME NEW b \in Builds, NEW e \in [Variables -> RawValues]
  PROVE  /\ Problems(b, e) = {} <=> \A v \in Variables : e[v] = Blank \/ Meaningful(v, e[v])
         /\ Problems(b, e) = {} =>
              \A v \in Variables :
                LoadConfig(b, e)[v] = IF e[v] = Blank THEN DefaultConfig[v] ELSE Meant(v, e[v])
<1>1. \A v \in Variables : e[v] \in RawValues
  OBVIOUS
<1>2. \A v \in Variables : v \in Problems(b, e) <=> e[v] # Blank /\ ~Meaningful(v, e[v])
  BY <1>1, ParseIsRight DEF Problems
<1>3. Problems(b, e) \subseteq Variables
  BY DEF Problems
<1>4. ASSUME Problems(b, e) = {}, NEW v \in Variables
      PROVE  LoadConfig(b, e)[v] = IF e[v] = Blank THEN DefaultConfig[v] ELSE Meant(v, e[v])
  BY <1>1, <1>2, <1>4, ParseIsRight DEF LoadConfig
<1> QED BY <1>2, <1>3, <1>4

-----------------------------------------------------------------------------
(* The service.                                                             *)

\* The process runs where it can, with what it loaded,
Configured ==
  /\ build \in Builds /\ env \in [Variables -> RawValues]
  /\ container = "down" => service = "down"
  /\ service \in {"main", "looping"} => installed
  /\ service = "looping" => Problems(build, env) = {} /\ config = LoadConfig(build, env)

\* and the status that disables the service means that it cannot work.
Judged ==
  /\ service = "disabled" \/ (service = "finish" /\ status = exitConfig) => ~Workable
  /\ refused => service \in {"finish", "disabled"}
  /\ refused /\ service = "finish" => status = exitConfig

ServiceInv == Configured /\ Judged

LEMMA StatusFacts == exitConfig # Killed /\ exitConfig # 0
  BY DEF exitConfig, Killed

\* A configuration that is refused asks for something that cannot be.
LEMMA RefusedIsUnworkable ==
  ASSUME Configured, Workable
  PROVE  Problems(build, env) = {}
  BY LoadIsRight DEF Configured, Workable

\* While a process runs it keeps its configuration.
LEMMA ConfigKept ==
  ASSUME Report \/ Edit
  PROVE  UNCHANGED <<config, build, env, installed, container, service, status, refused>>
<1>1. UNCHANGED <<build, env, installed, container, service, status, refused>>
  BY DEF Report, Edit, serviceVars
<1>2. UNCHANGED config
  BY DEF Report, Edit, Poll, PollOff, PollWithoutToken, PollWithToken, AskSessions, SessionsUnsent,
     SessionsFailed, SessionsAnswered, LookUpCached, AskMetadata, MetadataUnsent, MetadataAnswered,
     AskTerminate, Terminated, EndPoll, Send, Goto, Tick, EditPrefs, EditModeFile, EditMessageFile,
     Unmoved
<1> QED BY <1>1, <1>2

LEMMA ServiceInit == Init => ServiceInv
<1> SUFFICES ASSUME Init PROVE ServiceInv
  OBVIOUS
<1>1. build \in Builds /\ env \in [Variables -> RawValues]
  BY EnvironmentsAssumption DEF Init
<1>2. container = "down" /\ service = "down" /\ refused = FALSE
  BY DEF Init
<1> QED BY <1>1, <1>2 DEF ServiceInv, Configured, Judged

LEMMA ServiceNext == ServiceInv /\ [Next]_vars => ServiceInv'
<1> SUFFICES ASSUME ServiceInv, [Next]_vars PROVE ServiceInv'
  OBVIOUS
<1> USE StatusFacts DEF ServiceInv
<1>1. CASE Recreate
  <2>1. build' \in Builds /\ env' \in [Variables -> RawValues] /\ service' = "down" /\ ~refused'
    BY <1>1, EnvironmentsAssumption DEF Recreate, Configured, Judged
  <2> QED BY <2>1 DEF Configured, Judged
<1>2. CASE ~Recreate
  <2>1. UNCHANGED <<build, env, installed>>
    BY <1>2, ConfigKept
       DEF Next, StartContainer, RunScript, Finish, Refuse, EnterLoop, Exit, Die, StopContainer,
           ContainerStopped, vars, serviceVars
  <2>2. Workable' <=> Workable
    BY <2>1 DEF Workable
  <2>3. CASE UNCHANGED <<config, container, service, status, refused>>
    BY <2>1, <2>2, <2>3 DEF Configured, Judged
  <2>4. CASE StartContainer
    BY <2>1, <2>2, <2>4 DEF StartContainer, Configured, Judged
  <2>5. CASE RunScript
    BY <2>1, <2>2, <2>5 DEF RunScript, Configured, Judged, Workable
  <2>6. CASE Finish
    BY <2>1, <2>2, <2>6 DEF Finish, Configured, Judged
  <2>7. CASE Refuse
    BY <2>1, <2>2, <2>7, RefusedIsUnworkable DEF Refuse, Configured, Judged
  <2>8. CASE EnterLoop
    BY <2>1, <2>2, <2>8 DEF EnterLoop, Configured, Judged
  <2>9. CASE Exit \/ Die
    BY <2>1, <2>2, <2>9 DEF Exit, Die, Configured, Judged
  <2>10. CASE StopContainer
    BY <2>1, <2>2, <2>10 DEF StopContainer, Configured, Judged, reportVars
  <2>11. CASE ContainerStopped
    BY <2>1, <2>2, <2>11 DEF ContainerStopped, Configured, Judged
  <2> QED BY <1>2, <2>3, <2>4, <2>5, <2>6, <2>7, <2>8, <2>9, <2>10, <2>11, ConfigKept
          DEF Next, vars, serviceVars, reportVars
<1> QED BY <1>1, <1>2

LEMMA ServiceAlways == Spec => []ServiceInv
  BY ServiceInit, ServiceNext, PTL DEF Spec

-----------------------------------------------------------------------------

\* A guard that polls runs with what its environment asks for, for every value
\* any of the nine variables may have and on both builds (config.go:88-196,
\* main.go:55-77).
THEOREM Configuration == Spec => []RunsAsConfigured
<1>1. ServiceInv => RunsAsConfigured
  BY LoadIsRight DEF ServiceInv, Configured, RunsAsConfigured, Workable
<1> QED BY <1>1, ServiceAlways, PTL

\* Neither a crash nor a signal nor a shutdown disables the guard: the status
\* that does is only ever that of a container in which it cannot work
\* (main.go:20-23, run:5-7, finish:3-7).
THEOREM Disabled == Spec => []DisabledOnlyWhenUnworkable
<1>1. ServiceInv => DisabledOnlyWhenUnworkable
  BY DEF ServiceInv, Judged, DisabledOnlyWhenUnworkable
<1> QED BY <1>1, ServiceAlways, PTL

\* A guard that said it cannot work says so once (finish:3-7).
THEOREM SaidOnce == Spec => []NotRetried
<1>1. ServiceInv => NotRetried
  BY DEF ServiceInv, Judged, NotRetried
<1> QED BY <1>1, ServiceAlways, PTL

-----------------------------------------------------------------------------
(* What the process says.                                                   *)

\* A configuration that is accepted has a level that is known.
LEMMA LoadedLevel ==
  ASSUME NEW b \in Builds, NEW e \in [Variables -> RawValues], Problems(b, e) = {}
  PROVE  LoadConfig(b, e).LogLevel \in LogLevels
<1> DEFINE raw == e["LogLevel"]
<1>1. "LogLevel" \in Variables
  BY DEF Variables
<1>2. /\ raw \in RawValues
      /\ raw = Blank \/ Meaningful("LogLevel", raw)
      /\ LoadConfig(b, e)["LogLevel"] =
           IF raw = Blank THEN DefaultConfig["LogLevel"] ELSE Meant("LogLevel", raw)
  BY <1>1, LoadIsRight
<1>3. DefaultConfig["LogLevel"] \in LogLevels
  BY DEF DefaultConfig, LogLevels
<1>4. ASSUME raw # Blank PROVE Meant("LogLevel", raw) \in LogLevels
  <2>1. raw.form = "level"
    BY <1>2, <1>4 DEF Meaningful, Bounds
  <2>2. raw.name \in Levels \cup {"warning"}
    BY <1>2, <2>1, RawShape
  <2>3. Meant("LogLevel", raw) = IF raw.name = "warning" THEN "warn" ELSE raw.name
    BY DEF Meant, Bounds
  <2> QED BY <2>2, <2>3 DEF Levels, LogLevels
<1> QED BY <1>2, <1>3, <1>4

LEMMA DefaultLevel == DefaultConfig.LogLevel \in LogLevels
  BY DEF DefaultConfig, LogLevels

LEMMA ReportInit == Init => ReportInv
<1>1. Init => NothingTold /\ FilesReadable
  BY DefaultLevel DEF Init, NothingTold, FilesReadable, ModeFiles
<1> QED BY <1>1, NothingToldRight

\* A process that starts or ends leaves nothing said.
LEMMA FreshNext ==
  ASSUME ReportInv, Start \/ Gone, config'.LogLevel \in LogLevels
  PROVE  ReportInv'
<1>1. leaked = FALSE /\ repeated = FALSE
  BY SaidFields DEF ReportInv, LedgerRight, Right
<1>2. UNCHANGED <<prefs, modeFile, leaked, repeated>>
  BY DEF Start, Gone, files
<1>3. FilesReadable'
  BY <1>2 DEF ReportInv, FilesReadable
<1>4. NothingTold'
  BY <1>1, <1>2 DEF NothingTold, Start, Gone, Fresh
<1> QED BY <1>3, <1>4, NothingToldRight, PTL

LEMMA ReportNext == ServiceInv /\ ReportInv /\ [Next]_vars => ReportInv'
<1> SUFFICES ASSUME ServiceInv, ReportInv, [Next]_vars PROVE ReportInv'
  OBVIOUS
<1>1. CASE Report
  BY <1>1, PollRight, TickRight DEF Report
<1>2. CASE Edit
  BY <1>2, EditRight DEF Edit
<1>3. CASE EnterLoop
  <2>1. Start /\ config' = LoadConfig(build, env) /\ Problems(build, env) = {}
    BY <1>3 DEF EnterLoop
  <2>2. config'.LogLevel \in LogLevels
    BY <2>1, LoadedLevel DEF ServiceInv, Configured
  <2> QED BY <2>1, <2>2, FreshNext
<1>4. CASE UNCHANGED reportVars
  BY <1>4, StutterRight
<1>5. CASE Gone /\ config' = DefaultConfig
  BY <1>5, DefaultLevel, FreshNext
<1>6. \/ Report \/ Edit \/ EnterLoop \/ UNCHANGED reportVars
      \/ Gone /\ config' = DefaultConfig
  BY DEF Next, StartContainer, RunScript, Finish, Refuse, Exit, Die, StopContainer,
         ContainerStopped, Recreate, vars
<1> QED BY <1>1, <1>2, <1>3, <1>4, <1>5, <1>6

LEMMA ReportAlways == Spec => []ReportInv
  BY ReportInit, ReportNext, ServiceAlways, PTL DEF Spec

\* After any poll the log is current: what the poll found is the last thing
\* said of it, as far as the log level lets it be said, for any items, tokens
\* and interval (runner.go:401-459).
THEOREM CurrentLog == Spec => []LogIsCurrent
  BY RightIsCurrent, ReportAlways, PTL

\* No token of Plex reaches the log, not even one the guard has seen replaced
\* since (redact.go:14-16, token.go:40-56, runner.go:96-104).
THEOREM NothingLeaks == Spec => []NoTokenIsLogged
  BY RightIsCurrent, ReportAlways, PTL

\* A condition that persists is warned of once (runner.go:401-403).
THEOREM Once == Spec => []WarnedOnce
  BY RightIsCurrent, ReportAlways, PTL
=============================================================================
