-------------------------------- MODULE Config --------------------------------
(***************************************************************************)
(* The configuration (internal/guard/config.go): nine variables of the     *)
(* container's environment, each blank, valid or not.  LoadConfig is pure, *)
(* so it is modelled by operators.                                         *)
(*                                                                         *)
(* A raw value is a record whose form says how it is written.  All ways to *)
(* write one boolean, level or path are one.  Durations are counted in     *)
(* units that stand for the nanosecond, what is written in half units, so  *)
(* that a value between two nanoseconds exists.                            *)
(***************************************************************************)
EXTENDS Integers

Second == 2

DefaultPollInterval == 10 * Second
DefaultHTTPTimeout == 5 * Second
DefaultCooldown == 60 * Second
MinPollInterval == 2 * Second
MaxPollInterval == 300 * Second
MinHTTPTimeout == 1 * Second
MaxHTTPTimeout == 60 * Second
MaxCooldown == 3600 * Second
DefaultPlexURL == [scheme |-> "http", host |-> "127.0.0.1:32400", path |-> ""]

Variables == {"DryRun", "PollInterval", "HTTPTimeout", "Cooldown", "PlexURL",
              "PreferencesFile", "MessageFile", "ModeFile", "LogLevel"}

\* The ways to write a value.
Blank == [form |-> "blank"]
Garbled == [form |-> "garbled"]
Boolean(b) == [form |-> "boolean", value |-> b]
Seconds(half) == [form |-> "seconds", half |-> half]  \* a bare number of seconds
NaN == [form |-> "NaN"]
Infinite == [form |-> "Inf"]
GoDuration(half) == [form |-> "duration", half |-> half]
URL(scheme, host, path, slashes, extra) ==
  [form |-> "url", scheme |-> scheme, host |-> host, path |-> path,
   slashes |-> slashes, extra |-> extra]  \* extra: credentials, a query or a fragment
Path(absolute) == [form |-> "path", absolute |-> absolute]
Level(name) == [form |-> "level", name |-> name]

Levels == {"debug", "info", "warn", "error"}

\* Whatever a variable may hold.  One scheme stands for all that are not HTTP;
\* a level with another name is garbled.
RawValues ==
  [form: {"blank", "garbled", "NaN", "Inf"}]
  \cup [form: {"boolean"}, value: BOOLEAN]
  \cup [form: {"seconds", "duration"}, half: Int]
  \cup [form: {"url"}, scheme: {"http", "https", "ftp"}, host: STRING, path: STRING,
        slashes: BOOLEAN, extra: BOOLEAN]
  \cup [form: {"path"}, absolute: BOOLEAN]
  \cup [form: {"level"}, name: Levels \cup {"warning"}]

DefaultConfig ==
  [DryRun |-> FALSE, PollInterval |-> DefaultPollInterval, HTTPTimeout |-> DefaultHTTPTimeout,
   Cooldown |-> DefaultCooldown, PlexURL |-> DefaultPlexURL, PreferencesFile |-> "default",
   MessageFile |-> "default", ModeFile |-> "", LogLevel |-> "info"]

-----------------------------------------------------------------------------

Accepted(value) == [ok |-> TRUE, value |-> value]
Rejected == [ok |-> FALSE]

ParseBool(raw) == IF raw.form = "boolean" THEN Accepted(raw.value) ELSE Rejected

\* A fraction of a unit is dropped, towards zero.
TowardsZero(half) == IF half >= 0 THEN half \div 2 ELSE -((-half) \div 2)

\* The conversion of a floating-point number to an integer.  What no integer can
\* hold becomes the least integer on amd64, and the nearest one (0 for NaN) on
\* arm64.
Builds == {"amd64", "arm64"}
LeastInt == -1000000
GreatestInt == 1000000
Converted(build, raw) ==
  CASE raw.form = "seconds" -> TowardsZero(raw.half)
    [] raw.form = "NaN" -> IF build = "amd64" THEN LeastInt ELSE 0
    [] raw.form = "Inf" -> IF build = "amd64" THEN LeastInt ELSE GreatestInt

\* Mutant of Unconvertible: NaN compares with nothing, and passes both bounds.
UnconvertibleByComparison(raw, maximum) ==
  /\ raw.form # "NaN"
  /\ raw.form = "Inf" \/ raw.half < 0 \/ raw.half > 2 * (maximum + Second)

\* What is refused before the conversion.
Unconvertible(raw, maximum) ==
  \/ raw.form \in {"NaN", "Inf"}
  \/ raw.half < 0
  \/ raw.half > 2 * (maximum + Second)

Numbers == {"seconds", "NaN", "Inf"}

ParseDuration(build, raw, minimum, maximum) ==
  LET d == IF raw.form \in Numbers THEN Converted(build, raw) ELSE TowardsZero(raw.half)
      readable == \/ raw.form = "duration"
                  \/ raw.form \in Numbers /\ ~Unconvertible(raw, maximum)
  IN  IF readable /\ d >= minimum /\ d <= maximum THEN Accepted(d) ELSE Rejected

ParseBaseURL(raw) ==
  IF /\ raw.form = "url"
     /\ raw.scheme \in {"http", "https"}
     /\ raw.host # ""
     /\ ~raw.extra
  THEN Accepted([scheme |-> raw.scheme, host |-> raw.host, path |-> raw.path])
  ELSE Rejected

\* (A path that is not absolute is kept too, in a configuration nobody uses.)
ValidateAbsPath(raw) == [ok |-> raw.form = "path" /\ raw.absolute, value |-> "given"]

ParseLevel(raw) ==
  CASE raw.form = "level" /\ raw.name \in Levels -> Accepted(raw.name)
    [] raw.form = "level" /\ raw.name = "warning" -> Accepted("warn")
    [] OTHER -> Rejected

Parse(build, variable, raw) ==
  CASE variable = "DryRun" -> ParseBool(raw)
    [] variable = "PollInterval" -> ParseDuration(build, raw, MinPollInterval, MaxPollInterval)
    [] variable = "HTTPTimeout" -> ParseDuration(build, raw, MinHTTPTimeout, MaxHTTPTimeout)
    [] variable = "Cooldown" -> ParseDuration(build, raw, 0, MaxCooldown)
    [] variable = "PlexURL" -> ParseBaseURL(raw)
    [] variable = "LogLevel" -> ParseLevel(raw)
    [] OTHER -> ValidateAbsPath(raw)

\* The variables that are set and cannot be accepted.
Problems(build, env) ==
  {v \in Variables : env[v] # Blank /\ ~Parse(build, v, env[v]).ok}

\* What is blank keeps its default, and so does what cannot be accepted.
LoadConfig(build, env) ==
  [v \in Variables |->
     IF env[v] = Blank \/ v \in Problems(build, env) THEN DefaultConfig[v]
     ELSE Parse(build, v, env[v]).value]

-----------------------------------------------------------------------------
(* What a value asks for, said without saying how it is read.               *)

Bounds == [PollInterval |-> <<2, 300>>, HTTPTimeout |-> <<1, 60>>, Cooldown |-> <<0, 3600>>]

\* A value that asks for something its variable may be.  A duration is accepted
\* up to a nanosecond above its greatest, and where none is allowed, down to a
\* nanosecond below none; a bare number is not negative.
Meaningful(v, raw) ==
  \/ v = "DryRun" /\ raw.form = "boolean"
  \/ /\ v \in DOMAIN Bounds
     /\ raw.form \in {"seconds", "duration"}
     /\ raw.half < 2 * (Bounds[v][2] * Second + 1)
     /\ \/ raw.half >= 2 * Bounds[v][1] * Second
        \/ raw.form = "duration" /\ Bounds[v][1] = 0 /\ raw.half > -2
  \/ v = "PlexURL" /\ raw.form = "url" /\ raw.scheme # "ftp" /\ raw.host # "" /\ ~raw.extra
  \/ v = "LogLevel" /\ raw.form = "level"
  \/ v \in {"PreferencesFile", "MessageFile", "ModeFile"} /\ raw.form = "path" /\ raw.absolute

Meant(v, raw) ==
  CASE v = "DryRun" -> raw.value
    [] v \in DOMAIN Bounds -> IF raw.half < 0 THEN 0 ELSE raw.half \div 2
    [] v = "PlexURL" -> [scheme |-> raw.scheme, host |-> raw.host, path |-> raw.path]
    [] v = "LogLevel" -> IF raw.name = "warning" THEN "warn" ELSE raw.name
    [] OTHER -> "given"
=============================================================================
