--------------------------- MODULE ReportingProofs ---------------------------
(***************************************************************************)
(* What ServiceProofs needs of Reporting: its steps keep ReportInv, for    *)
(* any tokens, items and interval.  Every line of a poll is said by one    *)
(* operator on the ledger, so each of these operators (Noted, Noticed,     *)
(* SameToken, Told, Read, Begun below) gets a predicate that says what it  *)
(* does and a lemma that it keeps a right ledger right.  ReportInv says    *)
(* more than the ledger's being right where a step relies on it: on the    *)
(* token that is missing while its interval runs, on the one a request was *)
(* made with, and on the failures that are repeated from the cache.        *)
(***************************************************************************)
EXTENDS Reporting, TLAPS

\* What can be said.
Texts ==
  {"", "nothing said", "condition cleared", "request failed", "no token for the request",
   "plex token loaded", "plex token unavailable", "off", "dry-run, invalid file", "baseline",
   "mode file is invalid", "message file is blank", "default message", "message of the file"}
Facts == [text: Texts, token: Tokens \cup {NoToken}]

\* What is in force: a mode, a message.
Notes == {"mode", "message"}
States == {state \in Facts \ {Fine, Unavailable} : state.token = NoToken}

\* What a step threads through the helpers that warn, note and read the token.
Ledgers ==
  [memory: [Topics -> Facts], log: [Topics -> Facts], found: [Topics -> Facts],
   leaked: BOOLEAN, repeated: BOOLEAN,
   source: [last: Tokens \cup {NoToken}, secrets: SUBSET Tokens]]

\* The last line about a condition is the condition remembered of it,
WarningsRight(s) ==
  \A t \in Warnings :
    /\ s.found[t] \in {Silence, s.memory[t]}
    /\ s.memory[t] = Fine /\ Enabled("info") => s.log[t] \in {Silence, Cleared}
    /\ s.memory[t] # Fine /\ Enabled("warn") => s.log[t] = s.memory[t]

\* and so it is for the mode and the message in force.
NotesRight(s) ==
  \A t \in Notes :
    /\ s.found[t] \in {Silence, s.memory[t]} \ {Fine, Unavailable}
    /\ s.memory[t] # Fine /\ Enabled("info") => s.log[t] = s.memory[t]

\* The redactor knows the token that was read last, and the log says that
\* there is one.
TokenRight(s) ==
  /\ s.source.last # NoToken => s.source.secrets = {s.source.last}
  /\ (s.source.last # NoToken \/ s.found["token"] = Loaded) /\ Enabled("info") =>
       s.log["token"] = Loaded
  /\ s.found["token"] \in {Silence, Loaded, Unavailable}
  /\ s.found["token"] = Unavailable /\ Enabled("warn") => s.log["token"] = Unavailable

Right(s) ==
  /\ s \in Ledgers
  /\ s.leaked = FALSE /\ s.repeated = FALSE
  /\ WarningsRight(s) /\ NotesRight(s) /\ TokenRight(s)

-----------------------------------------------------------------------------
(* Facts and topics.                                                        *)

LEMMA TopicFacts ==
  /\ Warnings \subseteq Topics /\ Notes \subseteq Topics /\ "token" \in Topics
  /\ Warnings \cap Notes = {} /\ "token" \notin Warnings \cup Notes
  /\ Items \subseteq Warnings
  BY ReportingAssumption DEF Warnings, Topics, Notes

LEMMA FactShapes ==
  /\ Fine.token = NoToken /\ Silence.token = NoToken /\ Cleared.token = NoToken
  /\ Loaded.token = NoToken /\ Unavailable.token = NoToken
  /\ Fine \in Facts /\ Silence \in Facts /\ Cleared \in Facts
  /\ Loaded \in Facts /\ Unavailable \in Facts
  /\ Fine \notin {Silence, Cleared, Loaded, Unavailable}
  /\ Silence \notin {Cleared, Loaded, Unavailable}
  /\ Cleared \notin {Loaded, Unavailable} /\ Loaded # Unavailable
<1>1. \A text \in Texts : /\ Fact(text, NoToken) \in Facts
                           /\ Fact(text, NoToken).token = NoToken
                           /\ Fact(text, NoToken).text = text
  BY DEF Fact, Facts
<1>2. \A a, b \in Texts : a # b => Fact(a, NoToken) # Fact(b, NoToken)
  BY <1>1
<1> QED BY <1>1, <1>2 DEF Fine, Silence, Cleared, Loaded, Unavailable, Texts

LogLevels == {"debug", "info", "warn", "error"}

LEMMA LevelFacts ==
  ASSUME config.LogLevel \in LogLevels
  PROVE  Enabled("info") => Enabled("warn")
  BY DEF Enabled, Rank, LogLevels

\* The ledger r is s with a line of the given level about the topic.
Written(r, s, level, topic, line) ==
  /\ r \in Ledgers
  /\ r.memory = s.memory /\ r.found = s.found /\ r.source = s.source
  /\ Enabled(level) => r.log[topic] = line
  /\ \A t \in Topics \ {topic} : r.log[t] = s.log[t]

LEMMA SayFields ==
  ASSUME NEW s \in Ledgers, NEW level, NEW topic \in Topics, NEW line \in Facts
  PROVE  Written(Say(s, level, topic, line), s, level, topic, line)
<1>1. CASE ~Enabled(level)
  BY <1>1 DEF Say, Written
<1>2. CASE Enabled(level)
  <2> DEFINE r == Say(s, level, topic, line)
  <2>1. /\ r.log = [s.log EXCEPT ![topic] = line]
        /\ r.memory = s.memory /\ r.found = s.found /\ r.source = s.source
    BY <1>2 DEF Say, Ledgers
  <2>2. r \in Ledgers
    BY <1>2 DEF Say, Ledgers
  <2>3. r.log[topic] = line /\ \A t \in Topics \ {topic} : r.log[t] = s.log[t]
    BY <2>1 DEF Ledgers
  <2> HIDE DEF r
  <2> QED BY <1>2, <2>1, <2>2, <2>3 DEF Written, r
<1> QED BY <1>1, <1>2

\* A line without a secret the redactor does not know leaks nothing,
LEMMA SayLeaksNothing ==
  ASSUME NEW s \in Ledgers, NEW level, NEW topic \in Topics, NEW line \in Facts,
         s.leaked = FALSE, ~Shows(line, s.source)
  PROVE  Say(s, level, topic, line).leaked = FALSE
  BY DEF Say, Ledgers

\* and one that is news repeats nothing.
LEMMA SayRepeatsNothing ==
  ASSUME NEW s \in Ledgers, NEW level, NEW topic \in Topics, NEW line \in Facts,
         s.repeated = FALSE,
         topic = "token" \/ level # "warn" \/ ~Enabled("info") \/ line # s.log[topic]
  PROVE  Say(s, level, topic, line).repeated = FALSE
  BY DEF Say, Ledgers

-----------------------------------------------------------------------------
(* Warning, noting, reading the token.                                      *)

\* The ledger r is s with the fact found of the topic.
Noticed(r, s, topic, fact) ==
  /\ r \in Ledgers
  /\ r.memory = s.memory /\ r.log = s.log /\ r.source = s.source
  /\ r.leaked = s.leaked /\ r.repeated = s.repeated
  /\ r.found[topic] = fact /\ \A t \in Topics \ {topic} : r.found[t] = s.found[t]

LEMMA FindFields ==
  ASSUME NEW s \in Ledgers, NEW topic \in Topics, NEW fact \in Facts
  PROVE  Noticed(Find(s, topic, fact), s, topic, fact)
<1>1. Find(s, topic, fact) = [s EXCEPT !.found = [s.found EXCEPT ![topic] = fact]]
  BY DEF Find, Ledgers
<1>2. [s.found EXCEPT ![topic] = fact] \in [Topics -> Facts]
  BY DEF Ledgers
<1> QED BY <1>1, <1>2 DEF Ledgers, Noticed

LEMMA RememberFields ==
  ASSUME NEW s \in Ledgers, NEW topic \in Topics, NEW fact \in Facts
  PROVE  LET r == [s EXCEPT !.memory[topic] = fact]
         IN  /\ r \in Ledgers
             /\ r.found = s.found /\ r.log = s.log /\ r.source = s.source
             /\ r.leaked = s.leaked /\ r.repeated = s.repeated
             /\ r.memory[topic] = fact /\ \A t \in Topics \ {topic} : r.memory[t] = s.memory[t]
<1>1. [s EXCEPT !.memory[topic] = fact] = [s EXCEPT !.memory = [s.memory EXCEPT ![topic] = fact]]
  BY DEF Ledgers
<1>2. [s.memory EXCEPT ![topic] = fact] \in [Topics -> Facts]
  BY DEF Ledgers
<1> QED BY <1>1, <1>2 DEF Ledgers

\* What a warning changes: only what is remembered and said of its topic.
LEMMA WarnFields ==
  ASSUME config.LogLevel \in LogLevels,
         NEW s, Right(s), NEW topic \in Warnings, NEW fact \in Facts \ {Silence, Cleared},
         fact.token \in s.source.secrets \cup {NoToken} \/ fact = s.memory[topic]
  PROVE  LET r == WarnChanged(s, topic, fact)
         IN  /\ r \in Ledgers
             /\ r.memory[topic] = fact /\ r.source = s.source /\ r.found = s.found
             /\ \A t \in Topics \ {topic} : r.memory[t] = s.memory[t] /\ r.log[t] = s.log[t]
             /\ r.leaked = FALSE /\ r.repeated = FALSE
             /\ fact = Fine /\ Enabled("info") => r.log[topic] \in {Silence, Cleared}
             /\ fact # Fine /\ Enabled("warn") => r.log[topic] = fact
<1> DEFINE known == [s EXCEPT !.memory[topic] = fact]
<1>1. /\ s \in Ledgers /\ topic \in Topics /\ topic # "token"
      /\ s.leaked = FALSE /\ s.repeated = FALSE
      /\ s.memory[topic] = Fine /\ Enabled("info") => s.log[topic] \in {Silence, Cleared}
      /\ s.memory[topic] # Fine /\ Enabled("warn") => s.log[topic] = s.memory[topic]
  BY TopicFacts DEF Right, WarningsRight
<1>2. /\ known \in Ledgers
      /\ known.found = s.found /\ known.log = s.log /\ known.source = s.source
      /\ known.leaked = FALSE /\ known.repeated = FALSE
      /\ known.memory[topic] = fact /\ \A t \in Topics \ {topic} : known.memory[t] = s.memory[t]
  BY <1>1, RememberFields
<1>3. CASE fact # Fine /\ fact # s.memory[topic]
  <2>1. WarnChanged(s, topic, fact) = Say(known, "warn", topic, fact)
    BY <1>3 DEF WarnChanged
  <2>2. ~Shows(fact, known.source)
    BY <1>2, <1>3 DEF Shows
  <2>3. Enabled("info") => fact # known.log[topic]
    BY <1>1, <1>2, <1>3, LevelFacts
  <2> HIDE DEF known
  <2> DEFINE r == Say(known, "warn", topic, fact)
  <2>4. /\ r \in Ledgers
        /\ r.memory = known.memory /\ r.found = known.found /\ r.source = known.source
        /\ Enabled("warn") => r.log[topic] = fact
        /\ \A t \in Topics \ {topic} : r.log[t] = known.log[t]
    <3>1. Written(r, known, "warn", topic, fact)
      BY <1>1, <1>2, SayFields
    <3> QED BY <3>1 DEF Written
  <2>5. r.leaked = FALSE
    <3>1. known \in Ledgers /\ known.leaked = FALSE /\ topic \in Topics /\ fact \in Facts
      BY <1>1, <1>2
    <3> QED BY <3>1, <2>2, SayLeaksNothing
  <2>6. r.repeated = FALSE
    <3>1. known \in Ledgers /\ known.repeated = FALSE /\ topic \in Topics /\ fact \in Facts
      BY <1>1, <1>2
    <3> QED BY <3>1, <2>3, SayRepeatsNothing
  <2> HIDE DEF r
  <2> QED BY <1>1, <1>2, <1>3, <2>1, <2>4, <2>5, <2>6 DEF r
<1>4. CASE fact = Fine /\ s.memory[topic] # Fine
  <2>1. WarnChanged(s, topic, fact) = Say(known, "info", topic, Cleared)
    BY <1>4 DEF WarnChanged
  <2>2. ~Shows(Cleared, known.source) /\ Cleared \in Facts
    BY FactShapes DEF Shows
  <2> HIDE DEF known
  <2> DEFINE r == Say(known, "info", topic, Cleared)
  <2>3. /\ r \in Ledgers
        /\ r.memory = known.memory /\ r.found = known.found /\ r.source = known.source
        /\ Enabled("info") => r.log[topic] = Cleared
        /\ \A t \in Topics \ {topic} : r.log[t] = known.log[t]
    <3>1. Written(r, known, "info", topic, Cleared)
      BY <1>1, <1>2, <2>2, SayFields
    <3> QED BY <3>1 DEF Written
  <2>4. r.leaked = FALSE
    <3>1. known \in Ledgers /\ known.leaked = FALSE /\ topic \in Topics
      BY <1>1, <1>2
    <3> QED BY <3>1, <2>2, SayLeaksNothing
  <2>5. r.repeated = FALSE
    <3>1. known \in Ledgers /\ known.repeated = FALSE /\ topic \in Topics
      BY <1>1, <1>2
    <3>2. "info" # "warn"
      OBVIOUS
    <3> QED BY <3>1, <3>2, <2>2, SayRepeatsNothing
  <2> HIDE DEF r
  <2> QED BY <1>1, <1>2, <1>4, <2>1, <2>3, <2>4, <2>5 DEF r
<1>5. CASE fact = s.memory[topic]
  <2>1. WarnChanged(s, topic, fact) = known
    BY <1>5 DEF WarnChanged
  <2> HIDE DEF known
  <2> QED BY <1>1, <1>2, <1>5, <2>1
<1> QED BY <1>3, <1>4, <1>5

\* What a note changes, likewise.
Noted(r, s, topic, state) ==
  /\ r \in Ledgers
  /\ r.memory[topic] = state /\ r.source = s.source /\ r.found = s.found
  /\ \A t \in Topics \ {topic} : r.memory[t] = s.memory[t] /\ r.log[t] = s.log[t]
  /\ r.leaked = FALSE /\ r.repeated = FALSE
  /\ Enabled("info") => r.log[topic] = state

LEMMA NoteFields ==
  ASSUME config.LogLevel \in LogLevels,
         NEW s, Right(s), NEW topic \in Notes, NEW state \in States
  PROVE  Noted(NoteChanged(s, topic, state), s, topic, state)
<1> DEFINE known == [s EXCEPT !.memory[topic] = state]
<1>1. /\ s \in Ledgers /\ topic \in Topics
      /\ s.leaked = FALSE /\ s.repeated = FALSE
      /\ s.memory[topic] # Fine /\ Enabled("info") => s.log[topic] = s.memory[topic]
      /\ state \in Facts /\ state # Fine
  BY TopicFacts DEF Right, NotesRight, Notes, States
<1>2. CASE s.memory[topic] = state
  BY <1>1, <1>2 DEF NoteChanged, Noted
<1>3. CASE s.memory[topic] # state
  <2>1. /\ known \in Ledgers
        /\ known.found = s.found /\ known.log = s.log /\ known.source = s.source
        /\ known.leaked = FALSE /\ known.repeated = FALSE
        /\ known.memory[topic] = state
        /\ \A t \in Topics \ {topic} : known.memory[t] = s.memory[t]
    BY <1>1, RememberFields
  <2>2. NoteChanged(s, topic, state) = Say(known, "info", topic, state)
    BY <1>3 DEF NoteChanged
  <2>3. ~Shows(state, known.source)
    BY DEF Shows, States
  <2> HIDE DEF known
  <2> DEFINE r == Say(known, "info", topic, state)
  <2>4. /\ r \in Ledgers
        /\ r.memory = known.memory /\ r.found = known.found /\ r.source = known.source
        /\ Enabled("info") => r.log[topic] = state
        /\ \A t \in Topics \ {topic} : r.log[t] = known.log[t]
    <3>1. Written(r, known, "info", topic, state)
      BY <1>1, <2>1, SayFields
    <3> QED BY <3>1 DEF Written
  <2>5. r.leaked = FALSE
    BY <1>1, <2>1, <2>3, SayLeaksNothing
  <2>6. r.repeated = FALSE
    BY <1>1, <2>1, SayRepeatsNothing
  <2> HIDE DEF r
  <2> QED BY <1>1, <2>1, <2>2, <2>4, <2>5, <2>6 DEF r, Noted
<1> QED BY <1>2, <1>3

\* What the token's part of the ledger is about.
SameToken(r, s) ==
  r.source = s.source /\ r.log["token"] = s.log["token"] /\ r.found["token"] = s.found["token"]

LEMMA SameTokenRight ==
  ASSUME NEW r, NEW s, SameToken(r, s), TokenRight(s)
  PROVE  TokenRight(r)
  BY DEF SameToken, TokenRight

\* The ledger r is s with the fact told of the topic.
Told(r, s, topic, fact) ==
  /\ Right(r) /\ SameToken(r, s)
  /\ r.memory[topic] = fact
  /\ \A t \in Topics \ {topic} : r.memory[t] = s.memory[t]

LEMMA WarnRight ==
  ASSUME config.LogLevel \in LogLevels,
         NEW s, Right(s), NEW topic \in Warnings, NEW fact \in Facts \ {Silence, Cleared},
         fact.token \in s.source.secrets \cup {NoToken} \/ fact = s.memory[topic]
  PROVE  Told(Warn(s, topic, fact), s, topic, fact)
<1> DEFINE c == WarnChanged(s, topic, fact)
           r == Warn(s, topic, fact)
<1>1. /\ c \in Ledgers
      /\ c.memory[topic] = fact /\ c.source = s.source /\ c.found = s.found
      /\ \A t \in Topics \ {topic} : c.memory[t] = s.memory[t] /\ c.log[t] = s.log[t]
      /\ c.leaked = FALSE /\ c.repeated = FALSE
      /\ fact = Fine /\ Enabled("info") => c.log[topic] \in {Silence, Cleared}
      /\ fact # Fine /\ Enabled("warn") => c.log[topic] = fact
  BY WarnFields
<1>2. /\ topic \in Topics /\ topic \notin Notes \cup {"token"}
      /\ Notes \cup Warnings \cup {"token"} \subseteq Topics
  BY TopicFacts
<1>3. r = Find(c, topic, fact)
  BY DEF Warn
<1> HIDE DEF c, r
<1>4. /\ r \in Ledgers
      /\ r.memory = c.memory /\ r.log = c.log /\ r.source = c.source
      /\ r.leaked = FALSE /\ r.repeated = FALSE
      /\ r.found[topic] = fact /\ \A t \in Topics \ {topic} : r.found[t] = s.found[t]
  BY <1>1, <1>2, <1>3, FindFields DEF Noticed
<1>5. SameToken(r, s)
  BY <1>1, <1>2, <1>4 DEF SameToken
<1>6. WarningsRight(r)
  <2> SUFFICES ASSUME NEW t \in Warnings
               PROVE  /\ r.found[t] \in {Silence, r.memory[t]}
                      /\ r.memory[t] = Fine /\ Enabled("info") => r.log[t] \in {Silence, Cleared}
                      /\ r.memory[t] # Fine /\ Enabled("warn") => r.log[t] = r.memory[t]
    BY DEF WarningsRight
  <2>1. CASE t = topic
    BY <1>1, <1>4, <2>1
  <2>2. CASE t # topic
    <3>1. r.found[t] = s.found[t] /\ r.memory[t] = s.memory[t] /\ r.log[t] = s.log[t]
      BY <1>1, <1>2, <1>4, <2>2
    <3> QED BY <3>1 DEF Right, WarningsRight
  <2> QED BY <2>1, <2>2
<1>7. NotesRight(r)
  <2>1. \A t \in Notes :
          r.found[t] = s.found[t] /\ r.memory[t] = s.memory[t] /\ r.log[t] = s.log[t]
    BY <1>1, <1>2, <1>4
  <2> QED BY <2>1 DEF Right, NotesRight
<1>8. TokenRight(r)
  BY <1>5, SameTokenRight DEF Right
<1>9. Right(r)
  BY <1>4, <1>6, <1>7, <1>8 DEF Right
<1> QED BY <1>1, <1>4, <1>5, <1>9 DEF r, Told

LEMMA NoteRight ==
  ASSUME config.LogLevel \in LogLevels,
         NEW s, Right(s), NEW topic \in Notes, NEW state \in States
  PROVE  Told(Note(s, topic, state), s, topic, state)
<1> DEFINE c == NoteChanged(s, topic, state)
           r == Note(s, topic, state)
<1>1. /\ c \in Ledgers
      /\ c.memory[topic] = state /\ c.source = s.source /\ c.found = s.found
      /\ \A t \in Topics \ {topic} : c.memory[t] = s.memory[t] /\ c.log[t] = s.log[t]
      /\ c.leaked = FALSE /\ c.repeated = FALSE
      /\ Enabled("info") => c.log[topic] = state
  <2>1. Noted(c, s, topic, state)
    BY NoteFields
  <2> HIDE DEF c
  <2> QED BY <2>1 DEF Noted
<1>2. /\ Notes \cup Warnings \cup {"token"} \subseteq Topics
      /\ topic \notin Warnings \cup {"token"}
      /\ state \in Facts \ {Fine, Unavailable}
  BY TopicFacts DEF States
<1>3. r = Find(c, topic, state)
  BY DEF Note
<1> HIDE DEF c, r
<1>4. /\ r \in Ledgers
      /\ r.memory = c.memory /\ r.log = c.log /\ r.source = c.source
      /\ r.leaked = FALSE /\ r.repeated = FALSE
      /\ r.found[topic] = state /\ \A t \in Topics \ {topic} : r.found[t] = s.found[t]
  BY <1>1, <1>2, <1>3, FindFields DEF Noticed
<1>5. SameToken(r, s)
  BY <1>1, <1>2, <1>4 DEF SameToken
<1>6. \A t \in Warnings :
        r.found[t] = s.found[t] /\ r.memory[t] = s.memory[t] /\ r.log[t] = s.log[t]
  BY <1>1, <1>2, <1>4
<1>7. WarningsRight(r)
  BY <1>6 DEF Right, WarningsRight
<1>8. NotesRight(r)
  <2> SUFFICES ASSUME NEW t \in Notes
               PROVE  /\ r.found[t] \in {Silence, r.memory[t]} \ {Fine, Unavailable}
                      /\ r.memory[t] # Fine /\ Enabled("info") => r.log[t] = r.memory[t]
    BY DEF NotesRight
  <2>1. CASE t = topic
    BY <1>1, <1>2, <1>4, <2>1
  <2>2. CASE t # topic
    <3>1. r.found[t] = s.found[t] /\ r.memory[t] = s.memory[t] /\ r.log[t] = s.log[t]
      BY <1>1, <1>2, <1>4, <2>2
    <3> QED BY <3>1 DEF Right, NotesRight
  <2> QED BY <2>1, <2>2
<1>9. TokenRight(r)
  BY <1>5, SameTokenRight DEF Right
<1>10. Right(r)
  BY <1>4, <1>7, <1>8, <1>9 DEF Right
<1> QED BY <1>1, <1>4, <1>5, <1>10 DEF r, Told

\* The ledger r is s with the token read.
Read(r, s) ==
  /\ Right(r)
  /\ r.memory = s.memory /\ r.found = s.found
  /\ r.source.last = prefs
  /\ prefs # NoToken => prefs \in r.source.secrets
  /\ prefs = NoToken => r.log = s.log
  /\ prefs # NoToken /\ Enabled("info") => r.log["token"] = Loaded

LEMMA ReadRight ==
  ASSUME prefs \in Tokens \cup {NoToken}, NEW s, Right(s), s.found["token"] # Unavailable
  PROVE  Read(ReadToken(s), s)
<1> DEFINE r == ReadToken(s)
<1>1. /\ s \in Ledgers /\ s.leaked = FALSE /\ s.repeated = FALSE
      /\ s.source = [last |-> s.source.last, secrets |-> s.source.secrets]
      /\ s.source.secrets \subseteq Tokens
      /\ TokenRight(s)
  BY DEF Right, Ledgers
<1>2. CASE prefs = NoToken
  <2>1. /\ r \in Ledgers
        /\ r.memory = s.memory /\ r.found = s.found /\ r.log = s.log
        /\ r.leaked = FALSE /\ r.repeated = FALSE /\ r.source.last = NoToken
    BY <1>1, <1>2 DEF ReadToken, Ledgers
  <2> HIDE DEF r
  <2>2. WarningsRight(r) /\ NotesRight(r)
    BY <2>1 DEF Right, WarningsRight, NotesRight
  <2>3. TokenRight(r)
    BY <1>1, <2>1 DEF TokenRight
  <2> QED BY <1>2, <2>1, <2>2, <2>3 DEF Read, Right, r
<1>3. CASE prefs # NoToken /\ prefs = s.source.last
  BY <1>1, <1>3 DEF ReadToken, Read, TokenRight
<1>4. CASE prefs # NoToken /\ prefs # s.source.last
  <2> DEFINE known == [s EXCEPT !.source = [last |-> prefs, secrets |-> {prefs}]]
  <2>1. /\ known \in Ledgers /\ known.source = [last |-> prefs, secrets |-> {prefs}]
        /\ known.memory = s.memory /\ known.found = s.found /\ known.log = s.log
        /\ known.leaked = FALSE /\ known.repeated = FALSE
    BY <1>1, <1>4 DEF Ledgers
  <2>2. r = Say(known, "info", "token", Loaded)
    <3> DEFINE read == [s EXCEPT !.source.last = prefs]
    <3>1. read = [s EXCEPT !.source = [last |-> prefs, secrets |-> s.source.secrets]]
      BY <1>1 DEF Ledgers
    <3>2. [read EXCEPT !.source.secrets = {prefs}] = known
      <4>1. read \in Ledgers /\ read.source = [last |-> prefs, secrets |-> s.source.secrets]
        BY <1>1, <1>4, <3>1 DEF Ledgers
      <4>2. known = [read EXCEPT !.source = [last |-> prefs, secrets |-> {prefs}]]
        BY <1>1, <3>1 DEF Ledgers
      <4> HIDE DEF read, known
      <4>3. [read.source EXCEPT !.secrets = {prefs}] = [last |-> prefs, secrets |-> {prefs}]
        BY <4>1
      <4> QED BY <4>1, <4>2, <4>3 DEF Ledgers
    <3> HIDE DEF read, known
    <3>3. r = Changed(read)
      BY <1>4 DEF ReadToken, read
    <3> QED BY <3>2, <3>3 DEF Changed
  <2> HIDE DEF known, r
  <2>3. "token" \in Topics /\ Loaded \in Facts /\ ~Shows(Loaded, known.source)
    BY TopicFacts, FactShapes DEF Shows
  <2>4. /\ r \in Ledgers
        /\ r.memory = known.memory /\ r.found = known.found /\ r.source = known.source
        /\ Enabled("info") => r.log["token"] = Loaded
        /\ \A t \in Topics \ {"token"} : r.log[t] = known.log[t]
    <3>1. Written(r, known, "info", "token", Loaded)
      BY <2>1, <2>2, <2>3, SayFields
    <3> QED BY <3>1 DEF Written
  <2>5. r.leaked = FALSE
    BY <2>1, <2>2, <2>3, SayLeaksNothing
  <2>6. r.repeated = FALSE
    BY <2>1, <2>2, <2>3, SayRepeatsNothing
  <2>7. \A t \in Warnings \cup Notes : r.log[t] = s.log[t]
    BY <2>1, <2>4, TopicFacts
  <2>8. WarningsRight(r) /\ NotesRight(r)
    BY <2>1, <2>4, <2>7 DEF Right, WarningsRight, NotesRight
  <2>9. TokenRight(r)
    BY <1>1, <1>4, <2>1, <2>4 DEF TokenRight
  <2> QED BY <1>4, <2>1, <2>4, <2>5, <2>6, <2>8, <2>9 DEF Read, Right, r
<1> QED BY <1>2, <1>3, <1>4

-----------------------------------------------------------------------------
(* The invariant.                                                           *)

\* The ledger is right, at any moment of a poll.
LedgerRight == Right(Said)

FilesReadable ==
  config.LogLevel \in LogLevels /\ prefs \in Tokens \cup {NoToken} /\ modeFile \in ModeFiles

\* While the interval runs, the missing token is the last thing said of it; a
\* poll that goes on has its token.
TokenTold ==
  /\ sinceWarn \in 0..WarnInterval
  /\ sinceWarn # WarnInterval /\ Enabled("warn") => log["token"] = Unavailable
  /\ pc \notin {"off", "idle"} => sinceWarn = WarnInterval /\ found["token"] = Loaded

\* The redactor knows the token of the request in flight.
RequestCovered == request # NoToken => request \in Tokens /\ request \in source.secrets

\* A remembered failure is the last one told of its item, so that repeating it
\* says nothing; the item asked for has none.
FailuresTold ==
  /\ remembered \in [Items -> Facts \ {Cleared}]
  /\ \A i \in Items : remembered[i] \in {Silence, Fine, memory[i]}
  /\ pc = "metadata" => item \in Items /\ remembered[item] \in {Silence, Fine}

ReportInv == LedgerRight /\ FilesReadable /\ TokenTold /\ RequestCovered /\ FailuresTold

LEMMA SaidFields ==
  /\ Said.memory = memory /\ Said.log = log /\ Said.found = found
  /\ Said.leaked = leaked /\ Said.repeated = repeated /\ Said.source = source
  BY DEF Said

\* A step that leaves a right ledger behind.
LEMMA RightNext ==
  ASSUME NEW r, Right(r), SaidIs(r), UNCHANGED config
  PROVE  LedgerRight'
<1>1. /\ memory' = r.memory /\ log' = r.log /\ found' = r.found
      /\ leaked' = r.leaked /\ repeated' = r.repeated /\ source' = r.source
  BY DEF SaidIs
<1>2. Said' = r
  BY <1>1 DEF Said, Right, Ledgers
<1>3. \A level : Enabled(level)' <=> Enabled(level)
  BY DEF Enabled
<1>4. (Said \in Ledgers)' /\ (Said.leaked)' = FALSE /\ (Said.repeated)' = FALSE
  BY <1>2 DEF Right, Ledgers
<1>5. WarningsRight(Said)'
  BY <1>2, <1>3 DEF Right, WarningsRight
<1>6. NotesRight(Said)'
  BY <1>2, <1>3 DEF Right, NotesRight
<1>7. TokenRight(Said)'
  BY <1>2, <1>3 DEF Right, TokenRight
<1> QED BY <1>4, <1>5, <1>6, <1>7 DEF LedgerRight, Right

\* The lines of a poll that carry no token.
LEMMA PlainFacts ==
  /\ \A text \in Texts : Fact(text, NoToken) \in Facts /\ Fact(text, NoToken).token = NoToken
  /\ ModeWarning \in Facts \ {Silence, Cleared} /\ ModeWarning.token = NoToken
  /\ MessageWarning \in Facts \ {Silence, Cleared} /\ MessageWarning.token = NoToken
  /\ modeFile \in ModeFiles => EffectiveMode \in States
  /\ Message \in States
<1>1. \A text \in Texts : /\ Fact(text, NoToken) \in Facts
                           /\ Fact(text, NoToken).token = NoToken
                           /\ Fact(text, NoToken).text = text
  BY DEF Fact, Facts
<1>2. \A a, b \in Texts : a # b => Fact(a, NoToken) # Fact(b, NoToken)
  BY <1>1
<1>3. /\ ModeWarning \in Facts \ {Silence, Cleared} /\ ModeWarning.token = NoToken
      /\ MessageWarning \in Facts \ {Silence, Cleared} /\ MessageWarning.token = NoToken
  BY <1>1, <1>2 DEF ModeWarning, MessageWarning, Fine, Silence, Cleared, Texts
<1>4. ASSUME modeFile \in ModeFiles PROVE EffectiveMode \in States
  <2>1. CASE modeFile = "off"
    BY <1>1, <1>2, <2>1 DEF EffectiveMode, States, Fine, Unavailable, Texts
  <2>2. CASE modeFile = "invalid"
    BY <1>1, <1>2, <2>2 DEF EffectiveMode, States, Fine, Unavailable, Texts
  <2>3. CASE modeFile = "missing"
    BY <1>1, <1>2, <2>3 DEF EffectiveMode, States, Fine, Unavailable, Texts
  <2> QED BY <1>4, <2>1, <2>2, <2>3 DEF ModeFiles
<1>5. Message \in States
  BY <1>1, <1>2 DEF Message, States, Fine, Unavailable, Texts
<1> QED BY <1>1, <1>3, <1>4, <1>5

LEMMA NewPollRight ==
  ASSUME LedgerRight
  PROVE  /\ Right(NewPoll)
         /\ NewPoll.memory = memory /\ NewPoll.log = log /\ NewPoll.source = source
         /\ NewPoll.found["token"] = Silence
<1>1. /\ Said \in Ledgers /\ Said.leaked = FALSE /\ Said.repeated = FALSE
      /\ WarningsRight(Said) /\ NotesRight(Said) /\ TokenRight(Said)
  BY DEF LedgerRight, Right
<1>2. Fresh(Silence) \in [Topics -> Facts] /\ \A t \in Topics : Fresh(Silence)[t] = Silence
  BY FactShapes DEF Fresh
<1>3. /\ NewPoll \in Ledgers /\ NewPoll.found = Fresh(Silence)
      /\ NewPoll.memory = Said.memory /\ NewPoll.log = Said.log /\ NewPoll.source = Said.source
      /\ NewPoll.leaked = FALSE /\ NewPoll.repeated = FALSE
  BY <1>1, <1>2 DEF NewPoll, Ledgers
<1>4. \A t \in Warnings \cup Notes \cup {"token"} : NewPoll.found[t] = Silence
  BY <1>2, <1>3, TopicFacts
<1>5. WarningsRight(NewPoll)
  BY <1>1, <1>3, <1>4 DEF WarningsRight
<1>6. NotesRight(NewPoll)
  BY <1>1, <1>3, <1>4, FactShapes DEF NotesRight
<1>7. TokenRight(NewPoll)
  BY <1>1, <1>3, <1>4, FactShapes DEF TokenRight
<1> QED BY <1>3, <1>4, <1>5, <1>6, <1>7, SaidFields DEF Right

\* The ledger r after the mode was told at the start of a poll.
Begun(r) ==
  /\ Right(r)
  /\ r.source = source /\ r.log["token"] = log["token"] /\ r.found["token"] = Silence
  /\ \A i \in Items : r.memory[i] = memory[i]

LEMMA ModeToldRight ==
  ASSUME LedgerRight, FilesReadable
  PROVE  Begun(ModeTold(NewPoll))
<1> DEFINE s == NewPoll
           w == Warn(s, "mode-file", ModeWarning)
           r == Note(w, "mode", EffectiveMode)
<1>1. /\ Right(s) /\ s.memory = memory /\ s.log = log /\ s.source = source
      /\ s.found["token"] = Silence
  BY NewPollRight
<1>2. config.LogLevel \in LogLevels /\ EffectiveMode \in States
  BY PlainFacts DEF FilesReadable
<1>3. "mode-file" \in Warnings /\ "mode" \in Notes
  BY DEF Warnings, Notes
<1> HIDE DEF s
<1>4. Told(w, s, "mode-file", ModeWarning)
  BY <1>1, <1>2, <1>3, PlainFacts, WarnRight
<1> HIDE DEF w
<1>5. Told(r, w, "mode", EffectiveMode)
  BY <1>2, <1>3, <1>4, NoteRight DEF Told
<1>6. r = ModeTold(NewPoll)
  BY DEF ModeTold, w, s
<1> HIDE DEF r
<1>7. \A i \in Items : i \in Topics /\ i \notin {"mode-file", "mode"}
  BY ReportingAssumption DEF Topics
<1>8. \A i \in Items : r.memory[i] = memory[i]
  BY <1>1, <1>4, <1>5, <1>7 DEF Told
<1>9. Right(r) /\ r.source = source /\ r.log["token"] = log["token"] /\ r.found["token"] = Silence
  BY <1>1, <1>4, <1>5 DEF Told, SameToken
<1> QED BY <1>6, <1>8, <1>9 DEF Begun

-----------------------------------------------------------------------------
(* One lemma per step.                                                      *)

\* A step of a poll leaves the files and the configuration alone.
LEMMA PollOffRight ==
  ASSUME ReportInv, PollOff
  PROVE  ReportInv'
<1> DEFINE r == ModeTold(NewPoll)
<1>1. Begun(r)
  BY ModeToldRight DEF ReportInv
<1>2. SaidIs(r) /\ pc' = "idle" /\ request' = NoToken
      /\ UNCHANGED <<config, prefs, modeFile, sinceWarn, remembered>>
  BY DEF PollOff, Goto, files
<1> HIDE DEF r
<1>3. LedgerRight'
  BY <1>1, <1>2, RightNext DEF Begun
<1>4. /\ log'["token"] = log["token"]
      /\ \A i \in Items : memory'[i] = memory[i]
  BY <1>1, <1>2 DEF Begun, SaidIs
<1>5. FilesReadable' /\ RequestCovered'
  BY <1>2 DEF ReportInv, FilesReadable, RequestCovered
<1>6. TokenTold'
  BY <1>2, <1>4 DEF ReportInv, TokenTold, Enabled
<1>7. FailuresTold'
  BY <1>2, <1>4 DEF ReportInv, FailuresTold
<1> QED BY <1>3, <1>5, <1>6, <1>7 DEF ReportInv

LEMMA PollWithTokenRight ==
  ASSUME ReportInv, PollWithToken
  PROVE  ReportInv'
<1> DEFINE a == ModeTold(NewPoll)
           b == ReadToken(a)
           r == Find(b, "token", Loaded)
<1>1. Begun(a)
  BY ModeToldRight DEF ReportInv
<1>2. /\ SaidIs(r) /\ prefs # NoToken /\ prefs \in Tokens \cup {NoToken}
      /\ pc' = "polling" /\ request' = NoToken /\ sinceWarn' = WarnInterval
      /\ UNCHANGED <<config, prefs, modeFile, remembered>>
  BY DEF PollWithToken, ClearTokenWarning, Goto, files, ReportInv, FilesReadable
<1> HIDE DEF a
<1>3. Read(b, a)
  BY <1>1, <1>2, FactShapes, ReadRight DEF Begun
<1> HIDE DEF b
<1>4. /\ r \in Ledgers
      /\ r.memory = b.memory /\ r.log = b.log /\ r.source = b.source
      /\ r.leaked = b.leaked /\ r.repeated = b.repeated
      /\ r.found["token"] = Loaded /\ \A t \in Topics \ {"token"} : r.found[t] = b.found[t]
  <2>1. b \in Ledgers /\ b.leaked = FALSE /\ b.repeated = FALSE
    BY <1>3 DEF Read, Right
  <2>2. Noticed(r, b, "token", Loaded)
    BY <2>1, TopicFacts, FactShapes, FindFields
  <2> HIDE DEF r
  <2> QED BY <2>1, <2>2 DEF Noticed
<1> HIDE DEF r
<1>5. \A t \in Warnings \cup Notes : r.found[t] = b.found[t]
  BY <1>4, TopicFacts
<1>6. WarningsRight(r) /\ NotesRight(r)
  BY <1>3, <1>4, <1>5 DEF Read, Right, WarningsRight, NotesRight
<1>7. TokenRight(r)
  BY <1>2, <1>3, <1>4, FactShapes DEF Read, Right, TokenRight
<1>8. Right(r)
  BY <1>3, <1>4, <1>6, <1>7 DEF Read, Right
<1>9. LedgerRight'
  BY <1>2, <1>8, RightNext
<1>10. /\ found'["token"] = Loaded
       /\ \A i \in Items : memory'[i] = memory[i]
  BY <1>1, <1>2, <1>3, <1>4 DEF Begun, Read, SaidIs
<1>11. FilesReadable' /\ RequestCovered'
  BY <1>2 DEF ReportInv, FilesReadable, RequestCovered
<1>12. TokenTold'
  BY <1>2, <1>10, ReportingAssumption DEF ReportInv, TokenTold
<1>13. FailuresTold'
  BY <1>2, <1>10 DEF ReportInv, FailuresTold
<1> QED BY <1>9, <1>11, <1>12, <1>13 DEF ReportInv

\* The interval is what makes the silence of this step right: within it, the
\* last line about the token is still the warning.
LEMMA PollWithoutTokenRight ==
  ASSUME ReportInv, PollWithoutToken
  PROVE  ReportInv'
<1> DEFINE a == ModeTold(NewPoll)
           b == ReadToken(a)
           s == Find(b, "token", Unavailable)
           due == sinceWarn = WarnInterval
           r == IF due THEN Say(s, "warn", "token", Unavailable) ELSE s
<1>1. Begun(a)
  BY ModeToldRight DEF ReportInv
<1>2. /\ SaidIs(r) /\ prefs = NoToken
      /\ pc' = "idle" /\ request' = NoToken /\ sinceWarn' = IF due THEN 0 ELSE sinceWarn
      /\ UNCHANGED <<config, prefs, modeFile, remembered>>
  BY DEF PollWithoutToken, Goto, files
<1> HIDE DEF a
<1>3. Read(b, a)
  BY <1>1, <1>2, FactShapes, ReadRight DEF Begun
<1>4. b.log["token"] = log["token"]
  BY <1>1, <1>2, <1>3 DEF Read, Begun
<1> HIDE DEF b
<1>5. /\ s \in Ledgers
      /\ s.memory = b.memory /\ s.log = b.log /\ s.source = b.source
      /\ s.leaked = FALSE /\ s.repeated = FALSE
      /\ s.found["token"] = Unavailable /\ \A t \in Topics \ {"token"} : s.found[t] = b.found[t]
  <2>1. b \in Ledgers /\ b.leaked = FALSE /\ b.repeated = FALSE
    BY <1>3 DEF Read, Right
  <2>2. Noticed(s, b, "token", Unavailable)
    BY <2>1, TopicFacts, FactShapes, FindFields
  <2> HIDE DEF s
  <2> QED BY <2>1, <2>2 DEF Noticed
<1> HIDE DEF s, due
<1>6. /\ r \in Ledgers
      /\ r.memory = s.memory /\ r.found = s.found /\ r.source = s.source
      /\ Enabled("warn") => r.log["token"] = Unavailable
      /\ \A t \in Topics \ {"token"} : r.log[t] = s.log[t]
      /\ r.leaked = FALSE /\ r.repeated = FALSE
  <2>1. CASE due
    <3>1. Written(r, s, "warn", "token", Unavailable)
      BY <1>5, <2>1, TopicFacts, FactShapes, SayFields
    <3>2. ~Shows(Unavailable, s.source)
      BY FactShapes DEF Shows
    <3>3. r.leaked = FALSE
      <4>1. /\ r = Say(s, "warn", "token", Unavailable)
            /\ s \in Ledgers /\ s.leaked = FALSE /\ "token" \in Topics /\ Unavailable \in Facts
        BY <1>5, <2>1, TopicFacts, FactShapes
      <4> QED BY <4>1, <3>2, SayLeaksNothing
    <3>4. r.repeated = FALSE
      <4>1. /\ r = Say(s, "warn", "token", Unavailable)
            /\ s \in Ledgers /\ s.repeated = FALSE /\ "token" \in Topics /\ Unavailable \in Facts
        BY <1>5, <2>1, TopicFacts, FactShapes
      <4> QED BY <4>1, SayRepeatsNothing
    <3> HIDE DEF r
    <3> QED BY <3>1, <3>3, <3>4 DEF Written
  <2>2. CASE ~due
    <3>1. Enabled("warn") => log["token"] = Unavailable
      BY <2>2 DEF ReportInv, TokenTold, due
    <3> QED BY <1>4, <1>5, <2>2, <3>1
  <2> QED BY <2>1, <2>2
<1> HIDE DEF r
<1>7. \A t \in Warnings \cup Notes : r.found[t] = b.found[t] /\ r.log[t] = b.log[t]
  BY <1>5, <1>6, TopicFacts
<1>8. WarningsRight(r) /\ NotesRight(r)
  BY <1>3, <1>5, <1>6, <1>7 DEF Read, Right, WarningsRight, NotesRight
<1>9. TokenRight(r)
  BY <1>2, <1>3, <1>5, <1>6, FactShapes DEF Read, Right, TokenRight
<1>10. Right(r)
  BY <1>6, <1>8, <1>9 DEF Right
<1>11. LedgerRight'
  BY <1>2, <1>10, RightNext
<1>12. /\ Enabled("warn") => log'["token"] = Unavailable
       /\ \A i \in Items : memory'[i] = memory[i]
  BY <1>1, <1>2, <1>3, <1>5, <1>6 DEF Begun, Read, SaidIs
<1>13. FilesReadable' /\ RequestCovered'
  BY <1>2 DEF ReportInv, FilesReadable, RequestCovered
<1>14. TokenTold'
  <2>1. sinceWarn' \in 0..WarnInterval
    BY <1>2, ReportingAssumption DEF ReportInv, TokenTold, due
  <2>2. Enabled("warn")' => Enabled("warn")
    BY <1>2 DEF Enabled
  <2> QED BY <1>2, <1>12, <2>1, <2>2 DEF TokenTold
<1>15. FailuresTold'
  BY <1>2, <1>12 DEF ReportInv, FailuresTold
<1> QED BY <1>11, <1>13, <1>14, <1>15 DEF ReportInv

\* A request is only made while its token is the one the redactor knows.
LEMMA SendRight ==
  ASSUME ReportInv, pc \notin {"off", "idle"}, NEW label, NEW i, Send(label, i),
         label = "metadata" => i \in Items /\ remembered[i] \in {Silence, Fine}
  PROVE  ReportInv'
<1> DEFINE r == ReadToken(Said)
<1>1. /\ SaidIs(r) /\ prefs # NoToken /\ pc' = label /\ request' = prefs /\ item' = i
      /\ UNCHANGED <<config, prefs, modeFile, sinceWarn, remembered>>
  BY DEF Send, files
<1>2. /\ Right(Said) /\ Said.found["token"] # Unavailable
      /\ sinceWarn = WarnInterval /\ found["token"] = Loaded
  BY SaidFields, FactShapes DEF ReportInv, LedgerRight, TokenTold
<1>3. Read(r, Said)
  BY <1>2, ReadRight DEF ReportInv, FilesReadable
<1> HIDE DEF r
<1>4. LedgerRight'
  BY <1>1, <1>3, RightNext DEF Read
<1>5. memory' = memory /\ found' = found /\ prefs \in source'.secrets
  BY <1>1, <1>3, SaidFields DEF Read, SaidIs
<1>6. FilesReadable' /\ RequestCovered'
  BY <1>1, <1>5 DEF ReportInv, FilesReadable, RequestCovered
<1>7. TokenTold'
  BY <1>1, <1>2, <1>5 DEF ReportInv, TokenTold
<1>8. FailuresTold'
  BY <1>1, <1>5 DEF ReportInv, FailuresTold
<1> QED BY <1>4, <1>6, <1>7, <1>8 DEF ReportInv

LEMMA SessionsUnsentRight ==
  ASSUME ReportInv, SessionsUnsent
  PROVE  ReportInv'
<1> DEFINE r == ReadToken(Said)
<1>1. /\ SaidIs(r) /\ pc = "polling" /\ pc' = "idle" /\ request' = NoToken
      /\ UNCHANGED <<config, prefs, modeFile, sinceWarn, remembered>>
  BY DEF SessionsUnsent, Goto, files
<1>2. /\ Right(Said) /\ Said.found["token"] # Unavailable
      /\ sinceWarn = WarnInterval /\ found["token"] = Loaded
  BY <1>1, SaidFields, FactShapes DEF ReportInv, LedgerRight, TokenTold
<1>3. Read(r, Said)
  BY <1>2, ReadRight DEF ReportInv, FilesReadable
<1> HIDE DEF r
<1>4. LedgerRight'
  BY <1>1, <1>3, RightNext DEF Read
<1>5. memory' = memory
  BY <1>1, <1>3, SaidFields DEF Read, SaidIs
<1>6. FilesReadable' /\ RequestCovered'
  BY <1>1 DEF ReportInv, FilesReadable, RequestCovered
<1>7. TokenTold'
  BY <1>1, <1>2, ReportingAssumption DEF ReportInv, TokenTold
<1>8. FailuresTold'
  BY <1>1, <1>5 DEF ReportInv, FailuresTold
<1> QED BY <1>4, <1>6, <1>7, <1>8 DEF ReportInv

\* An error shows no token: the one of its request is still known.
LEMMA ErrorsAreCovered ==
  ASSUME RequestCovered, NEW e \in RequestErrors
  PROVE  /\ e \in Facts \ {Silence, Cleared}
         /\ e.token \in source.secrets \cup {NoToken}
<1>1. PICK t \in Tokens \cup {NoToken} : e = Fact("request failed", t) /\ e.token \in {request, NoToken}
  BY DEF RequestErrors, Errors
<1>2. e.token = t /\ e.text = "request failed" /\ e \in Facts
  BY <1>1 DEF Fact, Facts, Texts
<1>3. Silence.text # "request failed" /\ Cleared.text # "request failed"
  BY DEF Silence, Cleared, Fact
<1> QED BY <1>1, <1>2, <1>3 DEF RequestCovered

\* Nothing is said, and the poll goes on or ends.
LEMMA QuietRight ==
  ASSUME ReportInv, UNCHANGED <<config, prefs, modeFile, sinceWarn, remembered>>,
         UNCHANGED <<memory, log, found, leaked, repeated, source>>,
         request' = NoToken, pc' \in {"idle", "loop"}, pc' = "loop" => pc \notin {"off", "idle"}
  PROVE  ReportInv'
<1>1. SaidIs(Said)
  BY SaidFields DEF SaidIs
<1>2. LedgerRight'
  BY <1>1, RightNext DEF ReportInv, LedgerRight
<1>3. FilesReadable' /\ RequestCovered' /\ FailuresTold'
  BY DEF ReportInv, FilesReadable, RequestCovered, FailuresTold
<1>4. TokenTold'
  BY DEF ReportInv, TokenTold, Enabled
<1> QED BY <1>2, <1>3, <1>4 DEF ReportInv

LEMMA QuietSteps ==
  ASSUME ReportInv, SessionsFailed \/ Terminated \/ EndPoll
  PROVE  ReportInv'
<1>1. leaked = FALSE /\ RequestCovered
  BY SaidFields DEF ReportInv, LedgerRight, Right
<1>2. \A e \in RequestErrors \cup {Fine} : ~Shows(e, source)
  BY <1>1, ErrorsAreCovered, FactShapes DEF Shows
<1>3. leaked' = leaked
  <2>1. CASE SessionsFailed
    BY <1>1, <1>2, <2>1 DEF SessionsFailed
  <2>2. CASE Terminated
    BY <1>1, <1>2, <2>2 DEF Terminated
  <2>3. CASE EndPoll
    BY <2>3 DEF EndPoll, history
  <2> QED BY <2>1, <2>2, <2>3
<1>4. /\ UNCHANGED <<config, prefs, modeFile, sinceWarn, remembered>>
      /\ UNCHANGED <<memory, log, found, repeated, source>>
      /\ request' = NoToken /\ pc' \in {"idle", "loop"} /\ pc \notin {"off", "idle"}
  BY DEF SessionsFailed, Terminated, EndPoll, Goto, files, history
<1> QED BY <1>3, <1>4, QuietRight

LEMMA SessionsAnsweredRight ==
  ASSUME ReportInv, SessionsAnswered
  PROVE  ReportInv'
<1> DEFINE w == Warn(Said, "message-file", MessageWarning)
           r == Note(w, "message", Message)
<1>1. /\ SaidIs(r) /\ pc = "sessions" /\ pc' = "loop" /\ request' = NoToken
      /\ UNCHANGED <<config, prefs, modeFile, sinceWarn, remembered>>
  BY DEF SessionsAnswered, Goto, files
<1>2. Right(Said) /\ config.LogLevel \in LogLevels
  BY DEF ReportInv, LedgerRight, FilesReadable
<1>3. "message-file" \in Warnings /\ "message" \in Notes
  BY DEF Warnings, Notes
<1>4. Told(w, Said, "message-file", MessageWarning)
  BY <1>2, <1>3, PlainFacts, WarnRight
<1> HIDE DEF w
<1>5. Told(r, w, "message", Message)
  BY <1>2, <1>3, <1>4, PlainFacts, NoteRight DEF Told
<1> HIDE DEF r
<1>6. LedgerRight'
  BY <1>1, <1>5, RightNext DEF Told
<1>7. \A i \in Items : i \in Topics /\ i \notin {"message-file", "message"}
  BY ReportingAssumption DEF Topics
<1>8. \A i \in Items : memory'[i] = memory[i]
  BY <1>1, <1>4, <1>5, <1>7, SaidFields DEF Told, SaidIs
<1>9. found'["token"] = found["token"]
  BY <1>1, <1>4, <1>5, SaidFields DEF Told, SameToken, SaidIs
<1>10. FilesReadable' /\ RequestCovered'
  BY <1>1 DEF ReportInv, FilesReadable, RequestCovered
<1>11. TokenTold'
  BY <1>1, <1>9 DEF ReportInv, TokenTold
<1>12. FailuresTold'
  BY <1>1, <1>8 DEF ReportInv, FailuresTold
<1> QED BY <1>6, <1>10, <1>11, <1>12 DEF ReportInv

\* A lookup that came out as the fact, told of the item i: remembered, it is
\* the last fact told; not remembered, nothing is.
LEMMA LookedUpRight ==
  ASSUME ReportInv, pc \notin {"off", "idle"}, NEW s, Right(s), s.memory = memory,
         s.found["token"] = found["token"],
         NEW i \in Items, NEW fact \in Facts \ {Silence, Cleared},
         fact.token \in s.source.secrets \cup {NoToken} \/ fact = s.memory[i],
         SaidIs(Warn(s, i, fact)), pc' = "loop", request' = NoToken,
         UNCHANGED <<config, prefs, modeFile, sinceWarn>>,
         \/ remembered' = [remembered EXCEPT ![i] = fact]
         \/ UNCHANGED remembered /\ remembered[i] \in {Silence, Fine, fact}
  PROVE  ReportInv'
<1> DEFINE r == Warn(s, i, fact)
<1>1. i \in Warnings /\ Items \subseteq Topics
  BY TopicFacts
<1>2. Told(r, s, i, fact)
  BY <1>1, WarnRight DEF ReportInv, FilesReadable
<1>3. SaidIs(r)
  OBVIOUS
<1> HIDE DEF r
<1>4. LedgerRight'
  BY <1>2, <1>3, RightNext DEF Told
<1>5. /\ memory'[i] = fact /\ \A j \in Items \ {i} : memory'[j] = memory[j]
      /\ found'["token"] = found["token"]
  BY <1>1, <1>2, <1>3 DEF Told, SameToken, SaidIs
<1>6. FilesReadable' /\ RequestCovered'
  BY DEF ReportInv, FilesReadable, RequestCovered
<1>7. TokenTold'
  BY <1>5 DEF ReportInv, TokenTold
<1>8. FailuresTold'
  <2>1. remembered' \in [Items -> Facts \ {Cleared}]
    BY DEF ReportInv, FailuresTold
  <2>2. ASSUME NEW j \in Items PROVE remembered'[j] \in {Silence, Fine, memory'[j]}
    <3>1. CASE j = i
      BY <1>5, <3>1 DEF ReportInv, FailuresTold
    <3>2. CASE j # i
      BY <1>5, <3>2 DEF ReportInv, FailuresTold
    <3> QED BY <3>1, <3>2
  <2> QED BY <2>1, <2>2 DEF FailuresTold
<1> QED BY <1>4, <1>6, <1>7, <1>8 DEF ReportInv

LEMMA LookUps ==
  ASSUME ReportInv, LookUpCached \/ MetadataUnsent \/ MetadataAnswered
  PROVE  ReportInv'
<1>1. /\ Right(Said) /\ RequestCovered /\ prefs \in Tokens \cup {NoToken}
      /\ remembered \in [Items -> Facts \ {Cleared}]
      /\ \A i \in Items : remembered[i] \in {Silence, Fine, memory[i]}
      /\ Said.memory = memory /\ Said.source = source /\ Said.found = found
      /\ pc \in {"loop", "metadata"} => found["token"] = Loaded
  BY SaidFields DEF ReportInv, LedgerRight, FilesReadable, FailuresTold, TokenTold
<1>2. pc' = "loop" /\ request' = NoToken /\ UNCHANGED <<config, prefs, modeFile, sinceWarn>>
  BY DEF LookUpCached, MetadataUnsent, MetadataAnswered, Goto, files
<1>3. Fine \in Facts \ {Silence, Cleared} /\ Fine.token = NoToken
  BY FactShapes
<1>4. CASE LookUpCached
  <2>1. PICK i \in Items : remembered[i] # Silence /\ SaidIs(Warn(Said, i, remembered[i]))
    BY <1>4 DEF LookUpCached
  <2>2. pc = "loop" /\ UNCHANGED remembered
    BY <1>4 DEF LookUpCached
  <2>3. remembered[i] \in Facts \ {Silence, Cleared}
    BY <1>1, <2>1
  <2>4. remembered[i].token \in Said.source.secrets \cup {NoToken} \/ remembered[i] = Said.memory[i]
    BY <1>1, <1>3, <2>1
  <2> QED BY <1>1, <1>2, <2>1, <2>2, <2>3, <2>4, LookedUpRight
<1>5. CASE MetadataUnsent
  <2> DEFINE e == Fact("no token for the request", NoToken)
             s == ReadToken(Said)
  <2>1. PICK i \in Items :
          /\ Unserved(i) /\ SaidIs(Warn(s, i, e))
          /\ remembered' \in {remembered, [remembered EXCEPT ![i] = e]}
    BY <1>5 DEF MetadataUnsent
  <2>2. pc = "loop" /\ remembered[i] \in {Silence, Fine}
    BY <1>5, <2>1 DEF MetadataUnsent, Unserved
  <2>3. e \in Facts \ {Silence, Cleared} /\ e.token = NoToken
    BY PlainFacts DEF Texts, Silence, Cleared, Fact
  <2>4. Read(s, Said)
    BY <1>1, <2>2, FactShapes, ReadRight
  <2> HIDE DEF s, e
  <2>5. Right(s) /\ s.memory = memory /\ s.found["token"] = found["token"]
    BY <1>1, <2>4 DEF Read
  <2> QED BY <1>2, <2>1, <2>2, <2>3, <2>5, LookedUpRight
<1>6. CASE MetadataAnswered
  <2>1. PICK fact \in RequestErrors \cup {Fine} :
          /\ SaidIs(Warn(Said, item, fact))
          /\ \/ remembered' = [remembered EXCEPT ![item] = fact]
             \/ fact # Fine /\ UNCHANGED remembered
    BY <1>6 DEF MetadataAnswered
  <2>2. pc = "metadata"
    BY <1>6 DEF MetadataAnswered
  <2>3. item \in Items /\ remembered[item] \in {Silence, Fine}
    BY <2>2 DEF ReportInv, FailuresTold
  <2>4. fact \in Facts \ {Silence, Cleared} /\ fact.token \in Said.source.secrets \cup {NoToken}
    BY <1>1, <1>3, ErrorsAreCovered
  <2> QED BY <1>1, <1>2, <2>1, <2>2, <2>3, <2>4, LookedUpRight
<1> QED BY <1>4, <1>5, <1>6

\* Every step of a poll,
LEMMA PollRight ==
  ASSUME ReportInv, Poll
  PROVE  ReportInv'
<1>1. CASE AskSessions
  BY <1>1, SendRight DEF AskSessions
<1>2. CASE AskMetadata
  BY <1>2, SendRight DEF AskMetadata, Unserved
<1>3. CASE AskTerminate
  BY <1>3, SendRight DEF AskTerminate
<1> QED BY <1>1, <1>2, <1>3, PollOffRight, PollWithTokenRight, PollWithoutTokenRight,
           SessionsUnsentRight, SessionsAnsweredRight, QuietSteps, LookUps DEF Poll

\* the passing of time,
LEMMA TickRight ==
  ASSUME ReportInv, Tick
  PROVE  ReportInv'
<1>1. /\ SaidIs(Said) /\ UNCHANGED <<config, prefs, modeFile, pc, request, item>>
      /\ UNCHANGED <<source, memory, log, found>>
  BY SaidFields DEF Tick, Unmoved, files, history, SaidIs
<1>2. LedgerRight'
  BY <1>1, RightNext DEF ReportInv, LedgerRight
<1>3. FilesReadable' /\ RequestCovered'
  BY <1>1 DEF ReportInv, FilesReadable, RequestCovered
<1>4. TokenTold'
  <2>1. sinceWarn' = IF sinceWarn < WarnInterval THEN sinceWarn + 1 ELSE WarnInterval
    BY DEF Tick
  <2>2. sinceWarn \in 0..WarnInterval /\ WarnInterval \in Nat
    BY ReportingAssumption DEF ReportInv, TokenTold
  <2>3. /\ sinceWarn' \in 0..WarnInterval
        /\ sinceWarn = WarnInterval => sinceWarn' = WarnInterval
    BY <2>1, <2>2
  <2>4. Enabled("warn")' => Enabled("warn")
    BY <1>1 DEF Enabled
  <2> QED BY <1>1, <2>3, <2>4 DEF ReportInv, TokenTold
<1>5. FailuresTold'
  <2>1. /\ remembered' \in [Items -> UNION {{remembered[i], Silence} : i \in Items}]
        /\ \A i \in Items : remembered'[i] \in {remembered[i], Silence}
    BY DEF Tick
  <2>2. Silence \in Facts \ {Cleared}
    BY FactShapes
  <2>3. remembered' \in [Items -> Facts \ {Cleared}]
    BY <2>1, <2>2 DEF ReportInv, FailuresTold
  <2> QED BY <1>1, <2>1, <2>3 DEF ReportInv, FailuresTold
<1> QED BY <1>2, <1>3, <1>4, <1>5 DEF ReportInv

\* the edits of the files
LEMMA EditRight ==
  ASSUME ReportInv, EditPrefs \/ EditModeFile \/ EditMessageFile
  PROVE  ReportInv'
<1>1. /\ SaidIs(Said) /\ UNCHANGED <<config, pc, request, item, sinceWarn, remembered>>
      /\ UNCHANGED <<source, memory, log, found>>
      /\ prefs' \in Tokens \cup {NoToken} /\ modeFile' \in ModeFiles
  BY SaidFields
     DEF EditPrefs, EditModeFile, EditMessageFile, Unmoved, history, SaidIs, ReportInv, FilesReadable
<1>2. LedgerRight'
  BY <1>1, RightNext DEF ReportInv, LedgerRight
<1>3. FilesReadable' /\ RequestCovered' /\ FailuresTold'
  BY <1>1 DEF ReportInv, FilesReadable, RequestCovered, FailuresTold
<1>4. TokenTold'
  BY <1>1 DEF ReportInv, TokenTold, Enabled
<1> QED BY <1>2, <1>3, <1>4 DEF ReportInv

\* and a step that is about something else keep it.
LEMMA StutterRight ==
  ASSUME ReportInv, UNCHANGED reportVars
  PROVE  ReportInv'
<1>1. /\ SaidIs(Said) /\ UNCHANGED <<config, prefs, modeFile, pc, request, item>>
      /\ UNCHANGED <<source, memory, log, found, sinceWarn, remembered>>
  BY SaidFields DEF reportVars, files, history, SaidIs
<1>2. LedgerRight'
  BY <1>1, RightNext DEF ReportInv, LedgerRight
<1>3. FilesReadable' /\ RequestCovered' /\ FailuresTold'
  BY <1>1 DEF ReportInv, FilesReadable, RequestCovered, FailuresTold
<1>4. TokenTold'
  BY <1>1 DEF ReportInv, TokenTold, Enabled
<1> QED BY <1>2, <1>3, <1>4 DEF ReportInv

\* A process that starts, or is gone, has told nothing.
NothingTold ==
  /\ pc \in {"off", "idle"} /\ request = NoToken /\ sinceWarn = WarnInterval
  /\ source = [last |-> NoToken, secrets |-> {}]
  /\ remembered = [i \in Items |-> Silence]
  /\ memory = Fresh(Fine) /\ log = Fresh(Silence) /\ found = Fresh(Silence)
  /\ leaked = FALSE /\ repeated = FALSE

LEMMA NothingToldRight == NothingTold /\ FilesReadable => ReportInv
<1> SUFFICES ASSUME NothingTold, FilesReadable PROVE ReportInv
  OBVIOUS
<1>1. /\ memory = Fresh(Fine) /\ log = Fresh(Silence) /\ found = Fresh(Silence)
      /\ leaked = FALSE /\ repeated = FALSE
      /\ source = [last |-> NoToken, secrets |-> {}]
  BY DEF NothingTold
<1>2. \A line \in Facts : /\ Fresh(line) \in [Topics -> Facts]
                           /\ \A t \in Topics : Fresh(line)[t] = line
  BY DEF Fresh
<1>3. Said \in Ledgers
  BY <1>1, <1>2, FactShapes DEF Said, Ledgers
<1>4. \A t \in Topics : memory[t] = Fine /\ log[t] = Silence /\ found[t] = Silence
  BY <1>1, <1>2, FactShapes
<1>5. WarningsRight(Said)
  BY <1>4, SaidFields, TopicFacts DEF WarningsRight
<1>6. NotesRight(Said)
  BY <1>4, SaidFields, TopicFacts, FactShapes DEF NotesRight
<1>7. TokenRight(Said)
  BY <1>1, <1>4, SaidFields, TopicFacts, FactShapes DEF TokenRight
<1>8. LedgerRight
  BY <1>1, <1>3, <1>5, <1>6, <1>7, SaidFields DEF LedgerRight, Right
<1>9. TokenTold
  BY ReportingAssumption DEF NothingTold, TokenTold
<1>10. RequestCovered
  BY DEF NothingTold, RequestCovered
<1>11. FailuresTold
  BY FactShapes DEF NothingTold, FailuresTold
<1> QED BY <1>8, <1>9, <1>10, <1>11 DEF ReportInv

\* A right ledger is what the log is judged by.
LEMMA RightIsCurrent == ReportInv => LogIsCurrent /\ NoTokenIsLogged /\ WarnedOnce
<1> SUFFICES ASSUME ReportInv PROVE LogIsCurrent /\ NoTokenIsLogged /\ WarnedOnce
  OBVIOUS
<1>1. /\ leaked = FALSE /\ repeated = FALSE
      /\ WarningsRight(Said) /\ NotesRight(Said) /\ TokenRight(Said)
  BY SaidFields DEF ReportInv, LedgerRight, Right
<1>2. ASSUME NEW t \in Topics, found[t] # Silence
      PROVE  IF found[t] = Fine THEN Enabled("info") => log[t] \in {Silence, Cleared}
             ELSE Enabled(IF t \in Warnings \/ found[t] = Unavailable THEN "warn" ELSE "info")
                    => log[t] = found[t]
  <2>1. CASE t \in Warnings
    <3>1. /\ found[t] = memory[t]
          /\ memory[t] = Fine /\ Enabled("info") => log[t] \in {Silence, Cleared}
          /\ memory[t] # Fine /\ Enabled("warn") => log[t] = memory[t]
      BY <1>1, <1>2, <2>1, SaidFields DEF WarningsRight
    <3> QED BY <2>1, <3>1
  <2>2. CASE t \in Notes
    <3>1. /\ found[t] = memory[t] /\ found[t] \notin {Fine, Unavailable}
          /\ Enabled("info") => log[t] = memory[t]
      BY <1>1, <1>2, <2>2, SaidFields DEF NotesRight
    <3>2. t \notin Warnings
      BY <2>2, TopicFacts
    <3> QED BY <3>1, <3>2
  <2>3. CASE t = "token"
    <3>1. /\ found[t] \in {Loaded, Unavailable}
          /\ found[t] = Loaded /\ Enabled("info") => log[t] = Loaded
          /\ found[t] = Unavailable /\ Enabled("warn") => log[t] = Unavailable
      BY <1>1, <1>2, <2>3, SaidFields DEF TokenRight
    <3>2. t \notin Warnings
      BY <2>3, TopicFacts
    <3>3. CASE found[t] = Loaded
      BY <3>1, <3>2, <3>3, FactShapes
    <3>4. CASE found[t] = Unavailable
      BY <3>1, <3>2, <3>4, FactShapes
    <3> QED BY <3>1, <3>3, <3>4
  <2> QED BY <2>1, <2>2, <2>3 DEF Topics, Warnings, Notes
<1>3. LogIsCurrent
  BY <1>2 DEF LogIsCurrent
<1> QED BY <1>1, <1>3 DEF NoTokenIsLogged, WarnedOnce
=============================================================================
