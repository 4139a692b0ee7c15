------------------------------- MODULE MCService -------------------------------
(***************************************************************************)
(* The service checked over containers whose environment is empty, sets    *)
(* every variable to a good value on one of its bounds, asks for a         *)
(* cooldown just below none, or sets one variable to a value beside or     *)
(* beyond its bounds.                                                      *)
(***************************************************************************)
EXTENDS Service, TLC

TokenSymmetry == Permutations(Tokens)

Unset == [v \in Variables |-> Blank]

BaseURL(scheme, host, slashes, extra) == URL(scheme, host, "/plex", slashes, extra)

\* Every variable set: durations d, the URL u, the level l.
AllSet(dryRun, poll, http, cooldown, u, l) ==
  [DryRun |-> Boolean(dryRun), PollInterval |-> poll, HTTPTimeout |-> http, Cooldown |-> cooldown,
   PlexURL |-> u, PreferencesFile |-> Path(TRUE), MessageFile |-> Path(TRUE),
   ModeFile |-> Path(TRUE), LogLevel |-> Level(l)]

Good ==
  {AllSet(TRUE, Seconds(2 * MinPollInterval), GoDuration(2 * MinHTTPTimeout), Seconds(0),
          BaseURL("http", "plex", FALSE, FALSE), "debug"),
   AllSet(FALSE, GoDuration(2 * MaxPollInterval), Seconds(2 * MaxHTTPTimeout),
          GoDuration(2 * MaxCooldown), BaseURL("https", "plex", TRUE, FALSE), "warning"),
   AllSet(TRUE, Seconds(2 * MaxPollInterval + 1), Seconds(2 * MaxHTTPTimeout + 1),
          Seconds(1), BaseURL("http", "plex", TRUE, FALSE), "error"),
   [Unset EXCEPT !.Cooldown = GoDuration(-1)]}

\* Less than the least by a half unit, more than the greatest by a unit or by
\* more than a second, negative, or no number.
Beside(minimum, maximum) ==
  {Seconds(h) : h \in {2 * minimum - 1, 2 * maximum + 2, 2 * maximum + 4 * Second}}
  \cup {GoDuration(h) : h \in {-2, 2 * maximum + 2}}
  \cup {NaN, Infinite, Garbled}

Bad == [
  DryRun |-> {Garbled},
  PollInterval |-> Beside(MinPollInterval, MaxPollInterval),
  HTTPTimeout |-> Beside(MinHTTPTimeout, MaxHTTPTimeout),
  Cooldown |-> Beside(0, MaxCooldown),
  PlexURL |-> {BaseURL("ftp", "plex", FALSE, FALSE), BaseURL("http", "", FALSE, FALSE),
               BaseURL("http", "plex", FALSE, TRUE), Garbled},
  PreferencesFile |-> {Path(FALSE)},
  MessageFile |-> {Path(FALSE)},
  ModeFile |-> {Path(FALSE)},
  LogLevel |-> {Garbled}]

MCEnvironments ==
  {Unset} \cup Good \cup UNION {{[Unset EXCEPT ![v] = raw] : raw \in Bad[v]} : v \in Variables}
=============================================================================
