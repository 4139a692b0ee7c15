-------------------------------- MODULE Service --------------------------------
(***************************************************************************)
(* The guard as a service of the container: the run and finish scripts of  *)
(* root/etc/s6-overlay/s6-rc.d/svc-mod-plex-4k-guard, the process they     *)
(* start (cmd/plex-4k-guard/main.go) and the configuration it loads,       *)
(* composed with what the process reports.  s6 starts the service with     *)
(* the container, runs finish with the exit status whenever it ends, and   *)
(* starts it again unless finish says otherwise or the container stops.    *)
(***************************************************************************)
EXTENDS Reporting, Config

CONSTANT Environments  \* the environments a container may be created with

ASSUME EnvironmentsAssumption == Environments \subseteq [Variables -> RawValues]

VARIABLES
  build,      \* the build the image carries
  env,        \* the container's environment
  installed,  \* the guard's binary is there and executable
  container,  \* "up", "stopping" or "down"
  service,    \* "down", "run" (the script), "main" (before the loop), "looping",
              \* "finish" or "disabled" (permanently down)
  status,     \* what the run script exited with
  refused     \* history: it exited with 64 since the container started

serviceVars == <<build, env, installed, container, service, status, refused>>
vars == <<serviceVars, reportVars>>

exitConfig == 64
Killed == 256

Init ==
  /\ build \in Builds /\ env \in Environments /\ installed \in BOOLEAN
  /\ container = "down" /\ service = "down" /\ status = 0 /\ refused = FALSE
  /\ config = DefaultConfig
  /\ prefs = NoToken /\ modeFile = "missing" /\ messageFile = "regular"
  /\ pc = "off" /\ request = NoToken /\ item = "" /\ sinceWarn = WarnInterval
  /\ source = [last |-> NoToken, secrets |-> {}]
  /\ remembered = [i \in Items |-> Silence]
  /\ memory = Fresh(Fine) /\ log = Fresh(Silence) /\ found = Fresh(Silence)
  /\ leaked = FALSE /\ repeated = FALSE

-----------------------------------------------------------------------------
(* s6.                                                                      *)

\* The init oneshot never fails, and the services start.
StartContainer ==
  /\ container = "down"
  /\ container' = "up" /\ service' = "run" /\ refused' = FALSE
  /\ UNCHANGED <<build, env, installed, status, reportVars>>

\* The run script: the binary is executed in its place.
RunScript ==
  /\ service = "run"
  /\ IF installed THEN service' = "main" /\ UNCHANGED <<status, refused>>
                  ELSE service' = "finish" /\ status' = exitConfig /\ refused' = TRUE
  /\ UNCHANGED <<build, env, installed, container, reportVars>>

\* Mutant of Finish: the exit status is not looked at.
FinishAnyway ==
  /\ service = "finish"
  /\ service' = IF container = "up" THEN "run" ELSE "down"
  /\ UNCHANGED <<build, env, installed, container, status, refused, reportVars>>

\* Mutant of Finish: every failure is taken for one of the configuration.
FinishOnFailure ==
  /\ service = "finish"
  /\ service' = IF status # 0 THEN "disabled"
                ELSE IF container = "up" THEN "run" ELSE "down"
  /\ UNCHANGED <<build, env, installed, container, status, refused, reportVars>>

\* The finish script, and what s6 makes of its exit status.
Finish ==
  /\ service = "finish"
  /\ service' = IF status = exitConfig THEN "disabled"
                ELSE IF container = "up" THEN "run" ELSE "down"
  /\ UNCHANGED <<build, env, installed, container, status, refused, reportVars>>

-----------------------------------------------------------------------------
(* main.                                                                    *)

\* The configuration cannot be accepted: one line says so.
Refuse ==
  /\ service = "main" /\ Problems(build, env) # {}
  /\ service' = "finish" /\ status' = exitConfig /\ refused' = TRUE
  /\ UNCHANGED <<build, env, installed, container, reportVars>>

\* The runner is made (nothing an accepted configuration holds makes that
\* fail) and its loop starts.
EnterLoop ==
  /\ service = "main" /\ Problems(build, env) = {}
  /\ config' = LoadConfig(build, env)
  /\ service' = "looping"
  /\ Start
  /\ UNCHANGED <<build, env, installed, container, status, refused>>

\* SIGTERM or SIGINT, from s6 or from an operator: the loop ends with success.
Exit ==
  /\ service = "looping"
  /\ service' = "finish" /\ status' = 0
  /\ Gone /\ config' = DefaultConfig
  /\ UNCHANGED <<build, env, installed, container, refused>>

\* A signal the process does not handle, or not yet.
Die ==
  /\ service \in {"run", "main", "looping"}
  /\ service' = "finish" /\ status' = Killed
  /\ IF service = "looping" THEN Gone /\ config' = DefaultConfig ELSE UNCHANGED reportVars
  /\ UNCHANGED <<build, env, installed, container, refused>>

-----------------------------------------------------------------------------
(* The container's owner.                                                   *)

StopContainer ==
  /\ container = "up" /\ container' = "stopping"
  /\ UNCHANGED <<build, env, installed, service, status, refused, reportVars>>

ContainerStopped ==
  /\ container = "stopping" /\ service \in {"down", "disabled"}
  /\ container' = "down" /\ service' = "down" /\ status' = 0 /\ refused' = FALSE
  /\ UNCHANGED <<build, env, installed, reportVars>>

\* The container is removed and created again, with another environment or
\* image.
Recreate ==
  /\ container = "down"
  /\ build' \in Builds /\ env' \in Environments /\ installed' \in BOOLEAN
  /\ UNCHANGED <<container, service, status, refused, reportVars>>

Report ==
  /\ service = "looping"
  /\ Poll \/ Tick
  /\ UNCHANGED serviceVars

Edit ==
  /\ EditPrefs \/ EditModeFile \/ EditMessageFile
  /\ UNCHANGED serviceVars

Next ==
  \/ StartContainer \/ RunScript \/ Finish
  \/ Refuse \/ EnterLoop \/ Exit \/ Die
  \/ StopContainer \/ ContainerStopped \/ Recreate
  \/ Report \/ Edit

Spec == Init /\ [][Next]_vars

-----------------------------------------------------------------------------

Workable == installed /\ \A v \in Variables : env[v] = Blank \/ Meaningful(v, env[v])

\* A guard that polls does so with what its container's environment asks for,
\* in every variable, on every build: a blank variable has its default, and no
\* value that is out of range, or no number, becomes one that is in range
\* (config.go:88-164, 176-196).  The loop may rely on that.
RunsAsConfigured ==
  service = "looping" =>
    /\ Workable
    /\ \A v \in Variables :
         config[v] = IF env[v] = Blank THEN DefaultConfig[v] ELSE Meant(v, env[v])

\* s6 gives up on the guard for good only where it cannot work: no crash, no
\* signal before or after the handler is installed, no shutdown disables it
\* (main.go:20-23, run:5-7, finish:3-7).
DisabledOnlyWhenUnworkable == service = "disabled" => ~Workable

\* Once it has said that it cannot work, the guard is not started again while
\* the container runs, so that the log carries a single explanation
\* (finish:3-7).
NotRetried == container = "up" /\ refused => service \in {"finish", "disabled"}
=============================================================================
