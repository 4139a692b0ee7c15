----------------------------- MODULE Recreate ------------------------------
(***************************************************************************)
(* contrib/recreate-with-mod.sh: a container is replaced by a new one with *)
(* the mod added, under the same name.  The script runs several docker     *)
(* commands, any of which may fail, and may be killed between any two; the *)
(* operator may run it again, or run it with --rollback.  The settings it  *)
(* carries over are one outcome: the two containers compare equal or not.  *)
(***************************************************************************)
EXTENDS Naturals, FiniteSets, Functions

CONSTANT MaxRuns  \* bound: how often the script is started

ASSUME RecreateAssumption == MaxRuns \in Nat

\* Container 0 is there from the start; run r creates container r.
Containers == 0..MaxRuns
NoContainer == MaxRuns + 1

\* The container's own name, and those each run stamps with its time.
Name == <<"name", 0>>
Staging(r) == <<"new-4k-guard", r>>
Backup(r) == <<"pre-4k-guard", r>>
Names == {Name} \cup {Staging(r) : r \in 1..MaxRuns} \cup {Backup(r) : r \in 1..MaxRuns}

VARIABLES
  at,        \* the container of each name
  status,    \* "created", "running", "exited" (by itself; docker starts it again) or "stopped"
  pc,        \* the command the script runs next; "ended" when no script runs
  run,       \* the number of the run, which is also its time stamp
  backup,    \* the backup the run made or restores
  option,    \* the run was given --rollback
  outcome,   \* how the last run ended: "done", "died", "aborted", "killed"
  before,    \* history: the container under Name when the run began
  wasUp,     \* history: it was up then
  confirmed  \* history: the first container, and those a run saw up and healthy

vars == <<at, status, pc, run, backup, option, outcome, before, wasUp, confirmed>>

Docker == <<at, status>>
Script == <<run, backup, option>>
History == <<before, wasUp>>

Init ==
  /\ at = [n \in Names |-> IF n = Name THEN 0 ELSE NoContainer]
  /\ status \in [Containers -> {"created", "running", "stopped"}]
  /\ \A c \in Containers : status[c] = "created" <=> c # 0
  /\ pc = "ended" /\ run = 0 /\ backup = Name /\ option = FALSE /\ outcome = "done"
  /\ before = 0 /\ wasUp = FALSE /\ confirmed = {0}

-----------------------------------------------------------------------------
(* docker.                                                                  *)

Exists(n) == at[n] # NoContainer

\* docker rename: the new name must be free.
DockerRename(from, to) ==
  /\ Exists(from) /\ ~Exists(to)
  /\ at' = [at EXCEPT ![from] = NoContainer, ![to] = at[from]]

\* docker rm -f: succeeds for a name nothing has.
DockerRemove(n) == at' = [at EXCEPT ![n] = NoContainer]

DockerStart(n) == Exists(n) /\ status' = [status EXCEPT ![at[n]] = "running"]

DockerStop(n) == Exists(n) /\ status' = [status EXCEPT ![at[n]] = "stopped"]

\* Docker keeps the container up: it runs, or died by itself and is restarted.
Up(c) == c \in Containers /\ status[c] \in {"running", "exited"}

-----------------------------------------------------------------------------
(* The script.                                                              *)

Goto(label) == pc' = label /\ UNCHANGED <<Script, outcome, History>>
End(how) == pc' = "ended" /\ outcome' = how /\ UNCHANGED <<Script, History>>

\* A command that must succeed fails without effect, and set -e ends the script.
Abort == End("aborted") /\ UNCHANGED <<Docker, confirmed>>

StartRun ==
  /\ pc = "ended" /\ run < MaxRuns
  /\ run' = run + 1
  /\ before' = at[Name] /\ wasUp' = Up(at[Name])
  /\ outcome' = "done"

\* --apply: the container is inspected and found to be reproducible.  (When it
\* is not, or without --apply, the script ends and nothing has changed.)
StartApply ==
  /\ StartRun /\ Exists(Name)
  /\ pc' = "create" /\ backup' = Backup(run') /\ option' = FALSE
  /\ UNCHANGED <<Docker, confirmed>>

\* --rollback: the newest backup is looked for.
StartRollback ==
  /\ StartRun
  /\ \E r \in 1..run :
       /\ Exists(Backup(r)) /\ \A later \in (r + 1)..run : ~Exists(Backup(later))
       /\ backup' = Backup(r)
  /\ pc' = "remove" /\ option' = TRUE
  /\ UNCHANGED <<Docker, confirmed>>

\* The new container is created beside the old one.  A failure may leave it
\* there: it is removed then if it can be.
Create ==
  /\ pc = "create"
  /\ \/ at' = [at EXCEPT ![Staging(run)] = run] /\ (Goto("compare") \/ End("died"))
     \/ UNCHANGED at /\ End("died")
  /\ UNCHANGED <<status, confirmed>>

\* The two are compared.  A difference is fatal without --force; the staged
\* container is removed then if it can be.
Compare ==
  /\ pc = "compare"
  /\ \/ Goto("stop") /\ UNCHANGED at
     \/ End("died") /\ (DockerRemove(Staging(run)) \/ UNCHANGED at)
     \/ End("aborted") /\ UNCHANGED at
  /\ UNCHANGED <<status, confirmed>>

\* Mutant of Stop: a failure to stop the old container is ignored.
StopOrNot ==
  /\ pc = "stop"
  /\ DockerStop(Name) \/ UNCHANGED status
  /\ Goto("back up") /\ UNCHANGED <<at, confirmed>>

Stop ==
  /\ pc = "stop"
  /\ \/ DockerStop(Name) /\ Goto("back up") /\ UNCHANGED <<at, confirmed>>
     \/ Abort

BackUp ==
  /\ pc = "back up"
  /\ \/ DockerRename(Name, backup) /\ Goto("rename") /\ UNCHANGED <<status, confirmed>>
     \/ Abort

\* Mutant of TakeName: a failure to rename the new container is ignored.
TakeNameOrNot ==
  /\ pc = "rename"
  /\ DockerRename(Staging(run), Name) \/ UNCHANGED at
  /\ Goto("start") /\ UNCHANGED <<status, confirmed>>

TakeName ==
  /\ pc = "rename"
  /\ \/ DockerRename(Staging(run), Name) /\ Goto("start") /\ UNCHANGED <<status, confirmed>>
     \/ Abort

Start ==
  /\ pc = "start"
  /\ \/ DockerStart(Name) /\ Goto("connect")
     \/ Goto("remove") /\ UNCHANGED status
  /\ UNCHANGED <<at, confirmed>>

\* The additional networks are connected.
Connect ==
  /\ pc = "connect"
  /\ Goto("wait") \/ Goto("remove")
  /\ UNCHANGED <<Docker, confirmed>>

\* Mutant of Wait: a container that does not become healthy in time is accepted.
WaitAnyway ==
  /\ pc = "wait"
  /\ Goto("finish")
  /\ confirmed' = IF status[at[Name]] = "running" THEN confirmed \cup {at[Name]} ELSE confirmed
  /\ UNCHANGED Docker

\* The new container is seen running and healthy, or it is not in time.  The
\* second look at a container without a health check may fail outright.
Wait ==
  /\ pc = "wait"
  /\ \/ /\ status[at[Name]] = "running"
        /\ Goto("finish") /\ confirmed' = confirmed \cup {at[Name]}
     \/ Goto("remove") /\ UNCHANGED confirmed
     \/ End("aborted") /\ UNCHANGED confirmed
  /\ UNCHANGED Docker

\* --keep-backup leaves the old container; otherwise it is removed.
Finish ==
  /\ pc = "finish"
  /\ \/ End("done") /\ (DockerRemove(backup) \/ UNCHANGED at) /\ UNCHANGED <<status, confirmed>>
     \/ Abort

\* rollback() and --rollback.  Only the option insists that the container
\* under the name can be removed.
RemoveNew ==
  /\ pc = "remove"
  /\ \/ DockerRemove(Name) /\ Goto("restore") /\ UNCHANGED <<status, confirmed>>
     \/ ~option /\ Goto("restore") /\ UNCHANGED <<Docker, confirmed>>
     \/ option /\ Abort

\* Mutant of RestoreName: the old container is not given its name back.
StartBackup ==
  /\ pc = "restore"
  /\ \/ Goto("restart") /\ UNCHANGED <<Docker, confirmed>>
     \/ Abort

RestoreName ==
  /\ pc = "restore"
  /\ \/ DockerRename(backup, Name) /\ Goto("restart") /\ UNCHANGED <<status, confirmed>>
     \/ Abort

\* The old container runs again; rollback() then dies with what went wrong.
RestartOld ==
  /\ pc = "restart"
  /\ \/ DockerStart(Name) /\ End(IF option THEN "done" ELSE "died") /\ UNCHANGED <<at, confirmed>>
     \/ Abort

-----------------------------------------------------------------------------
(* The environment.                                                         *)

\* The script is killed, or the terminal goes away.
Kill ==
  /\ pc # "ended"
  /\ End("killed")
  /\ UNCHANGED <<Docker, confirmed>>

Alive(c) == c \in Range(at)

\* A container dies by itself, and docker starts it again.
Dies ==
  /\ \E c \in Containers : Alive(c) /\ status[c] = "running"
                           /\ status' = [status EXCEPT ![c] = "exited"]
  /\ UNCHANGED <<at, pc, Script, outcome, History, confirmed>>

Restart ==
  /\ \E c \in Containers : Alive(c) /\ status[c] = "exited"
                           /\ status' = [status EXCEPT ![c] = "running"]
  /\ UNCHANGED <<at, pc, Script, outcome, History, confirmed>>

Next ==
  \/ StartApply \/ StartRollback
  \/ Create \/ Compare \/ Stop \/ BackUp \/ TakeName \/ Start \/ Connect \/ Wait \/ Finish
  \/ RemoveNew \/ RestoreName \/ RestartOld
  \/ Kill \/ Dies \/ Restart

Spec == Init /\ [][Next]_vars

-----------------------------------------------------------------------------

TypeOK ==
  /\ at \in [Names -> Containers \cup {NoContainer}]
  /\ \A m, n \in Names : at[m] = at[n] /\ Exists(m) => m = n
  /\ status \in [Containers -> {"created", "running", "exited", "stopped"}]
  /\ pc \in {"ended", "create", "compare", "stop", "back up", "rename", "start", "connect",
            "wait", "finish", "remove", "restore", "restart"}
  /\ run \in 0..MaxRuns /\ backup \in Names /\ option \in BOOLEAN
  /\ outcome \in {"done", "died", "aborted", "killed"}
  /\ before \in Containers \cup {NoContainer} /\ wasUp \in BOOLEAN
  /\ confirmed \subseteq Containers
  /\ pc \in {"compare", "stop", "back up", "rename"} => at[Staging(run)] = run
  /\ pc \in {"start", "connect", "wait", "finish"} => at[Name] = run /\ at[backup] = before
  /\ pc \in {"remove", "restore"} => Exists(backup)

\* Two containers are never up at once: both would write the same volumes.
\* Whatever failed, was killed or was run again, the old one is stopped
\* before the new one starts, and the new one is removed before the old one
\* starts again (recreate-with-mod.sh:370-386, 377-382, 93-97).
NeverTwoUp == Cardinality({c \in Range(at) : Up(c)}) <= 1

\* A container that is known to work is never given up before another one is:
\* after any sequence of runs and rollbacks, one of those that were seen to
\* work still exists (recreate-with-mod.sh:397-418).
OneThatWorksIsKept == confirmed \cap Range(at) # {}

\* The container the run was given has its name, and is up if it was.
Restored == at[Name] = before /\ (wasUp => Up(before))

\* When the script dies with a message, the container it was given has its
\* name again, and is up if it was: a refused comparison touched nothing, and
\* a rollback is complete (recreate-with-mod.sh:359-364, 377-385, 406-409).
DiesRestored ==
  [][pc # "ended" /\ outcome' = "died" => Restored']_vars

\* "renames and starts the new one, waits for it to be healthy/running, and
\* removes the backup (or rolls back on failure)" (recreate-with-mod.sh:19-21):
\* a command that fails once the old container is stopped leaves it restored,
\* unless what failed is the rollback itself.
RollsBackOnFailure ==
  [][outcome' = "aborted" /\ pc \in {"back up", "rename", "start", "connect", "wait"}
       => Restored']_vars
=============================================================================
