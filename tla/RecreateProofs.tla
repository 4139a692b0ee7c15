--------------------------- MODULE RecreateProofs ---------------------------
(***************************************************************************)
(* Recreate proved for any number of runs of the script.  What makes the   *)
(* invariants inductive: only the container under the name is ever up, and *)
(* it is stopped when it loses the name; and the backups form a stack      *)
(* whose oldest one works, of which a run or a rollback touches the newest *)
(* only.                                                                   *)
(***************************************************************************)
EXTENDS Recreate, FiniteSetTheorems, TLAPS

Runs == 1..MaxRuns
Labels == {"ended", "create", "compare", "stop", "back up", "rename", "start", "connect",
           "wait", "finish", "remove", "restore", "restart"}
Swapped == {"start", "connect", "wait", "finish"}
Statuses == {"created", "running", "exited", "stopped"}


\* The containers and names that have been given out.
Created == IF pc = "create" THEN run - 1 ELSE run
NumbersGrow ==
  /\ \A n \in Names : Exists(n) => at[n] <= Created
  /\ \A c \in Containers : c > Created => status[c] = "created"
  /\ \A r \in Runs : Exists(Backup(r)) => r <= run

\* What a run knows of its own backup and of the containers it swaps.
BackupOfRun ==
  /\ pc # "ended" => /\ \E r \in 1..run : backup = Backup(r)
                     /\ ~option => backup = Backup(run)
                     /\ outcome = "done"
  /\ pc \in {"create", "compare", "stop", "back up", "rename"} \cup Swapped => ~option
  /\ pc \in {"create", "compare", "stop"} => Restored
  /\ pc = "back up" => Exists(Name) /\ at[Name] = before /\ status[before] = "stopped"
  /\ pc \in {"rename"} \cup Swapped => Exists(backup)
  /\ pc \in {"rename", "remove", "restore"} /\ ~option => at[backup] = before
  /\ pc = "restart" /\ ~option => at[Name] = before
  /\ pc = "finish" => at[Name] \in confirmed
  /\ pc \in {"remove", "restore"} =>
       \A r, s \in Runs : backup = Backup(r) /\ Exists(Backup(s)) => s <= r

OnlyNameIsUp == \A n \in Names : Up(at[n]) => n = Name

\* The oldest backup works; without a backup, what has the name does.
OldestWorks ==
  \/ at[Name] \in confirmed /\ \A r \in Runs : ~Exists(Backup(r))
  \/ \E r \in Runs : /\ Exists(Backup(r)) /\ at[Backup(r)] \in confirmed
                     /\ \A s \in Runs : s < r => ~Exists(Backup(s))

Inv == TypeOK /\ NumbersGrow /\ BackupOfRun /\ OnlyNameIsUp /\ OldestWorks

-----------------------------------------------------------------------------
(* The names, and what docker's commands do to them.                        *)

LEMMA NameFacts ==
  /\ Name \in Names
  /\ \A r \in Runs : /\ Staging(r) \in Names /\ Staging(r) # Name
                     /\ Backup(r) \in Names /\ Backup(r) # Name
  /\ \A r, s \in Runs : /\ Staging(r) # Backup(s)
                        /\ Staging(r) = Staging(s) => r = s
                        /\ Backup(r) = Backup(s) => r = s
  BY DEF Names, Name, Staging, Backup, Runs

LEMMA ContainerFacts ==
  /\ NoContainer \notin Containers /\ Containers \subseteq Nat /\ MaxRuns \in Nat
  /\ 0 \in Containers /\ Runs \subseteq Containers
  /\ \A c \in Containers : c <= MaxRuns
  BY RecreateAssumption DEF Containers, NoContainer, Runs

LEMMA EarlierRuns ==
  \A s, r \in Runs : s < r => s # r /\ \A q \in Runs : r <= q => s # q
  BY DEF Runs

LEMMA WiderFunction ==
  ASSUME NEW S, NEW A, NEW B, A \subseteq B, NEW f \in [S -> A]
  PROVE  f \in [S -> B]
  OBVIOUS

LEMMA Occupied ==
  ASSUME TypeOK
  PROVE  /\ \A n \in Names : Exists(n) => at[n] \in Containers /\ at[n] \in Nat
         /\ run \in Nat /\ run <= MaxRuns
         /\ Created \in Int /\ Created <= run
<1>1. \A n \in Names : Exists(n) => at[n] \in Containers /\ at[n] \in Nat
  BY ContainerFacts DEF TypeOK, Exists
<1>2. run \in 0..MaxRuns
  BY DEF TypeOK
<1>3. run \in Nat /\ run <= MaxRuns
  BY <1>2, RecreateAssumption
<1> QED BY <1>1, <1>3 DEF Created

\* A command that renames a container moves it and nothing else.
LEMMA RenameMoves ==
  ASSUME TypeOK, NEW from \in Names, NEW to \in Names, DockerRename(from, to)
  PROVE  /\ from # to /\ at[from] \in Containers
         /\ at' \in [Names -> Containers \cup {NoContainer}]
         /\ at'[from] = NoContainer /\ at'[to] = at[from]
         /\ \A n \in Names : n # from /\ n # to => at'[n] = at[n]
         /\ \A m, n \in Names : at'[m] = at'[n] /\ Exists(m)' => m = n
  BY DEF DockerRename, Exists, TypeOK

LEMMA RemoveFrees ==
  ASSUME TypeOK, NEW name \in Names, DockerRemove(name)
  PROVE  /\ at' \in [Names -> Containers \cup {NoContainer}]
         /\ at'[name] = NoContainer
         /\ \A n \in Names : n # name => at'[n] = at[n]
         /\ \A m, n \in Names : at'[m] = at'[n] /\ Exists(m)' => m = n
  BY DEF DockerRemove, Exists, TypeOK

-----------------------------------------------------------------------------

LEMMA InitInv == Init => Inv
<1> SUFFICES ASSUME Init PROVE Inv
  OBVIOUS
<1> USE NameFacts, ContainerFacts DEF Init
<1>1. TypeOK
  <2>1. at \in [Names -> Containers \cup {NoContainer}]
    OBVIOUS
  <2>2. \A m, n \in Names : at[m] = at[n] /\ Exists(m) => m = n
    BY DEF Exists
  <2>3. status \in [Containers -> {"created", "running", "exited", "stopped"}]
    BY WiderFunction
  <2>4. /\ run \in 0..MaxRuns /\ backup \in Names
        /\ before \in Containers \cup {NoContainer} /\ confirmed \subseteq Containers
    OBVIOUS
  <2>5. option \in BOOLEAN /\ wasUp \in BOOLEAN
    OBVIOUS
  <2> QED BY <2>1, <2>2, <2>3, <2>4, <2>5 DEF TypeOK
<1>2. NumbersGrow
  BY DEF NumbersGrow, Exists, Created
<1>3. BackupOfRun
  BY DEF BackupOfRun, Swapped
<1>4. OnlyNameIsUp
  BY DEF OnlyNameIsUp, Up
<1>5. OldestWorks
  BY DEF OldestWorks, Exists
<1> QED BY <1>1, <1>2, <1>3, <1>4, <1>5 DEF Inv

\* A script that ends leaves the containers as they are.
LEMMA EndInv ==
  ASSUME Inv, NEW how \in {"done", "died", "aborted", "killed"},
         End(how), UNCHANGED <<Docker, confirmed>>
  PROVE  Inv'
<1> USE ContainerFacts DEF End, Docker, Script, History
<1>1. TypeOK'
  <2>1. /\ at' = at /\ status' = status /\ run' = run /\ backup' = backup
        /\ option' = option /\ before' = before /\ wasUp' = wasUp
        /\ confirmed' = confirmed /\ pc' = "ended" /\ outcome' = how
    OBVIOUS
  <2>2. \A m, n \in Names : at'[m] = at'[n] /\ Exists(m)' => m = n
    BY <2>1 DEF Inv, TypeOK, Exists
  <2>3. /\ at' \in [Names -> Containers \cup {NoContainer}]
        /\ status' \in [Containers -> {"created", "running", "exited", "stopped"}]
        /\ run' \in 0..MaxRuns /\ backup' \in Names
        /\ before' \in Containers \cup {NoContainer}
        /\ confirmed' \subseteq Containers
    BY <2>1 DEF Inv, TypeOK
  <2>4. option' \in BOOLEAN /\ wasUp' \in BOOLEAN
    BY <2>1 DEF Inv, TypeOK
  <2> QED BY <2>1, <2>2, <2>3, <2>4 DEF TypeOK
<1>2. NumbersGrow'
  <2>1. Created' = run /\ \A n \in Names : Exists(n)' <=> Exists(n)
    BY DEF Created, Exists
  <2>2. \A c \in Containers : c > run => c > Created
    BY Occupied DEF Inv
  <2>3. \A n \in Names : Exists(n) => at[n] <= run
    BY Occupied DEF Inv, NumbersGrow
  <2> QED BY <2>1, <2>2, <2>3, NameFacts DEF Inv, NumbersGrow
<1>3. BackupOfRun'
  BY DEF Inv, BackupOfRun, Swapped
<1>4. OnlyNameIsUp'
  BY DEF Inv, OnlyNameIsUp, Up
<1>5. OldestWorks'
  BY DEF Inv, OldestWorks, Exists
<1> QED BY <1>1, <1>2, <1>3, <1>4, <1>5 DEF Inv

LEMMA StartInv == Inv /\ (StartApply \/ StartRollback) => Inv'
<1> SUFFICES ASSUME Inv, StartApply \/ StartRollback PROVE Inv'
  OBVIOUS
<1> USE NameFacts, ContainerFacts DEF Docker
<1>1. /\ pc = "ended" /\ run < MaxRuns /\ run' = run + 1
      /\ before' = at[Name] /\ wasUp' = Up(at[Name]) /\ outcome' = "done"
      /\ UNCHANGED <<at, status, confirmed>>
  BY DEF StartApply, StartRollback, StartRun
<1>2. run \in Nat /\ run' \in Runs
  BY <1>1 DEF Inv, TypeOK, Runs
<1>3. \/ pc' = "create" /\ backup' = Backup(run') /\ option' = FALSE
      \/ /\ pc' = "remove" /\ option' = TRUE
         /\ \E r \in 1..run : /\ backup' = Backup(r) /\ Exists(backup')
                              /\ \A later \in (r + 1)..run : ~Exists(Backup(later))
  BY DEF StartApply, StartRollback
<1>4. TypeOK'
  <2>1. backup' \in Names /\ run' \in 0..MaxRuns /\ before' \in Containers \cup {NoContainer}
    BY <1>1, <1>2, <1>3 DEF Inv, TypeOK, Runs
  <2>2. option' \in BOOLEAN /\ wasUp' \in BOOLEAN
    BY <1>1, <1>3 DEF Up
  <2>3. pc' = "remove" => Exists(backup)'
    BY <1>1, <1>3 DEF Exists
  <2> QED BY <1>1, <1>3, <2>1, <2>2, <2>3 DEF Inv, TypeOK, Exists
<1>5. NumbersGrow'
  <2>1. Created' \in {run, run + 1} /\ Created = run
    BY <1>1, <1>2, <1>3 DEF Created
  <2>2. \A c \in Containers : c > Created' => c > Created
    BY <1>2, <2>1
  <2>3. \A n \in Names : Exists(n) => at[n] <= Created'
    BY <1>2, <2>1, Occupied DEF Inv, NumbersGrow
  <2> QED BY <1>1, <1>2, <2>2, <2>3 DEF Inv, NumbersGrow, Exists, Runs
<1>6. BackupOfRun'
  <2>1. \E r \in 1..run' : backup' = Backup(r)
    BY <1>1, <1>2, <1>3 DEF Runs
  <2>2. pc' = "create" => Restored'
    BY <1>1, <1>3 DEF Restored, Up
  <2>3. ASSUME pc' = "remove", NEW r \in Runs, NEW s \in Runs,
               backup' = Backup(r), Exists(Backup(s))
        PROVE  s <= r
    <3>1. s <= run
      BY <2>3 DEF Inv, NumbersGrow
    <3>2. PICK q \in 1..run : /\ backup' = Backup(q)
                              /\ \A later \in (q + 1)..run : ~Exists(Backup(later))
      BY <1>3, <2>3
    <3>3. q \in Runs
      BY <1>1, <1>2 DEF Runs
    <3>4. q = r
      BY <2>3, <3>2, <3>3
    <3> QED BY <1>2, <2>3, <3>1, <3>2, <3>4 DEF Runs
  <2> QED BY <1>1, <1>3, <2>1, <2>2, <2>3 DEF BackupOfRun, Swapped, Exists
<1>7. OnlyNameIsUp'
  BY <1>1 DEF Inv, OnlyNameIsUp, Up
<1>8. OldestWorks'
  BY <1>1 DEF Inv, OldestWorks, Exists
<1> QED BY <1>4, <1>5, <1>6, <1>7, <1>8 DEF Inv

\* A step of the script within its run.
LEMMA StepType ==
  ASSUME TypeOK, NEW label \in Labels, Goto(label),
         at' \in [Names -> Containers \cup {NoContainer}],
         \A m, n \in Names : at'[m] = at'[n] /\ Exists(m)' => m = n,
         status' \in [Containers -> Statuses], confirmed' \subseteq Containers,
         label \in {"compare", "stop", "back up", "rename"} => at'[Staging(run)] = run,
         label \in Swapped => at'[Name] = run /\ at'[backup] = before,
         label \in {"remove", "restore"} => Exists(backup)'
  PROVE  TypeOK'
<1> USE DEF Goto, Script, History
<1>1. option' \in BOOLEAN /\ wasUp' \in BOOLEAN
  BY DEF TypeOK
<1>2. run' \in 0..MaxRuns /\ backup' \in Names /\ before' \in Containers \cup {NoContainer}
  BY DEF TypeOK
<1> QED BY <1>1, <1>2 DEF TypeOK, Labels, Swapped, Statuses

\* What a step that moves no container and changes no status preserves.
LEMMA StandStill ==
  ASSUME Inv, UNCHANGED <<at, status, run>>, pc # "create", pc' # "create",
         confirmed \subseteq confirmed'
  PROVE  NumbersGrow' /\ OnlyNameIsUp' /\ OldestWorks'
<1>1. Created' = Created /\ \A n : Exists(n)' <=> Exists(n)
  BY DEF Created, Exists
<1>2. NumbersGrow'
  BY <1>1 DEF Inv, NumbersGrow
<1>3. OnlyNameIsUp'
  BY DEF Inv, OnlyNameIsUp, Up
<1>4. OldestWorks'
  BY <1>1, NameFacts DEF Inv, OldestWorks
<1> QED BY <1>2, <1>3, <1>4

\* The number of a run names its backup.
LEMMA RunsBackup ==
  ASSUME Inv, pc # "ended"
  PROVE  /\ run \in Runs /\ backup \in Names /\ backup # Name
         /\ \E r \in Runs : backup = Backup(r) /\ r <= run
<1>1. PICK r \in 1..run : backup = Backup(r)
  BY DEF Inv, BackupOfRun, Swapped
<1>2. run \in Nat /\ run <= MaxRuns
  BY Occupied DEF Inv
<1>3. r \in Runs /\ run \in Runs /\ r <= run
  BY <1>1, <1>2, ContainerFacts DEF Runs
<1> QED BY <1>1, <1>3, NameFacts

LEMMA CreateInv == Inv /\ Create => Inv'
<1> SUFFICES ASSUME Inv, pc = "create", Goto("compare") \/ End("died"),
                    at' = [at EXCEPT ![Staging(run)] = run],
                    UNCHANGED <<status, confirmed>>
             PROVE  Inv'
  BY EndInv DEF Create, Docker
<1> USE DEF Goto, End, Script, History
<1>1. /\ run \in Runs /\ run \in Containers /\ Staging(run) \in Names
      /\ Staging(run) # Name /\ Created = run - 1 /\ Created' = run
      /\ \A r \in Runs : Staging(run) # Backup(r)
  BY RunsBackup, NameFacts, ContainerFacts DEF Created
<1>2. /\ at' \in [Names -> Containers \cup {NoContainer}] /\ at'[Staging(run)] = run
      /\ \A n \in Names : n # Staging(run) => at'[n] = at[n]
  BY <1>1 DEF Inv, TypeOK
<1>3. \A n \in Names : Exists(n) => at[n] < run
  BY <1>1, Occupied, ContainerFacts DEF Inv, NumbersGrow, Runs
<1>4. \A m, n \in Names : at'[m] = at'[n] /\ Exists(m)' => m = n
  BY <1>1, <1>2, <1>3, Occupied DEF Inv, TypeOK, Exists
<1>5. TypeOK'
  <2>1. CASE Goto("compare")
    BY <1>2, <1>4, <2>1, StepType DEF Inv, TypeOK, Labels, Swapped, Statuses
  <2>2. CASE End("died")
    BY <1>2, <1>4, <2>2 DEF Inv, TypeOK
  <2> QED BY <2>1, <2>2
<1>6. NumbersGrow'
  <2>1. \A n \in Names : Exists(n)' => at'[n] <= run
    BY <1>1, <1>2, <1>3, Occupied, ContainerFacts DEF Inv, Exists, Runs
  <2>2. \A c \in Containers : c > run => status[c] = "created"
    BY <1>1, ContainerFacts DEF Inv, NumbersGrow, Runs
  <2>3. \A r \in Runs : Exists(Backup(r))' => r <= run
    BY <1>1, <1>2, NameFacts DEF Inv, NumbersGrow, Exists
  <2> QED BY <1>1, <2>1, <2>2, <2>3 DEF NumbersGrow
<1>7. BackupOfRun'
  <2>1. CASE Goto("compare")
    BY <1>1, <1>2, <2>1, NameFacts DEF Inv, BackupOfRun, Swapped, Restored, Up
  <2>2. CASE End("died")
    BY <2>2 DEF BackupOfRun, Swapped
  <2> QED BY <2>1, <2>2
<1>8. OnlyNameIsUp'
  <2>1. status[run] = "created"
    BY <1>1, ContainerFacts DEF Inv, NumbersGrow, Runs
  <2> QED BY <1>1, <1>2, <2>1 DEF Inv, OnlyNameIsUp, Up
<1>9. OldestWorks'
  BY <1>1, <1>2, NameFacts DEF Inv, OldestWorks, Exists
<1> QED BY <1>5, <1>6, <1>7, <1>8, <1>9 DEF Inv

\* A removal frees one name; it can cost the last container that works only
\* when that is what it removes.
LEMMA Removal ==
  ASSUME Inv, NEW name \in Names, DockerRemove(name), UNCHANGED <<status, run>>,
         pc # "create", pc' # "create"
  PROVE  /\ NumbersGrow' /\ OnlyNameIsUp'
         /\ (\A r \in Runs : name # Backup(r)) /\ name # Name /\ UNCHANGED confirmed
              => OldestWorks'
<1>1. /\ Created' = Created /\ at'[name] = NoContainer
      /\ \A n \in Names : n # name => at'[n] = at[n]
  BY RemoveFrees DEF Inv, Created
<1>2. NumbersGrow'
  BY <1>1, NameFacts DEF Inv, NumbersGrow, Exists
<1>3. OnlyNameIsUp'
  BY <1>1, ContainerFacts DEF Inv, OnlyNameIsUp, Up
<1>4. ASSUME \A r \in Runs : name # Backup(r), name # Name, UNCHANGED confirmed
      PROVE  OldestWorks'
  BY <1>1, <1>4, NameFacts DEF Inv, OldestWorks, Exists
<1> QED BY <1>2, <1>3, <1>4

\* The type of a state whose script has ended after a removal.
LEMMA EndedType ==
  ASSUME TypeOK, NEW how \in {"done", "died", "aborted", "killed"}, End(how),
         NEW name \in Names, DockerRemove(name), UNCHANGED <<status, confirmed>>
  PROVE  TypeOK'
<1> USE DEF End, Script, History
<1>1. option' \in BOOLEAN /\ wasUp' \in BOOLEAN
  BY DEF TypeOK
<1>2. /\ run' \in 0..MaxRuns /\ backup' \in Names /\ before' \in Containers \cup {NoContainer}
      /\ status' \in [Containers -> Statuses] /\ confirmed' \subseteq Containers
  BY DEF TypeOK, Statuses
<1> QED BY <1>1, <1>2, RemoveFrees DEF TypeOK, Statuses

LEMMA CompareInv == Inv /\ Compare => Inv'
<1> SUFFICES ASSUME Inv, pc = "compare", UNCHANGED <<status, confirmed>>,
                    \/ Goto("stop") /\ UNCHANGED at
                    \/ End("died") /\ DockerRemove(Staging(run))
             PROVE  Inv'
  BY EndInv DEF Compare, Docker
<1>1. CASE Goto("stop") /\ UNCHANGED at
  <2>1. TypeOK'
    BY <1>1, StepType DEF Inv, TypeOK, Exists, Labels, Swapped, Statuses, Goto, Script
  <2>2. BackupOfRun'
    BY <1>1 DEF Inv, BackupOfRun, Swapped, Goto, Script, History, Restored, Up
  <2> QED BY <1>1, <2>1, <2>2, StandStill DEF Inv, Goto, Script
<1>2. CASE End("died") /\ DockerRemove(Staging(run))
  <2>1. Staging(run) \in Names /\ Staging(run) # Name /\ \A r \in Runs : Staging(run) # Backup(r)
    BY RunsBackup, NameFacts
  <2>2. TypeOK'
    BY <1>2, <2>1, EndedType DEF Inv
  <2>3. BackupOfRun'
    BY <1>2 DEF End, BackupOfRun, Swapped
  <2> QED BY <1>2, <2>1, <2>2, <2>3, Removal DEF Inv, End, Script
<1> QED BY <1>1, <1>2

\* docker stop or docker start on the container that has the name.
LEMMA StatusOfName ==
  ASSUME Inv, NEW s \in Statuses \ {"created"}, Exists(Name),
         status' = [status EXCEPT ![at[Name]] = s],
         UNCHANGED <<at, run, confirmed>>, pc # "create", pc' # "create"
  PROVE  /\ status' \in [Containers -> Statuses] /\ at[Name] \in Containers
         /\ status'[at[Name]] = s
         /\ NumbersGrow' /\ OnlyNameIsUp' /\ OldestWorks'
<1>1. /\ at[Name] \in Containers /\ at[Name] <= Created /\ Created' = Created
      /\ status' \in [Containers -> Statuses] /\ status'[at[Name]] = s
      /\ \A c \in Containers : c # at[Name] => status'[c] = status[c]
  BY Occupied, NameFacts DEF Inv, TypeOK, NumbersGrow, Created, Statuses
<1>2. \A n : Exists(n)' <=> Exists(n)
  BY DEF Exists
<1>3. NumbersGrow'
  <2>1. \A c \in Containers : c > Created => c # at[Name]
    BY <1>1, ContainerFacts, Occupied DEF Inv
  <2> QED BY <1>1, <1>2, <2>1 DEF Inv, NumbersGrow
<1>4. OnlyNameIsUp'
  BY <1>1, NameFacts DEF Inv, TypeOK, OnlyNameIsUp, Up
<1>5. OldestWorks'
  BY <1>2, NameFacts DEF Inv, OldestWorks
<1> QED BY <1>1, <1>3, <1>4, <1>5

LEMMA StopInv == Inv /\ Stop => Inv'
<1> SUFFICES ASSUME Inv, pc = "stop", DockerStop(Name), Goto("back up"),
                    UNCHANGED <<at, confirmed>>
             PROVE  Inv'
  BY EndInv DEF Stop, Abort
<1> USE DEF Goto, Script, History
<1>1. Exists(Name) /\ status' = [status EXCEPT ![at[Name]] = "stopped"]
  BY DEF DockerStop
<1>2. /\ status' \in [Containers -> Statuses] /\ at[Name] \in Containers
      /\ status'[at[Name]] = "stopped"
      /\ NumbersGrow' /\ OnlyNameIsUp' /\ OldestWorks'
  BY <1>1, StatusOfName DEF Statuses
<1>3. TypeOK'
  BY <1>2, StepType DEF Inv, TypeOK, Exists, Labels, Swapped
<1>4. BackupOfRun'
  BY <1>1, <1>2 DEF Inv, BackupOfRun, Swapped, Restored, Exists
<1> QED BY <1>2, <1>3, <1>4 DEF Inv

LEMMA BackUpInv == Inv /\ BackUp => Inv'
<1> SUFFICES ASSUME Inv, pc = "back up", DockerRename(Name, backup), Goto("rename"),
                    UNCHANGED <<status, confirmed>>
             PROVE  Inv'
  BY EndInv DEF BackUp, Abort
<1> USE DEF Goto, Script, History
<1>1. run \in Runs /\ backup = Backup(run) /\ backup \in Names /\ backup # Name
  BY RunsBackup DEF Inv, BackupOfRun, Swapped
<1>2. /\ at[Name] \in Containers
      /\ at' \in [Names -> Containers \cup {NoContainer}]
      /\ at'[Name] = NoContainer /\ at'[backup] = at[Name]
      /\ \A n \in Names : n # Name /\ n # backup => at'[n] = at[n]
      /\ \A m, n \in Names : at'[m] = at'[n] /\ Exists(m)' => m = n
  BY <1>1, RenameMoves, NameFacts DEF Inv
<1>3. Exists(Name) /\ Exists(backup)' /\ ~Exists(Name)' /\ ~Exists(backup)
      /\ \A n \in Names : n # Name /\ n # backup => (Exists(n)' <=> Exists(n))
  BY <1>2, ContainerFacts DEF Exists, DockerRename
<1>4. at'[Staging(run)] = run
  BY <1>1, <1>2, NameFacts DEF Inv, TypeOK
<1>5. TypeOK'
  BY <1>2, <1>3, <1>4, StepType DEF Inv, TypeOK, Labels, Swapped, Statuses
<1>6. NumbersGrow'
  BY <1>1, <1>2, <1>3, NameFacts, Occupied DEF Inv, NumbersGrow, Created, Runs
<1>7. BackupOfRun'
  BY <1>1, <1>2, <1>3 DEF Inv, BackupOfRun, Swapped
<1>8. OnlyNameIsUp'
  BY <1>1, <1>2, ContainerFacts DEF Inv, BackupOfRun, Swapped, OnlyNameIsUp, Up
<1>9. \A s \in Runs : s # run => at'[Backup(s)] = at[Backup(s)]
  BY <1>1, <1>2, NameFacts
<1>10. OldestWorks'
  <2>1. CASE at[Name] \in confirmed /\ \A r \in Runs : ~Exists(Backup(r))
    <3>1. at'[Backup(run)] \in confirmed /\ Exists(Backup(run))'
      BY <1>1, <1>2, <1>3, <2>1
    <3>2. ASSUME NEW s \in Runs, s < run PROVE ~Exists(Backup(s))'
      <4>1. s # run
        BY <1>1, <3>2, EarlierRuns
      <4> QED BY <1>9, <2>1, <4>1 DEF Exists
    <3> QED BY <1>1, <3>1, <3>2 DEF OldestWorks, Exists
  <2>2. CASE \E r \in Runs : /\ Exists(Backup(r)) /\ at[Backup(r)] \in confirmed
                           /\ \A s \in Runs : s < r => ~Exists(Backup(s))
    <3>1. PICK r \in Runs : /\ Exists(Backup(r)) /\ at[Backup(r)] \in confirmed
                            /\ \A s \in Runs : s < r => ~Exists(Backup(s))
      BY <2>2
    <3>2. r # run /\ r <= run /\ Backup(r) # backup /\ Backup(r) # Name /\ Backup(r) \in Names
      BY <1>1, <1>3, <3>1, NameFacts DEF Inv, NumbersGrow
    <3>3. Exists(Backup(r))' /\ at'[Backup(r)] \in confirmed
      BY <1>2, <1>3, <3>1, <3>2
    <3>4. ASSUME NEW s \in Runs, s < r PROVE ~Exists(Backup(s))'
      <4>1. s # run
        BY <1>1, <3>2, <3>4, EarlierRuns
      <4> QED BY <1>9, <3>1, <3>4, <4>1 DEF Exists
    <3> QED BY <3>3, <3>4 DEF OldestWorks, Exists
  <2> QED BY <2>1, <2>2 DEF Inv, OldestWorks
<1> QED BY <1>5, <1>6, <1>7, <1>8, <1>10 DEF Inv

LEMMA TakeNameInv == Inv /\ TakeName => Inv'
<1> SUFFICES ASSUME Inv, pc = "rename", DockerRename(Staging(run), Name), Goto("start"),
                    UNCHANGED <<status, confirmed>>
             PROVE  Inv'
  BY EndInv DEF TakeName, Abort
<1> USE DEF Goto, Script, History
<1>1. /\ run \in Runs /\ backup = Backup(run) /\ backup \in Names /\ backup # Name
      /\ Staging(run) \in Names /\ Staging(run) # Name /\ Staging(run) # backup
      /\ at[Staging(run)] = run /\ Exists(backup) /\ at[backup] = before
  BY RunsBackup, NameFacts DEF Inv, BackupOfRun, Swapped, TypeOK
<1>2. /\ at' \in [Names -> Containers \cup {NoContainer}]
      /\ at'[Staging(run)] = NoContainer /\ at'[Name] = run
      /\ \A n \in Names : n # Name /\ n # Staging(run) => at'[n] = at[n]
      /\ \A m, n \in Names : at'[m] = at'[n] /\ Exists(m)' => m = n
  BY <1>1, RenameMoves, NameFacts DEF Inv
<1>3. \A s \in Runs : at'[Backup(s)] = at[Backup(s)]
  BY <1>1, <1>2, NameFacts
<1>4. TypeOK'
  BY <1>1, <1>2, StepType DEF Inv, TypeOK, Labels, Swapped, Statuses
<1>5. NumbersGrow'
  <2>1. Created' = Created /\ run <= Created
    BY <1>1, Occupied DEF Inv, Created
  <2> QED BY <1>1, <1>2, <1>3, <2>1, NameFacts DEF Inv, NumbersGrow, Exists
<1>6. BackupOfRun'
  <2>1. Exists(backup)' /\ ~option
    BY <1>1, <1>2 DEF Inv, BackupOfRun, Exists
  <2> QED BY <2>1 DEF Inv, BackupOfRun, Swapped
<1>7. OnlyNameIsUp'
  BY <1>1, <1>2, ContainerFacts DEF Inv, OnlyNameIsUp, Up
<1>8. OldestWorks'
  BY <1>1, <1>3 DEF Inv, OldestWorks, Exists
<1> QED BY <1>4, <1>5, <1>6, <1>7, <1>8 DEF Inv

\* While the containers are swapped the way back is open: the backup is the
\* newest one, and holds the container the run began with.
LEMMA GoesBack ==
  ASSUME Inv, pc \in Swapped, Goto("remove"), UNCHANGED <<at, confirmed>>,
         status' \in [Containers -> Statuses]
  PROVE  TypeOK' /\ BackupOfRun'
<1> USE DEF Goto, Script, History
<1>1. /\ run \in Runs /\ backup = Backup(run) /\ Exists(backup) /\ ~option
      /\ at[backup] = before
  BY RunsBackup DEF Inv, BackupOfRun, Swapped, TypeOK
<1>2. TypeOK'
  BY <1>1, StepType DEF Inv, TypeOK, Exists, Labels, Swapped
<1>3. ASSUME NEW r \in Runs, NEW s \in Runs, backup = Backup(r), Exists(Backup(s))
      PROVE  s <= r
  BY <1>1, <1>3, NameFacts DEF Inv, NumbersGrow
<1>4. BackupOfRun'
  BY <1>1, <1>3 DEF Inv, BackupOfRun, Swapped, Exists
<1> QED BY <1>2, <1>4

LEMMA ScriptStartInv == Inv /\ Start => Inv'
<1> SUFFICES ASSUME Inv, pc = "start", UNCHANGED <<at, confirmed>>,
                    \/ DockerStart(Name) /\ Goto("connect")
                    \/ Goto("remove") /\ UNCHANGED status
             PROVE  Inv'
  BY DEF Start
<1>1. CASE DockerStart(Name) /\ Goto("connect")
  <2>1. /\ status' \in [Containers -> Statuses]
        /\ NumbersGrow' /\ OnlyNameIsUp' /\ OldestWorks'
    BY <1>1, StatusOfName DEF DockerStart, Statuses, Goto, Script
  <2>2. TypeOK'
    BY <1>1, <2>1, StepType DEF Inv, TypeOK, Exists, Labels, Swapped, Goto, Script, History
  <2>3. BackupOfRun'
    BY <1>1 DEF Inv, BackupOfRun, Swapped, Exists, Goto, Script, History
  <2> QED BY <2>1, <2>2, <2>3 DEF Inv
<1>2. CASE Goto("remove") /\ UNCHANGED status
  <2>1. TypeOK' /\ BackupOfRun'
    BY <1>2, GoesBack DEF Inv, TypeOK, Swapped, Statuses
  <2> QED BY <1>2, <2>1, StandStill DEF Inv, Goto, Script
<1> QED BY <1>1, <1>2

LEMMA ConnectInv == Inv /\ Connect => Inv'
<1> SUFFICES ASSUME Inv, pc = "connect", UNCHANGED <<at, status, confirmed>>,
                    Goto("wait") \/ Goto("remove")
             PROVE  Inv'
  BY DEF Connect, Docker
<1>1. CASE Goto("wait")
  <2>1. TypeOK'
    BY <1>1, StepType DEF Inv, TypeOK, Exists, Labels, Swapped, Statuses, Goto, Script, History
  <2>2. BackupOfRun'
    BY <1>1 DEF Inv, BackupOfRun, Swapped, Exists, Goto, Script, History
  <2> QED BY <1>1, <2>1, <2>2, StandStill DEF Inv, Goto, Script
<1>2. CASE Goto("remove")
  <2>1. TypeOK' /\ BackupOfRun'
    BY <1>2, GoesBack DEF Inv, TypeOK, Swapped, Statuses
  <2> QED BY <1>2, <2>1, StandStill DEF Inv, Goto, Script
<1> QED BY <1>1, <1>2

LEMMA WaitInv == Inv /\ Wait => Inv'
<1> SUFFICES ASSUME Inv, pc = "wait", UNCHANGED <<at, status>>,
                    \/ Goto("finish") /\ confirmed' = confirmed \cup {at[Name]}
                    \/ Goto("remove") /\ UNCHANGED confirmed
             PROVE  Inv'
  BY EndInv DEF Wait, Docker
<1>1. CASE Goto("finish") /\ confirmed' = confirmed \cup {at[Name]}
  <2>1. confirmed' \subseteq Containers /\ at'[Name] \in confirmed'
    BY <1>1, RunsBackup, ContainerFacts DEF Inv, TypeOK
  <2>2. TypeOK'
    BY <1>1, <2>1, StepType DEF Inv, TypeOK, Exists, Labels, Swapped, Statuses, Goto, Script, History
  <2>3. BackupOfRun'
    BY <1>1, <2>1 DEF Inv, BackupOfRun, Swapped, Exists, Goto, Script, History
  <2> QED BY <1>1, <2>2, <2>3, StandStill DEF Inv, Goto, Script
<1>2. CASE Goto("remove") /\ UNCHANGED confirmed
  <2>1. TypeOK' /\ BackupOfRun'
    BY <1>2, GoesBack DEF Inv, TypeOK, Swapped, Statuses
  <2> QED BY <1>2, <2>1, StandStill DEF Inv, Goto, Script
<1> QED BY <1>1, <1>2

\* The backup is given up only for a container that works.
LEMMA FinishInv == Inv /\ Finish => Inv'
<1> SUFFICES ASSUME Inv, pc = "finish", End("done"), DockerRemove(backup),
                    UNCHANGED <<status, confirmed>>
             PROVE  Inv'
  BY EndInv DEF Finish, Abort, Docker
<1>1. /\ run \in Runs /\ backup = Backup(run) /\ backup \in Names /\ backup # Name
      /\ Exists(backup) /\ at[Name] \in confirmed
  BY RunsBackup DEF Inv, BackupOfRun, Swapped
<1>2. /\ at'[backup] = NoContainer /\ at'[Name] = at[Name]
      /\ \A s \in Runs : s # run => at'[Backup(s)] = at[Backup(s)]
  BY <1>1, RemoveFrees, NameFacts DEF Inv
<1>3. TypeOK'
  BY <1>1, EndedType DEF Inv
<1>4. NumbersGrow' /\ OnlyNameIsUp'
  BY <1>1, Removal DEF End, Script
<1>5. BackupOfRun'
  BY DEF End, BackupOfRun, Swapped
<1>6. OldestWorks'
  <2>1. PICK r \in Runs : /\ Exists(Backup(r)) /\ at[Backup(r)] \in confirmed
                          /\ \A s \in Runs : s < r => ~Exists(Backup(s))
    BY <1>1 DEF Inv, OldestWorks
  <2>2. r <= run
    BY <2>1 DEF Inv, NumbersGrow
  <2>3. CASE r = run
    <3>1. \A s \in Runs : s # run => ~Exists(Backup(s))
      <4>1. \A s \in Runs : Exists(Backup(s)) => s <= run
        BY DEF Inv, NumbersGrow
      <4>2. \A s \in Runs : s # run => s < run \/ ~(s <= run)
        BY <1>1 DEF Runs
      <4> QED BY <2>1, <2>3, <4>1, <4>2
    <3>2. \A s \in Runs : at'[Backup(s)] = NoContainer
      BY <1>1, <1>2, <3>1 DEF Exists
    <3> QED BY <1>1, <1>2, <3>2 DEF OldestWorks, Exists
  <2>4. CASE r # run
    <3>1. \A s \in Runs : s < r => s # run
      BY <1>1, <2>2, EarlierRuns
    <3> QED BY <1>2, <2>1, <2>4, <3>1 DEF OldestWorks, Exists
  <2> QED BY <2>3, <2>4
<1> QED BY <1>3, <1>4, <1>5, <1>6 DEF Inv

LEMMA RemoveNewInv == Inv /\ RemoveNew => Inv'
<1> SUFFICES ASSUME Inv, pc = "remove", Goto("restore"), UNCHANGED <<status, confirmed>>,
                    DockerRemove(Name) \/ UNCHANGED at
             PROVE  Inv'
  BY EndInv DEF RemoveNew, Abort, Docker
<1> USE DEF Goto, Script, History
<1>1. /\ backup \in Names /\ backup # Name /\ Exists(backup)
      /\ \E r \in Runs : backup = Backup(r)
  BY RunsBackup DEF Inv, TypeOK
<1>2. /\ at' \in [Names -> Containers \cup {NoContainer}]
      /\ \A n \in Names : n # Name => at'[n] = at[n]
      /\ \A m, n \in Names : at'[m] = at'[n] /\ Exists(m)' => m = n
  BY RemoveFrees, NameFacts DEF Inv, TypeOK, Exists
<1>3. TypeOK'
  <2>1. Exists(backup)'
    BY <1>1, <1>2 DEF Exists
  <2> QED BY <1>2, <2>1, StepType DEF Inv, TypeOK, Labels, Swapped, Statuses
<1>4. NumbersGrow' /\ OnlyNameIsUp'
  BY NameFacts, Removal, StandStill
<1>5. BackupOfRun'
  BY <1>1, <1>2, NameFacts DEF Inv, BackupOfRun, Swapped, Exists
<1>6. OldestWorks'
  BY <1>1, <1>2, NameFacts DEF Inv, OldestWorks, Exists
<1> QED BY <1>3, <1>4, <1>5, <1>6 DEF Inv

\* The newest backup is the one restored: when it is also the oldest, it has
\* the name now and no backup is left.
LEMMA RestoreNameInv == Inv /\ RestoreName => Inv'
<1> SUFFICES ASSUME Inv, pc = "restore", DockerRename(backup, Name), Goto("restart"),
                    UNCHANGED <<status, confirmed>>
             PROVE  Inv'
  BY EndInv DEF RestoreName, Abort
<1> USE DEF Goto, Script, History
<1>1. /\ backup \in Names /\ backup # Name /\ Exists(backup)
      /\ run \in Runs
  BY RunsBackup DEF Inv, TypeOK
<1>2. PICK q \in Runs : /\ backup = Backup(q)
                        /\ \A s \in Runs : Exists(Backup(s)) => s <= q
  BY RunsBackup DEF Inv, BackupOfRun, Swapped
<1>3. /\ at[backup] \in Containers
      /\ at' \in [Names -> Containers \cup {NoContainer}]
      /\ at'[backup] = NoContainer /\ at'[Name] = at[backup]
      /\ \A n \in Names : n # Name /\ n # backup => at'[n] = at[n]
      /\ \A m, n \in Names : at'[m] = at'[n] /\ Exists(m)' => m = n
  BY <1>1, RenameMoves, NameFacts DEF Inv
<1>4. \A s \in Runs : s # q => at'[Backup(s)] = at[Backup(s)]
  BY <1>2, <1>3, NameFacts
<1>5. TypeOK'
  BY <1>3, StepType DEF Inv, TypeOK, Labels, Swapped, Statuses
<1>6. NumbersGrow'
  BY <1>1, <1>2, <1>3, <1>4, NameFacts DEF Inv, NumbersGrow, Created, Exists
<1>7. BackupOfRun'
  BY <1>1, <1>3 DEF Inv, BackupOfRun, Swapped
<1>8. OnlyNameIsUp'
  BY <1>1, <1>3, ContainerFacts DEF Inv, OnlyNameIsUp, Up
<1>9. OldestWorks'
  <2>1. PICK r \in Runs : /\ Exists(Backup(r)) /\ at[Backup(r)] \in confirmed
                          /\ \A s \in Runs : s < r => ~Exists(Backup(s))
    BY <1>1, <1>2 DEF Inv, OldestWorks
  <2>2. r <= q
    BY <1>2, <2>1
  <2>3. CASE r = q
    <3>1. \A s \in Runs : s # q => s < q \/ ~(s <= q)
      BY <1>2 DEF Runs
    <3>2. \A s \in Runs : s # q => ~Exists(Backup(s))
      BY <1>2, <2>1, <2>3, <3>1
    <3>3. \A s \in Runs : at'[Backup(s)] = NoContainer
      BY <1>2, <1>3, <1>4, <3>2 DEF Exists
    <3> QED BY <1>2, <1>3, <2>1, <2>3, <3>3 DEF OldestWorks, Exists
  <2>4. CASE r # q
    <3>1. \A s \in Runs : s < r => s # q
      BY <1>2, <2>2, EarlierRuns
    <3> QED BY <1>4, <2>1, <2>4, <3>1 DEF OldestWorks, Exists
  <2> QED BY <2>3, <2>4
<1> QED BY <1>5, <1>6, <1>7, <1>8, <1>9 DEF Inv

LEMMA RestartOldInv == Inv /\ RestartOld => Inv'
<1> SUFFICES ASSUME Inv, pc = "restart", DockerStart(Name), UNCHANGED <<at, confirmed>>,
                    NEW how \in {"done", "died"}, End(how)
             PROVE  Inv'
  BY EndInv DEF RestartOld, Abort
<1> USE DEF End, Script, History
<1>1. /\ status' \in [Containers -> Statuses]
      /\ NumbersGrow' /\ OnlyNameIsUp' /\ OldestWorks'
  BY StatusOfName DEF DockerStart, Statuses
<1>2. TypeOK'
  <2>1. option' \in BOOLEAN /\ wasUp' \in BOOLEAN
    BY DEF Inv, TypeOK
  <2>2. run' \in 0..MaxRuns /\ backup' \in Names /\ before' \in Containers \cup {NoContainer}
    BY DEF Inv, TypeOK
  <2> QED BY <1>1, <2>1, <2>2 DEF Inv, TypeOK, Statuses, Exists
<1>3. BackupOfRun'
  BY DEF BackupOfRun, Swapped
<1> QED BY <1>1, <1>2, <1>3 DEF Inv

\* A container that dies by itself or is started again stays up for docker.
LEMMA FlapInv == Inv /\ (Dies \/ Restart) => Inv'
<1> SUFFICES ASSUME Inv, NEW c \in Containers, status[c] \in {"running", "exited"},
                    NEW s \in {"running", "exited"}, status' = [status EXCEPT ![c] = s],
                    UNCHANGED <<at, pc, Script, outcome, History, confirmed>>
             PROVE  Inv'
  BY DEF Dies, Restart
<1> USE DEF Script, History
<1>1. /\ status' \in [Containers -> Statuses] /\ status'[c] = s
      /\ \A d \in Containers : d # c => status'[d] = status[d]
  BY DEF Inv, TypeOK, Statuses
<1>2. \A d : Up(d)' <=> Up(d)
  BY <1>1 DEF Up
<1>3. TypeOK'
  <2>1. option' \in BOOLEAN /\ wasUp' \in BOOLEAN
    BY DEF Inv, TypeOK
  <2>2. run' \in 0..MaxRuns /\ backup' \in Names /\ before' \in Containers \cup {NoContainer}
    BY DEF Inv, TypeOK
  <2> QED BY <1>1, <2>1, <2>2 DEF Inv, TypeOK, Statuses, Exists
<1>4. NumbersGrow'
  BY <1>1 DEF Inv, NumbersGrow, Created, Exists
<1>5. BackupOfRun'
  <2>1. Restored' <=> Restored
    BY <1>2 DEF Restored
  <2>2. pc = "back up" => status'[before] = "stopped"
    BY <1>1, Occupied, NameFacts DEF Inv, BackupOfRun, Swapped
  <2> QED BY <2>1, <2>2 DEF Inv, BackupOfRun, Swapped, Exists
<1>6. OnlyNameIsUp'
  BY <1>2 DEF Inv, OnlyNameIsUp
<1>7. OldestWorks'
  BY DEF Inv, OldestWorks, Exists
<1> QED BY <1>3, <1>4, <1>5, <1>6, <1>7 DEF Inv

LEMMA NextInv == Inv /\ [Next]_vars => Inv'
<1> SUFFICES ASSUME Inv, [Next]_vars PROVE Inv'
  OBVIOUS
<1>1. CASE StartApply \/ StartRollback
  BY <1>1, StartInv
<1>2. CASE Create \/ Compare
  BY <1>2, CreateInv, CompareInv
<1>3. CASE Stop \/ BackUp \/ TakeName
  BY <1>3, StopInv, BackUpInv, TakeNameInv
<1>4. CASE Start \/ Connect \/ Wait \/ Finish
  BY <1>4, ScriptStartInv, ConnectInv, WaitInv, FinishInv
<1>5. CASE RemoveNew \/ RestoreName \/ RestartOld
  BY <1>5, RemoveNewInv, RestoreNameInv, RestartOldInv
<1>6. CASE Kill
  BY <1>6, EndInv DEF Kill
<1>7. CASE Dies \/ Restart
  BY <1>7, FlapInv
<1>8. CASE UNCHANGED vars
  <2>1. option' \in BOOLEAN /\ wasUp' \in BOOLEAN
    BY <1>8 DEF Inv, TypeOK, vars
  <2>2. TypeOK'
    BY <1>8, <2>1 DEF Inv, TypeOK, vars, Exists
  <2>3. /\ NumbersGrow' /\ BackupOfRun' /\ OnlyNameIsUp' /\ OldestWorks'
    BY <1>8 DEF Inv, NumbersGrow, Created, BackupOfRun, Swapped, OnlyNameIsUp, OldestWorks,
                vars, Exists, Up, Restored
  <2> QED BY <2>2, <2>3 DEF Inv
<1> QED BY <1>1, <1>2, <1>3, <1>4, <1>5, <1>6, <1>7, <1>8 DEF Next

LEMMA Invariance == Spec => []Inv
<1>1. Init => Inv
  BY InitInv
<1>2. Inv /\ [Next]_vars => Inv'
  BY NextInv
<1> QED BY <1>1, <1>2, PTL DEF Spec

-----------------------------------------------------------------------------

\* The state is well typed: no container has two names, and a step of the
\* script finds the containers its earlier steps named
\* (recreate-with-mod.sh:321-418).
THEOREM TypeCorrect == Spec => []TypeOK
<1>1. Inv => TypeOK
  BY DEF Inv
<1> QED BY <1>1, Invariance, PTL

\* However often the script is run, killed or rolled back, two containers are
\* never up at once (recreate-with-mod.sh:370-386, 377-382, 93-97).
THEOREM NeverTwoAreUp == Spec => []NeverTwoUp
<1>1. Inv => NeverTwoUp
  <2> SUFFICES ASSUME Inv PROVE Cardinality({c \in Range(at) : Up(c)}) <= 1
    BY DEF NeverTwoUp
  <2>1. {c \in Range(at) : Up(c)} \subseteq {at[Name]}
    BY DEF Inv, TypeOK, OnlyNameIsUp, Range
  <2>2. IsFiniteSet({at[Name]}) /\ Cardinality({at[Name]}) = 1
    BY FS_Singleton
  <2>3. Cardinality({c \in Range(at) : Up(c)}) <= Cardinality({at[Name]})
    BY <2>1, <2>2, FS_Subset
  <2> QED BY <2>2, <2>3
<1> QED BY <1>1, Invariance, PTL

\* No sequence of runs, failures, kills and rollbacks gives up the last
\* container that was seen to work (recreate-with-mod.sh:397-418).
THEOREM WorkingContainerIsKept == Spec => []OneThatWorksIsKept
<1>1. Inv => OneThatWorksIsKept
  <2> SUFFICES ASSUME Inv PROVE OneThatWorksIsKept
    OBVIOUS
  <2>1. PICK n \in Names : at[n] \in confirmed
    BY NameFacts DEF Inv, OldestWorks
  <2>2. at[n] \in Range(at)
    BY DEF Inv, TypeOK, Range
  <2> QED BY <2>1, <2>2 DEF OneThatWorksIsKept
<1> QED BY <1>1, Invariance, PTL

\* A script that dies with a message leaves the container it was given under
\* its name, and up if it was (recreate-with-mod.sh:359-364, 377-385, 406-409).
THEOREM DeathRestores == Spec => DiesRestored
<1>1. ASSUME Inv, [Next]_vars, pc # "ended", outcome' = "died"
      PROVE  Restored'
  <2>1. outcome # "died"
    BY <1>1 DEF Inv, BackupOfRun, Swapped
  <2>2. \/ Create /\ End("died")
        \/ Compare /\ End("died")
        \/ RestartOld /\ ~option /\ DockerStart(Name)
    BY <1>1, <2>1 DEF Next, vars, Goto, End, Abort, StartApply, StartRollback, StartRun, Create,
         Compare, Stop, BackUp, TakeName, Start, Connect, Wait, Finish, RemoveNew,
         RestoreName, RestartOld, Kill, Dies, Restart
  <2>3. CASE Create /\ End("died")
    <3>1. pc = "create" /\ at'[Name] = at[Name] /\ UNCHANGED <<status, before, wasUp>>
      BY <1>1, <2>3, RunsBackup, NameFacts DEF Create, End, History, Inv, TypeOK
    <3> QED BY <1>1, <3>1 DEF Inv, BackupOfRun, Swapped, Restored, Up
  <2>4. CASE Compare /\ End("died")
    <3>1. pc = "compare" /\ at'[Name] = at[Name] /\ UNCHANGED <<status, before, wasUp>>
      BY <1>1, <2>4, RunsBackup, NameFacts, RemoveFrees DEF Compare, End, Goto, History, Inv
    <3> QED BY <1>1, <3>1 DEF Inv, BackupOfRun, Swapped, Restored, Up
  <2>5. CASE RestartOld /\ ~option /\ DockerStart(Name)
    <3>1. /\ pc = "restart" /\ Exists(Name) /\ UNCHANGED <<at, before, wasUp>>
          /\ status' = [status EXCEPT ![at[Name]] = "running"]
      BY <2>5 DEF RestartOld, DockerStart, End, Abort, History, Docker
    <3>2. at[Name] = before /\ before \in Containers
      BY <1>1, <2>5, <3>1, Occupied, NameFacts DEF Inv, BackupOfRun, Swapped
    <3> QED BY <1>1, <3>1, <3>2 DEF Inv, TypeOK, Restored, Up
  <2> QED BY <2>2, <2>3, <2>4, <2>5
<1>2. Inv /\ [Next]_vars => [pc # "ended" /\ outcome' = "died" => Restored']_vars
  BY <1>1
<1> QED BY <1>2, Invariance, PTL DEF Spec, DiesRestored

=============================================================================
