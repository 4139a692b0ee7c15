------------------------------ MODULE Cooldown ------------------------------
(***************************************************************************)
(* The cooldown (internal/guard/cooldown.go): a map from ids to the time   *)
(* each was last acted upon, consulted and updated by Allow, emptied of    *)
(* expired entries by Prune.  Each method holds the mutex throughout, so   *)
(* each is one step, whoever calls it.  The map lives in memory: a restart *)
(* of the process loses it.                                                *)
(***************************************************************************)
EXTENDS Integers

CONSTANTS Ids, Window,
          Horizon   \* TLC's bound: the clock stops there

ASSUME CooldownAssumption ==
  /\ Window \in Nat /\ Horizon \in Nat

VARIABLES now,      \* the clock
          last,     \* last[id]: when id was last acted upon, or NoEntry
          answer,   \* the last answer of Allow
          granted   \* history: when id was last granted by this process, pruned or not

vars == <<now, last, answer, granted>>

NoEntry == -1
NoAnswer == [allowed |-> FALSE, remaining |-> 0]
Answer(allowed, remaining) == [allowed |-> allowed, remaining |-> remaining]
Empty == [id \in Ids |-> NoEntry]

NewCooldown == last = Empty /\ answer = NoAnswer /\ granted = Empty

Init == now = 0 /\ NewCooldown

\* Mutant of Blocked: the window closes one tick early.
BlockedTooShort(id) == last[id] # NoEntry /\ now - last[id] < Window - 1

\* id has an entry whose window is still open.
Blocked(id) == last[id] # NoEntry /\ now - last[id] < Window

\* Mutant of Grant: the end of the window is recorded instead of its start.
GrantUntil(id) ==
  /\ Window = 0 \/ ~Blocked(id)
  /\ last' = IF Window = 0 THEN last ELSE [last EXCEPT ![id] = now + Window]
  /\ answer' = Answer(TRUE, 0)
  /\ granted' = [granted EXCEPT ![id] = now]
  /\ UNCHANGED now

\* Allow succeeds and records the time, unless the cooldown is disabled.
Grant(id) ==
  /\ Window = 0 \/ ~Blocked(id)
  /\ last' = IF Window = 0 THEN last ELSE [last EXCEPT ![id] = now]
  /\ answer' = Answer(TRUE, 0)
  /\ granted' = [granted EXCEPT ![id] = now]
  /\ UNCHANGED now

\* Mutant of Refuse: a refused call starts the window again.
RefuseAgain(id) ==
  /\ Window > 0 /\ Blocked(id)
  /\ answer' = Answer(FALSE, Window - (now - last[id]))
  /\ last' = [last EXCEPT ![id] = now]
  /\ UNCHANGED <<now, granted>>

\* Allow refuses and answers with the time left in the window.
Refuse(id) ==
  /\ Window > 0 /\ Blocked(id)
  /\ answer' = Answer(FALSE, Window - (now - last[id]))
  /\ UNCHANGED <<now, last, granted>>

\* Mutant of Kept: the comparison of the prune is turned round.
KeptWhenExpired(id) == last[id] # NoEntry /\ now - last[id] >= Window

\* The entries that survive a prune: those whose window has not expired.
Kept(id) == last[id] # NoEntry /\ ~(now - last[id] >= Window)

Prune ==
  /\ last' = [id \in Ids |-> IF Kept(id) THEN last[id] ELSE NoEntry]
  /\ UNCHANGED <<now, answer, granted>>

Tick == now < Horizon /\ now' = now + 1 /\ UNCHANGED <<last, answer, granted>>

\* The process dies and is started again by its supervisor.
Restart == last' = Empty /\ answer' = NoAnswer /\ granted' = Empty /\ UNCHANGED now

Next ==
  \/ \E id \in Ids : Grant(id) \/ Refuse(id)
  \/ Prune
  \/ Tick
  \/ Restart

Spec == Init /\ [][Next]_vars

-----------------------------------------------------------------------------

TypeOK ==
  /\ now \in Nat
  /\ last \in [Ids -> Nat \cup {NoEntry}]
  /\ granted \in [Ids -> Nat \cup {NoEntry}]
  /\ \A id \in Ids : last[id] <= now /\ granted[id] <= now

\* Pruning forgets nothing that matters: an id granted less than a window
\* ago still has the entry that blocks it, whenever Prune ran in between, and
\* every entry is the time of the latest grant (cooldown.go:25-54).
RememberedWhileOpen ==
  \A id \in Ids :
    /\ Window > 0 /\ granted[id] # NoEntry /\ now - granted[id] < Window
         => last[id] = granted[id]
    /\ last[id] # NoEntry => last[id] = granted[id]

\* No id is granted twice within one window by one process, across any
\* interleaving of calls, prunes and time ("a session is not terminated (or
\* reported in dry-run) more than once per window", cooldown.go:8-10).
GrantsAreSpaced ==
  [][\A id \in Ids :
       Grant(id) => granted[id] = NoEntry \/ now - granted[id] >= Window]_vars

\* The time left that Allow's caller would be told, computed from the map.
Left == [id \in Ids |-> IF Blocked(id) THEN Window - (now - last[id]) ELSE 0]

Contract == INSTANCE CooldownContract WITH left <- Left

\* The map, the clock and the pruning implement the countdown per id that
\* never forgets: answers included, no caller can tell them apart.
ImplementsContract == Contract!Spec
=============================================================================
