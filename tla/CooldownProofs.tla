--------------------------- MODULE CooldownProofs ---------------------------
(***************************************************************************)
(* Cooldown proved for every set of ids, window and horizon.  The          *)
(* inductive invariant adds to TypeOK, which bounds every entry by the     *)
(* clock, and to RememberedWhileOpen, which says that an entry lost to     *)
(* Prune could not have blocked anything, that a disabled cooldown records *)
(* nothing at all.                                                         *)
(***************************************************************************)
EXTENDS Cooldown, TLAPS

DisabledIsEmpty == Window = 0 => \A id \in Ids : last[id] = NoEntry

Inv == TypeOK /\ RememberedWhileOpen /\ DisabledIsEmpty

LEMMA InitInv == Init => Inv
  BY CooldownAssumption
     DEF Init, NewCooldown, Empty, NoEntry, Inv, TypeOK, RememberedWhileOpen,
         DisabledIsEmpty

LEMMA GrantInv ==
  ASSUME NEW id \in Ids, Inv, Grant(id)
  PROVE  Inv'
<1> USE CooldownAssumption DEF Inv, NoEntry, DisabledIsEmpty
<1>1. TypeOK'
  BY DEF Grant, TypeOK
<1>2. RememberedWhileOpen'
  BY DEF Grant, TypeOK, RememberedWhileOpen, Blocked
<1>3. DisabledIsEmpty'
  BY DEF Grant
<1> QED BY <1>1, <1>2, <1>3

LEMMA PruneInv == Inv /\ Prune => Inv'
<1> SUFFICES ASSUME Inv, Prune PROVE Inv'
  OBVIOUS
<1> USE CooldownAssumption DEF Inv, NoEntry, DisabledIsEmpty
<1>1. TypeOK'
  BY DEF Prune, TypeOK
<1>2. RememberedWhileOpen'
  BY DEF Prune, Kept, TypeOK, RememberedWhileOpen
<1>3. DisabledIsEmpty'
  BY DEF Prune, Kept
<1> QED BY <1>1, <1>2, <1>3

LEMMA NextInv == Inv /\ [Next]_vars => Inv'
<1> SUFFICES ASSUME Inv, [Next]_vars PROVE Inv'
  OBVIOUS
<1>1. ASSUME NEW id \in Ids, Grant(id) PROVE Inv'
  BY <1>1, GrantInv
<1>2. ASSUME NEW id \in Ids, Refuse(id) PROVE Inv'
  BY <1>2 DEF Inv, TypeOK, RememberedWhileOpen, DisabledIsEmpty, Refuse
<1>3. CASE Prune
  BY <1>3, PruneInv
<1>4. CASE Tick
  BY <1>4, CooldownAssumption
     DEF Inv, TypeOK, RememberedWhileOpen, DisabledIsEmpty, Tick, NoEntry
<1>5. CASE Restart
  BY <1>5 DEF Inv, TypeOK, RememberedWhileOpen, DisabledIsEmpty, Restart, Empty, NoEntry
<1>6. CASE UNCHANGED vars
  BY <1>6 DEF Inv, TypeOK, RememberedWhileOpen, DisabledIsEmpty, vars
<1> QED BY <1>1, <1>2, <1>3, <1>4, <1>5, <1>6 DEF Next

\* Every entry, and every remembered grant, is a time that has passed.
THEOREM TypeCorrect == Spec => []TypeOK
<1>1. Spec => []Inv
  BY InitInv, NextInv, PTL DEF Spec
<1> QED BY <1>1, PTL DEF Inv

\* Prune never drops, and no call ever overwrites, an entry that still blocks
\* its id (cooldown.go:25-54).
THEOREM NothingOpenIsForgotten == Spec => []RememberedWhileOpen
<1>1. Spec => []Inv
  BY InitInv, NextInv, PTL DEF Spec
<1> QED BY <1>1, PTL DEF Inv

LEMMA StepIsSpaced ==
  Inv /\ [Next]_vars =>
    [\A id \in Ids : Grant(id) => granted[id] = NoEntry \/ now - granted[id] >= Window]_vars
<1> SUFFICES ASSUME Inv, NEW id \in Ids, Grant(id), granted[id] # NoEntry
             PROVE  now - granted[id] >= Window
  OBVIOUS
<1> QED BY CooldownAssumption
        DEF Inv, TypeOK, RememberedWhileOpen, Grant, Blocked, NoEntry

\* Two grants of one id are at least a window apart (cooldown.go:8-10).
THEOREM Spacing == Spec => GrantsAreSpaced
<1>1. Spec => []Inv
  BY InitInv, NextInv, PTL DEF Spec
<1> QED BY <1>1, StepIsSpaced, PTL DEF Spec, GrantsAreSpaced

-----------------------------------------------------------------------------
(* Refinement: each step of the map and the clock is a step of the          *)
(* countdown, or, for Prune, a stuttering step.                             *)

LEMMA InitRefines == Init => Contract!Init
  BY DEF Init, NewCooldown, Empty, Left, Blocked, Contract!Init, Contract!Open,
         NoAnswer, Contract!NoAnswer

LEMMA GrantRefines ==
  ASSUME NEW id \in Ids, Inv, Grant(id)
  PROVE  Contract!Grant(id)
<1> USE CooldownAssumption DEF Inv, TypeOK, NoEntry, Grant, Blocked, Left
<1>1. Left[id] = 0
  OBVIOUS
<1>2. \A i \in Ids : Left'[i] = IF i = id THEN Window ELSE Left[i]
  OBVIOUS
<1>3. Left' = [Left EXCEPT ![id] = Window]
  BY <1>2
<1>4. answer' = Contract!Answer(TRUE, 0)
  BY DEF Answer, Contract!Answer
<1> QED BY <1>1, <1>3, <1>4 DEF Contract!Grant

LEMMA RefuseRefines ==
  ASSUME NEW id \in Ids, Inv, Refuse(id)
  PROVE  Contract!Refuse(id)
<1>1. Left[id] > 0 /\ Left[id] = Window - (now - last[id])
  BY CooldownAssumption DEF Inv, TypeOK, NoEntry, Refuse, Blocked, Left
<1>2. Left' = Left
  BY DEF Refuse, Blocked, Left
<1>3. answer' = Contract!Answer(FALSE, Left[id])
  BY <1>1 DEF Refuse, Answer, Contract!Answer
<1> QED BY <1>1, <1>2, <1>3 DEF Contract!Refuse

LEMMA PruneRefines == Inv /\ Prune => UNCHANGED <<Left, answer>>
<1> SUFFICES ASSUME Inv, Prune PROVE Left' = Left /\ answer' = answer
  OBVIOUS
<1>1. \A i \in Ids : Left'[i] = Left[i]
  BY CooldownAssumption DEF Inv, TypeOK, NoEntry, Prune, Kept, Blocked, Left
<1> QED BY <1>1 DEF Left, Prune

LEMMA TickRefines == Inv /\ Tick => Contract!Tick
<1> SUFFICES ASSUME Inv, Tick PROVE Contract!Tick
  OBVIOUS
<1>1. \A i \in Ids : Left'[i] = IF Left[i] > 0 THEN Left[i] - 1 ELSE 0
  BY CooldownAssumption DEF Inv, TypeOK, NoEntry, Tick, Blocked, Left
<1>2. Left' = Contract!Elapse(Left)
  BY <1>1 DEF Left, Contract!Elapse
<1> QED BY <1>2 DEF Contract!Tick, Tick

LEMMA RestartRefines == Restart => Contract!Restart
  BY DEF Restart, Empty, Left, Blocked, Contract!Restart, Contract!Open,
         NoAnswer, Contract!NoAnswer

LEMMA NextRefines == Inv /\ [Next]_vars => [Contract!Next]_(Contract!vars)
<1> SUFFICES ASSUME Inv, [Next]_vars PROVE [Contract!Next]_(Contract!vars)
  OBVIOUS
<1> USE DEF Contract!Next, Contract!Allow, Contract!vars
<1>1. ASSUME NEW id \in Ids, Grant(id) PROVE Contract!Next
  BY <1>1, GrantRefines
<1>2. ASSUME NEW id \in Ids, Refuse(id) PROVE Contract!Next
  BY <1>2, RefuseRefines
<1>3. CASE Prune
  BY <1>3, PruneRefines
<1>4. CASE Tick
  BY <1>4, TickRefines
<1>5. CASE Restart
  BY <1>5, RestartRefines
<1>6. CASE UNCHANGED vars
  BY <1>6 DEF vars, Left, Blocked
<1> QED BY <1>1, <1>2, <1>3, <1>4, <1>5, <1>6 DEF Next

\* The cooldown keeps its contract: a countdown per id that never forgets.
THEOREM Implementation == Spec => ImplementsContract
<1>1. Spec => []Inv
  BY InitInv, NextInv, PTL DEF Spec
<1> QED BY <1>1, InitRefines, NextRefines, PTL
        DEF Spec, ImplementsContract, Contract!Spec
=============================================================================
