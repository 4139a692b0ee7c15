-------------------------- MODULE CooldownContract --------------------------
(***************************************************************************)
(* What the cooldown promises to its caller, with no clock and no pruning: *)
(* every id carries the time left before it may be acted upon again.  It   *)
(* never forgets an id whose window is open, except when the process that  *)
(* holds it restarts.  Cooldown.tla implements it, and Runner.tla is built *)
(* on it.                                                                  *)
(***************************************************************************)
EXTENDS Integers

CONSTANTS Ids,     \* what is acted upon: "<mode>:<Session id>" in the runner
          Window   \* the cooldown's window, in ticks (0 disables it)

VARIABLES left,    \* left[id]: ticks until id may be acted upon again
          answer   \* the last answer of Allow

vars == <<left, answer>>

NoAnswer == [allowed |-> FALSE, remaining |-> 0]
Open == [id \in Ids |-> 0]
Answer(allowed, remaining) == [allowed |-> allowed, remaining |-> remaining]

Init == left = Open /\ answer = NoAnswer

\* Allow(id) answers yes, and the window of id opens.
Grant(id) ==
  /\ left[id] = 0
  /\ left' = [left EXCEPT ![id] = Window]
  /\ answer' = Answer(TRUE, 0)

\* Allow(id) answers no, and says how long the caller has to wait.
Refuse(id) ==
  /\ left[id] > 0
  /\ answer' = Answer(FALSE, left[id])
  /\ UNCHANGED left

Allow(id) == Grant(id) \/ Refuse(id)

Elapse(l) == [id \in Ids |-> IF l[id] > 0 THEN l[id] - 1 ELSE 0]

\* One unit of time passes.
Tick == left' = Elapse(left) /\ UNCHANGED answer

\* The process restarts: what it remembered is lost.
Restart == left' = Open /\ answer' = NoAnswer

Next == (\E id \in Ids : Allow(id)) \/ Tick \/ Restart

Spec == Init /\ [][Next]_vars
=============================================================================
