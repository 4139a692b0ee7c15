--------------------------- MODULE RunnerHistory ---------------------------
(***************************************************************************)
(* Runner with the history of two properties about several polls: when     *)
(* Plex last failed to answer for an item, and how long ago the last poll  *)
(* returned.                                                               *)
(***************************************************************************)
EXTENDS Runner

VARIABLES sinceTrouble,  \* ticks since a lookup of each item failed by itself, NegTTL for longer
          rested         \* ticks since the last poll returned, PollInterval for longer or if none did

pastVars == <<vars, sinceTrouble, rested>>

\* Plex errs, or leaves a request unanswered for the whole of its timeout,
\* before the context of the poll is done.
Troubled(key) ==
  /\ call.active /\ call.key = key /\ call.response # Meta!Failure
  /\ call'.active /\ call'.response = Meta!Failure
  /\ ~ContextDone

\* A poll begins, and one returns to the loop.
Begins == StartPoll \/ SkipPoll \/ MissToken
Returns == pc' = "sleeping" /\ (~Idle \/ SkipPoll \/ MissToken)

Older(age, most) == IF age < most THEN age + 1 ELSE most

PastInit ==
  /\ Init
  /\ sinceTrouble = [key \in Keys |-> NegTTL]
  /\ rested = PollInterval

PastNext ==
  /\ Next
  /\ sinceTrouble' = [key \in Keys |-> IF Troubled(key) THEN 0
                                       ELSE IF Tick THEN Older(sinceTrouble[key], NegTTL)
                                       ELSE sinceTrouble[key]]
  /\ rested' = IF Returns THEN 0
               ELSE IF Crash THEN PollInterval
               ELSE IF Tick THEN Older(rested, PollInterval)
               ELSE rested

PastSpec == PastInit /\ [][PastNext]_pastVars

-----------------------------------------------------------------------------

\* A session is left alone for a remembered failure only when a lookup of its
\* item failed by itself within the negative lifetime: what the deadline of a
\* poll or a shutdown cut off is not held against the item at the polls that
\* follow (runner.go:359-364, 345-348).
LeftAloneOnlyOnTrouble ==
  [][pc = "loop" /\ pc' = "judge" /\ reply' = Meta!Failure
       => sinceTrouble[Current.ratingKey] < NegTTL]_pastVars

\* While the process lives, a poll begins no sooner than an interval after the
\* last one returned, however that one ended and however many failed before
\* it: "backoff never shortens a poll" (runner.go:27-29, 192-204).
PollsAreSpaced == [][Begins => rested = PollInterval]_pastVars
=============================================================================
