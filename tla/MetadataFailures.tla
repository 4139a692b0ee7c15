-------------------------- MODULE MetadataFailures --------------------------
(***************************************************************************)
(* MetadataCache with the history its properties about failures need: how  *)
(* long ago the last lookup of a key failed.                               *)
(***************************************************************************)
EXTENDS MetadataCache

VARIABLE sinceFailure  \* ticks since the last stored failure of each key, NegTTL for longer

historyVars == <<vars, sinceFailure>>

Later(age) == IF age < NegTTL THEN age + 1 ELSE NegTTL

\* Keys whose entry a store threw away to make room.
Evicted == {key \in DOMAIN cache : Fresh(key) /\ key \notin DOMAIN WithRoom}

HistoryInit == Init /\ sinceFailure = [key \in Keys |-> NegTTL]

HistoryNext ==
  /\ Next
  /\ sinceFailure' =
       [key \in Keys |->
          IF FetchFails /\ key = call.key THEN 0
          ELSE IF FetchSucceeds /\ key = call.key THEN NegTTL
          ELSE IF (FetchFails \/ FetchSucceeds) /\ key \in Evicted THEN NegTTL
          ELSE IF Tick THEN Later(sinceFailure[key])
          ELSE sinceFailure[key]]

HistorySpec == HistoryInit /\ [][HistoryNext]_historyVars

-----------------------------------------------------------------------------

\* A failure is remembered: for at least the negative lifetime less the time
\* the request took, every lookup of the item is answered without a request,
\* unless a full cache was emptied in between (runner.go:354-363, 373-383).
FailureIsRemembered ==
  \A key \in Keys, media \in MediaIDs \cup {NoID} :
    sinceFailure[key] < NegTTL - RequestMax => Usable(key, media)

\* And it is forgotten: a lookup is answered with a remembered failure only
\* within the negative lifetime of the failure, so that an item that recovers
\* is looked at again (runner.go:345-348, 361).
FailureIsForgotten ==
  \A key \in DOMAIN cache :
    Fresh(key) /\ cache[key].failed => sinceFailure[key] < NegTTL

\* A failure that was stored this instant answers the next lookup, so that "a
\* deleted item or a stalled endpoint does not cost one request and one
\* warning per poll" (runner.go:16-18).
NewFailureIsRemembered == \A key \in Keys : sinceFailure[key] = 0 => Fresh(key)
=============================================================================
