-------------------------- MODULE RefreshTriggers --------------------------
(***************************************************************************)
(* GetOrSet with a history variable: which flights the stale hits count    *)
(* on.  refreshAsync starts a flight or joins the one that runs, and that  *)
(* one may have been started by a miss, whose closure reports nothing.     *)
(***************************************************************************)
EXTENDS GetOrSet

VARIABLE triggered   \* the flights that a stale hit has started or joined

historyVars == <<vars, triggered>>

(* The callers that serve a stale entry in this step.  Early refreshes are *)
(* not recorded.                                                           *)
StaleHits ==
  {c \in Callers : /\ call[c].pc = "got" /\ call'[c].pc = "idle"
                   /\ stale(parseStored(call[c].data), now)}

HistoryInit == Init /\ triggered = {}

HistoryNext ==
  /\ Next
  /\ triggered' = {f \in triggered : state'[f] # "free"}
                    \cup {calls'[flightKey(c)] : c \in StaleHits}

HistorySpec == HistoryInit /\ [][HistoryNext]_historyVars

(* "refreshAsync starts (or joins) a background refresh flight" whose      *)
(* failures "are reported through Hooks.OnError with OpRefresh" and "that  *)
(* hook is their only visibility": when the flight that a stale hit relies *)
(* on fails, the failure is reported, or at least somebody still waits for *)
(* the flight and gets the error.  It holds as long as no caller leaves    *)
(* its flight early.                                                       *)
FailedRefreshVisible ==
  \A f \in triggered :
    res[f] # NoResult /\ res[f].err # "nil" =>
      flight[f].onRefreshError \/ \E c \in Callers : waits[c] = f
=============================================================================
