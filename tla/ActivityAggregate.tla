--------------------------- MODULE ActivityAggregate ---------------------------
(***************************************************************************)
(* server/registry: which Sessions have activity that must keep the        *)
(* machine awake.  The registry tells the sleep observer only when the set *)
(* becomes empty or stops being empty.                                     *)
(***************************************************************************)
CONSTANT Sessions

VARIABLE blocking   \* RuntimeRegistry.blockingActivitySessions

\* The set after one Session's state is recorded.
Recorded(s, activeForControl) ==
  IF activeForControl THEN blocking \cup {s} ELSE blocking \ {s}

\* Deliberately wrong: every update is reported, not only a transition.
ReportsEveryUpdate(s, activeForControl) == TRUE

\* Does recording a Session's state change what the observer was told?
Reported(s, activeForControl) ==
  (blocking # {}) # (Recorded(s, activeForControl) # {})
===============================================================================
