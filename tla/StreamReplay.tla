---------------------------- MODULE StreamReplay ----------------------------
(***************************************************************************)
(* The loop of replay_events over an arbitrary stream: whatever was written *)
(* to the events table, what does a stream that replays prove on its own?  *)
(* Any event may come next; the stream ends, invalid, at the first one     *)
(* that is not legal.                                                      *)
(***************************************************************************)
EXTENDS Replay

VARIABLE state    \* the ReplayState after the events read so far

Events ==
    {Created([d \in {} |-> 0]), Started}
    \cup {RequestStarted(id, u) : id \in RequestIds, u \in Usages}
    \cup {ResponseCompleted(id, u) : id \in RequestIds, u \in Usages}
    \cup {RequestAmbiguous(id) : id \in RequestIds}
    \cup {Snapshot(u, v) : u \in Usages, v \in Usages}
    \cup {Recorded(n) : n \in ArtifactNames} \cup {NotProduced(n) : n \in ArtifactNames}
    \cup {EvaluationCompleted(o) : o \in Outcomes}
    \cup {TerminalEvent(st, o, re) :
            st \in Statuses \ {"absent"}, o \in Outcomes \cup {None}, re \in Reasons}

ReplayInit == state = Empty
ReplayNext == \E e \in Events : Legal(state, e) /\ state' = Apply(state, e)
ReplaySpec == ReplayInit /\ [][ReplayNext]_state

-----------------------------------------------------------------------------
(* Properties. *)

ReplayTypeOK ==
    state \in [created : BOOLEAN, status : Statuses \ {"absent"},
               used : BudgetUsage, reserved : BudgetUsage,
               artifacts : SUBSET ArtifactNames, absent : SUBSET ExpectedNames,
               outcome : Outcomes \cup {None}, id : RequestIds \cup {None},
               request : {"not_started", "started", "completed", "ambiguous"},
               maximum : BudgetUsage, reported : BudgetUsage, returned : BOOLEAN, reason : Reasons,
               pending : {None, "reserve", "reconcile", "ambiguous"}, amount : BudgetUsage]

(* Once no snapshot is due, the spend a stream shows is the one its        *)
(* request justifies: nothing before a request, all of it reserved while   *)
(* it is open, exactly the usage its response event reports once answered, *)
(* within the maximum, and the whole maximum if ambiguous.                 *)
ReplayedSpend ==
    state.pending = None =>
        CASE state.request = "not_started" -> state.used = NoUsage /\ state.reserved = NoUsage
          [] state.request = "started" -> state.used = NoUsage /\ state.reserved = state.maximum
          [] state.request = "completed" -> /\ state.used = state.reported
                                            /\ UsageAtMost(state.used, state.maximum)
                                            /\ state.reserved = NoUsage
          [] state.request = "ambiguous" -> /\ state.used = state.maximum
                                            /\ state.reserved = NoUsage

(* A stream ends with nothing reserved and no snapshot due.  Only an       *)
(* evaluation with its complete evidence and an answered request can end   *)
(* it with a verdict, and an unanswered request always ends as an          *)
(* infrastructure error that names it.                                     *)
ReplayedVerdict ==
    IsTerminal(state.status) =>
        /\ state.reserved = NoUsage /\ state.pending = None
        /\ state.status \in {"succeeded", "failed", "timed_out"} =>
               /\ state.request = "completed"
               /\ state.returned
               /\ ExpectedNames \subseteq state.artifacts
        /\ state.request = "ambiguous" => /\ state.status = "infrastructure_error"
                                          /\ state.reason = "ambiguous_model_request"

=============================================================================
