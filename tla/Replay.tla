------------------------------- MODULE Replay -------------------------------
(***************************************************************************)
(* Deterministic replay of one run's event stream (runtime/replay.py): an  *)
(* event either advances the replayed state or makes the stream invalid.   *)
(*                                                                         *)
(* A stream is contiguous and hash-chained by verify_event_chain, so an    *)
(* event is its type and payload, and its place in the stream its          *)
(* sequence number.  Artifact digests are left out: a name is bound or     *)
(* not.                                                                    *)
(***************************************************************************)
EXTENDS RunDomain

CONSTANTS
    RequestIds,   \* model request identities
    Usages        \* the usage vectors that callers pass and payloads carry

None == "none"

ASSUME UsagesType == Usages \subseteq BudgetUsage
ASSUME RequestIdsType == None \notin RequestIds

\* The payloads of the event types.
Created(limits) == [type |-> "run.created", limits |-> limits]
Started == [type |-> "run.started"]
RequestStarted(id, maximum) == [type |-> "model.request_started", id |-> id, maximum |-> maximum]
ResponseCompleted(id, actual) ==
    [type |-> "model.response_completed", id |-> id, actual |-> actual]
RequestAmbiguous(id) == [type |-> "model.request_ambiguous", id |-> id]
Snapshot(used, reserved) == [type |-> "budget.snapshot", used |-> used, reserved |-> reserved]
Recorded(name) == [type |-> "artifact.recorded", name |-> name]
NotProduced(name) == [type |-> "artifact.not_produced", name |-> name]
EvaluationCompleted(outcome) == [type |-> "evaluation.completed", outcome |-> outcome]
TerminalEvent(status, outcome, reason) ==
    [type |-> "run.terminal", status |-> status, outcome |-> outcome, reason |-> reason]

\* ReplayState, with the budget transition that waits for its snapshot and the
\* usage that the response event of the stream carries.
Empty ==
    [created |-> FALSE, status |-> "pending", used |-> NoUsage, reserved |-> NoUsage,
     artifacts |-> {}, absent |-> {}, outcome |-> None, id |-> None,
     request |-> "not_started", maximum |-> NoUsage, reported |-> NoUsage,
     returned |-> FALSE, reason |-> None, pending |-> None, amount |-> NoUsage]

IsTerminal(status) == status \in TerminalStatuses

\* _validate_artifact_position
Predecessors == {"evaluation_stderr", "evaluation_stdout", "patch", "task_spec"}
InPosition(s, name) ==
    /\ CASE name = "task_spec" -> s.artifacts = {}
         [] name = "patch" -> s.artifacts = {"task_spec"}
         [] name = "evaluation_stdout" -> s.artifacts = {"patch", "task_spec"}
         [] name = "evaluation_stderr" -> s.artifacts = Predecessors \ {"evaluation_stderr"}
         [] name = "evaluation_candidate_stdout" -> s.artifacts = Predecessors
         [] name = "evaluation_scorer_stdout" ->
                s.artifacts = Predecessors \cup {"evaluation_candidate_stdout"}
         [] name = "evaluation" -> /\ Predecessors \subseteq s.artifacts
                                   /\ s.artifacts \ Predecessors \subseteq OptionalNames
    /\ s.request = IF name = "task_spec" THEN "not_started" ELSE "completed"

\* _apply_budget_snapshot: what the snapshot must say.
SnapshotExpected(s) ==
    CASE s.pending = None        -> [used |-> s.used, reserved |-> s.reserved]
      [] s.pending = "reserve"   -> [used |-> s.used, reserved |-> AddUsage(s.reserved, s.amount)]
      [] s.pending = "reconcile" -> [used |-> AddUsage(s.used, s.amount),
                                     reserved |-> SubtractUsage(s.reserved, s.maximum)]
      [] s.pending = "ambiguous" -> [used |-> AddUsage(s.used, s.reserved), reserved |-> NoUsage]
\* Mutant: usage may rise freely as long as it does not fall.
SnapshotLegalRising(s, e) ==
    /\ UsageAtMost(s.used, e.used)
    /\ s.pending = "reconcile" => UsageAtMost(s.maximum, s.reserved)
    /\ e.reserved = SnapshotExpected(s).reserved
SnapshotLegal(s, e) ==
    /\ UsageAtMost(s.used, e.used)
    /\ s.pending = "reconcile" => UsageAtMost(s.maximum, s.reserved)
    /\ e.used = SnapshotExpected(s).used
    /\ e.reserved = SnapshotExpected(s).reserved

\* The "run.terminal" branch.
\* Mutant: an ambiguous request may end for any reason.
TerminalLegalAnyReason(s, e) ==
    /\ IsTerminal(e.status) /\ s.request # "started" /\ e.outcome = s.outcome
    /\ s.outcome # None => StatusMatchesOutcome(e.status, s.outcome)
    /\ s.outcome = None => e.status \in {"budget_exhausted", "cancelled", "infrastructure_error"}
    /\ (e.reason = None) = (e.status = "succeeded")
TerminalLegal(s, e) ==
    /\ IsTerminal(e.status)
    /\ s.request # "started"
    /\ e.outcome = s.outcome
    /\ IF s.outcome = None
         THEN e.status \in {"budget_exhausted", "cancelled", "infrastructure_error"}
         ELSE StatusMatchesOutcome(e.status, s.outcome)
    /\ (e.reason = None) = (e.status = "succeeded")
    /\ s.request = "ambiguous" => /\ e.status = "infrastructure_error"
                                  /\ e.reason = "ambiguous_model_request"

Unaccounted(s, name) == name \notin s.artifacts \cup s.absent

NotProducedLegal(s, name) == name \in ExpectedNames /\ Unaccounted(s, name)

\* The event is legal in state s: no branch of replay_events raises.
Legal(s, e) ==
    /\ ~IsTerminal(s.status)
    /\ s.pending = None \/ e.type = "budget.snapshot"
    /\ s.created = (e.type # "run.created")
    /\ CASE e.type = "run.created" -> TRUE
         [] e.type = "run.started" -> s.status = "pending"
         [] e.type = "model.request_started" ->
                /\ s.status = "running"
                /\ s.request = "not_started"
                /\ s.artifacts = {"task_spec"}
                /\ e.maximum.calls = 1
         [] e.type = "model.response_completed" ->
                /\ s.status = "running"
                /\ s.request = "started"
                /\ e.id = s.id
                /\ e.actual.calls = 1
                /\ UsageAtMost(e.actual, s.maximum)
         [] e.type = "model.request_ambiguous" ->
                /\ s.status = "running"
                /\ s.request = "started"
                /\ e.id = s.id
         [] e.type = "budget.snapshot" -> SnapshotLegal(s, e)
         [] e.type = "artifact.recorded" ->
                /\ s.status = "running"
                /\ Unaccounted(s, e.name)
                /\ InPosition(s, e.name)
         [] e.type = "artifact.not_produced" -> NotProducedLegal(s, e.name)
         [] e.type = "evaluation.completed" ->
                /\ s.status = "running"
                /\ s.request = "completed"
                /\ s.outcome = None
                /\ EvaluationNames \cup {"patch"} \subseteq s.artifacts
         [] e.type = "run.terminal" -> TerminalLegal(s, e)

\* The state after a legal event.
Apply(s, e) ==
    CASE e.type = "run.created" -> [s EXCEPT !.created = TRUE]
      [] e.type = "run.started" -> [s EXCEPT !.status = "running"]
      [] e.type = "model.request_started" ->
             [s EXCEPT !.id = e.id, !.maximum = e.maximum, !.request = "started",
                       !.pending = "reserve", !.amount = e.maximum]
      [] e.type = "model.response_completed" ->
             [s EXCEPT !.returned = TRUE, !.request = "completed", !.reported = e.actual,
                       !.pending = "reconcile", !.amount = e.actual]
      [] e.type = "model.request_ambiguous" ->
             [s EXCEPT !.request = "ambiguous", !.pending = "ambiguous", !.amount = s.reserved]
      [] e.type = "budget.snapshot" ->
             [s EXCEPT !.used = e.used, !.reserved = e.reserved,
                       !.pending = None, !.amount = NoUsage]
      [] e.type = "artifact.recorded" -> [s EXCEPT !.artifacts = @ \cup {e.name}]
      [] e.type = "artifact.not_produced" -> [s EXCEPT !.absent = @ \cup {e.name}]
      [] e.type = "evaluation.completed" -> [s EXCEPT !.outcome = e.outcome]
      [] e.type = "run.terminal" -> [s EXCEPT !.status = e.status, !.reason = e.reason]

\* require_terminal: what a complete stream must have reached.
Complete(s) ==
    /\ s.created
    /\ s.pending = None
    /\ IsTerminal(s.status)
    /\ s.reserved = NoUsage
    /\ s.request # "started"
    /\ ExpectedNames \subseteq s.artifacts \cup s.absent

=============================================================================
