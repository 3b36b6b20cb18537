----------------------------- MODULE RunLedger -----------------------------
(***************************************************************************)
(* What the event store (storage/events.py) promises its callers: one      *)
(* record per run, changed only by the lifecycle transactions.  A method   *)
(* that would break its phase raises and changes nothing, so each          *)
(* transaction is a guard (Can...) and an effect.  The module EventStore   *)
(* shows that the store, with its event streams, indexes, validation and   *)
(* rollback, implements this one.                                          *)
(***************************************************************************)
EXTENDS RunDomain

CONSTANTS
    RunIds,   \* run identities
    Usages,   \* the usage vectors callers pass
    Caps      \* the budget limits a run may be created with

ASSUME UsagesType == Usages \subseteq BudgetUsage
ASSUME CapsType == \A limits \in Caps : IsBudgetLimits(limits)

VARIABLE runs  \* the committed record of every run

NoLimits == [d \in {} |-> 0]

Run == [status : Statuses, limits : Caps \cup {NoLimits},
        request : {"not_started", "started", "completed", "ambiguous"},
        maximum : BudgetUsage, reported : BudgetUsage,
        used : BudgetUsage, reserved : BudgetUsage,
        artifacts : SUBSET ArtifactNames, absent : SUBSET ExpectedNames,
        reason : Reasons]

NewRun(limits) ==
    [status |-> "pending", limits |-> limits, request |-> "not_started",
     maximum |-> NoUsage, reported |-> NoUsage, used |-> NoUsage, reserved |-> NoUsage,
     artifacts |-> {}, absent |-> {}, reason |-> "none"]

NoRun == [NewRun(NoLimits) EXCEPT !.status = "absent"]

LedgerInit == runs = [r \in RunIds |-> NoRun]

Terminal(m) == m.status \in TerminalStatuses
Active(m) == m.status \in {"pending", "running"}

\* Commit record m for run r.
Commit(r, m) == runs' = [runs EXCEPT ![r] = m]

-----------------------------------------------------------------------------
(* Lifecycle transactions. *)

\* create_run: the run identity is a primary key.
CanCreateRun(r) == runs[r].status = "absent"
CreateRun(r, limits) == CanCreateRun(r) /\ Commit(r, NewRun(limits))

CanStartRun(r) == runs[r].status = "pending"
StartRun(r) == CanStartRun(r) /\ Commit(r, [runs[r] EXCEPT !.status = "running"])

\* record_artifact binds only the initial task_spec.
CanRecordTaskSpec(r) ==
    /\ runs[r].status = "running"
    /\ runs[r].request = "not_started"
    /\ "task_spec" \notin runs[r].artifacts
RecordTaskSpec(r) ==
    CanRecordTaskSpec(r) /\ Commit(r, [runs[r] EXCEPT !.artifacts = @ \cup {"task_spec"}])

\* start_model_request: the caller's view of the budget must be the ledger's
\* plus this reservation, and the sum must fit the caps.  The replay refuses
\* a second request and a request without its task_spec.
\* Mutant: the projected budget is not compared with the caps.
CanStartRequestUncapped(r, maximum, used, reserved) ==
    /\ maximum.calls = 1 /\ runs[r].status = "running" /\ used = runs[r].used
    /\ reserved = AddUsage(runs[r].reserved, maximum)
    /\ runs[r].request = "not_started" /\ runs[r].artifacts = {"task_spec"}
CanStartRequest(r, maximum, used, reserved) ==
    LET m == runs[r] IN
    /\ maximum.calls = 1
    /\ m.status = "running"
    /\ used = m.used
    /\ reserved = AddUsage(m.reserved, maximum)
    /\ WithinLimits(AddUsage(used, reserved), m.limits)
    /\ m.request = "not_started"
    /\ m.artifacts = {"task_spec"}
StartRequest(r, maximum, used, reserved) ==
    /\ CanStartRequest(r, maximum, used, reserved)
    /\ Commit(r, [runs[r] EXCEPT !.request = "started", !.maximum = maximum,
                                 !.reserved = reserved])

\* complete_model_response: response, actual usage and patch in one phase.
\* reported is the actual_usage that the committed response event carries.
CanCompleteResponse(r, actual, used, reserved) ==
    LET m == runs[r] IN
    /\ m.status = "running"
    /\ m.request = "started"
    /\ UsageAtMost(actual, m.maximum)
    /\ actual.calls = 1
    /\ UsageAtMost(m.maximum, m.reserved)
    /\ used = AddUsage(m.used, actual)
    /\ reserved = SubtractUsage(m.reserved, m.maximum)
    /\ m.artifacts = {"task_spec"}
\* Mutant: the output tokens that the response reported are not charged.
CompleteResponseUndercharged(r, actual, used, reserved) ==
    /\ CanCompleteResponse(r, actual, used, reserved)
    /\ Commit(r, [runs[r] EXCEPT !.request = "completed", !.reported = actual,
                                 !.used = [used EXCEPT !.output = runs[r].used.output],
                                 !.reserved = reserved, !.artifacts = @ \cup {"patch"}])
CompleteResponse(r, actual, used, reserved) ==
    /\ CanCompleteResponse(r, actual, used, reserved)
    /\ Commit(r, [runs[r] EXCEPT !.request = "completed", !.reported = actual, !.used = used,
                                 !.reserved = reserved, !.artifacts = @ \cup {"patch"}])

\* complete_evaluation_with_events: all evaluation evidence and the terminal
\* status in one phase; the budget must be the ledger's, with nothing reserved.
CanCompleteEvaluation(r, names, outcome, status, used, reserved) ==
    LET m == runs[r] IN
    /\ names \in EvidenceSets
    /\ m.status = "running"
    /\ m.request = "completed"
    /\ StatusMatchesOutcome(status, outcome)
    /\ used = m.used /\ reserved = m.reserved /\ reserved = NoUsage
    /\ m.artifacts = {"task_spec", "patch"}
\* Mutant: the manifest is saved without the evaluation's artifacts.
CompleteEvaluationUnbound(r, names, outcome, status, used, reserved) ==
    /\ CanCompleteEvaluation(r, names, outcome, status, used, reserved)
    /\ Commit(r, [runs[r] EXCEPT !.status = status,
                    !.reason = IF status = "succeeded" THEN "none" ELSE "evaluator_status"])
CompleteEvaluation(r, names, outcome, status, used, reserved) ==
    /\ CanCompleteEvaluation(r, names, outcome, status, used, reserved)
    /\ Commit(r, [runs[r] EXCEPT !.status = status, !.artifacts = @ \cup names,
                    !.reason = IF status = "succeeded" THEN "none" ELSE "evaluator_status"])

\* recover_run_with_events: what was not produced is accounted for; a started
\* request is ambiguous and its whole reservation is charged.
\* Mutant: recovery refuses every outstanding reservation.
CanRecoverUnreserved(r) == Active(runs[r]) /\ runs[r].reserved = NoUsage
\* Mutant: recovery does not return early for a terminal run.
CanRecoverTerminal(r) ==
    /\ runs[r].status # "absent"
    /\ runs[r].request = "started" \/ runs[r].reserved = NoUsage
CanRecover(r) ==
    /\ Active(runs[r])
    /\ runs[r].request = "started" \/ runs[r].reserved = NoUsage
\* Mutants: an ambiguous request costs nothing; its reservation is kept.
RecoveredUncharged(m, reason) ==
    [m EXCEPT !.status = "infrastructure_error", !.absent = ExpectedNames \ m.artifacts,
              !.request = IF @ = "started" THEN "ambiguous" ELSE @,
              !.reserved = NoUsage,
              !.reason = IF m.request = "started" THEN "ambiguous_model_request" ELSE reason]
RecoveredReserved(m, reason) ==
    [m EXCEPT !.status = "infrastructure_error", !.absent = ExpectedNames \ m.artifacts,
              !.request = IF @ = "started" THEN "ambiguous" ELSE @,
              !.used = AddUsage(@, m.reserved),
              !.reason = IF m.request = "started" THEN "ambiguous_model_request" ELSE reason]
Recovered(m, reason) ==
    LET ambiguous == m.request = "started" IN
    [m EXCEPT !.status = "infrastructure_error",
              !.absent = ExpectedNames \ m.artifacts,
              !.request = IF ambiguous THEN "ambiguous" ELSE @,
              !.used = IF ambiguous THEN AddUsage(@, m.reserved) ELSE @,
              !.reserved = NoUsage,
              !.reason = IF ambiguous THEN "ambiguous_model_request" ELSE reason]
Recover(r, reason) == CanRecover(r) /\ Commit(r, Recovered(runs[r], reason))

\* complete_budget_exhaustion_with_events: only before dispatch.
CanExhaust(r) ==
    /\ Active(runs[r])
    /\ runs[r].request = "not_started"
    /\ runs[r].reserved = NoUsage
Exhausted(m) ==
    [m EXCEPT !.status = "budget_exhausted", !.absent = ExpectedNames \ m.artifacts,
              !.reason = "model_reservation_refused"]
Exhaust(r) == CanExhaust(r) /\ Commit(r, Exhausted(runs[r]))

\* A caller whose view of the budget is not the ledger's is refused.
LedgerNext ==
    \E r \in RunIds :
        \/ \E limits \in Caps : CreateRun(r, limits)
        \/ StartRun(r)
        \/ RecordTaskSpec(r)
        \/ \E maximum \in Usages :
             StartRequest(r, maximum, runs[r].used, AddUsage(runs[r].reserved, maximum))
        \/ \E actual \in Usages :
             CompleteResponse(r, actual, AddUsage(runs[r].used, actual),
                              SubtractUsage(runs[r].reserved, runs[r].maximum))
        \/ \E names \in EvidenceSets, outcome \in Outcomes, status \in EvaluationStatuses :
             CompleteEvaluation(r, names, outcome, status, runs[r].used, runs[r].reserved)
        \/ \E reason \in RecoveryReasons : Recover(r, reason)
        \/ Exhaust(r)

LedgerSpec == LedgerInit /\ [][LedgerNext]_runs

-----------------------------------------------------------------------------
(* Properties. *)

LedgerTypeOK == runs \in [RunIds -> Run]

(* Spent and reserved usage together never pass a cap of the run's         *)
(* manifest, whatever the response reports and whenever it is recovered.   *)
BudgetRespected ==
    \A r \in RunIds : WithinLimits(AddUsage(runs[r].used, runs[r].reserved), runs[r].limits)

(* A terminal run retains no reservation and no unclassified request, and  *)
(* accounts for each expected artifact exactly once.                       *)
TerminalSettled ==
    \A r \in RunIds : Terminal(runs[r]) =>
        /\ runs[r].reserved = NoUsage
        /\ runs[r].request # "started"
        /\ ExpectedNames \subseteq runs[r].artifacts \cup runs[r].absent
        /\ runs[r].artifacts \cap runs[r].absent = {}

(* No spend is free: an answered request is charged exactly what its       *)
(* response reported, within the maximum, an ambiguous one its whole       *)
(* maximum, anything else nothing.  The maximum is reserved exactly while  *)
(* the request is open, so that recovery and refusal always find the       *)
(* budget in a state they accept.                                          *)
SpendAccounted ==
    \A r \in RunIds :
        /\ CASE runs[r].request = "completed" -> /\ runs[r].used = runs[r].reported
                                                 /\ UsageAtMost(runs[r].used, runs[r].maximum)
             [] runs[r].request = "ambiguous" -> runs[r].used = runs[r].maximum
             [] OTHER                         -> runs[r].used = NoUsage
        /\ runs[r].reserved = IF runs[r].request = "started" THEN runs[r].maximum ELSE NoUsage

(* A verdict of the evaluator (succeeded, failed, timed_out) rests on a    *)
(* completed response and the full evidence of one evaluation.             *)
VerdictHasEvidence ==
    \A r \in RunIds : runs[r].status \in {"succeeded", "failed", "timed_out"} =>
        /\ runs[r].request = "completed"
        /\ ExpectedNames \subseteq runs[r].artifacts

(* A terminal run never changes again, and no committed usage or artifact  *)
(* binding is ever taken back.                                             *)
LedgerMonotone ==
    [][\A r \in RunIds :
        /\ Terminal(runs[r]) => runs'[r] = runs[r]
        /\ UsageAtMost(runs[r].used, runs'[r].used)
        /\ runs[r].artifacts \subseteq runs'[r].artifacts]_runs

=============================================================================
