----------------------------- MODULE RunDomain -----------------------------
(***************************************************************************)
(* The vocabulary of a run (domain/models.py, runtime/replay.py): statuses, *)
(* outcomes, artifact roles and terminal reasons.                          *)
(***************************************************************************)
EXTENDS BudgetUsage

\* RunStatus
EvaluationStatuses == {"succeeded", "failed", "timed_out", "infrastructure_error"}
TerminalStatuses == EvaluationStatuses \cup {"budget_exhausted", "cancelled"}
Statuses == {"absent", "pending", "running"} \cup TerminalStatuses
Outcomes == {"passed", "failed", "error"}

\* EXPECTED_ARTIFACT_NAMES, and the evidence of an evaluation.
EvaluationNames == {"evaluation", "evaluation_stderr", "evaluation_stdout"}
ExpectedNames == EvaluationNames \cup {"patch", "task_spec"}
OptionalNames == {"evaluation_candidate_stdout", "evaluation_scorer_stdout"}
ArtifactNames == ExpectedNames \cup OptionalNames

RecoveryReasons == {"interrupted_run_recovered", "runner_exception"}
Reasons == RecoveryReasons \cup
    {"none", "evaluator_status", "ambiguous_model_request", "model_reservation_refused"}

\* _terminal_status_matches_outcome
StatusMatchesOutcome(status, outcome) ==
    CASE outcome = "passed" -> status = "succeeded"
      [] outcome = "failed" -> status \in {"failed", "timed_out"}
      [] outcome = "error"  -> status = "infrastructure_error"

\* The artifacts one evaluation may bind: a scorer transcript requires a
\* candidate transcript.
EvidenceSets ==
    {EvaluationNames \cup extra : extra \in
        {s \in SUBSET OptionalNames :
            "evaluation_scorer_stdout" \in s => "evaluation_candidate_stdout" \in s}}

=============================================================================
