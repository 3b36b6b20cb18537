----------------------------- MODULE EventStore -----------------------------
(***************************************************************************)
(* The SQLite event store (storage/events.py).  A run is one row of each   *)
(* table: its manifest revisions, its event stream and its budget index.   *)
(* A lifecycle method stages appended events, a manifest revision and a    *)
(* budget update in one transaction; before COMMIT the whole ledger is     *)
(* verified again, and a staged run that does not verify is rolled back.   *)
(* Callers pass any view of the budget and any reading of the wall clock,  *)
(* which may step backwards.                                               *)
(***************************************************************************)
EXTENDS Replay, Sequences

CONSTANTS
    RunIds,       \* run identities
    Caps,         \* the budget limits a run may be created with
    Times         \* wall clock readings

ASSUME CapsType == \A limits \in Caps : IsBudgetLimits(limits)
ASSUME TimesType == Times \subseteq Nat

VARIABLE db       \* the committed row of every run

NoTime == -1
NoRow == [history |-> <<>>, events |-> <<>>,
          budget |-> [limits |-> [d \in {} |-> 0], used |-> NoUsage, reserved |-> NoUsage]]

Manifest(row) == row.history[Len(row.history)]
HasRun(r) == db[r] # NoRow
ActiveRow(row) == row # NoRow /\ Manifest(row).status \in {"pending", "running"}

-----------------------------------------------------------------------------
(* Verification of one run's root. *)

\* replay_events: the state a valid stream replays to, and no state for an
\* invalid one.
ReplayStep(states, e) == {Apply(s, e) : s \in {q \in states : Legal(q, e)}}
ReplayFrom(states, events) ==
    LET after[i \in 0..Len(events)] ==
            IF i = 0 THEN states ELSE ReplayStep(after[i - 1], events[i])
    IN  after[Len(events)]
ReplayEvents(events) == ReplayFrom({Empty}, events)
Replayed(row) == CHOOSE s \in ReplayEvents(row.events) : TRUE

\* RunManifest._validate_lifecycle
LifecycleValid(m) ==
    /\ m.started # NoTime => m.started >= m.created
    /\ m.finished # NoTime => m.finished >= m.created /\ m.finished >= m.started
    /\ CASE m.status = "pending" ->
                m.started = NoTime /\ m.finished = NoTime /\ m.reason = None
         [] m.status = "running" ->
                m.started # NoTime /\ m.finished = NoTime /\ m.reason = None
         [] m.status = "succeeded" ->
                m.started # NoTime /\ m.finished # NoTime /\ m.reason = None
         [] OTHER -> m.finished # NoTime /\ m.reason # None

\* _validate_manifest_transition; the identity of a run is its limits here.
ManifestTransition(current, proposed) ==
    /\ proposed.limits = current.limits /\ proposed.created = current.created
    /\ ~IsTerminal(current.status)
    /\ current.status = "pending" => proposed.status # "succeeded"
    /\ current.status = "running" => proposed.status # "pending"
    /\ current.started # NoTime => proposed.started = current.started
    /\ current.returned => proposed.returned
    /\ current.artifacts \subseteq proposed.artifacts

\* _validate_manifest_history_locked
HistoryValid(history) ==
    /\ \A i \in DOMAIN history : LifecycleValid(history[i])
    /\ \A i \in 2..Len(history) : ManifestTransition(history[i - 1], history[i])

\* _verified_roots_locked for one run: the manifest and the budget index are
\* those that the event stream replays to.
VerifiedRoot(row) ==
    /\ HistoryValid(row.history)
    /\ Head(row.events) = Created(Manifest(row).limits)
    /\ row.budget.limits = Manifest(row).limits
    /\ \E s \in ReplayEvents(row.events), m \in {Manifest(row)} :
          /\ s.status = m.status
          /\ s.used = row.budget.used /\ s.reserved = row.budget.reserved
          /\ s.artifacts = m.artifacts
          /\ s.returned = m.returned
          /\ IsTerminal(m.status) => Complete(s) /\ s.reason = m.reason

\* _transaction: a staged row is committed only if every run still verifies.
Transaction(r, staged) ==
    LET final == [db EXCEPT ![r] = staged]
    IN  /\ \A q \in RunIds : final[q] = NoRow \/ VerifiedRoot(final[q])
        /\ db' = final

-----------------------------------------------------------------------------
(* The row each lifecycle method stages. *)

Save(row, manifest) == [row EXCEPT !.history = Append(@, manifest)]
AppendEvents(row, events) == [row EXCEPT !.events = @ \o events]
UpdateBudget(row, used, reserved) ==
    [row EXCEPT !.budget = [limits |-> @.limits, used |-> used, reserved |-> reserved]]

StageCreation(limits, t) ==
    [history |-> <<[status |-> "pending", limits |-> limits, created |-> t, started |-> NoTime,
                    finished |-> NoTime, returned |-> FALSE, artifacts |-> {}, reason |-> None]>>,
     events |-> <<Created(limits)>>,
     budget |-> [limits |-> limits, used |-> NoUsage, reserved |-> NoUsage]]

StageStart(row, t) ==
    Save(AppendEvents(row, <<Started>>),
         [Manifest(row) EXCEPT !.status = "running", !.started = t])

StageTaskSpec(row) ==
    Save(AppendEvents(row, <<Recorded("task_spec")>>),
         [Manifest(row) EXCEPT !.artifacts = @ \cup {"task_spec"}])

StageRequest(row, id, maximum, used, reserved) ==
    UpdateBudget(AppendEvents(row, <<RequestStarted(id, maximum), Snapshot(used, reserved)>>),
                 used, reserved)

StageResponse(row, id, actual, used, reserved) ==
    UpdateBudget(
        Save(AppendEvents(row, <<ResponseCompleted(id, actual), Snapshot(used, reserved),
                                 Recorded("patch")>>),
             [Manifest(row) EXCEPT !.returned = TRUE, !.artifacts = @ \cup {"patch"}]),
        used, reserved)

RecordedIn(names, name) == IF name \in names THEN <<Recorded(name)>> ELSE <<>>
\* Mutant: artifacts in alphabetical order.
EvidenceEventsSorted(names) ==
    RecordedIn(names, "evaluation") \o RecordedIn(names, "evaluation_candidate_stdout")
    \o RecordedIn(names, "evaluation_scorer_stdout") \o RecordedIn(names, "evaluation_stderr")
    \o RecordedIn(names, "evaluation_stdout")
EvidenceEvents(names) ==
    RecordedIn(names, "evaluation_stdout") \o RecordedIn(names, "evaluation_stderr")
    \o RecordedIn(names, "evaluation_candidate_stdout")
    \o RecordedIn(names, "evaluation_scorer_stdout") \o RecordedIn(names, "evaluation")
StageEvaluation(row, names, outcome, status, reason, t, used, reserved) ==
    UpdateBudget(
        Save(AppendEvents(row,
                EvidenceEvents(names)
                \o <<EvaluationCompleted(outcome), Snapshot(used, reserved),
                     TerminalEvent(status, outcome, reason)>>),
             [Manifest(row) EXCEPT !.status = status, !.finished = t, !.reason = reason,
                                   !.artifacts = @ \cup names]),
        used, reserved)

\* The tail of a run that ends without an evaluation.
AbsentFrom(names, name) == IF name \in names THEN <<>> ELSE <<NotProduced(name)>>
AbsenceEvents(names) ==
    AbsentFrom(names, "evaluation") \o AbsentFrom(names, "evaluation_stderr")
    \o AbsentFrom(names, "evaluation_stdout") \o AbsentFrom(names, "patch")
    \o AbsentFrom(names, "task_spec")

\* Mutant: the caller's clock reading is stored as it is.
SafeFinishedUnclamped(m, t) == t
SafeFinished(m, t) ==
    LET floor == IF m.started # NoTime THEN m.started ELSE m.created
    IN  IF t >= floor THEN t ELSE floor

StageRecovery(row, t, reason) ==
    LET s == Replayed(row)
        ambiguous == s.request = "started"
        used == IF ambiguous THEN AddUsage(row.budget.used, row.budget.reserved)
                             ELSE row.budget.used
        why == IF ambiguous THEN "ambiguous_model_request" ELSE reason
    IN  UpdateBudget(
            Save(AppendEvents(row,
                    AbsenceEvents(s.artifacts)
                    \o (IF ambiguous THEN <<RequestAmbiguous(s.id)>> ELSE <<>>)
                    \o <<Snapshot(used, NoUsage),
                         TerminalEvent("infrastructure_error", None, why)>>),
                 [Manifest(row) EXCEPT !.status = "infrastructure_error", !.reason = why,
                                       !.finished = SafeFinished(Manifest(row), t)]),
            used, NoUsage)

StageExhaustion(row, t) ==
    Save(AppendEvents(row,
            AbsenceEvents(Replayed(row).artifacts)
            \o <<Snapshot(row.budget.used, row.budget.reserved),
                 TerminalEvent("budget_exhausted", None, "model_reservation_refused")>>),
         [Manifest(row) EXCEPT !.status = "budget_exhausted",
                               !.reason = "model_reservation_refused",
                               !.finished = SafeFinished(Manifest(row), t)])

-----------------------------------------------------------------------------
(* Lifecycle methods: their own checks, then the transaction.  A method    *)
(* whose check or verification fails raises and changes nothing.           *)

create_run(r, limits, t) == ~HasRun(r) /\ Transaction(r, StageCreation(limits, t))

start_run(r, t) ==
    /\ HasRun(r) /\ Manifest(db[r]).status = "pending"
    /\ Transaction(r, StageStart(db[r], t))

record_artifact(r) ==
    /\ HasRun(r) /\ Manifest(db[r]).status = "running"
    /\ Replayed(db[r]).request = "not_started"
    /\ "task_spec" \notin Manifest(db[r]).artifacts
    /\ Transaction(r, StageTaskSpec(db[r]))

\* Mutant: the projected budget is not compared with the caps.
RequestLegalUncapped(row, maximum, used, reserved) ==
    /\ maximum.calls = 1 /\ Manifest(row).status = "running" /\ used = row.budget.used
    /\ reserved = AddUsage(row.budget.reserved, maximum)
RequestLegal(row, maximum, used, reserved) ==
    /\ maximum.calls = 1
    /\ Manifest(row).status = "running"
    /\ used = row.budget.used
    /\ reserved = AddUsage(row.budget.reserved, maximum)
    /\ WithinLimits(AddUsage(used, reserved), Manifest(row).limits)
start_model_request(r, id, maximum, used, reserved) ==
    /\ HasRun(r) /\ RequestLegal(db[r], maximum, used, reserved)
    /\ Transaction(r, StageRequest(db[r], id, maximum, used, reserved))

ResponseLegal(row, id, actual, used, reserved) ==
    LET s == Replayed(row) IN
    /\ s.request = "started" /\ s.id = id
    /\ UsageAtMost(actual, s.maximum)
    /\ actual.calls = 1
    /\ UsageAtMost(s.maximum, row.budget.reserved)
    /\ used = AddUsage(row.budget.used, actual)
    /\ reserved = SubtractUsage(row.budget.reserved, s.maximum)
    /\ "patch" \notin Manifest(row).artifacts
complete_model_response(r, id, actual, used, reserved) ==
    /\ HasRun(r) /\ ResponseLegal(db[r], id, actual, used, reserved)
    /\ Transaction(r, StageResponse(db[r], id, actual, used, reserved))

EvaluationLegal(row, names, outcome, status, used, reserved) ==
    /\ names \in EvidenceSets
    /\ Manifest(row).status = "running"
    /\ Replayed(row).request = "completed"
    /\ StatusMatchesOutcome(status, outcome)
    /\ used = row.budget.used /\ reserved = row.budget.reserved /\ reserved = NoUsage
    /\ names \cap Manifest(row).artifacts = {}
complete_evaluation(r, names, outcome, status, reason, t, used, reserved) ==
    /\ HasRun(r) /\ EvaluationLegal(db[r], names, outcome, status, used, reserved)
    /\ Transaction(r, StageEvaluation(db[r], names, outcome, status, reason, t, used, reserved))

\* A terminal run is returned as it is.
RecoveryLegal(row) == Replayed(row).request = "started" \/ row.budget.reserved = NoUsage
recover_run(r, t, reason) ==
    /\ ActiveRow(db[r]) /\ RecoveryLegal(db[r])
    /\ Transaction(r, StageRecovery(db[r], t, reason))

ExhaustionLegal(row) ==
    Replayed(row).request = "not_started" /\ row.budget.reserved = NoUsage
complete_budget_exhaustion(r, t) ==
    /\ ActiveRow(db[r]) /\ ExhaustionLegal(db[r])
    /\ Transaction(r, StageExhaustion(db[r], t))

StoreInit == db = [r \in RunIds |-> NoRow]

StoreNext ==
    \E r \in RunIds, t \in Times :
        \/ \E limits \in Caps : create_run(r, limits, t)
        \/ start_run(r, t)
        \/ record_artifact(r)
        \/ \E id \in RequestIds, maximum, used, reserved \in Usages :
             start_model_request(r, id, maximum, used, reserved)
        \/ \E id \in RequestIds, actual, used, reserved \in Usages :
             complete_model_response(r, id, actual, used, reserved)
        \/ \E names \in SUBSET (EvaluationNames \cup OptionalNames),
              outcome \in Outcomes, status \in TerminalStatuses,
              reason \in {None, "evaluator_status"}, used, reserved \in Usages :
             complete_evaluation(r, names, outcome, status, reason, t, used, reserved)
        \/ \E reason \in RecoveryReasons : recover_run(r, t, reason)
        \/ complete_budget_exhaustion(r, t)

StoreSpec == StoreInit /\ [][StoreNext]_db

-----------------------------------------------------------------------------
(* Properties. *)

(* What a row stands for: status, artifacts and reason from the manifest,  *)
(* the budget from its index, the request and the absences from replay.    *)
AbstractRun(row) ==
    IF row = NoRow
    THEN [status |-> "absent", limits |-> [d \in {} |-> 0], request |-> "not_started",
          maximum |-> NoUsage, reported |-> NoUsage, used |-> NoUsage, reserved |-> NoUsage,
          artifacts |-> {}, absent |-> {}, reason |-> None]
    ELSE [status |-> Manifest(row).status, limits |-> Manifest(row).limits,
          request |-> Replayed(row).request, maximum |-> Replayed(row).maximum,
          reported |-> Replayed(row).reported,
          used |-> row.budget.used, reserved |-> row.budget.reserved,
          artifacts |-> Manifest(row).artifacts, absent |-> Replayed(row).absent,
          reason |-> Manifest(row).reason]

AbstractRuns == [r \in RunIds |-> AbstractRun(db[r])]

Ledger == INSTANCE RunLedger WITH runs <- AbstractRuns

(* Streams, revisions, index and verification together behave as the       *)
(* record per run that the callers are promised.                           *)
ImplementsLedger == Ledger!LedgerSpec

(* Recovery is never refused: every committed active run, at every reading *)
(* of the wall clock, is terminalized by a row that verifies.              *)
RecoveryNeverStuck ==
    \A r \in RunIds, t \in Times, reason \in RecoveryReasons :
        ActiveRow(db[r]) =>
            RecoveryLegal(db[r]) /\ VerifiedRoot(StageRecovery(db[r], t, reason))

(* The per-event replay and the final verification refuse nothing that     *)
(* the phase checks allow, as long as the clock has not stepped back.      *)
LegalNeverRefused ==
    \A r \in RunIds, t \in Times :
        LET row == db[r]
            m == Manifest(row)
            s == Replayed(row)
        IN  ActiveRow(row) =>
            /\ m.status = "pending" /\ t >= m.created => VerifiedRoot(StageStart(row, t))
            /\ m.status = "running" /\ s.request = "not_started" /\ m.artifacts = {} =>
                   VerifiedRoot(StageTaskSpec(row))
            /\ \A id \in RequestIds, u \in Usages :
                   LET held == AddUsage(row.budget.reserved, u) IN
                   RequestLegal(row, u, row.budget.used, held) /\ s.request = "not_started"
                     /\ m.artifacts # {}
                   => VerifiedRoot(StageRequest(row, id, u, row.budget.used, held))
            /\ \A u \in Usages :
                   LET used == AddUsage(row.budget.used, u) IN
                   ResponseLegal(row, s.id, u, used, NoUsage)
                   => VerifiedRoot(StageResponse(row, s.id, u, used, NoUsage))
            /\ \A names \in EvidenceSets, o \in Outcomes, st \in EvaluationStatuses :
                   EvaluationLegal(row, names, o, st, row.budget.used, NoUsage)
                     /\ t >= m.started
                   => VerifiedRoot(StageEvaluation(row, names, o, st,
                          IF st = "succeeded" THEN None ELSE "evaluator_status",
                          t, row.budget.used, NoUsage))
            /\ ExhaustionLegal(row) => VerifiedRoot(StageExhaustion(row, t))

=============================================================================
