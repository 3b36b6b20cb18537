------------------------------ MODULE Campaign ------------------------------
(***************************************************************************)
(* Reliability campaigns (runtime/campaign.py, domain/campaign.py).  A     *)
(* campaign executes every attempt of a frozen schedule once, each in a    *)
(* state directory of its own, and then judges every attempt from the      *)
(* evidence it finds there.  What happened during execution is only known  *)
(* to the process that executed it, through its notes; anybody may judge   *)
(* the same evidence again without them, also while a campaign is running. *)
(*                                                                         *)
(* The runner inside an attempt is taken as FixtureRunner shows it: a run  *)
(* becomes active, ends at most once, and after an exception the guarded   *)
(* recovery either terminalizes it or is denied.                           *)
(***************************************************************************)
EXTENDS Naturals, Sequences

CONSTANTS
    Fixtures,    \* the declared fixtures, in the order of their identifiers
    Rounds,      \* rounds of the schedule
    Campaigns,   \* processes that execute `guildmind campaign run`
    Auditors,    \* processes that reconcile without executing
    MaxChanges   \* changes made by others to sources and evidence

ASSUME FixturesAssumption == Fixtures \in Seq(STRING) /\ Fixtures # <<>>
ASSUME RoundsAssumption == Rounds \in Nat \ {0}
ASSUME ProcessesAssumption == Campaigns \cap Auditors = {}
ASSUME MaxChangesAssumption == MaxChanges \in Nat

\* The complete round-major schedule; an attempt is its position in it.
Attempts == 1..(Rounds * Len(Fixtures))
FixtureOf(a) == Fixtures[((a - 1) % Len(Fixtures)) + 1]

Processes == Campaigns \cup Auditors

VARIABLES
    state,      \* the campaign's state directory: absent, made, manifest
    dir,        \* each attempt's evidence directory
    intact,     \* fixtures whose tree still has the declared digest
    code,       \* the package source still has the declared digest
    output,     \* whether a report has been published at the output path
    pc, at,     \* the next step of a process and the attempt it is at
    notes,      \* its execution notes
    verified,   \* whether it found the campaign manifest in the state directory
    seen,       \* the run it saw in its first audit of the current attempt
    found,      \* its evidence records
    certified,  \* history: the terminal results reports give for each attempt
    dispatched, \* history: how often each attempt was dispatched
    flawed,     \* history: attempts a live process executed and that raised, or
                \* ran with a changed fixture or changed code
    changes

fileVars == <<state, dir, intact, code, output>>
historyVars == <<certified, dispatched>>
reconcileVars == <<verified, seen, found>>
localVars == <<at, notes, flawed, reconcileVars>>
vars == <<fileVars, pc, localVars, historyVars, changes>>

NoNote == [error |-> FALSE, post |-> FALSE]
NoEvidence == [disposition |-> "none", run |-> "none"]
NoDirectory == [run |-> "none", owner |-> "nobody", extra |-> FALSE, evidence |-> "clean"]

\* In dir[a].run: no database, no such run, a run that is not terminal, or
\* its terminal status.  A run succeeds exactly if its outcome is passed.
TerminalRuns == {"succeeded", "failed", "budget_exhausted", "infrastructure_error"}

Executing == {"dispatch", "create", "running", "committed"}
Failing == {"failing", "failing_budget"}

Init ==
    /\ state = "absent"
    /\ dir = [a \in Attempts |-> NoDirectory]
    /\ intact = {Fixtures[i] : i \in DOMAIN Fixtures} /\ code = TRUE /\ output = "none"
    /\ pc = [p \in Processes |-> "idle"]
    /\ at = [p \in Processes |-> 1]
    /\ notes = [p \in Processes |-> [a \in Attempts |-> NoNote]]
    /\ verified = [p \in Processes |-> FALSE]
    /\ seen = [p \in Processes |-> "none"]
    /\ found = [p \in Processes |-> [a \in Attempts |-> NoEvidence]]
    /\ certified = [a \in Attempts |-> {}] /\ dispatched = [a \in Attempts |-> 0]
    /\ flawed = [p \in Processes |-> {}] /\ changes = 0

Goto(p, label) == pc' = [pc EXCEPT ![p] = label]
Flaw(p) == flawed' = [flawed EXCEPT ![p] = @ \cup {at[p]}]
Take(p, note) == notes' = [notes EXCEPT ![p][at[p]] = note]

\* The next attempt of the loop, or what follows the last one.
Advance(p, loop, label) ==
    IF at[p] + 1 \in Attempts
    THEN at' = [at EXCEPT ![p] = @ + 1] /\ Goto(p, loop)
    ELSE at' = [at EXCEPT ![p] = 1] /\ Goto(p, label)

\* A command ends, with or without a result; its memory is gone.
Finish(p) ==
    /\ Goto(p, "idle")
    /\ at' = [at EXCEPT ![p] = 1]
    /\ notes' = [notes EXCEPT ![p] = [a \in Attempts |-> NoNote]]
    /\ flawed' = [flawed EXCEPT ![p] = {}]
    /\ verified' = [verified EXCEPT ![p] = FALSE]
    /\ seen' = [seen EXCEPT ![p] = "none"]
    /\ found' = [found EXCEPT ![p] = [a \in Attempts |-> NoEvidence]]

FixtureIntact(p) == FixtureOf(at[p]) \in intact

-----------------------------------------------------------------------------
(* Before execution. *)

\* ensure_campaign_output_available, then load_reliability_campaign: code,
\* fixture trees and patches must have their declared digests.  Otherwise
\* the command ends before it has done anything.
Load(p) ==
    /\ pc[p] = "idle"
    /\ code /\ \A a \in Attempts : FixtureOf(a) \in intact
    /\ p \in Campaigns => output = "none"
    /\ Goto(p, IF p \in Campaigns THEN "prepare" ELSE "read_manifest")
    /\ UNCHANGED <<fileVars, localVars, historyVars, changes>>

\* Mutant: an existing state directory is used again.
PrepareStateReused(p) ==
    /\ pc[p] = "prepare"
    /\ IF code THEN state' = "made" /\ Goto(p, "write_manifest") /\ UNCHANGED localVars
               ELSE Finish(p) /\ UNCHANGED state
    /\ UNCHANGED <<dir, intact, code, output, historyVars, changes>>
\* _require_supported_execution and _prepare_new_campaign_state
PrepareState(p) ==
    /\ pc[p] = "prepare"
    /\ IF code /\ state = "absent"
         THEN state' = "made" /\ Goto(p, "write_manifest") /\ UNCHANGED localVars
         ELSE Finish(p) /\ UNCHANGED state
    /\ UNCHANGED <<dir, intact, code, output, historyVars, changes>>

WriteManifest(p) ==
    /\ pc[p] = "write_manifest"
    /\ state' = "manifest"
    /\ Goto(p, "check")
    /\ UNCHANGED <<dir, intact, code, output, localVars, historyVars, changes>>

-----------------------------------------------------------------------------
(* One attempt. *)

\* A changed fixture is noted and the attempt is not dispatched.
CheckFixture(p) ==
    /\ pc[p] = "check"
    /\ IF FixtureIntact(p)
         THEN Goto(p, "dispatch") /\ UNCHANGED <<notes, at>>
         ELSE /\ Take(p, [error |-> TRUE, post |-> FALSE])
              /\ Advance(p, "check", "read_manifest")
    /\ UNCHANGED <<flawed, fileVars, reconcileVars, historyVars, changes>>

\* FixtureRunner(...).run up to materialize_fixture_task, which reads the
\* fixture tree.
Dispatch(p) ==
    /\ pc[p] = "dispatch"
    /\ dispatched' = [dispatched EXCEPT ![at[p]] = @ + 1]
    /\ IF FixtureIntact(p) /\ code THEN UNCHANGED flawed ELSE Flaw(p)
    /\ Goto(p, "create")
    /\ UNCHANGED <<fileVars, at, notes, reconcileVars, certified, changes>>

\* EventStore(...) and create_run, which refuses an identity that exists.
CreateRun(p) ==
    /\ pc[p] = "create"
    /\ dir[at[p]].run \in {"none", "absent"}
    /\ dir' = [dir EXCEPT ![at[p]].run = "active", ![at[p]].owner = "campaign"]
    /\ Goto(p, "running")
    /\ UNCHANGED <<state, intact, code, output, localVars, historyVars, changes>>

\* complete_evaluation commits the verdict.
CommitRun(p, status) ==
    /\ pc[p] = "running"
    /\ dir[at[p]].run = "active"
    /\ dir' = [dir EXCEPT ![at[p]].run = status]
    /\ Goto(p, "committed")
    /\ UNCHANGED <<state, intact, code, output, localVars, historyVars, changes>>

Return(p) ==
    /\ pc[p] = "committed"
    /\ Goto(p, "after")
    /\ UNCHANGED <<fileVars, localVars, historyVars, changes>>

\* FixtureRunPostCommitMaintenanceError
PostCommitError(p) ==
    /\ pc[p] = "committed"
    /\ Take(p, [error |-> TRUE, post |-> TRUE])
    /\ Flaw(p)
    /\ Goto(p, "after")
    /\ UNCHANGED <<fileVars, at, reconcileVars, historyVars, changes>>

\* Any other exception, before or after the commit; what was published and
\* not bound is left without an owner.  label is the handler it reaches.
Raise(p, label) ==
    /\ pc[p] \in Executing
    /\ label = "failing_budget" => pc[p] = "running"
    /\ Goto(p, label)
    /\ IF label = "failing" THEN Flaw(p) ELSE UNCHANGED flawed
    /\ \E orphaned \in BOOLEAN :
          dir' = IF orphaned /\ dir[at[p]].evidence = "clean" /\ pc[p] # "dispatch"
                 THEN [dir EXCEPT ![at[p]].evidence = "orphaned"] ELSE dir
    /\ UNCHANGED <<state, intact, code, output, at, notes, reconcileVars, historyVars, changes>>

\* Mutant: a terminal run is terminalized again.
RecoverableAnyStatus(a) == dir[a].run \notin {"none", "absent"} /\ dir[a].evidence # "lost"
\* Guarded recovery changes a run only if it is active and every referenced
\* byte verifies.
Recoverable(a) == dir[a].run = "active" /\ dir[a].evidence # "lost"
Terminalize(a, status) == Recoverable(a) /\ dir' = [dir EXCEPT ![a].run = status]

\* _recover_after_execution_error, after whatever the runner's own handler
\* did; either may be denied.  Only an exception that is not
\* BudgetExceededError leaves a note.
Recover(p) ==
    /\ pc[p] \in Failing
    /\ \/ Terminalize(at[p], "infrastructure_error")
       \/ pc[p] = "failing_budget" /\ Terminalize(at[p], "budget_exhausted")
       \/ UNCHANGED dir
    /\ IF pc[p] = "failing" THEN Take(p, [error |-> TRUE, post |-> FALSE]) ELSE UNCHANGED notes
    /\ Goto(p, "after")
    /\ UNCHANGED <<flawed, state, intact, code, output, at, reconcileVars, historyVars, changes>>

\* Mutant: the fixture is not compared again.
AfterAttemptUnchecked(p) ==
    /\ pc[p] = "after"
    /\ UNCHANGED notes
    /\ Advance(p, "check", "read_manifest")
    /\ UNCHANGED <<flawed, fileVars, reconcileVars, historyVars, changes>>
\* A fixture that changed during execution is noted as an error, whatever
\* the run's own result is.
AfterAttempt(p) ==
    /\ pc[p] = "after"
    /\ IF FixtureIntact(p) THEN UNCHANGED notes
                           ELSE Take(p, [notes[p][at[p]] EXCEPT !.error = TRUE])
    /\ Advance(p, "check", "read_manifest")
    /\ UNCHANGED <<flawed, fileVars, reconcileVars, historyVars, changes>>

-----------------------------------------------------------------------------
(* Reconciliation. *)

ReadManifest(p) ==
    /\ pc[p] = "read_manifest"
    /\ verified' = [verified EXCEPT ![p] = state = "manifest"]
    /\ Goto(p, "audit")
    /\ UNCHANGED <<flawed, fileVars, at, notes, seen, found, historyVars, changes>>

\* An evidence record, and the next attempt.
Record(p, disposition, run) ==
    /\ found' = [found EXCEPT ![p][at[p]] = [disposition |-> disposition, run |-> run]]
    /\ seen' = [seen EXCEPT ![p] = "none"]
    /\ Advance(p, "audit", "report")

\* evidence_missing, evidence_run_set_invalid, evidence_nonterminal, or
\* evidence_invalid without terminal evidence: a report treats them alike.
RecordUnusable(p) == Record(p, "evidence_unusable", "none")

\* Somebody is writing in the attempt's directory, so a read of it may fail.
Busy(a) == dir[a].run = "active" \/ \E q \in Campaigns : at[q] = a /\ pc[q] \in Executing \cup Failing

\* The first audit: there is a database, and the attempt's run alone in it.
Audit(p) ==
    LET d == dir[at[p]] IN
    /\ pc[p] = "audit"
    /\ \/ /\ d.run \in {"none", "absent"} \/ d.extra \/ Busy(at[p])
          /\ RecordUnusable(p)
       \/ /\ d.run \notin {"none", "absent"} /\ ~d.extra
          /\ seen' = [seen EXCEPT ![p] = d.run]
          /\ Goto(p, "read") /\ UNCHANGED <<at, found>>
    /\ UNCHANGED <<flawed, fileVars, notes, verified, historyVars, changes>>

\* The manifest and the events are read and replayed: the run is terminal
\* and is still what was audited.
ReadEvents(p) ==
    /\ pc[p] = "read"
    /\ LET same == dir[at[p]].run = seen[p] /\ seen[p] # "active" IN
       \/ (~same \/ Busy(at[p])) /\ RecordUnusable(p)
       \/ same /\ Goto(p, "final_audit") /\ UNCHANGED <<at, seen, found>>
    /\ UNCHANGED <<flawed, fileVars, notes, verified, historyVars, changes>>

\* The disposition of verified terminal evidence.
Disposition(p, d) ==
    IF d.owner # "campaign" THEN "evidence_invalid"
    ELSE IF notes[p][at[p]].post THEN "post_commit_maintenance_error"
    ELSE IF notes[p][at[p]].error \/ d.run = "infrastructure_error" THEN "infrastructure_error"
    ELSE IF d.run = "succeeded" THEN "expected" ELSE "unexpected_result"

\* The second audit must find the same ledger, intact and without orphans.
FinalAudit(p) ==
    LET d == dir[at[p]]
        same == d.run = seen[p] /\ ~d.extra /\ d.evidence = "clean"
    IN
    /\ pc[p] = "final_audit"
    /\ \/ (~same \/ Busy(at[p])) /\ RecordUnusable(p)
       \/ same /\ Record(p, Disposition(p, d), d.run)
    /\ UNCHANGED <<flawed, fileVars, notes, verified, historyVars, changes>>

\* The report's aggregate claims.
Passed(p) ==
    /\ verified[p] /\ code
    /\ \A a \in Attempts : found[p][a].disposition = "expected"

\* A campaign publishes its report without replacing one; an auditor only
\* returns it.
Report(p) ==
    /\ pc[p] = "report"
    /\ p \in Campaigns => output = "none"
    /\ certified' = [a \in Attempts |-> certified[a] \cup ({found[p][a].run} \ {"none"})]
    /\ output' = IF p \in Campaigns THEN "published" ELSE output
    /\ Finish(p)
    /\ UNCHANGED <<state, dir, intact, code, dispatched, changes>>

-----------------------------------------------------------------------------
(* Processes end early, and others change what a campaign relies on. *)

\* The process dies, or an exception ends the command: a source tree that
\* cannot be read, a report that cannot be published.  The notes are lost.
Die(p) ==
    /\ pc[p] # "idle"
    /\ Finish(p)
    /\ UNCHANGED <<fileVars, historyVars, changes>>

Change ==
    /\ changes < MaxChanges
    /\ changes' = changes + 1
    /\ UNCHANGED <<state, output, pc, localVars, historyVars>>

ChangeFixture(f) == Change /\ f \in intact /\ intact' = intact \ {f} /\ UNCHANGED <<dir, code>>
ChangeCode == Change /\ code /\ code' = FALSE /\ UNCHANGED <<dir, intact>>

\* Another runner uses the attempt's directory: for a run of its own, or for
\* a run with the attempt's identity, which it may also finish.
RogueRun(a) ==
    /\ Change /\ state # "absent" /\ ~dir[a].extra
    /\ dir' = [dir EXCEPT ![a].extra = TRUE,
                          ![a].run = IF @ = "none" THEN "absent" ELSE @]
    /\ UNCHANGED <<intact, code>>
ForeignRun(a, status) ==
    /\ Change /\ state # "absent" /\ dir[a].run \in {"none", "absent"}
    /\ dir' = [dir EXCEPT ![a].run = status, ![a].owner = "foreign"]
    /\ UNCHANGED <<intact, code>>

LoseEvidence(a) ==
    /\ Change /\ dir[a].run \notin {"none", "absent"} /\ dir[a].evidence # "lost"
    /\ dir' = [dir EXCEPT ![a].evidence = "lost"]
    /\ UNCHANGED <<intact, code>>

\* `guildmind recover` in the attempt's directory, also while its runner lives.
OperatorRecovers(a) ==
    /\ Change /\ Terminalize(a, "infrastructure_error")
    /\ UNCHANGED <<intact, code>>

-----------------------------------------------------------------------------

Execute(p) ==
    \/ Load(p) \/ PrepareState(p) \/ WriteManifest(p) \/ CheckFixture(p) \/ Dispatch(p)
    \/ CreateRun(p)
    \/ \E status \in TerminalRuns \ {"budget_exhausted"} : CommitRun(p, status)
    \/ Return(p) \/ PostCommitError(p) \/ (\E label \in Failing : Raise(p, label))
    \/ Recover(p) \/ AfterAttempt(p)

Reconcile(p) ==
    ReadManifest(p) \/ Audit(p) \/ ReadEvents(p) \/ FinalAudit(p) \/ Report(p)

Interfere ==
    \/ ChangeCode
    \/ \E a \in Attempts :
        \/ ChangeFixture(FixtureOf(a)) \/ RogueRun(a) \/ LoseEvidence(a) \/ OperatorRecovers(a)
        \/ \E status \in {"active", "succeeded"} : ForeignRun(a, status)

Next ==
    \/ \E p \in Processes : Execute(p) \/ Reconcile(p) \/ Die(p)
    \/ Interfere

Spec == Init /\ [][Next]_vars

-----------------------------------------------------------------------------
(* Properties. *)

(* A report that passes deserves it: every attempt was dispatched exactly  *)
(* once and its run, the campaign's own, succeeded.  If the process that   *)
(* executed the campaign returns it, no execution raised either, and every *)
(* attempt read the declared fixture and ran the declared code.            *)
PassJustified ==
    [][\A p \in Processes : Report(p) /\ Passed(p) => \A a \in Attempts :
        /\ dispatched[a] = 1
        /\ dir[a].run = "succeeded" /\ dir[a].owner = "campaign"
        /\ a \notin flawed[p]]_vars

(* However often the command is started and wherever it stops, no attempt  *)
(* of a schedule is dispatched twice.                                      *)
DispatchedOnce == \A a \in Attempts : dispatched[a] <= 1

(* Reports never contradict each other: whoever judges an attempt, with or *)
(* without notes, during the campaign or later, gives terminal evidence of *)
(* the same result or of none.                                             *)
ReportsAgree == \A a \in Attempts : \A x, y \in certified[a] : x = y

=============================================================================
