--------------------------- MODULE FixtureRunner ---------------------------
(***************************************************************************)
(* Fixture runners (runtime/runner.py) and operators recovering runs       *)
(* (runtime/recovery.py, the CLI's recover) on one state directory.  They  *)
(* all hold a shared maintenance lease, so they interleave freely; between *)
(* two ledger transactions of one actor anything may happen.               *)
(*                                                                         *)
(* A runner publishes evidence in the artifact store before it binds it,   *)
(* reserves usage in its in-memory BudgetAuthority and in the ledger       *)
(* before it calls the model, and on an exception recovers the run it      *)
(* created.  Recovery audits the whole storage, opens the store only if    *)
(* its sidecar files are still those it saw, and then holds SQLite's write *)
(* lock while it compares the ledger with the audited one and reads all    *)
(* referenced evidence, twice.  Evidence may be lost at any moment, also   *)
(* between a reading and the commit.                                       *)
(***************************************************************************)
EXTENDS RunLedger, Sequences

CONSTANTS
    Runners,        \* processes that execute FixtureRunner.run, once each
    Operators,      \* processes that recover runs, as often as they like
    Evidence,       \* the evidence sets evaluations produce
    Losable         \* the names of the stored evidence that may be lost

Actors == Runners \cup Operators

ASSUME ActorsDistinct == Runners \cap Operators = {} /\ "nobody" \notin Actors
ASSUME EvidenceType == Evidence \subseteq EvidenceSets /\ Losable \subseteq ArtifactNames

VARIABLES
    pc,        \* where each actor is
    job,       \* the run it was asked for, limits and model maximum
    authority, \* a runner's BudgetAuthority: used and reserved
    verdict,   \* a runner's evaluation result, once it has one
    stored,    \* published and intact evidence: <<run, name>>
    fresh,     \* actors whose audited ledger snapshot is still the ledger's
    steady,    \* actors that see the sidecar files they saw before the audit
    wal,       \* the WAL sidecar exists
    txn,       \* the open write transaction of a recovery, and what it has read
    creator,   \* history: the runner that created each run
    spent      \* history: the usage of each model call, per run

vars == <<runs, pc, job, authority, verdict, stored, fresh, steady, wal, txn, creator, spent>>

\* A runner at one of these steps has the event store open.
Working == {"create", "mark", "start", "bind", "reserve", "request", "dispatch",
            "waiting", "respond", "evaluate", "finish"}
Audited == {"audited", "audited_refusal"}
Opened == {"opened", "opened_refusal", "writing"}
Recovering == {"failed", "refused"} \cup Audited \cup Opened
Finished == {"returned", "recovered", "raised", "denied", "dead"}

NoJob == [run |-> "none", limits |-> NoLimits, maximum |-> NoUsage]
NoBudget == [used |-> NoUsage, reserved |-> NoUsage]
NoVerdict == [names |-> {}, status |-> "absent"]
NoTxn == [by |-> "nobody", operation |-> "none", phase |-> "none", seen |-> {}]

Init ==
    /\ LedgerInit
    /\ pc = [a \in Actors |-> "idle"]
    /\ job = [a \in Actors |-> NoJob]
    /\ authority = [a \in Runners |-> NoBudget]
    /\ verdict = [a \in Runners |-> NoVerdict]
    /\ stored = {} /\ fresh = {} /\ steady = {} /\ wal = FALSE /\ txn = NoTxn
    /\ creator = [r \in RunIds |-> "nobody"]
    /\ spent = [r \in RunIds |-> <<>>]

-----------------------------------------------------------------------------
(* Shared effects. *)

Goto(a, label) == pc' = [pc EXCEPT ![a] = label]

\* The last connection to close removes the sidecars.
CloseStore(a) == wal' = \E b \in Actors \ {a} : pc[b] \in Working \cup Opened

\* An audit is stale once a root, resp. a sidecar, has changed.
StillFresh == IF runs' = runs THEN fresh ELSE {}
StillSteady == IF wal' = wal THEN steady ELSE {}

Publish(r, names) == stored' = stored \cup ({r} \X names)

\* The artifacts that the ledger's runs reference; all of them are intact.
References == UNION {{r} \X runs[r].artifacts : r \in RunIds}
Intact == References \subseteq stored

\* BEGIN IMMEDIATE: no other write transaction is open.
\* Mutant: a deferred BEGIN, which takes no lock.
BeginDeferred == TRUE
BeginImmediate == txn = NoTxn

\* A ledger transaction of runner a, then its next step.
Transact(a, label) ==
    /\ Goto(a, label)
    /\ UNCHANGED <<job, authority, verdict, stored, steady, wal, txn, spent>>
    /\ fresh' = StillFresh

-----------------------------------------------------------------------------
(* FixtureRunner.run, step by step. *)

Begin(a, r, limits, maximum) ==
    /\ pc[a] = "idle"
    /\ Goto(a, "create")
    /\ job' = [job EXCEPT ![a] = [run |-> r, limits |-> limits, maximum |-> maximum]]
    /\ Publish(r, {"task_spec"})
    /\ wal' = TRUE
    /\ steady' = StillSteady
    /\ UNCHANGED <<runs, authority, verdict, fresh, txn, creator, spent>>

Create(a) ==
    /\ pc[a] = "create"
    /\ BeginImmediate
    /\ CreateRun(job[a].run, job[a].limits)
    /\ creator' = [creator EXCEPT ![job[a].run] = a]
    /\ Transact(a, "mark")

\* run_created = True
Mark(a) ==
    /\ pc[a] = "mark"
    /\ UNCHANGED <<runs, creator>>
    /\ Transact(a, "start")

Start(a) ==
    /\ pc[a] = "start"
    /\ BeginImmediate
    /\ StartRun(job[a].run)
    /\ Transact(a, "bind")
    /\ UNCHANGED creator

Bind(a) ==
    /\ pc[a] = "bind"
    /\ BeginImmediate
    /\ RecordTaskSpec(job[a].run)
    /\ Transact(a, "reserve")
    /\ UNCHANGED creator

\* BudgetAuthority.reserve
Fits(a) ==
    WithinLimits(AddUsage(AddUsage(authority[a].used, authority[a].reserved), job[a].maximum),
                 job[a].limits)

Reserve(a) ==
    /\ pc[a] = "reserve"
    /\ Fits(a)
    /\ authority' = [authority EXCEPT ![a].reserved = AddUsage(@, job[a].maximum)]
    /\ Goto(a, "request")
    /\ UNCHANGED <<runs, job, verdict, stored, fresh, steady, wal, txn, creator, spent>>

\* BudgetExceededError: reservation_refused is set and the store is closed.
Refuse(a) ==
    /\ pc[a] = "reserve"
    /\ ~Fits(a)
    /\ Goto(a, "refused")
    /\ CloseStore(a)
    /\ steady' = StillSteady
    /\ UNCHANGED <<runs, job, authority, verdict, stored, fresh, txn, creator, spent>>

\* Mutant: the reservation is committed after the model call.
RequestLate(a) ==
    /\ pc[a] = "request"
    /\ UNCHANGED <<runs, creator>>
    /\ Transact(a, "dispatch")
Request(a) ==
    /\ pc[a] = "request"
    /\ BeginImmediate
    /\ StartRequest(job[a].run, job[a].maximum, authority[a].used, authority[a].reserved)
    /\ Transact(a, "dispatch")
    /\ UNCHANGED creator

\* model.propose_patch goes out; what it will cost is not known yet.
Dispatch(a, cost) ==
    /\ pc[a] = "dispatch"
    /\ spent' = [spent EXCEPT ![job[a].run] = Append(@, cost)]
    /\ Goto(a, "waiting")
    /\ UNCHANGED <<runs, job, authority, verdict, stored, fresh, steady, wal, txn, creator>>

Cost(a) == spent[job[a].run][Len(spent[job[a].run])]

\* The answer: the patch is published and the reservation reconciled.  A
\* report above the reservation raises instead (Raise).
Answer(a) ==
    /\ pc[a] = "waiting"
    /\ UsageAtMost(Cost(a), authority[a].reserved)
    /\ Publish(job[a].run, {"patch"})
    /\ authority' = [authority EXCEPT ![a] = [used |-> AddUsage(@.used, Cost(a)),
                                              reserved |-> NoUsage]]
    /\ Goto(a, "respond")
    /\ UNCHANGED <<runs, job, verdict, fresh, steady, wal, txn, creator, spent>>

Respond(a) ==
    /\ pc[a] = "respond"
    /\ BeginImmediate
    /\ CompleteResponse(job[a].run, Cost(a), authority[a].used, authority[a].reserved)
    /\ Transact(a, "evaluate")
    /\ UNCHANGED creator

\* The stored patch is verified and evaluated; the evidence is published.
Evaluate(a, names, status) ==
    /\ pc[a] = "evaluate"
    /\ <<job[a].run, "patch">> \in stored
    /\ verdict' = [verdict EXCEPT ![a] = [names |-> names, status |-> status]]
    /\ Publish(job[a].run, names)
    /\ Goto(a, "finish")
    /\ UNCHANGED <<runs, job, authority, fresh, steady, wal, txn, creator, spent>>

\* Mutant: a refused transaction is not noticed.
FinishUncommitted(a) ==
    /\ pc[a] = "finish"
    /\ Goto(a, "returned")
    /\ CloseStore(a)
    /\ fresh' = {}
    /\ steady' = StillSteady
    /\ UNCHANGED <<runs, job, authority, verdict, stored, txn, creator, spent>>
Finish(a) ==
    /\ pc[a] = "finish"
    /\ BeginImmediate
    /\ \E outcome \in Outcomes :
          CompleteEvaluation(job[a].run, verdict[a].names, outcome, verdict[a].status,
                             authority[a].used, authority[a].reserved)
    /\ Goto(a, "returned")
    /\ CloseStore(a)
    /\ fresh' = {}
    /\ steady' = StillSteady
    /\ UNCHANGED <<job, authority, verdict, stored, txn, creator, spent>>

\* Any other exception, a refused transaction included: the store is closed,
\* and the run is recovered if run_created is set.
\* Mutant: every failed runner recovers, whoever created the run.
RaiseAlways(a) ==
    /\ pc[a] \in Working
    /\ Goto(a, "failed")
    /\ CloseStore(a)
    /\ steady' = StillSteady
    /\ UNCHANGED <<runs, job, authority, verdict, stored, fresh, txn, creator, spent>>
Raise(a) ==
    /\ pc[a] \in Working
    /\ Goto(a, IF pc[a] \in {"create", "mark"} THEN "raised" ELSE "failed")
    /\ CloseStore(a)
    /\ steady' = StillSteady
    /\ UNCHANGED <<runs, job, authority, verdict, stored, fresh, txn, creator, spent>>

-----------------------------------------------------------------------------
(* Guarded terminalization, by a failed runner or by an operator. *)

\* The capture of the storage identity and audit_storage: every run's root
\* verifies and all referenced evidence is intact.
Audit(a, r) ==
    /\ \/ a \in Runners /\ pc[a] \in {"failed", "refused"} /\ r = job[a].run
       \/ a \in Operators /\ pc[a] = "idle"
    /\ job' = [job EXCEPT ![a].run = r]
    /\ IF Intact /\ runs[r].status # "absent"
         THEN /\ Goto(a, IF pc[a] = "refused" THEN "audited_refusal" ELSE "audited")
              /\ fresh' = fresh \cup {a}
              /\ steady' = steady \cup {a}
         ELSE /\ Goto(a, "denied")
              /\ UNCHANGED <<fresh, steady>>
    /\ UNCHANGED <<runs, authority, verdict, stored, wal, txn, creator, spent>>

\* open_existing_writable: only while the sidecars are those captured.
OpenWriter(a) ==
    /\ pc[a] \in Audited
    /\ a \in steady
    /\ Goto(a, IF pc[a] = "audited_refusal" THEN "opened_refusal" ELSE "opened")
    /\ wal' = TRUE
    /\ steady' = StillSteady \ {a}
    /\ UNCHANGED <<runs, job, authority, verdict, stored, fresh, txn, creator, spent>>

\* recover_run_with_events or complete_budget_exhaustion_with_events; a
\* terminal run is returned unchanged.
Operation(a) == IF pc[a] = "opened_refusal" THEN "exhaust" ELSE "recover"
Reason(a) == IF a \in Runners THEN "runner_exception" ELSE "interrupted_run_recovered"
TerminalizationLegal(a) ==
    LET r == job[a].run IN
    Terminal(runs[r]) \/ IF txn.operation = "exhaust" THEN CanExhaust(r) ELSE CanRecover(r)

\* The write lock, and under it the comparison with the audited snapshot.
Begins(a) == BeginImmediate /\ a \in fresh
BeginWrite(a) ==
    /\ pc[a] \in {"opened", "opened_refusal"}
    /\ Begins(a)
    /\ txn' = [by |-> a, operation |-> Operation(a), phase |-> "begun", seen |-> {}]
    /\ Goto(a, "writing")
    /\ UNCHANGED <<runs, job, authority, verdict, stored, fresh, steady, wal, creator, spent>>

Writing(a, phase) == pc[a] = "writing" /\ txn.by = a /\ txn.phase = phase

\* integrity_guard reads all that the locked ledger references: before the
\* rows are staged, and again at the last moment before COMMIT.
Read(a, phase) ==
    /\ Intact
    /\ txn' = [txn EXCEPT !.phase = phase, !.seen = References]
    /\ UNCHANGED <<runs, pc, job, authority, verdict, stored, fresh, steady, wal, creator, spent>>
Stage(a) == Writing(a, "begun") /\ TerminalizationLegal(a) /\ Read(a, "staged")
Recheck(a) == Writing(a, "staged") /\ Read(a, "verified")

\* COMMIT; the store is closed.
Terminalize(a) ==
    /\ Writing(a, "verified")
    /\ \/ Terminal(runs[job[a].run]) /\ UNCHANGED runs
       \/ txn.operation = "recover" /\ Recover(job[a].run, Reason(a))
       \/ txn.operation = "exhaust" /\ Exhaust(job[a].run)
    /\ txn' = NoTxn
    /\ Goto(a, "recovered")
    /\ CloseStore(a)
    /\ fresh' = StillFresh \ {a}
    /\ steady' = StillSteady
    /\ UNCHANGED <<job, authority, verdict, stored, creator, spent>>

\* RecoveryDeniedError: the sidecars have changed, the lock is busy or the
\* ledger has changed, or evidence is missing and the rows are rolled back.  A
\* runner does not retry.
Deny(a) ==
    /\ \/ pc[a] \in Audited /\ a \notin steady /\ UNCHANGED <<wal, txn>>
       \/ pc[a] \in {"opened", "opened_refusal"} /\ ~Begins(a) /\ CloseStore(a) /\ UNCHANGED txn
       \/ /\ \/ Writing(a, "begun") /\ ~(Intact /\ TerminalizationLegal(a))
             \/ Writing(a, "staged") /\ ~Intact
          /\ CloseStore(a)
          /\ txn' = NoTxn
    /\ Goto(a, "denied")
    /\ fresh' = fresh \ {a}
    /\ steady' = StillSteady \ {a}
    /\ UNCHANGED <<runs, job, authority, verdict, stored, creator, spent>>

-----------------------------------------------------------------------------
(* The environment. *)

\* An operator calls recover again.
Retry(a) ==
    /\ a \in Operators /\ pc[a] \in {"recovered", "denied"}
    /\ Goto(a, "idle")
    /\ UNCHANGED <<runs, job, authority, verdict, stored, fresh, steady, wal, txn, creator, spent>>

\* A process dies; an open store leaves its sidecars behind, and an open
\* transaction is rolled back.
Die(a) ==
    /\ pc[a] \in Working \cup Recovering
    /\ Goto(a, "dead")
    /\ fresh' = fresh \ {a}
    /\ steady' = steady \ {a}
    /\ txn' = IF txn.by = a THEN NoTxn ELSE txn
    /\ UNCHANGED <<runs, job, authority, verdict, stored, wal, creator, spent>>

LoseEvidence ==
    /\ \E blob \in stored : blob[2] \in Losable /\ stored' = stored \ {blob}
    /\ UNCHANGED <<runs, pc, job, authority, verdict, fresh, steady, wal, txn, creator, spent>>

-----------------------------------------------------------------------------

Execute(a) ==
    \/ Create(a) \/ Mark(a) \/ Start(a) \/ Bind(a) \/ Reserve(a) \/ Refuse(a) \/ Request(a)
    \/ \E cost \in Usages : Dispatch(a, cost)
    \/ Answer(a) \/ Respond(a)
    \/ \E names \in Evidence, status \in EvaluationStatuses : Evaluate(a, names, status)
    \/ Finish(a) \/ Raise(a)

Recovery(a) ==
    \/ \E r \in RunIds : Audit(a, r)
    \/ OpenWriter(a) \/ BeginWrite(a) \/ Stage(a) \/ Recheck(a) \/ Terminalize(a) \/ Deny(a)

Next ==
    \/ \E a \in Runners, r \in RunIds, limits \in Caps, maximum \in Usages :
         Begin(a, r, limits, maximum)
    \/ \E a \in Runners : Execute(a)
    \/ \E a \in Actors : Recovery(a) \/ Retry(a) \/ Die(a)
    \/ LoseEvidence

Spec == Init /\ [][Next]_vars

\* A runner is sequential code that goes on until it returns, raises or
\* dies; an operator keeps calling recover until it dies.
Fairness ==
    /\ \A a \in Runners : WF_vars(Execute(a) \/ Recovery(a))
    /\ \A a \in Operators : WF_vars(Recovery(a) \/ Retry(a))
FairSpec == Spec /\ Fairness

-----------------------------------------------------------------------------
(* Properties. *)

TypeOK ==
    /\ LedgerTypeOK
    /\ pc \in [Actors -> Working \cup Recovering \cup Finished \cup {"idle"}]
    /\ authority \in [Runners -> [used : BudgetUsage, reserved : BudgetUsage]]
    /\ stored \subseteq RunIds \X ArtifactNames
    /\ fresh \subseteq Actors /\ steady \subseteq Actors
    /\ txn \in [by : Actors \cup {"nobody"}, operation : {"none", "recover", "exhaust"},
                phase : {"none", "begun", "staged", "verified"},
                seen : SUBSET (RunIds \X ArtifactNames)]
    /\ creator \in [RunIds -> Runners \cup {"nobody"}]

(* A run's model is called at most once, however its runner fails, dies or *)
(* is recovered and whoever else was given the same run identity, and only *)
(* after a reservation for it has been committed.                          *)
DispatchOnce ==
    \A r \in RunIds :
        /\ Len(spent[r]) <= 1
        /\ spent[r] # <<>> => runs[r].request # "not_started"

(* What a call really cost is charged or still reserved in the ledger at   *)
(* every moment, as long as the model keeps to its declared maximum.       *)
SpendCovered ==
    \A r \in RunIds : \A i \in DOMAIN spent[r] :
        UsageAtMost(spent[r][i], runs[r].maximum) =>
            UsageAtMost(spent[r][i], AddUsage(runs[r].used, runs[r].reserved))

(* A runner that returned a result returned the ledger's.                  *)
ResultIsCommitted ==
    \A a \in Runners : pc[a] = "returned" =>
        /\ runs[job[a].run].status = verdict[a].status
        /\ runs[job[a].run].used = authority[a].used
        /\ creator[job[a].run] = a

(* A failed runner terminalizes only the run it created: not one that      *)
(* another runner, given the same identity, is working on.                 *)
RecoversOwnRun ==
    \A a \in Runners : pc[a] \in Recovering \cup {"recovered"} => creator[job[a].run] = a

(* What recovery has checked is what it commits.  When it ends a run, no   *)
(* runner or operator has changed the ledger since its audit, and it has   *)
(* read intact, under the write lock, every artifact which that ledger     *)
(* references, although runners commit and evidence is lost at any moment  *)
(* (the loss of what has already been read included).                      *)
NoBlindRecovery ==
    [][\A r \in RunIds :
        Active(runs[r]) /\ Terminal(runs'[r]) /\ runs'[r].reason # "evaluator_status"
            /\ runs'[r].status # "succeeded"
        => txn.by \in fresh /\ References \subseteq txn.seen]_vars

(* While evidence stays intact and an operator lives to keep recovering,   *)
(* no run stays active for ever, wherever its runner died, raised or was   *)
(* denied.                                                                 *)
RunsSettle ==
    \A r \in RunIds :
        Active(runs[r]) ~>
            (Terminal(runs[r]) \/ ~Intact \/ \E a \in Operators : pc[a] = "dead")

=============================================================================
