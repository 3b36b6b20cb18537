------------------------ MODULE FixtureRunnerProofs ------------------------
(***************************************************************************)
(* Proofs about the run ledger, for any set of runs, any usage vectors and *)
(* any caps, and about runners and recovering operators on one ledger, for *)
(* any number of them, whatever evidence is lost.                          *)
(*                                                                         *)
(* Part 1, the ledger.  RunInv is what holds of one run between            *)
(* transactions; each transaction replaces one record, so it is enough     *)
(* that its effect takes a record with RunInv to a record with RunInv.     *)
(*                                                                         *)
(* Part 2, the runners.  Every step is a transaction of the ledger or      *)
(* leaves it alone, so all that part 1 shows holds here; what is added is  *)
(* which actor may do it, and what the model calls really cost.            *)
(***************************************************************************)
EXTENDS FixtureRunner, TLAPS

-----------------------------------------------------------------------------
(* Part 1: the ledger. *)

\* What a request may have spent, and what it still holds.
SpendInv(m) ==
    /\ m.reserved = IF m.request = "started" THEN m.maximum ELSE NoUsage
    /\ m.request = "not_started" => m.used = NoUsage
    /\ m.request = "started" => m.used = NoUsage
    /\ m.request = "completed" => m.used = m.reported /\ UsageAtMost(m.used, m.maximum)
    /\ m.request = "ambiguous" => m.used = m.maximum
    /\ WithinLimits(AddUsage(m.used, m.reserved), m.limits)

\* Which phases go together.
PhaseInv(m) ==
    /\ ~Terminal(m) => m.absent = {} /\ m.request # "ambiguous"
    /\ m.status \in {"absent", "pending"} => m.artifacts = {} /\ m.request = "not_started"
    /\ Terminal(m) => /\ m.request # "started"
                      /\ ExpectedNames \subseteq m.artifacts \cup m.absent
                      /\ m.artifacts \cap m.absent = {}
    /\ m.status \in {"succeeded", "failed", "timed_out"} =>
           m.request = "completed" /\ ExpectedNames \subseteq m.artifacts

RunInv(m) == m \in Run /\ SpendInv(m) /\ PhaseInv(m)

LedgerInv == runs \in [RunIds -> Run] /\ \A r \in RunIds : RunInv(runs[r])

-----------------------------------------------------------------------------
(* Usage arithmetic. *)

(* Usage vectors are closed under addition, with NoUsage neutral, and      *)
(* under subtraction of a smaller one (_add_usage, _subtract_usage).       *)
LEMMA UsageArithmetic ==
    /\ NoUsage \in BudgetUsage
    /\ \A u \in BudgetUsage : /\ AddUsage(u, NoUsage) = u
                              /\ AddUsage(NoUsage, u) = u
                              /\ SubtractUsage(u, u) = NoUsage
                              /\ UsageAtMost(u, u)
    /\ \A u, v \in BudgetUsage : /\ AddUsage(u, v) \in BudgetUsage
                                 /\ UsageAtMost(u, AddUsage(u, v))
    BY DEF NoUsage, BudgetUsage, AddUsage, SubtractUsage, UsageAtMost

(* What fits the caps still fits when less is used (exceeded_limits).      *)
LEMMA WithinMonotone ==
    ASSUME NEW u \in BudgetUsage, NEW v \in BudgetUsage, NEW limits,
           IsBudgetLimits(limits), UsageAtMost(u, v), WithinLimits(v, limits)
    PROVE  WithinLimits(u, limits)
<1>1. SUFFICES ASSUME NEW d \in DOMAIN limits PROVE Amount(u, d) <= limits[d]
    BY DEF WithinLimits
<1>2. d \in Dimensions /\ limits[d] \in Nat
    BY DEF IsBudgetLimits
<1>3. Amount(v, d) <= limits[d]
    BY DEF WithinLimits
<1>4. Amount(u, d) <= Amount(v, d) /\ Amount(u, d) \in Nat /\ Amount(v, d) \in Nat
    BY <1>2 DEF Amount, UsageAtMost, BudgetUsage, Dimensions
<1>5. QED
    BY <1>2, <1>3, <1>4

(* The limits of a run are well formed, and nothing passes them at first.  *)
LEMMA LimitsWellFormed ==
    ASSUME NEW limits \in Caps \cup {NoLimits}
    PROVE  IsBudgetLimits(limits) /\ WithinLimits(NoUsage, limits)
<1>1. IsBudgetLimits(NoLimits)
    BY DEF IsBudgetLimits, NoLimits, Dimensions
<1>2. IsBudgetLimits(limits)
    BY <1>1, CapsType
<1>3. ASSUME NEW d \in DOMAIN limits PROVE Amount(NoUsage, d) <= limits[d]
    <2>1. d \in Dimensions /\ limits[d] \in Nat
        BY <1>2 DEF IsBudgetLimits
    <2>2. Amount(NoUsage, d) = 0
        BY <2>1 DEF Amount, NoUsage, Dimensions
    <2>3. QED
        BY <2>1, <2>2
<1>4. QED
    BY <1>2, <1>3 DEF WithinLimits

-----------------------------------------------------------------------------
(* One lemma per transaction: its effect on one record. *)

(* A run is created, and absent runs are, with an empty, legal record.     *)
LEMMA NewRunInv ==
    ASSUME NEW limits \in Caps \cup {NoLimits}
    PROVE  RunInv(NewRun(limits)) /\ RunInv([NewRun(limits) EXCEPT !.status = "absent"])
<1>1. NewRun(limits) \in Run /\ [NewRun(limits) EXCEPT !.status = "absent"] \in Run
    BY UsageArithmetic DEF NewRun, Run, Statuses, Reasons
<1>2. AddUsage(NoUsage, NoUsage) = NoUsage
    BY UsageArithmetic
<1>3. SpendInv(NewRun(limits)) /\ SpendInv([NewRun(limits) EXCEPT !.status = "absent"])
    BY <1>2, LimitsWellFormed DEF SpendInv, NewRun
<1>4. PhaseInv(NewRun(limits)) /\ PhaseInv([NewRun(limits) EXCEPT !.status = "absent"])
    BY DEF PhaseInv, NewRun, Terminal, TerminalStatuses, EvaluationStatuses
<1>5. QED
    BY <1>1, <1>3, <1>4 DEF RunInv

(* start_run and record_artifact change the phase, not the budget.         *)
LEMMA StartRunInv ==
    ASSUME NEW m, RunInv(m), m.status = "pending"
    PROVE  RunInv([m EXCEPT !.status = "running"])
<1> DEFINE n == [m EXCEPT !.status = "running"]
<1>1. n \in Run
    BY DEF RunInv, Run, Statuses
<1>2. SpendInv(n)
    BY DEF RunInv, SpendInv, Run
<1>3. PhaseInv(n)
    BY DEF RunInv, PhaseInv, Run, Terminal, TerminalStatuses, EvaluationStatuses
<1>4. QED
    BY <1>1, <1>2, <1>3 DEF RunInv

(* The task specification is bound in a running run.                       *)
LEMMA RecordTaskSpecInv ==
    ASSUME NEW m, RunInv(m), m.status = "running"
    PROVE  RunInv([m EXCEPT !.artifacts = @ \cup {"task_spec"}])
<1> DEFINE n == [m EXCEPT !.artifacts = @ \cup {"task_spec"}]
<1>1. n \in Run
    BY DEF RunInv, Run, ArtifactNames, ExpectedNames
<1>2. SpendInv(n)
    BY DEF RunInv, SpendInv, Run
<1>3. PhaseInv(n)
    BY DEF RunInv, PhaseInv, Run, Terminal, TerminalStatuses, EvaluationStatuses
<1>4. QED
    BY <1>1, <1>2, <1>3 DEF RunInv

(* A reservation is committed only if it fits the caps with what is used.  *)
LEMMA StartRequestInv ==
    ASSUME NEW m, RunInv(m), NEW maximum \in BudgetUsage, m.status = "running",
           m.request = "not_started",
           WithinLimits(AddUsage(m.used, AddUsage(m.reserved, maximum)), m.limits)
    PROVE  RunInv([m EXCEPT !.request = "started", !.maximum = maximum,
                            !.reserved = AddUsage(m.reserved, maximum)])
<1> DEFINE n == [m EXCEPT !.request = "started", !.maximum = maximum,
                          !.reserved = AddUsage(m.reserved, maximum)]
<1>1. m.used = NoUsage /\ m.reserved = NoUsage
    BY DEF RunInv, SpendInv
<1>2. AddUsage(m.reserved, maximum) = maximum
    BY <1>1, UsageArithmetic
<1>3. n \in Run
    BY <1>2 DEF RunInv, Run
<1>4. SpendInv(n)
    BY <1>1, <1>2 DEF RunInv, SpendInv, Run
<1>5. PhaseInv(n)
    BY DEF RunInv, PhaseInv, Run, Terminal, TerminalStatuses, EvaluationStatuses
<1>6. QED
    BY <1>3, <1>4, <1>5 DEF RunInv

(* A response is charged what it reports and releases the whole maximum.   *)
LEMMA CompleteResponseInv ==
    ASSUME NEW m, RunInv(m), NEW actual \in BudgetUsage, m.status = "running",
           m.request = "started", UsageAtMost(actual, m.maximum), actual.calls = 1
    PROVE  RunInv([m EXCEPT !.request = "completed", !.reported = actual,
                            !.used = AddUsage(m.used, actual),
                            !.reserved = SubtractUsage(m.reserved, m.maximum),
                            !.artifacts = @ \cup {"patch"}])
<1> DEFINE n == [m EXCEPT !.request = "completed", !.reported = actual,
                          !.used = AddUsage(m.used, actual),
                          !.reserved = SubtractUsage(m.reserved, m.maximum),
                          !.artifacts = @ \cup {"patch"}]
<1>1. m \in Run /\ m.maximum \in BudgetUsage /\ m.limits \in Caps \cup {NoLimits}
    BY DEF RunInv, Run
<1>2. m.used = NoUsage /\ m.reserved = m.maximum
    BY DEF RunInv, SpendInv
<1>3. AddUsage(m.used, actual) = actual /\ SubtractUsage(m.reserved, m.maximum) = NoUsage
    BY <1>1, <1>2, UsageArithmetic
<1>4. n \in Run
    BY <1>1, <1>3, UsageArithmetic DEF Run, ArtifactNames, ExpectedNames
<1>5. WithinLimits(AddUsage(actual, NoUsage), m.limits)
    <2>1. WithinLimits(m.maximum, m.limits)
        BY <1>1, <1>2, UsageArithmetic DEF RunInv, SpendInv
    <2>2. WithinLimits(actual, m.limits)
        BY <1>1, <2>1, WithinMonotone, LimitsWellFormed
    <2>3. QED
        BY <2>2, UsageArithmetic
<1>6. SpendInv(n)
    BY <1>1, <1>3, <1>5 DEF SpendInv, Run
<1>7. PhaseInv(n)
    BY DEF RunInv, PhaseInv, Run, Terminal, TerminalStatuses, EvaluationStatuses
<1>8. QED
    BY <1>4, <1>6, <1>7 DEF RunInv

(* An evaluation ends an answered run with all its evidence.               *)
LEMMA CompleteEvaluationInv ==
    ASSUME NEW m, RunInv(m), NEW names \in EvidenceSets, NEW status \in EvaluationStatuses,
           NEW reason \in Reasons, m.status = "running", m.request = "completed",
           m.artifacts = {"task_spec", "patch"}
    PROVE  RunInv([m EXCEPT !.status = status, !.artifacts = @ \cup names, !.reason = reason])
<1> DEFINE n == [m EXCEPT !.status = status, !.artifacts = @ \cup names, !.reason = reason]
<1>1. EvaluationNames \subseteq names /\ names \subseteq ArtifactNames
    BY DEF EvidenceSets, ArtifactNames, ExpectedNames
<1>2. m \in Run /\ m.absent = {}
    BY DEF RunInv, PhaseInv, Terminal, TerminalStatuses, EvaluationStatuses
<1>3. n \in Run
    BY <1>1, <1>2 DEF Run, Statuses, TerminalStatuses
<1>4. SpendInv(n)
    BY <1>2 DEF RunInv, SpendInv, Run
<1>5. ExpectedNames \subseteq n.artifacts /\ n.absent = {}
    BY <1>1, <1>2 DEF Run, ExpectedNames
<1>6. n.status = status /\ n.request = "completed"
    BY <1>2 DEF Run
<1>7. status \notin {"absent", "pending"} /\ status \in TerminalStatuses
    BY DEF TerminalStatuses, EvaluationStatuses
<1>8. PhaseInv(n)
    BY <1>5, <1>6, <1>7 DEF PhaseInv, Terminal
<1>9. QED
    BY <1>3, <1>4, <1>8 DEF RunInv

(* Recovery charges an open request in full and accounts for the rest.     *)
LEMMA RecoveredInv ==
    ASSUME NEW m, RunInv(m), Active(m), NEW reason \in Reasons
    PROVE  RunInv(Recovered(m, reason))
<1> DEFINE n == Recovered(m, reason)
<1>1. m \in Run /\ m.used \in BudgetUsage /\ m.maximum \in BudgetUsage /\ m.absent = {}
    BY DEF RunInv, PhaseInv, Active, Terminal, TerminalStatuses, EvaluationStatuses, Run
<1>2. AddUsage(m.used, m.reserved) \in BudgetUsage /\ NoUsage \in BudgetUsage
    BY <1>1, UsageArithmetic DEF Run
<1>3. n \in Run
    <2>1. ExpectedNames \ m.artifacts \in SUBSET ExpectedNames
        OBVIOUS
    <2>2. "infrastructure_error" \in Statuses /\ "ambiguous_model_request" \in Reasons
        BY DEF Statuses, TerminalStatuses, EvaluationStatuses, Reasons
    <2>3. CASE m.request = "started"
        BY <1>1, <1>2, <2>1, <2>2, <2>3 DEF Recovered, Run
    <2>4. CASE m.request # "started"
        BY <1>1, <1>2, <2>1, <2>2, <2>4 DEF Recovered, Run
    <2>5. QED
        BY <2>3, <2>4
<1>4. SpendInv(n)
    <2>1. CASE m.request = "started"
        <3>1. m.used = NoUsage /\ m.reserved = m.maximum
            BY <2>1 DEF RunInv, SpendInv
        <3>2. AddUsage(m.used, m.reserved) = m.maximum
            BY <1>1, <3>1, UsageArithmetic
        <3>3. /\ n.request = "ambiguous" /\ n.used = m.maximum /\ n.maximum = m.maximum
              /\ n.reserved = NoUsage /\ n.limits = m.limits
            BY <1>1, <2>1, <3>2 DEF Recovered, Run
        <3>4. AddUsage(n.used, n.reserved) = AddUsage(m.used, m.reserved)
            BY <1>1, <3>2, <3>3, UsageArithmetic
        <3>5. QED
            BY <3>3, <3>4 DEF RunInv, SpendInv
    <2>2. CASE m.request # "started"
        <3>1. /\ n.request = m.request /\ n.used = m.used /\ n.maximum = m.maximum
              /\ n.reported = m.reported /\ n.reserved = m.reserved /\ n.limits = m.limits
            BY <1>1, <2>2 DEF Recovered, Run, RunInv, SpendInv
        <3>2. QED
            BY <2>2, <3>1 DEF RunInv, SpendInv
    <2>3. QED
        BY <2>1, <2>2
<1>5. /\ n.status = "infrastructure_error" /\ n.artifacts = m.artifacts
      /\ n.absent = ExpectedNames \ m.artifacts /\ n.request # "started"
    BY <1>1 DEF Recovered, Run
<1>6. PhaseInv(n)
    BY <1>5 DEF PhaseInv, Terminal, TerminalStatuses, EvaluationStatuses
<1>7. QED
    BY <1>3, <1>4, <1>6 DEF RunInv

(* A refused reservation ends the run before any request.                  *)
LEMMA ExhaustedInv ==
    ASSUME NEW m, RunInv(m), m.request = "not_started"
    PROVE  RunInv(Exhausted(m))
<1> DEFINE n == Exhausted(m)
<1>1. m \in Run
    BY DEF RunInv
<1>2. n \in Run
    BY <1>1 DEF Exhausted, Run, Statuses, TerminalStatuses, Reasons
<1>3. SpendInv(n)
    BY <1>1 DEF Exhausted, RunInv, SpendInv, Run
<1>4. /\ n.status = "budget_exhausted" /\ n.artifacts = m.artifacts
      /\ n.absent = ExpectedNames \ m.artifacts /\ n.request = "not_started"
    BY <1>1 DEF Exhausted, Run
<1>5. PhaseInv(n)
    BY <1>4 DEF PhaseInv, Terminal, TerminalStatuses, EvaluationStatuses
<1>6. QED
    BY <1>2, <1>3, <1>5 DEF RunInv

-----------------------------------------------------------------------------
(* The inductive invariant. *)

(* Committing a legal record for one run keeps the ledger legal.           *)
LEMMA CommitInv ==
    ASSUME LedgerInv, NEW r \in RunIds, NEW m, RunInv(m), Commit(r, m)
    PROVE  LedgerInv'
    BY DEF LedgerInv, Commit, RunInv

(* The empty ledger is legal.                                              *)
LEMMA LedgerInvInit == LedgerInit => LedgerInv
<1>1. SUFFICES ASSUME LedgerInit PROVE LedgerInv
    OBVIOUS
<1>2. RunInv(NoRun)
    BY NewRunInv DEF NoRun
<1>3. \A r \in RunIds : runs[r] = NoRun
    BY <1>1 DEF LedgerInit
<1>4. runs \in [RunIds -> Run]
    BY <1>1, <1>2 DEF LedgerInit, RunInv
<1>5. QED
    BY <1>2, <1>3, <1>4 DEF LedgerInv

(* Every lifecycle transaction keeps the ledger legal.                     *)
LEMMA LedgerInvStep == LedgerInv /\ [LedgerNext]_runs => LedgerInv'
<1>1. SUFFICES ASSUME LedgerInv, [LedgerNext]_runs PROVE LedgerInv'
    OBVIOUS
<1>2. CASE UNCHANGED runs
    BY <1>1, <1>2 DEF LedgerInv
<1>3. ASSUME NEW r \in RunIds, NEW limits \in Caps, CreateRun(r, limits)
      PROVE  LedgerInv'
    BY <1>1, <1>3, NewRunInv, CommitInv DEF CreateRun
<1>4. ASSUME NEW r \in RunIds, StartRun(r) PROVE LedgerInv'
    <2>1. RunInv(runs[r]) /\ runs[r].status = "pending"
        BY <1>1, <1>4 DEF LedgerInv, StartRun, CanStartRun
    <2>2. RunInv([runs[r] EXCEPT !.status = "running"])
        BY <2>1, StartRunInv
    <2>3. QED
        BY <1>1, <1>4, <2>2, CommitInv DEF StartRun
<1>5. ASSUME NEW r \in RunIds, RecordTaskSpec(r) PROVE LedgerInv'
    <2>1. RunInv(runs[r]) /\ runs[r].status = "running"
        BY <1>1, <1>5 DEF LedgerInv, RecordTaskSpec, CanRecordTaskSpec
    <2>2. RunInv([runs[r] EXCEPT !.artifacts = @ \cup {"task_spec"}])
        BY <2>1, RecordTaskSpecInv
    <2>3. QED
        BY <1>1, <1>5, <2>2, CommitInv DEF RecordTaskSpec
<1>6. ASSUME NEW r \in RunIds, NEW maximum \in Usages, NEW used, NEW reserved,
             StartRequest(r, maximum, used, reserved)
      PROVE  LedgerInv'
    <2> DEFINE m == [runs[r] EXCEPT !.request = "started", !.maximum = maximum,
                                    !.reserved = reserved]
    <2>1. maximum \in BudgetUsage
        BY UsagesType
    <2>2. /\ RunInv(runs[r]) /\ runs[r].status = "running" /\ runs[r].request = "not_started"
          /\ reserved = AddUsage(runs[r].reserved, maximum)
          /\ WithinLimits(AddUsage(runs[r].used, AddUsage(runs[r].reserved, maximum)),
                          runs[r].limits)
        BY <1>1, <1>6 DEF LedgerInv, StartRequest, CanStartRequest
    <2>3. RunInv(m)
        BY <2>1, <2>2, StartRequestInv
    <2>4. QED
        BY <1>1, <1>6, <2>3, CommitInv DEF StartRequest
<1>7. ASSUME NEW r \in RunIds, NEW actual \in Usages, NEW used, NEW reserved,
             CompleteResponse(r, actual, used, reserved)
      PROVE  LedgerInv'
    <2> DEFINE m == [runs[r] EXCEPT !.request = "completed", !.reported = actual, !.used = used,
                                    !.reserved = reserved, !.artifacts = @ \cup {"patch"}]
    <2>1. actual \in BudgetUsage
        BY UsagesType
    <2>2. /\ RunInv(runs[r]) /\ runs[r].status = "running" /\ runs[r].request = "started"
          /\ UsageAtMost(actual, runs[r].maximum) /\ actual.calls = 1
          /\ used = AddUsage(runs[r].used, actual)
          /\ reserved = SubtractUsage(runs[r].reserved, runs[r].maximum)
        BY <1>1, <1>7 DEF LedgerInv, CompleteResponse, CanCompleteResponse
    <2>3. RunInv(m)
        BY <2>1, <2>2, CompleteResponseInv
    <2>4. QED
        BY <1>1, <1>7, <2>3, CommitInv DEF CompleteResponse
<1>8. ASSUME NEW r \in RunIds, NEW names \in EvidenceSets, NEW outcome \in Outcomes,
             NEW status \in EvaluationStatuses, NEW used, NEW reserved,
             CompleteEvaluation(r, names, outcome, status, used, reserved)
      PROVE  LedgerInv'
    <2> DEFINE why == IF status = "succeeded" THEN "none" ELSE "evaluator_status"
               m == [runs[r] EXCEPT !.status = status, !.artifacts = @ \cup names,
                                    !.reason = why]
    <2>1. /\ RunInv(runs[r]) /\ runs[r].status = "running" /\ runs[r].request = "completed"
          /\ runs[r].artifacts = {"task_spec", "patch"}
        BY <1>1, <1>8 DEF LedgerInv, CompleteEvaluation, CanCompleteEvaluation
    <2>2. why \in Reasons
        BY DEF Reasons
    <2>3. RunInv(m)
        BY <2>1, <2>2, CompleteEvaluationInv
    <2>4. QED
        BY <1>1, <1>8, <2>3, CommitInv DEF CompleteEvaluation
<1>9. ASSUME NEW r \in RunIds, NEW reason \in RecoveryReasons, Recover(r, reason)
      PROVE  LedgerInv'
    <2>1. RunInv(runs[r]) /\ Active(runs[r]) /\ reason \in Reasons
        BY <1>1, <1>9 DEF LedgerInv, Recover, CanRecover, Reasons
    <2>2. RunInv(Recovered(runs[r], reason))
        BY <2>1, RecoveredInv
    <2>3. QED
        BY <1>1, <1>9, <2>2, CommitInv DEF Recover
<1>10. ASSUME NEW r \in RunIds, Exhaust(r) PROVE LedgerInv'
    <2>1. RunInv(runs[r]) /\ runs[r].request = "not_started"
        BY <1>1, <1>10 DEF LedgerInv, Exhaust, CanExhaust
    <2>2. RunInv(Exhausted(runs[r]))
        BY <2>1, ExhaustedInv
    <2>3. QED
        BY <1>1, <1>10, <2>2, CommitInv DEF Exhaust
<1>11. QED
    BY <1>1, <1>2, <1>3, <1>4, <1>5, <1>6, <1>7, <1>8, <1>9, <1>10 DEF LedgerNext

(* The inductive invariant implies each safety property.                   *)
LEMMA LedgerInvImplies ==
    LedgerInv => /\ LedgerTypeOK
                 /\ BudgetRespected /\ SpendAccounted
                 /\ TerminalSettled /\ VerdictHasEvidence
<1>1. SUFFICES ASSUME LedgerInv
      PROVE  /\ LedgerTypeOK
             /\ BudgetRespected /\ SpendAccounted
             /\ TerminalSettled /\ VerdictHasEvidence
    OBVIOUS
<1>2. LedgerTypeOK
    BY <1>1 DEF LedgerInv, LedgerTypeOK
<1>3. BudgetRespected
    BY <1>1 DEF LedgerInv, RunInv, SpendInv, BudgetRespected
<1>4. SpendAccounted
    <2>1. SUFFICES ASSUME NEW r \in RunIds
          PROVE /\ CASE runs[r].request = "completed" ->
                          /\ runs[r].used = runs[r].reported
                          /\ UsageAtMost(runs[r].used, runs[r].maximum)
                     [] runs[r].request = "ambiguous" -> runs[r].used = runs[r].maximum
                     [] OTHER                         -> runs[r].used = NoUsage
                /\ runs[r].reserved =
                       IF runs[r].request = "started" THEN runs[r].maximum ELSE NoUsage
        BY DEF SpendAccounted
    <2>2. runs[r].request \in {"not_started", "started", "completed", "ambiguous"}
        BY <1>1 DEF LedgerInv, RunInv, Run
    <2>3. SpendInv(runs[r])
        BY <1>1 DEF LedgerInv, RunInv
    <2>4. QED
        BY <2>2, <2>3 DEF SpendInv
<1>5. TerminalSettled
    BY <1>1 DEF LedgerInv, RunInv, SpendInv, PhaseInv, TerminalSettled
<1>6. VerdictHasEvidence
    BY <1>1 DEF LedgerInv, RunInv, PhaseInv, VerdictHasEvidence
<1>7. QED
    BY <1>2, <1>3, <1>4, <1>5, <1>6

-----------------------------------------------------------------------------
(* Theorems. *)

(* Every committed record has its type.                                    *)
THEOREM LedgerTypeCorrect == LedgerSpec => []LedgerTypeOK
    BY LedgerInvInit, LedgerInvStep, LedgerInvImplies, PTL DEF LedgerSpec

(* The inductive invariant holds of every committed ledger.                *)
LEMMA LedgerInvariant == LedgerSpec => []LedgerInv
    BY LedgerInvInit, LedgerInvStep, PTL DEF LedgerSpec

(* Committed usage and reservations stay within the caps of every run      *)
(* (start_model_request, complete_model_response, recover_run).            *)
THEOREM LedgerBudget == LedgerSpec => []BudgetRespected
    BY LedgerInvariant, LedgerInvImplies, PTL

(* A reservation is held exactly while a request is open, and the charge   *)
(* is the one the request justifies.                                       *)
THEOREM LedgerSpend == LedgerSpec => []SpendAccounted
    BY LedgerInvariant, LedgerInvImplies, PTL

(* A terminal run is settled, however it was terminalized.                 *)
THEOREM LedgerTerminal == LedgerSpec => []TerminalSettled
    BY LedgerInvariant, LedgerInvImplies, PTL

(* A verdict rests on an answered request and on its evidence.             *)
THEOREM LedgerVerdict == LedgerSpec => []VerdictHasEvidence
    BY LedgerInvariant, LedgerInvImplies, PTL

(* One transaction leaves every other run alone, changes only a run that   *)
(* is not terminal, and takes back neither usage nor artifacts of it.      *)
LEMMA CommitMonotone ==
    ASSUME LedgerInv, NEW r \in RunIds, NEW m, Commit(r, m), ~Terminal(runs[r]),
           UsageAtMost(runs[r].used, m.used), runs[r].artifacts \subseteq m.artifacts
    PROVE  \A q \in RunIds : /\ Terminal(runs[q]) => runs'[q] = runs[q]
                             /\ UsageAtMost(runs[q].used, runs'[q].used)
                             /\ runs[q].artifacts \subseteq runs'[q].artifacts
<1>1. SUFFICES ASSUME NEW q \in RunIds
      PROVE  /\ Terminal(runs[q]) => runs'[q] = runs[q]
             /\ UsageAtMost(runs[q].used, runs'[q].used)
             /\ runs[q].artifacts \subseteq runs'[q].artifacts
    OBVIOUS
<1>2. CASE q = r
    <2>1. runs'[q] = m
        BY <1>2 DEF Commit, LedgerInv
    <2>2. QED
        BY <1>2, <2>1
<1>3. CASE q # r
    <2>1. runs'[q] = runs[q]
        BY <1>3 DEF Commit, LedgerInv
    <2>2. UsageAtMost(runs[q].used, runs[q].used)
        BY UsageArithmetic DEF LedgerInv, RunInv, Run
    <2>3. QED
        BY <2>1, <2>2
<1>4. QED
    BY <1>2, <1>3

(* Every transaction is monotone.                                          *)
LEMMA MonotoneStep ==
    ASSUME LedgerInv, LedgerNext
    PROVE  \A q \in RunIds : /\ Terminal(runs[q]) => runs'[q] = runs[q]
                             /\ UsageAtMost(runs[q].used, runs'[q].used)
                             /\ runs[q].artifacts \subseteq runs'[q].artifacts
<1> DEFINE Monotone == \A q \in RunIds : /\ Terminal(runs[q]) => runs'[q] = runs[q]
                                         /\ UsageAtMost(runs[q].used, runs'[q].used)
                                         /\ runs[q].artifacts \subseteq runs'[q].artifacts
<1>1. ASSUME NEW r \in RunIds
      PROVE  /\ runs[r] \in Run /\ RunInv(runs[r])
             /\ UsageAtMost(runs[r].used, runs[r].used)
             /\ runs[r].request = "not_started" => runs[r].used = NoUsage
             /\ runs[r].request = "started" => runs[r].used = NoUsage
    BY UsageArithmetic DEF LedgerInv, RunInv, SpendInv, Run
<1>2. ASSUME NEW u \in BudgetUsage PROVE UsageAtMost(NoUsage, u)
    BY DEF UsageAtMost, NoUsage, BudgetUsage
<1>3. ASSUME NEW r \in RunIds, runs[r].status \in {"absent", "pending", "running"}
      PROVE  ~Terminal(runs[r])
    BY <1>3 DEF Terminal, TerminalStatuses, EvaluationStatuses
<1>4. ASSUME NEW r \in RunIds, NEW limits \in Caps, CreateRun(r, limits) PROVE Monotone
    <2> DEFINE m == NewRun(limits)
    <2>1. runs[r].status = "absent"
        BY <1>4 DEF CreateRun, CanCreateRun
    <2>2. runs[r].artifacts = {} /\ runs[r].used = NoUsage
        BY <1>1, <2>1 DEF RunInv, PhaseInv
    <2>3. UsageAtMost(runs[r].used, m.used) /\ runs[r].artifacts \subseteq m.artifacts
        BY <2>2, <1>2, UsageArithmetic DEF NewRun
    <2>4. QED
        BY <1>3, <1>4, <2>1, <2>3, CommitMonotone DEF CreateRun
<1>5. ASSUME NEW r \in RunIds, StartRun(r) PROVE Monotone
    <2> DEFINE m == [runs[r] EXCEPT !.status = "running"]
    <2>1. m.used = runs[r].used /\ m.artifacts = runs[r].artifacts
        BY <1>1 DEF Run
    <2>2. QED
        BY <1>1, <1>3, <1>5, <2>1, CommitMonotone DEF StartRun, CanStartRun
<1>6. ASSUME NEW r \in RunIds, RecordTaskSpec(r) PROVE Monotone
    <2> DEFINE m == [runs[r] EXCEPT !.artifacts = @ \cup {"task_spec"}]
    <2>1. m.used = runs[r].used /\ runs[r].artifacts \subseteq m.artifacts
        BY <1>1 DEF Run
    <2>2. QED
        BY <1>1, <1>3, <1>6, <2>1, CommitMonotone DEF RecordTaskSpec, CanRecordTaskSpec
<1>7. ASSUME NEW r \in RunIds, NEW maximum, NEW used, NEW reserved,
             StartRequest(r, maximum, used, reserved)
      PROVE  Monotone
    <2> DEFINE m == [runs[r] EXCEPT !.request = "started", !.maximum = maximum,
                                    !.reserved = reserved]
    <2>1. m.used = runs[r].used /\ m.artifacts = runs[r].artifacts
        BY <1>1 DEF Run
    <2>2. QED
        BY <1>1, <1>3, <1>7, <2>1, CommitMonotone DEF StartRequest, CanStartRequest
<1>8. ASSUME NEW r \in RunIds, NEW actual \in Usages, NEW used, NEW reserved,
             CompleteResponse(r, actual, used, reserved)
      PROVE  Monotone
    <2> DEFINE m == [runs[r] EXCEPT !.request = "completed", !.reported = actual, !.used = used,
                                    !.reserved = reserved, !.artifacts = @ \cup {"patch"}]
    <2>1. m.used = AddUsage(runs[r].used, actual) /\ runs[r].artifacts \subseteq m.artifacts
        BY <1>1, <1>8 DEF Run, CompleteResponse, CanCompleteResponse
    <2>2. UsageAtMost(runs[r].used, m.used)
        BY <1>1, <2>1, UsagesType, UsageArithmetic DEF Run
    <2>3. QED
        BY <1>3, <1>8, <2>1, <2>2, CommitMonotone DEF CompleteResponse, CanCompleteResponse
<1>9. ASSUME NEW r \in RunIds, NEW names, NEW outcome, NEW status, NEW used, NEW reserved,
             CompleteEvaluation(r, names, outcome, status, used, reserved)
      PROVE  Monotone
    <2> DEFINE m == [runs[r] EXCEPT !.status = status, !.artifacts = @ \cup names,
                         !.reason = IF status = "succeeded" THEN "none" ELSE "evaluator_status"]
    <2>1. m.used = runs[r].used /\ runs[r].artifacts \subseteq m.artifacts
        BY <1>1 DEF Run
    <2>2. QED
        BY <1>1, <1>3, <1>9, <2>1, CommitMonotone
        DEF CompleteEvaluation, CanCompleteEvaluation
<1>10. ASSUME NEW r \in RunIds, NEW reason, Recover(r, reason) PROVE Monotone
    <2> DEFINE m == Recovered(runs[r], reason)
    <2>1. m.artifacts = runs[r].artifacts
        BY <1>1 DEF Run, Recovered
    <2>2. m.used = IF runs[r].request = "started"
                     THEN AddUsage(runs[r].used, runs[r].reserved) ELSE runs[r].used
        BY <1>1 DEF Run, Recovered
    <2>3. UsageAtMost(runs[r].used, m.used)
        BY <1>1, <2>2, UsageArithmetic DEF Run
    <2>4. QED
        BY <1>3, <1>10, <2>1, <2>3, CommitMonotone DEF Recover, CanRecover, Active
<1>11. ASSUME NEW r \in RunIds, Exhaust(r) PROVE Monotone
    <2> DEFINE m == Exhausted(runs[r])
    <2>1. m.used = runs[r].used /\ m.artifacts = runs[r].artifacts
        BY <1>1 DEF Run, Exhausted
    <2>2. QED
        BY <1>1, <1>3, <1>11, <2>1, CommitMonotone DEF Exhaust, CanExhaust, Active
<1>12. QED
    BY <1>4, <1>5, <1>6, <1>7, <1>8, <1>9, <1>10, <1>11 DEF LedgerNext

(* Terminal runs are final, and usage and artifacts only grow.             *)
THEOREM LedgerIsMonotone == LedgerSpec => LedgerMonotone
<1>1. LedgerInv /\ [LedgerNext]_runs =>
          [\A r \in RunIds : /\ Terminal(runs[r]) => runs'[r] = runs[r]
                             /\ UsageAtMost(runs[r].used, runs'[r].used)
                             /\ runs[r].artifacts \subseteq runs'[r].artifacts]_runs
    BY MonotoneStep
<1>2. QED
    BY <1>1, LedgerInvInit, LedgerInvStep, PTL DEF LedgerSpec, LedgerMonotone

-----------------------------------------------------------------------------
(* Part 2: the runners. *)

\* A runner at one of these steps has created the run it works on.
Owning == (Working \ {"create"}) \cup Recovering \cup {"returned", "recovered"}

\* It has not called the model yet.
Unsent == {"mark", "start", "bind", "reserve", "request", "dispatch"}

Job == [run : RunIds \cup {"none"}, limits : Caps \cup {NoLimits},
        maximum : Usages \cup {NoUsage}]

TypeInv ==
    /\ TypeOK
    /\ job \in [Actors -> Job]
    /\ verdict \in [Runners -> [names : Evidence \cup {{}},
                                status : EvaluationStatuses \cup {"absent"}]]
    /\ spent \in [RunIds -> Seq(Usages)]

\* The job an actor was given is one of those offered.
JobInv(a) ==
    pc[a] # "idle" =>
        /\ job[a].run \in RunIds
        /\ a \in Runners => job[a].limits \in Caps /\ job[a].maximum \in Usages

\* No two runners own a run, since a run has one creator.
OwnerInv(a) ==
    pc[a] \in Owning => creator[job[a].run] = a /\ runs[job[a].run].status # "absent"

\* How far a runner's model call has come.
CallInv(a) ==
    /\ pc[a] \in Unsent => spent[job[a].run] = <<>>
    /\ pc[a] = "dispatch" => runs[job[a].run].request # "not_started"
    /\ pc[a] \in {"waiting", "respond"} => Len(spent[job[a].run]) = 1

\* What a runner returned is what the ledger says for good.
ReturnInv(a) ==
    pc[a] = "returned" => /\ Terminal(runs[job[a].run])
                          /\ runs[job[a].run].status = verdict[a].status
                          /\ runs[job[a].run].used = authority[a].used

\* The calls made for a run against its ledger record.
SpentInv(r) ==
    /\ Len(spent[r]) <= 1
    /\ spent[r] # <<>> => runs[r].request # "not_started"
    /\ runs[r].request = "completed" => spent[r] # <<>> /\ runs[r].used = spent[r][1]

ActorInv(a) == JobInv(a) /\ (a \in Runners => OwnerInv(a) /\ CallInv(a) /\ ReturnInv(a))

\* The holder of the write lock works on the ledger it audited, and has read
\* what that ledger references once it is past the last reading.
TxnInv ==
    /\ \A a \in Actors : pc[a] = "writing" <=> txn.by = a
    /\ txn.by # "nobody" => txn.by \in fresh
    /\ txn.phase = "verified" => References \subseteq txn.seen

IInv ==
    /\ TypeInv
    /\ LedgerInv
    /\ TxnInv
    /\ \A a \in Actors : ActorInv(a)
    /\ \A r \in RunIds : SpentInv(r)

-----------------------------------------------------------------------------
(* The ledger under the runners. *)

\* What no transaction takes back.
Keeps(q) ==
    /\ runs[q].status # "absent" => runs'[q].status # "absent"
    /\ Terminal(runs[q]) => runs'[q] = runs[q]
    /\ runs[q].request # "not_started" => runs'[q].request # "not_started"
    /\ runs[q].request = "completed" =>
           runs'[q].request = "completed" /\ runs'[q].used = runs[q].used

Completes(q) == runs[q].request # "completed" /\ runs'[q].request = "completed"

(* A commit to one run that is not terminal keeps what must be kept, if    *)
(* the new record does.                                                    *)
LEMMA CommitKeeps ==
    ASSUME LedgerInv, NEW r \in RunIds, NEW m, Commit(r, m), ~Terminal(runs[r]),
           m.status # "absent",
           \/ m.request = runs[r].request /\ m.used = runs[r].used
           \/ runs[r].request = "not_started"
           \/ runs[r].request = "started" /\ m.request # "not_started"
    PROVE  /\ \A q \in RunIds : Keeps(q)
           /\ \A q \in RunIds : Completes(q) => q = r /\ m.request = "completed"
<1>1. runs'[r] = m /\ \A q \in RunIds \ {r} : runs'[q] = runs[q]
    BY DEF Commit, LedgerInv
<1>2. QED
    BY <1>1 DEF Keeps, Completes

(* Every transaction keeps what must be kept, and only                     *)
(* complete_model_response completes a request.                            *)
LEMMA TransactionKeeps ==
    ASSUME LedgerInv, NEW r \in RunIds
    PROVE  /\ \A limits \in Caps : CreateRun(r, limits) =>
                  \A q \in RunIds : Keeps(q) /\ ~Completes(q)
           /\ StartRun(r) => \A q \in RunIds : Keeps(q) /\ ~Completes(q)
           /\ RecordTaskSpec(r) => \A q \in RunIds : Keeps(q) /\ ~Completes(q)
           /\ \A maximum, used, reserved : StartRequest(r, maximum, used, reserved) =>
                  \A q \in RunIds : Keeps(q) /\ ~Completes(q)
           /\ \A actual, used, reserved : CompleteResponse(r, actual, used, reserved) =>
                  \A q \in RunIds : Keeps(q) /\ (Completes(q) => q = r)
           /\ \A names, outcome, used, reserved : \A status \in EvaluationStatuses :
                  CompleteEvaluation(r, names, outcome, status, used, reserved) =>
                  \A q \in RunIds : Keeps(q) /\ ~Completes(q)
           /\ \A reason : Recover(r, reason) =>
                  \A q \in RunIds : Keeps(q) /\ ~Completes(q)
           /\ Exhaust(r) => \A q \in RunIds : Keeps(q) /\ ~Completes(q)
<1>1. runs[r] \in Run /\ RunInv(runs[r])
    BY DEF LedgerInv
<1>2. ASSUME runs[r].status \in {"absent", "pending", "running"} PROVE ~Terminal(runs[r])
    BY <1>2 DEF Terminal, TerminalStatuses, EvaluationStatuses
<1>3. ASSUME NEW limits \in Caps, CreateRun(r, limits)
      PROVE  \A q \in RunIds : Keeps(q) /\ ~Completes(q)
    <2>1. runs[r].status = "absent" /\ Commit(r, NewRun(limits))
        BY <1>3 DEF CreateRun, CanCreateRun
    <2>2. runs[r].request = "not_started"
        BY <1>1, <2>1 DEF RunInv, PhaseInv
    <2>3. NewRun(limits).status = "pending" /\ NewRun(limits).request = "not_started"
        BY DEF NewRun
    <2>4. QED
        BY <1>2, <2>1, <2>2, <2>3, CommitKeeps
<1>4. ASSUME StartRun(r) PROVE \A q \in RunIds : Keeps(q) /\ ~Completes(q)
    <2> DEFINE m == [runs[r] EXCEPT !.status = "running"]
    <2>1. runs[r].status = "pending" /\ Commit(r, m)
        BY <1>4 DEF StartRun, CanStartRun
    <2>2. m.status = "running" /\ m.request = runs[r].request /\ m.used = runs[r].used
        BY <1>1 DEF Run
    <2>3. runs[r].request = "not_started"
        BY <1>1, <2>1 DEF RunInv, PhaseInv
    <2> HIDE DEF m
    <2>4. QED
        BY <1>2, <2>1, <2>2, <2>3, CommitKeeps
<1>5. ASSUME RecordTaskSpec(r) PROVE \A q \in RunIds : Keeps(q) /\ ~Completes(q)
    <2> DEFINE m == [runs[r] EXCEPT !.artifacts = @ \cup {"task_spec"}]
    <2>1. /\ runs[r].status = "running" /\ runs[r].request = "not_started"
          /\ Commit(r, m)
        BY <1>5 DEF RecordTaskSpec, CanRecordTaskSpec
    <2>2. m.status = "running" /\ m.request = runs[r].request /\ m.used = runs[r].used
        BY <1>1, <2>1 DEF Run
    <2> HIDE DEF m
    <2>3. QED
        BY <1>2, <2>1, <2>2, CommitKeeps
<1>6. ASSUME NEW maximum, NEW used, NEW reserved, StartRequest(r, maximum, used, reserved)
      PROVE  \A q \in RunIds : Keeps(q) /\ ~Completes(q)
    <2> DEFINE m == [runs[r] EXCEPT !.request = "started", !.maximum = maximum,
                                    !.reserved = reserved]
    <2>1. runs[r].status = "running" /\ runs[r].request = "not_started" /\ Commit(r, m)
        BY <1>6 DEF StartRequest, CanStartRequest
    <2>2. m.status = "running" /\ m.request = "started"
        BY <1>1, <2>1 DEF Run
    <2> HIDE DEF m
    <2>3. QED
        BY <1>2, <2>1, <2>2, CommitKeeps
<1>7. ASSUME NEW actual, NEW used, NEW reserved, CompleteResponse(r, actual, used, reserved)
      PROVE  \A q \in RunIds : Keeps(q) /\ (Completes(q) => q = r)
    <2> DEFINE m == [runs[r] EXCEPT !.request = "completed", !.reported = actual, !.used = used,
                                    !.reserved = reserved, !.artifacts = @ \cup {"patch"}]
    <2>1. runs[r].status = "running" /\ runs[r].request = "started" /\ Commit(r, m)
        BY <1>7 DEF CompleteResponse, CanCompleteResponse
    <2>2. m.status = "running" /\ m.request = "completed"
        BY <1>1, <2>1 DEF Run
    <2> HIDE DEF m
    <2>3. QED
        BY <1>2, <2>1, <2>2, CommitKeeps
<1>8. ASSUME NEW names, NEW outcome, NEW used, NEW reserved, NEW status \in EvaluationStatuses,
             CompleteEvaluation(r, names, outcome, status, used, reserved)
      PROVE  \A q \in RunIds : Keeps(q) /\ ~Completes(q)
    <2> DEFINE m == [runs[r] EXCEPT !.status = status, !.artifacts = @ \cup names,
                         !.reason = IF status = "succeeded" THEN "none" ELSE "evaluator_status"]
    <2>1. runs[r].status = "running" /\ runs[r].request = "completed" /\ Commit(r, m)
        BY <1>8 DEF CompleteEvaluation, CanCompleteEvaluation
    <2>2. m.status = status /\ m.request = runs[r].request /\ m.used = runs[r].used
        BY <1>1 DEF Run
    <2>3. status # "absent"
        BY DEF EvaluationStatuses
    <2> HIDE DEF m
    <2>4. QED
        BY <1>2, <2>1, <2>2, <2>3, CommitKeeps DEF Completes
<1>9. ASSUME NEW reason, Recover(r, reason)
      PROVE  \A q \in RunIds : Keeps(q) /\ ~Completes(q)
    <2> DEFINE m == Recovered(runs[r], reason)
    <2>1. runs[r].status \in {"pending", "running"} /\ Commit(r, m)
        BY <1>9 DEF Recover, CanRecover, Active
    <2>2. m.status = "infrastructure_error"
        BY <1>1 DEF Recovered, Run
    <2>3. IF runs[r].request = "started" THEN m.request = "ambiguous"
             ELSE m.request = runs[r].request /\ m.used = runs[r].used
        BY <1>1 DEF Recovered, Run
    <2> HIDE DEF m
    <2>4. QED
        BY <1>2, <2>1, <2>2, <2>3, CommitKeeps DEF Completes
<1>10. ASSUME Exhaust(r) PROVE \A q \in RunIds : Keeps(q) /\ ~Completes(q)
    <2> DEFINE m == Exhausted(runs[r])
    <2>1. /\ runs[r].status \in {"pending", "running"} /\ runs[r].request = "not_started"
          /\ Commit(r, m)
        BY <1>10 DEF Exhaust, CanExhaust, Active
    <2>2. m.status = "budget_exhausted" /\ m.request = "not_started" /\ m.used = runs[r].used
        BY <1>1, <2>1 DEF Exhausted, Run
    <2> HIDE DEF m
    <2>3. QED
        BY <1>2, <2>1, <2>2, CommitKeeps
<1>11. QED
    BY <1>3, <1>4, <1>5, <1>6, <1>7, <1>8, <1>9, <1>10

(* Only an evaluation's status matches an outcome.                         *)
LEMMA StatusOfOutcome ==
    ASSUME NEW outcome \in Outcomes, NEW status, StatusMatchesOutcome(status, outcome)
    PROVE  status \in EvaluationStatuses
    BY DEF Outcomes, StatusMatchesOutcome, EvaluationStatuses

-----------------------------------------------------------------------------
(* Types. *)

Labels == Working \cup Recovering \cup Finished \cup {"idle"}

(* One step moves at most one actor, to a known label.                     *)
LEMMA LabelStep ==
    ASSUME TypeInv, Next
    PROVE  pc' \in [Actors -> Labels]
<1>1. ASSUME NEW a \in Actors, NEW label \in Labels, Goto(a, label)
      PROVE  pc' \in [Actors -> Labels]
    BY <1>1 DEF Goto, TypeInv, TypeOK, Labels
<1> USE DEF Actors
<1>2. ASSUME NEW a \in Runners, NEW r, NEW limits, NEW maximum, Begin(a, r, limits, maximum)
      PROVE  pc' \in [Actors -> Labels]
    BY <1>1, <1>2 DEF Begin, Labels, Working
<1>3. ASSUME NEW a \in Runners, Execute(a) PROVE pc' \in [Actors -> Labels]
    <2>1. \E label \in Labels : Goto(a, label)
        BY <1>3 DEF Execute, Create, Mark, Start, Bind, Reserve, Refuse, Request, Dispatch,
           Answer, Respond, Evaluate, Finish, Raise, Transact, Labels, Working, Recovering,
           Finished
    <2>2. QED
        BY <1>1, <2>1
<1>4. ASSUME NEW a \in Actors, Recovery(a) \/ Retry(a) \/ Die(a)
      PROVE  pc' \in [Actors -> Labels]
    <2>1. UNCHANGED pc \/ \E label \in Labels : Goto(a, label)
        BY <1>4 DEF Recovery, Audit, OpenWriter, BeginWrite, Stage, Recheck, Read, Terminalize,
           Deny, Retry, Die, Labels, Working, Recovering, Finished, Audited, Opened
    <2>2. QED
        BY <1>1, <2>1 DEF TypeInv, TypeOK, Labels
<1>5. CASE LoseEvidence
    BY <1>5 DEF LoseEvidence, TypeInv, TypeOK, Labels
<1>6. QED
    BY <1>2, <1>3, <1>4, <1>5 DEF Next

(* A job changes when it is given, and an operator's with every audit.     *)
LEMMA JobStep ==
    ASSUME TypeInv, Next
    PROVE  job' \in [Actors -> Job]
<1>1. job \in [Actors -> Job]
    BY DEF TypeInv, Job
<1>2. ASSUME NEW a \in Actors, NEW r \in RunIds, NEW limits \in Caps, NEW maximum \in Usages,
             Begin(a, r, limits, maximum)
      PROVE  job' \in [Actors -> Job]
    <2>1. [run |-> r, limits |-> limits, maximum |-> maximum] \in Job
        BY DEF Job
    <2>2. QED
        BY <1>1, <1>2, <2>1 DEF Begin
<1>3. ASSUME NEW a \in Actors, NEW r \in RunIds, Audit(a, r) PROVE job' \in [Actors -> Job]
    <2>1. [job[a] EXCEPT !.run = r] \in Job
        BY <1>1 DEF Job
    <2>2. job' = [job EXCEPT ![a] = [job[a] EXCEPT !.run = r]]
        BY <1>1, <1>3 DEF Audit
    <2>3. QED
        BY <1>1, <2>1, <2>2
<1>4. CASE UNCHANGED job
    BY <1>1, <1>4
<1>5. ASSUME NEW a, Execute(a) PROVE UNCHANGED job
    BY <1>5 DEF Execute, Create, Mark, Start, Bind, Reserve, Refuse, Request, Dispatch,
       Answer, Respond, Evaluate, Finish, Raise, Transact
<1>6. ASSUME NEW a, \/ OpenWriter(a) \/ BeginWrite(a) \/ Stage(a) \/ Recheck(a)
                    \/ Terminalize(a) \/ Deny(a) \/ Retry(a) \/ Die(a)
      PROVE  UNCHANGED job
    BY <1>6 DEF OpenWriter, BeginWrite, Stage, Recheck, Read, Terminalize, Deny, Retry, Die
<1>7. CASE LoseEvidence
    BY <1>4, <1>7 DEF LoseEvidence
<1>8. QED
    BY <1>2, <1>3, <1>4, <1>5, <1>6, <1>7 DEF Next, Recovery, Actors

(* A cost that was reported is one of the usages a model may report.       *)
LEMMA CostType ==
    ASSUME TypeInv, NEW a \in Runners, job[a].run \in RunIds, Len(spent[job[a].run]) = 1
    PROVE  Cost(a) \in Usages /\ Cost(a) \in BudgetUsage /\ Cost(a) = spent[job[a].run][1]
    BY UsagesType DEF Cost, TypeInv

(* The budget authority's numbers stay usage vectors.                      *)
LEMMA AuthorityStep ==
    ASSUME IInv, Next
    PROVE  authority' \in [Runners -> [used : BudgetUsage, reserved : BudgetUsage]]
<1> DEFINE Budget == [used : BudgetUsage, reserved : BudgetUsage]
<1>1. authority \in [Runners -> Budget]
    BY DEF IInv, TypeInv, TypeOK
<1>2. ASSUME NEW a \in Runners, Reserve(a) PROVE authority' \in [Runners -> Budget]
    <2>1. job[a].maximum \in BudgetUsage
        BY UsagesType, UsageArithmetic DEF IInv, TypeInv, Job, Actors
    <2>2. [authority[a] EXCEPT !.reserved = AddUsage(authority[a].reserved, job[a].maximum)]
              \in Budget
        BY <1>1, <2>1, UsageArithmetic
    <2>3. authority' = [authority EXCEPT ![a] =
              [authority[a] EXCEPT !.reserved = AddUsage(authority[a].reserved, job[a].maximum)]]
        BY <1>1, <1>2 DEF Reserve
    <2>4. QED
        BY <1>1, <2>2, <2>3
<1>3. ASSUME NEW a \in Runners, Answer(a) PROVE authority' \in [Runners -> Budget]
    <2>1. ActorInv(a) /\ pc[a] = "waiting"
        BY <1>3 DEF IInv, Actors, Answer
    <2>2. job[a].run \in RunIds /\ Len(spent[job[a].run]) = 1
        BY <2>1 DEF ActorInv, JobInv, CallInv
    <2>3. Cost(a) \in BudgetUsage
        BY <2>2, CostType DEF IInv
    <2>4. [used |-> AddUsage(authority[a].used, Cost(a)), reserved |-> NoUsage] \in Budget
        BY <1>1, <2>3, UsageArithmetic
    <2>5. authority' = [authority EXCEPT ![a] =
              [used |-> AddUsage(authority[a].used, Cost(a)), reserved |-> NoUsage]]
        BY <1>1, <1>3 DEF Answer
    <2>6. QED
        BY <1>1, <2>4, <2>5
<1>4. ASSUME NEW a, Execute(a), ~Reserve(a), ~Answer(a) PROVE UNCHANGED authority
    BY <1>4 DEF Execute, Create, Mark, Start, Bind, Refuse, Request, Dispatch,
       Respond, Evaluate, Finish, Raise, Transact
<1>5. ASSUME NEW a, Recovery(a) \/ Retry(a) \/ Die(a) PROVE UNCHANGED authority
    BY <1>5 DEF Recovery, Audit, OpenWriter, BeginWrite, Stage, Recheck, Read,
       Terminalize, Deny, Retry, Die
<1>6. ASSUME NEW a, NEW r, NEW limits, NEW maximum, Begin(a, r, limits, maximum) \/ LoseEvidence
      PROVE  UNCHANGED authority
    BY <1>6 DEF Begin, LoseEvidence
<1>7. QED
    BY <1>1, <1>2, <1>3, <1>4, <1>5, <1>6 DEF Next

(* Only evidence with a name is published, for a run of the ledger.        *)
LEMMA StoredStep ==
    ASSUME IInv, Next
    PROVE  stored' \subseteq RunIds \X ArtifactNames
<1>1. stored \subseteq RunIds \X ArtifactNames
    BY DEF IInv, TypeInv, TypeOK
<1>2. ASSUME NEW r \in RunIds, NEW names, names \subseteq ArtifactNames, Publish(r, names)
      PROVE  stored' \subseteq RunIds \X ArtifactNames
    BY <1>1, <1>2 DEF Publish
<1>3. ASSUME NEW a \in Runners, pc[a] # "idle" PROVE job[a].run \in RunIds
    BY <1>3 DEF IInv, ActorInv, JobInv, Actors
<1>4. ASSUME NEW a, NEW r \in RunIds, NEW limits, NEW maximum, Begin(a, r, limits, maximum)
      PROVE  stored' \subseteq RunIds \X ArtifactNames
    BY <1>2, <1>4 DEF Begin, ArtifactNames, ExpectedNames
<1>5. ASSUME NEW a \in Runners, Answer(a) PROVE stored' \subseteq RunIds \X ArtifactNames
    BY <1>2, <1>3, <1>5 DEF Answer, ArtifactNames, ExpectedNames
<1>6. ASSUME NEW a \in Runners, NEW names \in Evidence, NEW status, Evaluate(a, names, status)
      PROVE  stored' \subseteq RunIds \X ArtifactNames
    <2>1. names \subseteq ArtifactNames
        BY EvidenceType DEF EvidenceSets, ArtifactNames, ExpectedNames
    <2>2. QED
        BY <1>2, <1>3, <1>6, <2>1 DEF Evaluate
<1>7. ASSUME NEW a, \/ Create(a) \/ Mark(a) \/ Start(a) \/ Bind(a) \/ Reserve(a) \/ Refuse(a)
                    \/ Request(a) \/ (\E cost \in Usages : Dispatch(a, cost)) \/ Respond(a)
                    \/ Finish(a) \/ Raise(a)
      PROVE  UNCHANGED stored
    BY <1>7 DEF Create, Mark, Start, Bind, Reserve, Refuse, Request, Dispatch,
       Respond, Finish, Raise, Transact
<1>8. ASSUME NEW a, Recovery(a) \/ Retry(a) \/ Die(a) PROVE UNCHANGED stored
    BY <1>8 DEF Recovery, Audit, OpenWriter, BeginWrite, Stage, Recheck, Read,
       Terminalize, Deny, Retry, Die
<1>9. CASE LoseEvidence
    BY <1>1, <1>9 DEF LoseEvidence
<1>10. QED
    BY <1>1, <1>4, <1>5, <1>6, <1>7, <1>8, <1>9 DEF Next, Execute

(* Only known actors hold an audited snapshot.                             *)
LEMMA AuditStep ==
    ASSUME TypeInv, Next
    PROVE  fresh' \subseteq Actors /\ steady' \subseteq Actors
<1>1. fresh \subseteq Actors /\ steady \subseteq Actors
    BY DEF TypeInv, TypeOK
<1> USE DEF StillFresh, StillSteady
<1>2. ASSUME NEW a \in Runners, Execute(a) PROVE fresh' \subseteq Actors /\ steady' \subseteq Actors
    BY <1>1, <1>2 DEF Execute, Create, Mark, Start, Bind, Reserve, Refuse, Request, Dispatch,
       Answer, Respond, Evaluate, Finish, Raise, Transact
<1>3. ASSUME NEW a \in Actors, Recovery(a) \/ Retry(a) \/ Die(a)
      PROVE  fresh' \subseteq Actors /\ steady' \subseteq Actors
    BY <1>1, <1>3 DEF Recovery, Audit, OpenWriter, BeginWrite, Stage, Recheck, Read,
       Terminalize, Deny, Retry, Die
<1>4. ASSUME NEW a, NEW r, NEW limits, NEW maximum, Begin(a, r, limits, maximum) \/ LoseEvidence
      PROVE  fresh' \subseteq Actors /\ steady' \subseteq Actors
    BY <1>1, <1>4 DEF Begin, LoseEvidence
<1>5. QED
    BY <1>2, <1>3, <1>4 DEF Next

(* The histories and the verdicts keep their types.                        *)
LEMMA HistoryStep ==
    ASSUME IInv, Next
    PROVE  /\ creator' \in [RunIds -> Runners \cup {"nobody"}]
           /\ spent' \in [RunIds -> Seq(Usages)]
           /\ verdict' \in [Runners -> [names : Evidence \cup {{}},
                                        status : EvaluationStatuses \cup {"absent"}]]
<1>1. /\ creator \in [RunIds -> Runners \cup {"nobody"}]
      /\ spent \in [RunIds -> Seq(Usages)]
      /\ verdict \in [Runners -> [names : Evidence \cup {{}},
                                  status : EvaluationStatuses \cup {"absent"}]]
    BY DEF IInv, TypeInv, TypeOK
<1>2. ASSUME NEW a \in Runners, Create(a)
      PROVE  /\ creator' \in [RunIds -> Runners \cup {"nobody"}]
             /\ UNCHANGED <<spent, verdict>>
    BY <1>1, <1>2 DEF Create, Transact
<1>3. ASSUME NEW a \in Runners, NEW cost \in Usages, Dispatch(a, cost)
      PROVE  /\ spent' \in [RunIds -> Seq(Usages)]
             /\ UNCHANGED <<creator, verdict>>
    <2>1. job[a].run \in RunIds
        BY <1>3 DEF IInv, ActorInv, JobInv, Actors, Dispatch
    <2>2. Append(spent[job[a].run], cost) \in Seq(Usages)
        BY <1>1, <2>1
    <2>3. QED
        BY <1>1, <1>3, <2>2 DEF Dispatch
<1>4. ASSUME NEW a \in Runners, NEW names \in Evidence, NEW status \in EvaluationStatuses,
             Evaluate(a, names, status)
      PROVE  /\ verdict' \in [Runners -> [names : Evidence \cup {{}},
                                          status : EvaluationStatuses \cup {"absent"}]]
             /\ UNCHANGED <<creator, spent>>
    BY <1>1, <1>4 DEF Evaluate
<1>5. ASSUME NEW a, \/ Mark(a) \/ Start(a) \/ Bind(a) \/ Reserve(a) \/ Refuse(a)
                    \/ Request(a) \/ Answer(a) \/ Respond(a) \/ Finish(a) \/ Raise(a)
      PROVE  UNCHANGED <<creator, spent, verdict>>
    BY <1>5 DEF Mark, Start, Bind, Reserve, Refuse, Request, Answer,
       Respond, Finish, Raise, Transact
<1>6. ASSUME NEW a, Recovery(a) \/ Retry(a) \/ Die(a) PROVE UNCHANGED <<creator, spent, verdict>>
    BY <1>6 DEF Recovery, Audit, OpenWriter, BeginWrite, Stage, Recheck, Read,
       Terminalize, Deny, Retry, Die
<1>7. ASSUME NEW a, NEW r, NEW limits, NEW maximum, Begin(a, r, limits, maximum) \/ LoseEvidence
      PROVE  UNCHANGED <<creator, spent, verdict>>
    BY <1>7 DEF Begin, LoseEvidence
<1>8. QED
    BY <1>1, <1>2, <1>3, <1>4, <1>5, <1>6, <1>7 DEF Next, Execute

\* The type of a recovery's write transaction.
Txn == [by : Actors \cup {"nobody"}, operation : {"none", "recover", "exhaust"},
        phase : {"none", "begun", "staged", "verified"}, seen : SUBSET (RunIds \X ArtifactNames)]

(* A write transaction keeps its type.                                     *)
LEMMA TxnTypeStep ==
    ASSUME IInv, Next
    PROVE  txn' \in Txn
<1>1. txn \in Txn /\ NoTxn \in Txn
    BY DEF IInv, TypeInv, TypeOK, Txn, NoTxn
<1>2. References \subseteq RunIds \X ArtifactNames
    BY DEF IInv, LedgerInv, Run, References
<1>3. ASSUME NEW a \in Runners, Execute(a) PROVE UNCHANGED txn
    BY <1>3 DEF Execute, Create, Mark, Start, Bind, Reserve, Refuse, Request, Dispatch,
       Answer, Respond, Evaluate, Finish, Raise, Transact
<1>4. ASSUME NEW a \in Actors, BeginWrite(a) PROVE txn' \in Txn
    BY <1>4 DEF BeginWrite, Operation, Txn
<1>5. ASSUME NEW a \in Actors, Stage(a) \/ Recheck(a) PROVE txn' \in Txn
    BY <1>1, <1>2, <1>5 DEF Stage, Recheck, Read, Txn
<1>6. ASSUME NEW a, NEW r, \/ Audit(a, r) \/ OpenWriter(a) \/ Terminalize(a)
                           \/ Deny(a) \/ Retry(a) \/ Die(a)
      PROVE  txn' = txn \/ txn' = NoTxn
    BY <1>6 DEF Audit, OpenWriter, Terminalize, Deny, Retry, Die
<1>7. ASSUME NEW a, NEW r, NEW limits, NEW maximum, Begin(a, r, limits, maximum) \/ LoseEvidence
      PROVE  UNCHANGED txn
    BY <1>7 DEF Begin, LoseEvidence
<1>8. QED
    BY <1>1, <1>3, <1>4, <1>5, <1>6, <1>7 DEF Next, Recovery

-----------------------------------------------------------------------------
(* Every step is a transaction of the ledger, or leaves it alone. *)

(* The run of an actor with a job, and what a runner may ask for it.       *)
LEMMA JobOf ==
    ASSUME IInv, NEW a \in Actors, pc[a] # "idle"
    PROVE  /\ job[a].run \in RunIds
           /\ a \in Runners => job[a].limits \in Caps /\ job[a].maximum \in Usages
    BY DEF IInv, ActorInv, JobInv

(* The transactions of a runner (FixtureRunner.run over EventStore).       *)
LEMMA RunnerTransaction ==
    ASSUME IInv, NEW a \in Runners, Execute(a)
    PROVE  LedgerNext \/ UNCHANGED runs
<1> USE DEF Actors
<1>1. CASE Create(a)
    BY <1>1, JobOf DEF Create, LedgerNext
<1>2. CASE Start(a)
    BY <1>2, JobOf DEF Start, LedgerNext
<1>3. CASE Bind(a)
    BY <1>3, JobOf DEF Bind, LedgerNext
<1>4. CASE Request(a)
    <2> DEFINE r == job[a].run
    <2>1. r \in RunIds /\ job[a].maximum \in Usages
        BY <1>4, JobOf DEF Request
    <2>2. StartRequest(r, job[a].maximum, authority[a].used, authority[a].reserved)
        BY <1>4 DEF Request
    <2>3. /\ authority[a].used = runs[r].used
          /\ authority[a].reserved = AddUsage(runs[r].reserved, job[a].maximum)
        BY <2>2 DEF StartRequest, CanStartRequest
    <2>4. QED
        BY <2>1, <2>2, <2>3 DEF LedgerNext
<1>5. CASE Respond(a)
    <2> DEFINE r == job[a].run
    <2>1. ActorInv(a) /\ pc[a] = "respond" /\ r \in RunIds
        BY <1>5, JobOf DEF IInv, Respond
    <2>2. Len(spent[r]) = 1
        BY <2>1 DEF ActorInv, CallInv
    <2>3. Cost(a) \in Usages
        BY <2>1, <2>2, CostType DEF IInv
    <2>4. CompleteResponse(r, Cost(a), authority[a].used, authority[a].reserved)
        BY <1>5 DEF Respond
    <2>5. /\ authority[a].used = AddUsage(runs[r].used, Cost(a))
          /\ authority[a].reserved = SubtractUsage(runs[r].reserved, runs[r].maximum)
        BY <2>4 DEF CompleteResponse, CanCompleteResponse
    <2>6. QED
        BY <2>1, <2>3, <2>4, <2>5 DEF LedgerNext
<1>6. CASE Finish(a)
    <2> DEFINE r == job[a].run
    <2>1. r \in RunIds
        BY <1>6, JobOf DEF Finish
    <2>2. PICK outcome \in Outcomes :
              CompleteEvaluation(r, verdict[a].names, outcome, verdict[a].status,
                                 authority[a].used, authority[a].reserved)
        BY <1>6 DEF Finish
    <2>3. /\ verdict[a].names \in EvidenceSets
          /\ authority[a].used = runs[r].used /\ authority[a].reserved = runs[r].reserved
          /\ StatusMatchesOutcome(verdict[a].status, outcome)
        BY <2>2 DEF CompleteEvaluation, CanCompleteEvaluation
    <2>4. verdict[a].status \in EvaluationStatuses
        BY <2>3, StatusOfOutcome
    <2>5. QED
        BY <2>1, <2>2, <2>3, <2>4 DEF LedgerNext
<1>7. CASE \/ Mark(a) \/ Reserve(a) \/ Refuse(a) \/ (\E cost \in Usages : Dispatch(a, cost))
           \/ Answer(a) \/ Raise(a)
           \/ \E names \in Evidence, status \in EvaluationStatuses : Evaluate(a, names, status)
    BY <1>7 DEF Mark, Reserve, Refuse, Dispatch, Answer, Evaluate, Raise
<1>8. QED
    BY <1>1, <1>2, <1>3, <1>4, <1>5, <1>6, <1>7 DEF Execute

(* Guarded terminalization commits a recovery, an exhaustion or nothing.   *)
LEMMA TerminalizeTransaction ==
    ASSUME IInv, NEW a \in Actors, Terminalize(a)
    PROVE  LedgerNext \/ UNCHANGED runs
<1>1. job[a].run \in RunIds
    BY JobOf DEF Terminalize, Writing
<1>2. Reason(a) \in RecoveryReasons
    BY DEF Reason, RecoveryReasons
<1>3. QED
    BY <1>1, <1>2 DEF Terminalize, LedgerNext

(* What the runners and operators do to the ledger is what the ledger      *)
(* allows.                                                                 *)
LEMMA LedgerStep ==
    ASSUME IInv, [Next]_vars
    PROVE  [LedgerNext]_runs
<1>1. CASE UNCHANGED vars
    BY <1>1 DEF vars
<1>2. ASSUME NEW a, NEW r, \/ Audit(a, r) \/ OpenWriter(a) \/ BeginWrite(a) \/ Stage(a)
                           \/ Recheck(a) \/ Deny(a) \/ Retry(a) \/ Die(a) \/ LoseEvidence
      PROVE  UNCHANGED runs
    BY <1>2 DEF Audit, OpenWriter, BeginWrite, Stage, Recheck, Read, Deny, Retry, Die, LoseEvidence
<1>3. ASSUME NEW a, NEW r, NEW limits, NEW maximum, Begin(a, r, limits, maximum)
      PROVE  UNCHANGED runs
    BY <1>3 DEF Begin
<1>4. QED
    BY <1>1, <1>2, <1>3, RunnerTransaction, TerminalizeTransaction DEF Next, Recovery

(* The types and the ledger's invariant are preserved.                     *)
LEMMA TypeStep ==
    ASSUME IInv, Next
    PROVE  TypeInv' /\ LedgerInv'
<1>1. LedgerInv'
    BY LedgerStep, LedgerInvStep DEF IInv
<1>2. LedgerTypeOK'
    BY <1>1 DEF LedgerInv, LedgerTypeOK
<1>3. TypeInv
    BY DEF IInv
<1>4. QED
    BY <1>1, <1>2, <1>3, LabelStep, JobStep, AuthorityStep, StoredStep, AuditStep, HistoryStep,
       TxnTypeStep
    DEF TypeInv, TypeOK, Labels, Txn

-----------------------------------------------------------------------------
(* What the actors know. *)

(* A step that moves one actor, whose transaction keeps what must be kept  *)
(* and charges what was spent if it completes a request, keeps every       *)
(* actor's invariant, if it does not take the actor to a step whose        *)
(* premises it lacks.                                                      *)
LEMMA MoveStep ==
    ASSUME IInv, NEW a \in Actors, NEW label, pc[a] # "idle", Goto(a, label),
           UNCHANGED <<job, creator, spent>>,
           \A q \in RunIds :
               /\ Keeps(q)
               /\ Completes(q) => spent[q] # <<>> /\ runs'[q].used = spent[q][1],
           \A b \in Runners \ {a} : verdict'[b] = verdict[b] /\ authority'[b] = authority[b],
           a \in Runners =>
               /\ label \in Owning => pc[a] \in Owning
               /\ label \in Unsent => pc[a] \in Unsent
               /\ label = "dispatch" => runs'[job[a].run].request # "not_started"
               /\ label \in {"waiting", "respond"} => pc[a] \in {"waiting", "respond"}
               /\ label = "returned" => ReturnInv(a)'
    PROVE  (\A b \in Actors : ActorInv(b)') /\ (\A r \in RunIds : SpentInv(r)')
<1>1. pc' = [pc EXCEPT ![a] = label] /\ pc \in [Actors -> Labels]
    BY DEF Goto, IInv, TypeInv, TypeOK, Labels
<1>2. ASSUME NEW r \in RunIds PROVE SpentInv(r)'
    BY DEF IInv, SpentInv, Keeps, Completes
<1>3. ASSUME NEW b \in Actors PROVE ActorInv(b)'
    <2>1. ActorInv(b) /\ (pc'[b] = IF b = a THEN label ELSE pc[b])
        BY <1>1 DEF IInv
    <2>2. JobInv(b)'
        BY <2>1 DEF ActorInv, JobInv
    <2>3. ASSUME b \in Runners, pc[b] # "idle" PROVE Keeps(job[b].run) /\ job[b].run \in RunIds
        BY <2>1, <2>3 DEF ActorInv, JobInv
    <2>4. CASE b # a
        <3>1. pc'[b] = pc[b] /\ job'[b] = job[b]
            BY <2>1, <2>4
        <3>2. ASSUME b \in Runners PROVE OwnerInv(b)'
            BY <2>1, <2>3, <3>1, <3>2 DEF ActorInv, OwnerInv, Keeps, Owning, Working, Recovering,
               Audited, Opened
        <3>3. ASSUME b \in Runners PROVE CallInv(b)'
            BY <2>1, <2>3, <3>1, <3>3 DEF ActorInv, CallInv, Keeps
        <3>4. ASSUME b \in Runners PROVE ReturnInv(b)'
            BY <2>1, <2>3, <2>4, <3>1, <3>4 DEF ActorInv, ReturnInv, Keeps
        <3>5. QED
            BY <2>2, <3>2, <3>3, <3>4 DEF ActorInv
    <2>5. CASE b = a
        <3>1. pc'[b] = label
            BY <2>1, <2>5
        <3>2. ASSUME b \in Runners PROVE OwnerInv(b)'
            BY <2>1, <2>3, <2>5, <3>1, <3>2 DEF ActorInv, OwnerInv, Keeps
        <3>3. ASSUME b \in Runners PROVE CallInv(b)'
            BY <2>1, <2>3, <2>5, <3>1, <3>3 DEF ActorInv, CallInv, Keeps
        <3>4. ASSUME b \in Runners PROVE ReturnInv(b)'
            BY <2>5, <3>1, <3>4 DEF ReturnInv
        <3>5. QED
            BY <2>2, <3>2, <3>3, <3>4 DEF ActorInv
    <2>6. QED
        BY <2>4, <2>5
<1>4. QED
    BY <1>2, <1>3

\* The invariant of every actor and of every run's calls.
ActorsInv == (\A b \in Actors : ActorInv(b)) /\ (\A r \in RunIds : SpentInv(r))

(* A ledger that is left alone keeps everything.                           *)
LEMMA UnchangedKeeps ==
    UNCHANGED runs => \A q \in RunIds : Keeps(q) /\ ~Completes(q)
    BY DEF Keeps, Completes

(* A job is given to a runner that has done nothing yet.                   *)
LEMMA BeginStep ==
    ASSUME IInv, NEW a \in Runners, NEW r \in RunIds, NEW limits \in Caps,
           NEW maximum \in Usages, Begin(a, r, limits, maximum)
    PROVE  ActorsInv'
<1>1. /\ pc' = [pc EXCEPT ![a] = "create"] /\ pc \in [Actors -> Labels]
      /\ job' = [job EXCEPT ![a] = [run |-> r, limits |-> limits, maximum |-> maximum]]
      /\ job \in [Actors -> Job] /\ a \in Actors
      /\ UNCHANGED <<runs, authority, verdict, creator, spent>>
    BY DEF Begin, Goto, IInv, TypeInv, TypeOK, Labels, Actors
<1>2. ASSUME NEW q \in RunIds PROVE SpentInv(q)'
    BY <1>1 DEF IInv, SpentInv
<1>3. ASSUME NEW b \in Actors PROVE ActorInv(b)'
    <2>1. CASE b # a
        <3>1. ActorInv(b) /\ pc'[b] = pc[b] /\ job'[b] = job[b]
            BY <1>1, <2>1 DEF IInv
        <3>2. QED
            BY <1>1, <3>1 DEF ActorInv, JobInv, OwnerInv, CallInv, ReturnInv
    <2>2. CASE b = a
        <3>1. pc'[b] = "create" /\ job'[b] = [run |-> r, limits |-> limits, maximum |-> maximum]
            BY <1>1, <2>2
        <3>2. JobInv(b)'
            BY <3>1 DEF JobInv
        <3>3. OwnerInv(b)' /\ CallInv(b)' /\ ReturnInv(b)'
            BY <3>1 DEF OwnerInv, CallInv, ReturnInv, Owning, Unsent, Working, Recovering,
               Audited, Opened
        <3>4. QED
            BY <3>2, <3>3 DEF ActorInv
    <2>3. QED
        BY <2>1, <2>2
<1>4. QED
    BY <1>2, <1>3 DEF ActorsInv

(* create_run succeeds for one runner per identity, whoever else has it.   *)
LEMMA CreateStep ==
    ASSUME IInv, NEW a \in Runners, Create(a)
    PROVE  ActorsInv'
<1> DEFINE r == job[a].run
<1>1. /\ pc' = [pc EXCEPT ![a] = "mark"] /\ pc \in [Actors -> Labels] /\ pc[a] = "create"
      /\ creator' = [creator EXCEPT ![r] = a] /\ creator \in [RunIds -> Runners \cup {"nobody"}]
      /\ CreateRun(r, job[a].limits) /\ a \in Actors
      /\ UNCHANGED <<job, authority, verdict, spent>>
    BY DEF Create, Transact, Goto, IInv, TypeInv, TypeOK, Labels, Actors
<1>2. r \in RunIds /\ job[a].limits \in Caps
    BY <1>1, JobOf
<1>3. \A q \in RunIds : Keeps(q) /\ ~Completes(q)
    BY <1>1, <1>2, TransactionKeeps DEF IInv
<1>4. runs[r].status = "absent" /\ runs'[r].status # "absent"
    BY <1>1, <1>2 DEF CreateRun, CanCreateRun, Commit, NewRun, IInv, LedgerInv
<1>5. spent[r] = <<>>
    <2>1. runs[r].request = "not_started"
        BY <1>2, <1>4 DEF IInv, LedgerInv, RunInv, PhaseInv
    <2>2. QED
        BY <1>2, <2>1 DEF IInv, SpentInv
<1>6. ASSUME NEW q \in RunIds PROVE SpentInv(q)'
    BY <1>1, <1>3 DEF IInv, SpentInv, Keeps, Completes
<1>7. ASSUME NEW b \in Actors PROVE ActorInv(b)'
    <2>1. CASE b # a
        <3>1. ActorInv(b) /\ pc'[b] = pc[b] /\ job'[b] = job[b]
            BY <1>1, <2>1 DEF IInv
        <3>2. JobInv(b)'
            BY <3>1 DEF ActorInv, JobInv
        <3>3. ASSUME b \in Runners, pc[b] # "idle"
              PROVE  Keeps(job[b].run) /\ job[b].run \in RunIds
            BY <1>3, <3>1, <3>3 DEF ActorInv, JobInv
        <3>4. ASSUME b \in Runners PROVE OwnerInv(b)'
            <4>1. SUFFICES ASSUME pc[b] \in Owning
                  PROVE  creator'[job[b].run] = b /\ runs'[job[b].run].status # "absent"
                BY <3>1 DEF OwnerInv
            <4>2. pc[b] # "idle"
                BY <4>1 DEF Owning, Working, Recovering, Audited, Opened
            <4>3. creator[job[b].run] = b /\ runs[job[b].run].status # "absent"
                BY <3>1, <3>4, <4>1 DEF ActorInv, OwnerInv
            <4>4. QED
                BY <1>1, <1>4, <3>3, <3>4, <4>2, <4>3 DEF Keeps
        <3>5. ASSUME b \in Runners PROVE CallInv(b)'
            BY <1>1, <3>1, <3>3, <3>5 DEF ActorInv, CallInv, Keeps
        <3>6. ASSUME b \in Runners PROVE ReturnInv(b)'
            BY <1>1, <3>1, <3>3, <3>6 DEF ActorInv, ReturnInv, Keeps
        <3>7. QED
            BY <3>2, <3>4, <3>5, <3>6 DEF ActorInv
    <2>2. CASE b = a
        <3>1. pc'[b] = "mark" /\ job'[b] = job[b] /\ ActorInv(b) /\ creator'[r] = b
            BY <1>1, <1>2, <2>2 DEF IInv
        <3>2. JobInv(b)'
            BY <1>1, <2>2, <3>1 DEF ActorInv, JobInv
        <3>3. OwnerInv(b)' /\ CallInv(b)' /\ ReturnInv(b)'
            BY <1>1, <1>4, <1>5, <2>2, <3>1 DEF OwnerInv, CallInv, ReturnInv
        <3>4. QED
            BY <3>2, <3>3 DEF ActorInv
    <2>3. QED
        BY <2>1, <2>2
<1>8. QED
    BY <1>6, <1>7 DEF ActorsInv

(* The transactions before the call, and the steps without one.            *)
LEMMA RunnerMoveStep ==
    ASSUME IInv, NEW a \in Runners,
           \/ Mark(a) \/ Start(a) \/ Bind(a) \/ Reserve(a) \/ Refuse(a) \/ Request(a)
           \/ Answer(a) \/ Raise(a)
           \/ \E names \in Evidence, status \in EvaluationStatuses : Evaluate(a, names, status)
    PROVE  ActorsInv'
<1> DEFINE r == job[a].run
<1>1. a \in Actors /\ pc[a] # "idle"
    BY DEF Mark, Start, Bind, Reserve, Refuse, Request, Answer, Raise, Evaluate, Working, Actors
<1>2. r \in RunIds /\ LedgerInv
    BY <1>1, JobOf DEF IInv
<1>3. UNCHANGED <<job, creator, spent>>
    BY DEF Mark, Start, Bind, Reserve, Refuse, Request, Answer, Raise, Evaluate, Transact
<1>4. \A b \in Runners \ {a} : verdict'[b] = verdict[b] /\ authority'[b] = authority[b]
    BY DEF Mark, Start, Bind, Reserve, Refuse, Request, Answer, Raise, Evaluate, Transact,
       IInv, TypeInv, TypeOK
<1>5. \A q \in RunIds : Keeps(q) /\ ~Completes(q)
    <2>1. \/ UNCHANGED runs \/ StartRun(r) \/ RecordTaskSpec(r)
          \/ StartRequest(r, job[a].maximum, authority[a].used, authority[a].reserved)
        BY DEF Mark, Start, Bind, Reserve, Refuse, Request, Answer, Raise, Evaluate
    <2>2. QED
        BY <1>2, <2>1, TransactionKeeps, UnchangedKeeps
<1>6. \E label : /\ Goto(a, label)
                 /\ label \in Owning => pc[a] \in Owning
                 /\ label \in Unsent => pc[a] \in Unsent
                 /\ label = "dispatch" => Request(a)
                 /\ label \in {"waiting", "respond"} => pc[a] \in {"waiting", "respond"}
                 /\ label # "returned"
    BY DEF Mark, Start, Bind, Reserve, Refuse, Request, Answer, Raise, Evaluate, Transact,
       Owning, Unsent, Working, Recovering, Audited, Opened
<1>7. Request(a) => runs'[r].request # "not_started"
    <2>1. SUFFICES ASSUME Request(a) PROVE runs'[r].request = "started"
        OBVIOUS
    <2>2. Commit(r, [runs[r] EXCEPT !.request = "started", !.maximum = job[a].maximum,
                                    !.reserved = authority[a].reserved])
        BY <2>1 DEF Request, StartRequest
    <2>3. runs'[r] = [runs[r] EXCEPT !.request = "started", !.maximum = job[a].maximum,
                                     !.reserved = authority[a].reserved]
        BY <1>2, <2>2 DEF Commit, LedgerInv
    <2>4. QED
        BY <1>2, <2>3 DEF LedgerInv, Run
<1>8. QED
    BY <1>1, <1>3, <1>4, <1>5, <1>6, <1>7, MoveStep DEF ActorsInv

(* The call goes out once: the runner that created the run is the only one *)
(* at this step for it, and it has not been here before.                   *)
LEMMA DispatchStep ==
    ASSUME IInv, NEW a \in Runners, NEW cost \in Usages, Dispatch(a, cost)
    PROVE  ActorsInv'
<1> DEFINE r == job[a].run
<1>1. /\ pc' = [pc EXCEPT ![a] = "waiting"] /\ pc \in [Actors -> Labels] /\ pc[a] = "dispatch"
      /\ spent' = [spent EXCEPT ![r] = Append(spent[r], cost)]
      /\ spent \in [RunIds -> Seq(Usages)] /\ a \in Actors
      /\ UNCHANGED <<runs, job, authority, verdict, creator>>
    BY DEF Dispatch, Goto, IInv, TypeInv, TypeOK, Labels, Actors
<1>2. r \in RunIds /\ ActorInv(a)
    BY <1>1, JobOf DEF IInv
<1>3. spent[r] = <<>> /\ runs[r].request # "not_started" /\ creator[r] = a
    BY <1>1, <1>2 DEF ActorInv, OwnerInv, CallInv, Unsent, Owning, Working
<1>4. spent'[r] = <<cost>> /\ \A q \in RunIds \ {r} : spent'[q] = spent[q]
    BY <1>1, <1>2, <1>3
<1>5. runs[r].request # "completed"
    BY <1>2, <1>3 DEF IInv, SpentInv
<1>6. ASSUME NEW q \in RunIds PROVE SpentInv(q)'
    <2>1. CASE q = r
        BY <1>1, <1>3, <1>4, <1>5, <2>1 DEF SpentInv
    <2>2. CASE q # r
        BY <1>1, <1>4, <2>2 DEF IInv, SpentInv
    <2>3. QED
        BY <2>1, <2>2
<1>7. ASSUME NEW b \in Actors PROVE ActorInv(b)'
    <2>1. CASE b # a
        <3>1. ActorInv(b) /\ pc'[b] = pc[b] /\ job'[b] = job[b]
            BY <1>1, <2>1 DEF IInv
        <3>2. JobInv(b)' /\ (b \in Runners => OwnerInv(b)' /\ ReturnInv(b)')
            BY <1>1, <3>1 DEF ActorInv, JobInv, OwnerInv, ReturnInv
        <3>3. ASSUME b \in Runners PROVE CallInv(b)'
            <4>1. pc[b] \in Unsent \cup {"waiting", "respond"} => creator[job[b].run] = b
                BY <3>1, <3>3 DEF ActorInv, OwnerInv, Owning, Unsent, Working
            <4>2. pc[b] \in Unsent \cup {"waiting", "respond"} => job[b].run \in RunIds
                BY <3>1 DEF ActorInv, JobInv, Unsent
            <4>3. pc[b] \in Unsent \cup {"waiting", "respond"} =>
                      spent'[job[b].run] = spent[job[b].run]
                BY <1>3, <1>4, <2>1, <4>1, <4>2
            <4>4. QED
                BY <1>1, <3>1, <3>3, <4>3 DEF ActorInv, CallInv, Unsent
        <3>4. QED
            BY <3>2, <3>3 DEF ActorInv
    <2>2. CASE b = a
        <3>1. pc'[b] = "waiting" /\ job'[b] = job[b] /\ ActorInv(b)
            BY <1>1, <1>2, <2>2
        <3>2. JobInv(b)' /\ OwnerInv(b)' /\ ReturnInv(b)'
            BY <1>1, <1>2, <2>2, <3>1 DEF ActorInv, JobInv, OwnerInv, ReturnInv, Owning, Working
        <3>3. CallInv(b)'
            <4>1. spent'[job'[b].run] = <<cost>>
                BY <1>4, <2>2, <3>1
            <4>2. Len(<<cost>>) = 1
                OBVIOUS
            <4>3. pc'[b] \notin Unsent /\ pc'[b] # "dispatch"
                BY <3>1 DEF Unsent
            <4>4. QED
                BY <4>1, <4>2, <4>3, Zenon DEF CallInv
        <3>4. QED
            BY <3>2, <3>3 DEF ActorInv
    <2>3. QED
        BY <2>1, <2>2
<1>8. QED
    BY <1>6, <1>7 DEF ActorsInv

(* The response is charged what the call cost.                             *)
LEMMA RespondStep ==
    ASSUME IInv, NEW a \in Runners, Respond(a)
    PROVE  ActorsInv'
<1> DEFINE r == job[a].run
<1>1. /\ a \in Actors /\ pc[a] = "respond" /\ Goto(a, "evaluate")
      /\ CompleteResponse(r, Cost(a), authority[a].used, authority[a].reserved)
      /\ UNCHANGED <<job, authority, verdict, creator, spent>>
    BY DEF Respond, Transact, Actors
<1>2. r \in RunIds /\ ActorInv(a) /\ LedgerInv /\ TypeInv
    BY <1>1, JobOf DEF IInv
<1>3. Len(spent[r]) = 1 /\ Cost(a) = spent[r][1] /\ Cost(a) \in BudgetUsage
    BY <1>1, <1>2, CostType DEF ActorInv, CallInv
<1>4. spent[r] # <<>>
    BY <1>3
<1>5. runs'[r].used = Cost(a)
    <2> DEFINE m == [runs[r] EXCEPT !.request = "completed", !.reported = Cost(a),
                         !.used = authority[a].used,
                         !.reserved = authority[a].reserved, !.artifacts = @ \cup {"patch"}]
    <2>1. /\ runs[r].request = "started" /\ authority[a].used = AddUsage(runs[r].used, Cost(a))
          /\ Commit(r, m)
        BY <1>1 DEF CompleteResponse, CanCompleteResponse
    <2>2. runs[r].used = NoUsage
        BY <1>2, <2>1 DEF LedgerInv, RunInv, SpendInv
    <2>3. authority[a].used = Cost(a)
        BY <1>3, <2>1, <2>2, UsageArithmetic
    <2>4. runs'[r] = m /\ runs[r] \in Run
        BY <1>2, <2>1 DEF Commit, LedgerInv
    <2>5. QED
        BY <2>3, <2>4 DEF Run
<1>6. \A q \in RunIds : Keeps(q) /\ (Completes(q) => q = r)
    BY <1>1, <1>2, TransactionKeeps
<1>7. QED
    BY <1>1, <1>3, <1>4, <1>5, <1>6, MoveStep DEF ActorsInv, Owning, Working, Unsent

(* The runner returns what complete_evaluation_with_events committed.      *)
LEMMA FinishStep ==
    ASSUME IInv, NEW a \in Runners, Finish(a)
    PROVE  ActorsInv'
<1> DEFINE r == job[a].run
<1>1. /\ a \in Actors /\ pc[a] = "finish" /\ Goto(a, "returned")
      /\ UNCHANGED <<job, authority, verdict, creator, spent>>
    BY DEF Finish, Actors
<1>2. r \in RunIds /\ LedgerInv
    BY <1>1, JobOf DEF IInv
<1>3. PICK outcome \in Outcomes :
          CompleteEvaluation(r, verdict[a].names, outcome, verdict[a].status,
                             authority[a].used, authority[a].reserved)
    BY DEF Finish
<1> DEFINE m == [runs[r] EXCEPT !.status = verdict[a].status, !.artifacts = @ \cup verdict[a].names,
                     !.reason = IF verdict[a].status = "succeeded" THEN "none"
                                ELSE "evaluator_status"]
<1>4. /\ authority[a].used = runs[r].used /\ StatusMatchesOutcome(verdict[a].status, outcome)
      /\ Commit(r, m)
    BY <1>3 DEF CompleteEvaluation, CanCompleteEvaluation
<1>5. verdict[a].status \in EvaluationStatuses
    BY <1>4, StatusOfOutcome
<1>6. runs'[r].status = verdict[a].status /\ runs'[r].used = authority[a].used
    <2>1. runs'[r] = m /\ runs[r] \in Run
        BY <1>2, <1>4 DEF Commit, LedgerInv
    <2>2. QED
        BY <1>4, <2>1 DEF Run
<1>7. ReturnInv(a)'
    BY <1>1, <1>5, <1>6 DEF ReturnInv, Terminal, TerminalStatuses
<1>8. \A q \in RunIds : Keeps(q) /\ ~Completes(q)
    BY <1>2, <1>3, <1>5, TransactionKeeps
<1>9. QED
    BY <1>1, <1>7, <1>8, MoveStep DEF ActorsInv, Owning, Working, Unsent

(* A runner audits its own run; an operator any run.                       *)
LEMMA AuditActorStep ==
    ASSUME IInv, NEW a \in Actors, NEW r \in RunIds, Audit(a, r)
    PROVE  ActorsInv'
<1>1. UNCHANGED <<runs, authority, verdict, creator, spent>>
    BY DEF Audit
<1>2. PICK label \in {"audited", "audited_refusal", "denied"} : Goto(a, label)
    BY DEF Audit
<1>3. CASE a \in Runners
    <2>1. pc[a] \in {"failed", "refused"} /\ r = job[a].run
        BY <1>3, ActorsDistinct DEF Audit
    <2>2. job' = job
        BY <2>1 DEF Audit, IInv, TypeInv, Job
    <2>3. pc[a] # "idle"
        BY <2>1
    <2>4. QED
        BY <1>1, <1>2, <2>1, <2>2, <2>3, MoveStep, UnchangedKeeps
        DEF ActorsInv, Owning, Recovering, Unsent
<1>4. CASE a \notin Runners
    <2>1. pc' = [pc EXCEPT ![a] = label] /\ pc \in [Actors -> Labels]
        BY <1>2 DEF Goto, IInv, TypeInv, TypeOK, Labels
    <2>2. job'[a].run = r /\ \A b \in Actors \ {a} : job'[b] = job[b]
        BY DEF Audit, IInv, TypeInv, Job
    <2>3. \A q \in RunIds : SpentInv(q)'
        BY <1>1 DEF IInv, SpentInv
    <2>4. ASSUME NEW b \in Actors PROVE ActorInv(b)'
        <3>1. CASE b = a
            BY <1>4, <2>2, <3>1 DEF ActorInv, JobInv
        <3>2. CASE b # a
            <4>1. ActorInv(b) /\ pc'[b] = pc[b] /\ job'[b] = job[b]
                BY <2>1, <2>2, <3>2 DEF IInv
            <4>2. QED
                BY <1>1, <4>1 DEF ActorInv, JobInv, OwnerInv, CallInv, ReturnInv
        <3>3. QED
            BY <3>1, <3>2
    <2>5. QED
        BY <2>3, <2>4 DEF ActorsInv
<1>5. QED
    BY <1>3, <1>4

(* The other steps of a recovery, a retry and a death.                     *)
LEMMA RecoveryMoveStep ==
    ASSUME IInv, NEW a \in Actors,
           \/ OpenWriter(a) \/ BeginWrite(a) \/ Terminalize(a) \/ Deny(a)
           \/ Retry(a) \/ Die(a)
    PROVE  ActorsInv'
<1> DEFINE r == job[a].run
<1>1. pc[a] # "idle"
    BY DEF OpenWriter, BeginWrite, Terminalize, Writing, Deny, Retry, Die, Audited, Opened,
       Recovering, Working
<1>2. r \in RunIds /\ LedgerInv
    BY <1>1, JobOf DEF IInv
<1>3. UNCHANGED <<job, authority, verdict, creator, spent>>
    BY DEF OpenWriter, BeginWrite, Terminalize, Deny, Retry, Die
<1>4. \A q \in RunIds : Keeps(q) /\ ~Completes(q)
    <2>1. UNCHANGED runs \/ Recover(r, Reason(a)) \/ Exhaust(r)
        BY DEF OpenWriter, BeginWrite, Terminalize, Deny, Retry, Die
    <2>2. QED
        BY <1>2, <2>1, TransactionKeeps, UnchangedKeeps
<1>5. \E label : /\ Goto(a, label)
                 /\ a \in Runners => (label \in Owning => pc[a] \in Owning)
                 /\ label \notin Unsent \cup {"waiting", "respond", "returned"}
    BY ActorsDistinct DEF OpenWriter, BeginWrite, Terminalize, Writing, Deny, Retry, Die, Owning,
       Unsent, Working, Recovering, Audited, Opened
<1>6. QED
    BY <1>1, <1>3, <1>4, <1>5, MoveStep DEF ActorsInv, Unsent

(* The readings of the evidence move nobody.                               *)
LEMMA ReadActorStep ==
    ASSUME IInv, NEW a \in Actors, Stage(a) \/ Recheck(a)
    PROVE  ActorsInv'
    BY DEF Stage, Recheck, Read, ActorsInv, IInv, ActorInv, JobInv, OwnerInv, CallInv, ReturnInv,
       SpentInv

-----------------------------------------------------------------------------
(* The write lock. *)

(* The step of an actor without the lock leaves the transaction alone.     *)
LEMMA UnlockedStep ==
    ASSUME IInv, NEW a \in Actors, NEW label, Goto(a, label), label # "writing",
           pc[a] # "writing", UNCHANGED <<runs, txn>>, fresh \ {a} \subseteq fresh'
    PROVE  TxnInv'
<1>1. TxnInv /\ pc' = [pc EXCEPT ![a] = label] /\ pc \in [Actors -> Labels]
    BY DEF IInv, TypeInv, TypeOK, Labels, Goto
<1>2. References' = References
    BY DEF References
<1>3. QED
    BY <1>1, <1>2 DEF TxnInv

(* After the last step of a transaction nobody holds the lock.             *)
LEMMA ReleasedStep ==
    ASSUME IInv, NEW a \in Actors, NEW label, Goto(a, label), label # "writing",
           txn' = NoTxn, \A b \in Actors \ {a} : pc[b] # "writing"
    PROVE  TxnInv'
<1>1. pc' = [pc EXCEPT ![a] = label] /\ pc \in [Actors -> Labels]
    BY DEF IInv, TypeInv, TypeOK, Labels, Goto
<1>2. txn'.by = "nobody" /\ txn'.phase = "none"
    BY DEF NoTxn
<1>3. QED
    BY <1>1, <1>2, ActorsDistinct DEF TxnInv

(* Nobody is writing while the lock is free.                               *)
LEMMA FreeLock ==
    ASSUME IInv, txn = NoTxn, NEW a \in Actors
    PROVE  pc[a] # "writing"
    BY ActorsDistinct DEF IInv, TxnInv, NoTxn

(* A runner's transaction waits for the lock; its other steps need none.   *)
LEMMA RunnerLockStep ==
    ASSUME IInv, NEW a \in Runners, Execute(a)
    PROVE  TxnInv'
<1>1. a \in Actors
    BY DEF Actors
<1>2. CASE Create(a) \/ Start(a) \/ Bind(a) \/ Request(a) \/ Respond(a) \/ Finish(a)
    <2>1. txn = NoTxn /\ txn' = NoTxn
        BY <1>2 DEF Create, Start, Bind, Request, Respond, Finish, Transact, BeginImmediate
    <2>2. \E label : Goto(a, label) /\ label # "writing"
        BY <1>2 DEF Create, Start, Bind, Request, Respond, Finish, Transact
    <2>3. QED
        BY <1>1, <2>1, <2>2, FreeLock, ReleasedStep
<1>3. CASE \/ Mark(a) \/ Reserve(a) \/ Refuse(a) \/ (\E cost \in Usages : Dispatch(a, cost))
           \/ Answer(a) \/ Raise(a)
           \/ \E names \in Evidence, status \in EvaluationStatuses : Evaluate(a, names, status)
    <2>1. UNCHANGED <<runs, txn, fresh>> /\ pc[a] # "writing"
        BY <1>3 DEF Mark, Reserve, Refuse, Dispatch, Answer, Evaluate, Raise, Transact, StillFresh,
           Working
    <2>2. \E label : Goto(a, label) /\ label # "writing"
        BY <1>3 DEF Mark, Reserve, Refuse, Dispatch, Answer, Evaluate, Raise, Transact
    <2>3. QED
        BY <1>1, <2>1, <2>2, UnlockedStep
<1>4. QED
    BY <1>2, <1>3 DEF Execute

(* A recovery takes the lock over the ledger that it audited, reads what   *)
(* this ledger references, and gives the lock back with its last step.     *)
LEMMA RecoveryLockStep ==
    ASSUME IInv, NEW a \in Actors, Recovery(a) \/ Retry(a) \/ Die(a)
    PROVE  TxnInv'
<1>1. TxnInv /\ pc \in [Actors -> Labels] /\ fresh \subseteq Actors
    BY DEF IInv, TypeInv, TypeOK, Labels
<1>2. ASSUME NEW r, Audit(a, r) PROVE TxnInv'
    <2>1. UNCHANGED <<runs, txn>> /\ fresh \ {a} \subseteq fresh' /\ pc[a] # "writing"
        BY <1>2 DEF Audit
    <2>2. \E label : Goto(a, label) /\ label # "writing"
        BY <1>2 DEF Audit
    <2>3. QED
        BY <2>1, <2>2, UnlockedStep
<1>3. CASE OpenWriter(a) \/ Retry(a)
    <2>1. UNCHANGED <<runs, txn, fresh>> /\ pc[a] # "writing"
        BY <1>3 DEF OpenWriter, Retry, Audited
    <2>2. \E label : Goto(a, label) /\ label # "writing"
        BY <1>3 DEF OpenWriter, Retry
    <2>3. QED
        BY <2>1, <2>2, UnlockedStep
<1>4. CASE BeginWrite(a)
    <2>1. /\ txn = NoTxn /\ a \in fresh /\ fresh' = fresh
          /\ txn'.by = a /\ txn'.phase = "begun"
          /\ pc' = [pc EXCEPT ![a] = "writing"]
        BY <1>4 DEF BeginWrite, Begins, BeginImmediate, Goto
    <2>2. \A b \in Actors : pc[b] # "writing"
        BY <2>1, FreeLock
    <2>3. QED
        BY <1>1, <2>1, <2>2 DEF TxnInv
<1>5. CASE Stage(a) \/ Recheck(a)
    <2>1. /\ UNCHANGED <<runs, pc, fresh>>
          /\ \E phase : txn' = [txn EXCEPT !.phase = phase, !.seen = References]
        BY <1>5 DEF Stage, Recheck, Read
    <2>2. txn'.by = txn.by /\ txn'.seen = References
        BY <2>1 DEF IInv, TypeInv, TypeOK
    <2>3. References' = References
        BY <2>1 DEF References
    <2>4. QED
        BY <1>1, <2>1, <2>2, <2>3 DEF TxnInv
<1>6. ASSUME txn.by = a, txn' = NoTxn, NEW label, Goto(a, label), label # "writing"
      PROVE  TxnInv'
    BY <1>1, <1>6, ReleasedStep DEF TxnInv
<1>7. CASE Terminalize(a)
    BY <1>6, <1>7 DEF Terminalize, Writing
<1>8. CASE Deny(a)
    <2>1. Goto(a, "denied") /\ UNCHANGED runs /\ fresh' = fresh \ {a}
        BY <1>8 DEF Deny
    <2>2. \/ txn.by = a /\ txn' = NoTxn
          \/ pc[a] # "writing" /\ UNCHANGED txn
        BY <1>8 DEF Deny, Writing, Audited
    <2>3. QED
        BY <1>6, <2>1, <2>2, UnlockedStep
<1>9. CASE Die(a)
    <2>1. Goto(a, "dead") /\ UNCHANGED runs /\ fresh' = fresh \ {a}
        BY <1>9 DEF Die
    <2>2. txn' = IF txn.by = a THEN NoTxn ELSE txn
        BY <1>9 DEF Die
    <2>3. CASE txn.by = a
        BY <1>6, <2>1, <2>2, <2>3
    <2>4. CASE txn.by # a
        <3>1. pc[a] # "writing"
            BY <1>1, <2>4 DEF TxnInv
        <3>2. QED
            BY <2>1, <2>2, <2>4, <3>1, UnlockedStep
    <2>5. QED
        BY <2>3, <2>4
<1>10. QED
    BY <1>2, <1>3, <1>4, <1>5, <1>7, <1>8, <1>9 DEF Recovery

(* Every step keeps the lock with its holder.                              *)
LEMMA LockStep ==
    ASSUME IInv, Next
    PROVE  TxnInv'
<1>1. ASSUME NEW a \in Runners, NEW r, NEW limits, NEW maximum, Begin(a, r, limits, maximum)
      PROVE  TxnInv'
    <2>1. UNCHANGED <<runs, txn, fresh>> /\ Goto(a, "create") /\ pc[a] = "idle" /\ a \in Actors
        BY <1>1 DEF Begin, Actors
    <2>2. QED
        BY <2>1, UnlockedStep
<1>2. CASE LoseEvidence
    BY <1>2 DEF LoseEvidence, IInv, TxnInv, References
<1>3. QED
    BY <1>1, <1>2, RunnerLockStep, RecoveryLockStep DEF Next

-----------------------------------------------------------------------------
(* The inductive invariant. *)

(* Nothing has been created, called or returned at first.                  *)
LEMMA IInvInit == Init => IInv
<1>1. SUFFICES ASSUME Init PROVE IInv
    OBVIOUS
<1>2. LedgerInv
    BY <1>1, LedgerInvInit DEF Init
<1>3. TypeInv
    BY <1>1, <1>2, UsageArithmetic
    DEF Init, TypeInv, TypeOK, LedgerInv, LedgerTypeOK, Job, NoJob, NoBudget, NoVerdict, NoTxn
<1>4. ASSUME NEW a \in Actors PROVE ActorInv(a)
    BY <1>1 DEF Init, ActorInv, JobInv, OwnerInv, CallInv, ReturnInv, Owning, Unsent, Working,
       Recovering, Audited, Opened
<1>5. ASSUME NEW r \in RunIds PROVE SpentInv(r)
    BY <1>1 DEF Init, LedgerInit, NoRun, NewRun, SpentInv
<1>6. TxnInv
    BY <1>1, ActorsDistinct DEF Init, TxnInv, NoTxn
<1>7. QED
    BY <1>2, <1>3, <1>4, <1>5, <1>6 DEF IInv

(* Every step of a runner, an operator or the environment preserves it.    *)
LEMMA IInvStep == IInv /\ [Next]_vars => IInv'
<1>1. SUFFICES ASSUME IInv, [Next]_vars PROVE IInv'
    OBVIOUS
<1>2. CASE UNCHANGED vars
    BY <1>1, <1>2 DEF vars, IInv, TypeInv, TypeOK, LedgerTypeOK, LedgerInv, ActorInv, JobInv,
       OwnerInv, CallInv, ReturnInv, SpentInv, TxnInv, References
<1>3. ASSUME LoseEvidence PROVE ActorsInv'
    BY <1>1, <1>3 DEF LoseEvidence, ActorsInv, IInv, ActorInv, JobInv, OwnerInv, CallInv,
       ReturnInv, SpentInv
<1>4. ASSUME Next PROVE ActorsInv'
    <2>1. ASSUME NEW a \in Runners, Execute(a) PROVE ActorsInv'
        BY <1>1, <2>1, CreateStep, RunnerMoveStep, DispatchStep, RespondStep, FinishStep
        DEF Execute
    <2>2. ASSUME NEW a \in Actors, Recovery(a) \/ Retry(a) \/ Die(a) PROVE ActorsInv'
        BY <1>1, <2>2, AuditActorStep, RecoveryMoveStep, ReadActorStep DEF Recovery
    <2>3. QED
        BY <1>1, <1>3, <1>4, <2>1, <2>2, BeginStep DEF Next
<1>5. QED
    BY <1>1, <1>2, <1>4, TypeStep, LockStep DEF IInv, ActorsInv

(* The invariant holds throughout.                                         *)
LEMMA Invariant == Spec => []IInv
    BY IInvInit, IInvStep, PTL DEF Spec

-----------------------------------------------------------------------------
(* Theorems. *)

(* Every state that runners and operators reach is well typed.             *)
THEOREM RunnerTypeCorrect == Spec => []TypeOK
<1>1. IInv => TypeOK
    BY DEF IInv, TypeInv
<1>2. QED
    BY <1>1, Invariant, PTL

(* Runners and operators use the event store as a ledger: each of their    *)
(* steps is one lifecycle transaction or leaves every run alone.           *)
THEOREM RunnersImplementLedger == Spec => LedgerSpec
<1>1. Init => LedgerInit
    BY DEF Init
<1>2. IInv /\ [Next]_vars => [LedgerNext]_runs
    BY LedgerStep
<1>3. QED
    BY <1>1, <1>2, Invariant, PTL DEF Spec, LedgerSpec

(* So the ledger's guarantees hold for every run of the fixture runner,    *)
(* whoever dies, races or recovers.                                        *)
THEOREM LedgerUnderRunners ==
    Spec => [](BudgetRespected /\ SpendAccounted /\ TerminalSettled /\ VerdictHasEvidence)
    BY RunnersImplementLedger, LedgerInvariant, LedgerInvImplies, PTL

(* A run's model is called at most once, and only after its reservation    *)
(* has been committed (FixtureRunner.run).                                 *)
THEOREM CalledOnce == Spec => []DispatchOnce
<1>1. IInv => DispatchOnce
    BY DEF IInv, SpentInv, DispatchOnce
<1>2. QED
    BY <1>1, Invariant, PTL

(* What a call within its declared maximum cost is charged or reserved in  *)
(* the ledger from before the call until after any recovery.               *)
THEOREM SpendIsCovered == Spec => []SpendCovered
<1>1. IInv => SpendCovered
    <2>1. SUFFICES ASSUME IInv, NEW r \in RunIds, NEW i \in DOMAIN spent[r],
                          UsageAtMost(spent[r][i], runs[r].maximum)
          PROVE  UsageAtMost(spent[r][i], AddUsage(runs[r].used, runs[r].reserved))
        BY DEF SpendCovered
    <2>2. /\ SpentInv(r) /\ runs[r] \in Run /\ SpendInv(runs[r])
          /\ spent[r] \in Seq(Usages)
        BY <2>1 DEF IInv, LedgerInv, RunInv, TypeInv
    <2>3. i = 1 /\ spent[r] # <<>> /\ spent[r][1] \in BudgetUsage
        BY <2>1, <2>2, UsagesType DEF SpentInv
    <2>4. runs[r].request \in {"started", "completed", "ambiguous"}
        BY <2>2, <2>3 DEF SpentInv, Run
    <2>5. runs[r].used \in BudgetUsage /\ runs[r].maximum \in BudgetUsage
        BY <2>2 DEF Run
    <2>6. CASE runs[r].request = "started"
        <3>1. AddUsage(runs[r].used, runs[r].reserved) = runs[r].maximum
            BY <2>2, <2>5, <2>6, UsageArithmetic DEF SpendInv
        <3>2. QED
            BY <2>1, <3>1
    <2>7. CASE runs[r].request = "ambiguous"
        <3>1. AddUsage(runs[r].used, runs[r].reserved) = runs[r].maximum
            BY <2>2, <2>5, <2>7, UsageArithmetic DEF SpendInv
        <3>2. QED
            BY <2>1, <3>1
    <2>8. CASE runs[r].request = "completed"
        <3>1. AddUsage(runs[r].used, runs[r].reserved) = spent[r][1]
            BY <2>2, <2>3, <2>8, UsageArithmetic DEF SpendInv, SpentInv
        <3>2. QED
            BY <2>3, <3>1, UsageArithmetic
    <2>9. QED
        BY <2>4, <2>6, <2>7, <2>8
<1>2. QED
    BY <1>1, Invariant, PTL

(* A runner that returned a result returned what the ledger holds, and     *)
(* will hold, for the run it created.                                      *)
THEOREM ResultsCommitted == Spec => []ResultIsCommitted
<1>1. IInv => ResultIsCommitted
    BY DEF IInv, ActorInv, OwnerInv, ReturnInv, ResultIsCommitted, Owning, Actors
<1>2. QED
    BY <1>1, Invariant, PTL

(* A failed runner recovers only the run it created.                       *)
THEOREM RecoversOnlyOwn == Spec => []RecoversOwnRun
<1>1. IInv => RecoversOwnRun
    BY DEF IInv, ActorInv, OwnerInv, RecoversOwnRun, Owning, Actors
<1>2. QED
    BY <1>1, Invariant, PTL

(* A run becomes terminal by recovery or refusal, whoever commits it, only *)
(* over the ledger that was audited and after all that this ledger         *)
(* references has been read under the write lock.                          *)
THEOREM RecoveryNotBlind == Spec => NoBlindRecovery
<1> DEFINE Blind(r) == /\ Active(runs[r]) /\ Terminal(runs'[r])
                       /\ runs'[r].reason # "evaluator_status" /\ runs'[r].status # "succeeded"
           Checked == txn.by \in fresh /\ References \subseteq txn.seen
<1>1. ASSUME IInv, Next, NEW r \in RunIds, Blind(r) PROVE Checked
    <2>1. runs[r].status \in {"pending", "running"} /\ runs'[r].status \in TerminalStatuses
        BY <1>1 DEF Active, Terminal
    <2>2. runs'[r] # runs[r]
        BY <2>1 DEF TerminalStatuses, EvaluationStatuses
    <2>3. LedgerInv /\ runs[r] \in Run
        BY <1>1 DEF IInv, LedgerInv
    <2>4. ASSUME NEW q, NEW m, Commit(q, m) PROVE q = r /\ runs'[r] = m
        BY <2>2, <2>3, <2>4 DEF Commit, LedgerInv
    <2>5. ASSUME NEW a \in Runners, Create(a) PROVE FALSE
        BY <2>1, <2>4, <2>5 DEF Create, CreateRun, CanCreateRun
    <2>6. ASSUME NEW a \in Runners, Start(a) PROVE FALSE
        <3>1. runs'[r] = [runs[r] EXCEPT !.status = "running"]
            BY <2>4, <2>6 DEF Start, StartRun
        <3>2. QED
            BY <2>1, <2>3, <3>1 DEF Run, TerminalStatuses, EvaluationStatuses
    <2>7. ASSUME NEW a \in Runners, Bind(a) PROVE FALSE
        <3>1. runs'[r] = [runs[r] EXCEPT !.artifacts = @ \cup {"task_spec"}]
            BY <2>4, <2>7 DEF Bind, RecordTaskSpec
        <3>2. QED
            BY <2>1, <2>3, <3>1 DEF Run, TerminalStatuses, EvaluationStatuses
    <2>8. ASSUME NEW a \in Runners, Request(a) PROVE FALSE
        <3> DEFINE m == [runs[job[a].run] EXCEPT !.request = "started",
                             !.maximum = job[a].maximum, !.reserved = authority[a].reserved]
        <3>1. Commit(job[a].run, m)
            BY <2>8 DEF Request, StartRequest
        <3>2. job[a].run = r /\ runs'[r] = m
            BY <2>4, <3>1
        <3>3. QED
            BY <2>1, <2>3, <3>2 DEF Run, TerminalStatuses, EvaluationStatuses
    <2>9. ASSUME NEW a \in Runners, Respond(a) PROVE FALSE
        <3> DEFINE m == [runs[job[a].run] EXCEPT !.request = "completed",
                             !.reported = Cost(a), !.used = authority[a].used,
                             !.reserved = authority[a].reserved, !.artifacts = @ \cup {"patch"}]
        <3>1. Commit(job[a].run, m)
            BY <2>9 DEF Respond, CompleteResponse
        <3>2. job[a].run = r /\ runs'[r] = m
            BY <2>4, <3>1
        <3>3. QED
            BY <2>1, <2>3, <3>2 DEF Run, TerminalStatuses, EvaluationStatuses
    <2>10. ASSUME NEW a \in Runners, Finish(a) PROVE FALSE
        <3>1. runs'[r] = [runs[r] EXCEPT !.status = verdict[a].status,
                              !.artifacts = @ \cup verdict[a].names,
                              !.reason = IF verdict[a].status = "succeeded" THEN "none"
                                         ELSE "evaluator_status"]
            BY <2>4, <2>10 DEF Finish, CompleteEvaluation
        <3>2. QED
            BY <1>1, <2>3, <3>1 DEF Run
    <2>11. ASSUME NEW a \in Actors, Terminalize(a) PROVE Checked
        <3>1. txn.by = a /\ txn.phase = "verified"
            BY <2>11 DEF Terminalize, Writing
        <3>2. QED
            BY <1>1, <3>1, ActorsDistinct DEF IInv, TxnInv
    <2>12. ASSUME NEW a \in Runners, Execute(a) PROVE FALSE
        <3>1. \/ Create(a) \/ Start(a) \/ Bind(a) \/ Request(a) \/ Respond(a) \/ Finish(a)
              \/ UNCHANGED runs
            BY <2>12 DEF Execute, Mark, Reserve, Refuse, Dispatch, Answer, Evaluate, Raise
        <3>2. QED
            BY <2>2, <2>5, <2>6, <2>7, <2>8, <2>9, <2>10, <3>1
    <2>13. ASSUME NEW a, NEW q, \/ Audit(a, q) \/ OpenWriter(a) \/ BeginWrite(a) \/ Stage(a)
                                \/ Recheck(a) \/ Deny(a) \/ Retry(a) \/ Die(a) \/ LoseEvidence
           PROVE  FALSE
        BY <2>2, <2>13 DEF Audit, OpenWriter, BeginWrite, Stage, Recheck, Read, Deny, Retry, Die,
           LoseEvidence
    <2>14. ASSUME NEW a, NEW q, NEW limits, NEW maximum, Begin(a, q, limits, maximum)
           PROVE  FALSE
        BY <2>2, <2>14 DEF Begin
    <2>15. QED
        BY <1>1, <2>11, <2>12, <2>13, <2>14 DEF Next, Recovery
<1>2. IInv /\ [Next]_vars =>
          [\A r \in RunIds :
            Active(runs[r]) /\ Terminal(runs'[r]) /\ runs'[r].reason # "evaluator_status"
                /\ runs'[r].status # "succeeded"
            => txn.by \in fresh /\ References \subseteq txn.seen]_vars
    BY <1>1
<1>3. QED
    BY <1>2, Invariant, PTL DEF Spec, NoBlindRecovery

=============================================================================
