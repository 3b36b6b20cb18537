------------------------ MODULE ContainerEvaluator ------------------------
(***************************************************************************)
(* The two-phase evaluator (evaluation/container.py) over the container    *)
(* sandbox, with the two programs of its image.  The candidate's program   *)
(* answers the challenge in one container; its output is data.  The scorer *)
(* compares that output with the oracle in another container, and only its *)
(* completion record, seen through a clean exit, makes a verdict.          *)
(*                                                                         *)
(* An output is a sequence of pieces.  A candidate's record is "record"    *)
(* and one piece per case (match, differ or raised), the last of which     *)
(* closes it; other pieces are text.  A scorer's record is one piece, its  *)
(* classification.                                                         *)
(***************************************************************************)
EXTENDS DockerSandbox

CONSTANTS
    Evaluations,      \* calls of evaluate, for the same task and patch
    Others,           \* calls of the sandbox by other processes
    CaseCount,        \* cases of the oracle
    CandidateOutputs  \* what a candidate's program may print

Invoke(e) == <<e, "invoke">>
Score(e) == <<e, "score">>
Classifications == {"passed", "candidate_failed", "evaluator_error"}
Records == {<<c>> : c \in Classifications}

ASSUME PhasePerContainer ==
    /\ Sessions = Others \cup (Evaluations \X {"invoke", "score"})
    /\ Others \cap (Evaluations \X {"invoke", "score"}) = {}
ASSUME CaseCountPositive == CaseCount \in Nat \ {0}
ASSUME OutputsAre == Outputs = CandidateOutputs \cup Records

VARIABLES
    stage,     \* the next step of each evaluation
    patch,     \* the bytes that were applied to its workspace
    response,  \* the candidate's output as it is handed to the scorer
    verdict    \* its EvaluationStatus

evaluatorVars == <<stage, patch, response, verdict>>
vars == <<sandboxVars, evaluatorVars>>

EvaluatorInit ==
    /\ Init
    /\ stage = [e \in Evaluations |-> "prepare"]
    /\ patch = [e \in Evaluations |-> "none"]
    /\ response = [e \in Evaluations |-> Nothing]
    /\ verdict = [e \in Evaluations |-> "none"]

At(e, from, to) == stage[e] = from /\ stage' = [stage EXCEPT ![e] = to]
Conclude(e, from, v) == At(e, from, "done") /\ verdict' = [verdict EXCEPT ![e] = v]

-----------------------------------------------------------------------------
(* The image's programs *)

\* score.py: exactly one record, nothing after it, with the cases of the
\* challenge, none of which raised or returned another value.  Everything else
\* fails the candidate: no record, two of them, one that is cut short.
Matched == <<"record">> \o [case \in 1..CaseCount |-> "match"]
Scored(answer) ==
    IF \E i \in 1..Len(answer) :
          /\ {j \in 1..Len(answer) : answer[j] = "record"} = {i}
          /\ SubSeq(answer, i, Len(answer)) = Matched
    THEN "passed" ELSE "candidate_failed"

\* The scorer prints its record at the end of main, or the one of an
\* exception.  What it exits with, or is killed with, is not assumed.
ScorerWrites(e) ==
    /\ \E c \in {Scored(response[e]), "evaluator_error"} : ProgramWrites(Score(e), <<c>>)
    /\ UNCHANGED evaluatorVars

\* invoke.py shares its interpreter with the candidate: any answer.
CandidateWrites(e) ==
    /\ \E answer \in CandidateOutputs : ProgramWrites(Invoke(e), answer)
    /\ UNCHANGED evaluatorVars

\* The programs of other calls run until they are killed.
Ends(s) ==
    /\ s \notin Others
    /\ \E code \in Codes, oom \in BOOLEAN : ProgramEnds(s, code, oom)
    /\ UNCHANGED evaluatorVars

-----------------------------------------------------------------------------
(* ContainerEvaluator.evaluate *)

\* copy_and_apply_patch reads the patch file once, whatever it holds by
\* then, and hands git the bytes it has validated.
PatchBytes == {"committed", "altered"}
PatchOutcomes == {"applied", "invalid_patch", "patch_apply_failed"}

\* _require_expected_patch_identity
ExpectedPatch(bytes) == bytes = "committed"

\* The bundle is loaded, the pristine workspace materialized and patched,
\* and the bytes of the patch compared with the committed digest.
Prepare(e) ==
    /\ \/ Conclude(e, "prepare", "infrastructure_error") /\ UNCHANGED patch
       \/ \E bytes \in PatchBytes, outcome \in PatchOutcomes :
             IF outcome # "applied"
               THEN Conclude(e, "prepare", outcome) /\ UNCHANGED patch
             ELSE IF ExpectedPatch(bytes)
               THEN /\ At(e, "prepare", "invoke")
                    /\ patch' = [patch EXCEPT ![e] = bytes]
                    /\ UNCHANGED verdict
               ELSE Conclude(e, "prepare", "infrastructure_error") /\ UNCHANGED patch
    /\ UNCHANGED <<response, sandboxVars>>

\* The candidate's container gets the workspace and the challenge, the
\* scorer's the challenge, the oracle and the response.
RunInvoke(e) ==
    /\ At(e, "invoke", "invoking")
    /\ Admit(Invoke(e))
    /\ UNCHANGED <<patch, response, verdict>>
RunScore(e) ==
    /\ At(e, "score", "scoring")
    /\ Admit(Score(e))
    /\ UNCHANGED <<patch, response, verdict>>

\* Only a response of a program that exited with 0 is scored.
Usable(r) == r.status = "exited" /\ r.code = 0

\* _candidate_phase_result, or the exception of a sandbox that is
\* unavailable.
CandidatePhaseResult(r) ==
    CASE r.status = "exited" -> "tests_failed"
      [] r.status = "unavailable" -> "infrastructure_error"
      [] OTHER -> r.status

InvokeReturned(e) ==
    LET r == result[Invoke(e)] IN
    /\ phase[Invoke(e)] = "done"
    /\ \/ /\ Usable(r)
          /\ response' = [response EXCEPT ![e] = r.stdout]
          /\ At(e, "invoking", "score")
          /\ UNCHANGED verdict
       \/ ~Usable(r) /\ Conclude(e, "invoking", CandidatePhaseResult(r)) /\ UNCHANGED response
    /\ UNCHANGED <<patch, sandboxVars>>

\* _post_candidate_infrastructure_result: the response cannot be written or
\* the scorer's request is not as it must be.
ScoreNotDispatched(e) ==
    /\ Conclude(e, "score", "infrastructure_error")
    /\ UNCHANGED <<patch, response, sandboxVars>>

\* Mutant: the record is believed whatever became of the scorer.
RecordBelieved(r) ==
    IF r.stdout = <<"passed">> THEN "passed"
    ELSE IF r.stdout = <<"candidate_failed">> THEN "tests_failed" ELSE "infrastructure_error"
\* _trusted_status, over a record that _extract_completion and
\* _validate_completion accept: exactly one, final, with the binding of this
\* evaluation and counts that agree with its classification.
TrustedStatus(r) ==
    IF r.status = "exited" /\ r.code = 0 /\ r.stdout = <<"passed">> THEN "passed"
    ELSE IF r.status = "exited" /\ r.code = 1 /\ r.stdout = <<"candidate_failed">>
         THEN "tests_failed" ELSE "infrastructure_error"

ScoreReturned(e) ==
    /\ phase[Score(e)] = "done"
    /\ Conclude(e, "scoring", TrustedStatus(result[Score(e)]))
    /\ UNCHANGED <<patch, response, sandboxVars>>

\* to_domain_result: what the verdict says of the candidate.
Outcome(v) ==
    CASE v = "passed" -> "passed"
      [] v \in {"none", "infrastructure_error"} -> "error"
      [] OTHER -> "failed"

Evaluate(e) ==
    \/ Prepare(e) \/ RunInvoke(e) \/ InvokeReturned(e)
    \/ ScoreNotDispatched(e) \/ RunScore(e) \/ ScoreReturned(e)

SandboxStep(s) == RunObserved(s) /\ UNCHANGED evaluatorVars
DaemonStep(s) == Daemon(s) /\ UNCHANGED evaluatorVars
OtherCall(s) == Admit(s) /\ UNCHANGED evaluatorVars

EvaluatorNext ==
    \/ \E e \in Evaluations : Evaluate(e) \/ CandidateWrites(e) \/ ScorerWrites(e)
    \/ \E s \in Sessions : SandboxStep(s) \/ DaemonStep(s) \/ Ends(s)
    \/ \E s \in Others : OtherCall(s)

\* The control plane runs, and its commands and its waits are bounded by
\* timeouts.  Nothing is assumed of the daemon and of the programs.
Fairness ==
    /\ \A e \in Evaluations : WF_vars(Evaluate(e))
    /\ \A s \in Sessions : WF_vars(SandboxStep(s))

EvaluatorSpec == EvaluatorInit /\ [][EvaluatorNext]_vars /\ Fairness

-----------------------------------------------------------------------------
(* Properties. *)

(* A pass is earned: the committed patch was applied, the candidate's      *)
(* program ran and exited with 0 within its limits, what was scored is the *)
(* beginning of what it printed and is one whole record in which every     *)
(* case matched, and the scorer, in a container of its own, said so and    *)
(* exited cleanly.  A failure found by the scorer is about a response that *)
(* does not match (evaluate, _trusted_status, score.py).  That the program *)
(* printed nothing more is not promised: an attachment that is lost after  *)
(* a whole record reads like one that ended (_capture_attached).           *)
VerdictIsEarned ==
    \A e \in Evaluations :
        /\ verdict[e] = "passed" =>
              /\ patch[e] = "committed"
              /\ state[Invoke(e)].started /\ state[Invoke(e)].code = 0 /\ ~state[Invoke(e)].oom
              /\ response[e] \in Seqs!Prefixes(state[Invoke(e)].out)
              /\ Scored(response[e]) = "passed"
              /\ state[Score(e)].code = 0 /\ ~state[Score(e)].oom
        /\ verdict[e] = "tests_failed" /\ result[Score(e)] # NoResult =>
              Scored(response[e]) = "candidate_failed"

(* The two executions of an evaluation are sequential: no container of the *)
(* candidate exists, or appears late, once the scorer's container does     *)
(* (ADR 0004, evaluate over run_observed).                                 *)
PhasesNeverOverlap ==
    \A e \in Evaluations : ~(Present(Invoke(e)) /\ Present(Score(e)))

(* An evaluation ends, whatever the daemon answers and however long the    *)
(* candidate's program runs (_capture_attached, _CONTROL_TIMEOUT_SECONDS). *)
EvaluationEnds == \A e \in Evaluations : <>(stage[e] = "done")

(* A failure is the candidate's: unless its patch was refused, its program *)
(* was started.  ADR 0003 says that an evaluator failure is not a worker   *)
(* success or failure.                                                     *)
FailureIsTheCandidates ==
    \A e \in Evaluations :
        Outcome(verdict[e]) = "failed" /\ patch[e] # "none" => state[Invoke(e)].started

=============================================================================
