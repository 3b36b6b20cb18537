---------------------- MODULE ContainerEvaluatorProofs ----------------------
(***************************************************************************)
(* Safety of the container sandbox and of the evaluator that calls it, for *)
(* any number of calls that share a daemon and may draw the same container *)
(* names, and any number of evaluations beside other calls.                *)
(*                                                                         *)
(* Part 1 is about DockerSandbox.  VouchedGone and RemovedByOwner are      *)
(* about commands that arrive late.  The invariant says what each pending  *)
(* command still finds: a create no container, a start a created one, a    *)
(* kill or a removal the container of its own call.  A removal by name is  *)
(* aimed at its own call's container because that one is there, and no two *)
(* containers that are there have the same name.                           *)
(*                                                                         *)
(* Part 2 is about ContainerEvaluator, an environment of the sandbox: its  *)
(* steps are steps of the sandbox or leave it alone, so the sandbox's      *)
(* invariant holds here, too.  The scorer's call begins only after the     *)
(* candidate's call has returned a usable result, and such a result        *)
(* vouches for the removal of the candidate's container.  A verdict rests  *)
(* on results that tell how the two programs ended, and on a response that *)
(* nothing changes once it is with the scorer.                             *)
(***************************************************************************)
EXTENDS ContainerEvaluator, SequenceTheorems, TLAPS

(* Part 1: the sandbox. *)

Vouched == Statuses \ {"infrastructure_error"}

NamesUnique ==
    \A s, t \in Sessions : Present(s) /\ Present(t) /\ name[s] = name[t] => s = t

\* What a call has made of its container by each phase.
PhaseInv(s) ==
    /\ phase[s] \in {"idle", "create"} => box[s] = "none" /\ requests[s] = {}
    /\ phase[s] = "start" => box[s] = "created" /\ requests[s] = {}
    /\ phase[s] \in {"attached", "kill", "reap", "inspect", "remove"} => Present(s)
    /\ phase[s] = "done" /\ result[s].status \in Vouched => box[s] = "removed"

\* What the commands that are still under way will find.
RequestInv(s) ==
    /\ "create" \in requests[s] => box[s] = "none" /\ phase[s] = "done"
    /\ "start" \in requests[s] => box[s] = "created"
    /\ "kill" \in requests[s] => Present(s)
    /\ "rm" \in requests[s] => Present(s) /\ phase[s] \in {"verify", "done"}

RemovalInv(s) ==
    /\ removed[s] => box[s] = "removed"
    /\ box[s] = "removed" => phase[s] \in {"verify", "done"} /\ requests[s] = {}

IInv ==
    /\ TypeOK
    /\ NamesUnique
    /\ \A s \in Sessions : PhaseInv(s) /\ RequestInv(s) /\ RemovalInv(s)

-----------------------------------------------------------------------------

(* Of an empty output nothing can be read, of a single piece nothing or    *)
(* that piece.                                                             *)
LEMMA ShortReadings ==
    /\ Seqs!Prefixes(Nothing) = {Nothing}
    /\ \A c : Seqs!Prefixes(<<c>>) = {Nothing, <<c>>} /\ <<c>> # Nothing
<1>1. Seqs!Prefixes(Nothing) = {Nothing}
  <2>1. Len(<<>>) = 0 /\ SubSeq(<<>>, 1, 0) = <<>>  OBVIOUS
  <2>2. 0..0 = {0}  OBVIOUS
  <2> QED  BY <2>1, <2>2 DEF Seqs!Prefixes, Nothing
<1>2. ASSUME NEW c PROVE Seqs!Prefixes(<<c>>) = {Nothing, <<c>>} /\ <<c>> # Nothing
  <2>1. /\ <<c>> \in Seq({c}) /\ Len(<<c>>) = 1
        /\ SubSeq(<<c>>, 1, 0) = <<>> /\ SubSeq(<<c>>, 1, 1) = <<c>>
    <3>1. <<c>> \in Seq({c}) /\ Len(<<c>>) = 1 /\ <<c>>[1] = c  OBVIOUS
    <3>2. SubSeq(<<c>>, 1, 0) = <<>>  BY SubSeqEmpty
    <3>3. SubSeq(<<c>>, 1, 1) = <<c>>  BY <3>1, SubSeqFull
    <3> QED  BY <3>1, <3>2, <3>3
  <2>2. 0..1 = {0, 1}  OBVIOUS
  <2>3. <<c>> # <<>>  OBVIOUS
  <2> QED  BY <2>1, <2>2, <2>3 DEF Seqs!Prefixes, Nothing
<1> QED  BY <1>1, <1>2

(* To have read nothing is a reading.                                      *)
LEMMA NothingIsRead == Nothing \in Readings
  BY DEF Readings

(* What a call may have read so far is a reading.                          *)
LEMMA ReadableTypes ==
    ASSUME TypeOK, NEW s \in Sessions
    PROVE  Readable(s) \subseteq Readings
<1>1. state[s].out \in Outputs \cup {Nothing}
  BY DEF TypeOK
<1> QED  BY <1>1, ShortReadings DEF Readable, Readings

(* Initially there is no container and no command.                         *)
LEMMA InitInv == Init => IInv
  BY CodeTypes, OutputTypes, NameTypes, NothingIsRead
     DEF Init, IInv, TypeOK, NamesUnique, PhaseInv, RequestInv, RemovalInv, Present, Phases,
         Results, NoResult, Result, NoCode, KilledCode, Statuses, Vouched

(* A removal that finds its own call's container takes that one alone,     *)
(* also when it goes by name.                                              *)
LEMMA RemovesOwn ==
    ASSUME IInv, NEW s \in Sessions, Present(s)
    PROVE  Gone(s) = {s}
  BY DEF IInv, NamesUnique, Gone, Target

(* The results a call returns are results.                                 *)
LEMMA ResultTypes ==
    /\ Infrastructure \in Results /\ Infrastructure.status \notin Vouched
    /\ Unavailable \in Results /\ Unavailable.status \notin Vouched
  BY NothingIsRead
     DEF Infrastructure, Unavailable, Results, Result, Statuses, Vouched, NoCode, KilledCode

(* Changing one field of what is known of a container keeps its type.      *)
StateTypes == [started : BOOLEAN, code : Codes \cup {KilledCode}, oom : BOOLEAN,
               out : Outputs \cup {Nothing}]
LEMMA StateUpdates ==
    ASSUME TypeOK, NEW s \in Sessions, NEW code \in Codes \cup {KilledCode}, NEW oom \in BOOLEAN,
           NEW out \in Outputs
    PROVE  /\ [state EXCEPT ![s].code = code] \in [Sessions -> StateTypes]
           /\ [state EXCEPT ![s].started = TRUE] \in [Sessions -> StateTypes]
           /\ [state EXCEPT ![s].out = out] \in [Sessions -> StateTypes]
           /\ [state EXCEPT ![s].code = code, ![s].oom = oom] \in [Sessions -> StateTypes]
<1>1. state \in [Sessions -> StateTypes]  BY DEF TypeOK, StateTypes
<1>2. /\ [state[s] EXCEPT !.code = code] \in StateTypes
      /\ [state[s] EXCEPT !.started = TRUE] \in StateTypes
      /\ [state[s] EXCEPT !.out = out] \in StateTypes
      /\ [[state[s] EXCEPT !.code = code] EXCEPT !.oom = oom] \in StateTypes
  BY <1>1 DEF StateTypes
<1> QED  BY <1>1, <1>2

(* Before there is a container: admission and creation.                    *)
LEMMA AdmitStep ==
    ASSUME IInv, NEW s \in Sessions, Admit(s)
    PROVE  IInv'
<1> USE DEF IInv, Admit, daemonVars, Goto, Return, Finish
<1>1. TypeOK'
  <2>1. phase' \in [Sessions -> Phases]  BY DEF TypeOK, Phases
  <2>2. name' \in [Sessions -> Names \cup {NoName}]  BY NameTypes DEF TypeOK
  <2>3. result' \in [Sessions -> Results]  BY ResultTypes DEF TypeOK
  <2>4. removed' \in [Sessions -> BOOLEAN]  BY DEF TypeOK
  <2> QED  BY <2>1, <2>2, <2>3, <2>4 DEF TypeOK
<1>2. NamesUnique'
  BY DEF NamesUnique, Present, PhaseInv, TypeOK
<1>3. ASSUME NEW t \in Sessions PROVE (PhaseInv(t) /\ RequestInv(t) /\ RemovalInv(t))'
  BY <1>3, ResultTypes DEF TypeOK, PhaseInv, RequestInv, RemovalInv, Present
<1> QED  BY <1>1, <1>2, <1>3

LEMMA CreateStep ==
    ASSUME IInv, NEW s \in Sessions, CreateAnswered(s) \/ CreateFailed(s)
    PROVE  IInv'
<1> USE DEF IInv, Goto, Return, Finish, Ask, Boxes
<1>1. CASE CreateAnswered(s)
  <2> USE DEF CreateAnswered
  <2>1. TypeOK'
    BY <1>1, ResultTypes DEF TypeOK, Phases
  <2>2. NamesUnique'
    BY <1>1 DEF NamesUnique, NameFree, Present, TypeOK
  <2>3. ASSUME NEW t \in Sessions PROVE (PhaseInv(t) /\ RequestInv(t) /\ RemovalInv(t))'
    BY <1>1, <2>3 DEF TypeOK, PhaseInv, RequestInv, RemovalInv, Present
  <2> QED  BY <2>1, <2>2, <2>3
<1>2. CASE CreateFailed(s)
  <2> USE DEF CreateFailed
  <2>1. TypeOK'
    BY <1>2, ResultTypes DEF TypeOK, Phases
  <2>2. NamesUnique'
    BY <1>2 DEF NamesUnique, Present
  <2>3. ASSUME NEW t \in Sessions PROVE (PhaseInv(t) /\ RequestInv(t) /\ RemovalInv(t))'
    BY <1>2, <2>3, ResultTypes DEF TypeOK, PhaseInv, RequestInv, RemovalInv, Present
  <2> QED  BY <2>1, <2>2, <2>3
<1> QED  BY <1>1, <1>2

(* The client while its container is there: start, capture, reap, inspect. *)
(* None of these steps touches the container itself.                       *)
LEMMA ClientStep ==
    ASSUME IInv, NEW s \in Sessions,
           \/ Start(s) \/ AttachEnds(s) \/ Deadline(s) \/ OutputExhausted(s)
           \/ Reap(s) \/ Inspect(s)
    PROVE  IInv'
<1> USE DEF IInv, Goto, Return, Observe, Ask, daemonVars
<1>1. TypeOK'
  <2> USE DEF Start, AttachEnds, Deadline, OutputExhausted, Reap, Inspect
  <2>1. phase' \in [Sessions -> Phases]
    <3>1. \E label \in {"attached", "kill", "inspect", "remove"} : Goto(s, label)
      OBVIOUS
    <3> QED  BY <3>1 DEF TypeOK, Phases
  <2>2. term' \in [Sessions -> {"none", "timed_out", "output_exhausted"}]  BY DEF TypeOK
  <2>3. capture' \in [Sessions -> Readings]  BY ReadableTypes, NothingIsRead DEF TypeOK
  <2>4. result' \in [Sessions -> Results]
    <3>1. Result(Observed(s), state[s].code, capture[s]) \in Results
      BY DEF TypeOK, Results, Result, Observed, Statuses
    <3> QED  BY <3>1, ResultTypes DEF TypeOK
  <2>5. requests' \in [Sessions -> SUBSET {"create", "start", "kill", "rm"}]  BY DEF TypeOK
  <2>6. UNCHANGED <<name, byId, removed, box, state>>  OBVIOUS
  <2> QED  BY <2>1, <2>2, <2>3, <2>4, <2>5, <2>6 DEF TypeOK
<1>2. box' = box /\ name' = name /\ removed' = removed /\ Present(s)
  BY DEF Start, AttachEnds, Deadline, OutputExhausted, Reap, Inspect, PhaseInv, Present
<1>3. NamesUnique'
  BY <1>2 DEF NamesUnique, Present
<1>4. \A t \in Sessions \ {s} :
          phase'[t] = phase[t] /\ result'[t] = result[t] /\ requests'[t] = requests[t]
  BY DEF TypeOK, Start, AttachEnds, Deadline, OutputExhausted, Reap, Inspect
<1>5. /\ phase'[s] \in {"attached", "kill", "reap", "inspect", "remove"}
      /\ \/ requests'[s] = requests[s] /\ phase[s] \in {"start", "attached", "reap", "inspect"}
         \/ requests'[s] = {"start"} /\ box[s] = "created"
  BY DEF TypeOK, Start, AttachEnds, Deadline, OutputExhausted, Reap, Inspect, PhaseInv
<1>6. ASSUME NEW t \in Sessions PROVE (PhaseInv(t) /\ RequestInv(t) /\ RemovalInv(t))'
  <2>1. CASE t = s
    BY <1>2, <1>5, <2>1 DEF PhaseInv, RequestInv, RemovalInv, Present
  <2>2. CASE t # s
    BY <1>2, <1>4, <2>2 DEF PhaseInv, RequestInv, RemovalInv, Present
  <2> QED  BY <2>1, <2>2
<1> QED  BY <1>1, <1>3, <1>6

(* A kill, in time or late, leaves the container there.                    *)
LEMMA KillStep ==
    ASSUME IInv, NEW s \in Sessions, Kill(s) \/ LateKill(s)
    PROVE  IInv'
<1> USE DEF IInv, Goto, Ask, Take, AfterKill, Killed, Boxes, clientVars
<1>1. TypeOK'
  <2>1. phase' \in [Sessions -> Phases]  BY DEF Kill, LateKill, TypeOK, Phases
  <2>2. box' \in [Sessions -> {"none", "created", "running", "ended", "removed"}]
    <3>1. box' \in {box, [box EXCEPT ![s] = "ended"]}  BY DEF Kill, LateKill
    <3> QED  BY <3>1 DEF TypeOK
  <2>3. state' \in [Sessions -> StateTypes]
    <3>1. state \in [Sessions -> StateTypes]  BY DEF TypeOK, StateTypes
    <3>2. [state EXCEPT ![s].code = KilledCode] \in [Sessions -> StateTypes]
      BY StateUpdates, OutputTypes
    <3>3. state' \in {state, [state EXCEPT ![s].code = KilledCode]}
      BY DEF Kill, LateKill
    <3> QED  BY <3>1, <3>2, <3>3
  <2>4. requests' \in [Sessions -> SUBSET {"create", "start", "kill", "rm"}]
    BY DEF Kill, LateKill, TypeOK
  <2>5. UNCHANGED <<name, byId, term, capture, removed, result>>  BY DEF Kill, LateKill
  <2> QED  BY <2>1, <2>2, <2>3, <2>4, <2>5 DEF TypeOK, StateTypes
<1>2. /\ name' = name /\ removed' = removed /\ result' = result /\ Present(s)
      /\ \A t \in Sessions : box'[t] = box[t] \/ (box[t] = "running" /\ box'[t] = "ended")
  <2>1. name' = name /\ removed' = removed /\ result' = result /\ box' \in {box, Boxes(s, "ended")}
    BY DEF Kill, LateKill
  <2>2. Present(s) /\ (box' # box => box[s] = "running")
    BY DEF Kill, LateKill, PhaseInv, RequestInv
  <2> QED  BY <2>1, <2>2 DEF TypeOK
<1>3. NamesUnique'
  BY <1>2 DEF NamesUnique, Present
<1>4. ASSUME NEW t \in Sessions PROVE (PhaseInv(t) /\ RequestInv(t) /\ RemovalInv(t))'
  BY <1>2, <1>4 DEF Kill, LateKill, TypeOK, PhaseInv, RequestInv, RemovalInv, Present
<1> QED  BY <1>1, <1>3, <1>4

(* Removal, in time or late, takes the call's own container, and with it   *)
(* every command for it.                                                   *)
LEMMA RemoveStep ==
    ASSUME IInv, NEW s \in Sessions, Remove(s) \/ LateRemove(s)
    PROVE  IInv'
<1> USE DEF IInv
<1>1. Present(s)
  BY DEF Remove, LateRemove, PhaseInv, RequestInv
<1>2. /\ AfterRemoval(s) = [box EXCEPT ![s] = "removed"]
      /\ Pending(s) = [requests EXCEPT ![s] = {}]
  BY <1>1, RemovesOwn DEF AfterRemoval, Pending, TypeOK
<1>3. TypeOK'
  <2> USE DEF Remove, LateRemove, Goto, Return, Finish, Ask, clientVars
  <2>1. phase' \in [Sessions -> Phases]  BY DEF TypeOK, Phases
  <2>2. removed' \in [Sessions -> BOOLEAN]  BY DEF TypeOK
  <2>3. result' \in [Sessions -> Results]  BY ResultTypes DEF TypeOK
  <2>4. box' \in [Sessions -> {"none", "created", "running", "ended", "removed"}]
    BY <1>2 DEF TypeOK
  <2>5. requests' \in [Sessions -> SUBSET {"create", "start", "kill", "rm"}]
    BY <1>2 DEF TypeOK
  <2>6. UNCHANGED <<name, byId, term, capture, state>>  OBVIOUS
  <2> QED  BY <2>1, <2>2, <2>3, <2>4, <2>5, <2>6 DEF TypeOK
<1>4. name' = name /\ \A t \in Sessions : box'[t] = box[t] \/ box'[t] = "removed"
  BY <1>2 DEF Remove, LateRemove, TypeOK, clientVars
<1>5. NamesUnique'
  BY <1>4 DEF NamesUnique, Present
<1>6. ASSUME NEW t \in Sessions PROVE (PhaseInv(t) /\ RequestInv(t) /\ RemovalInv(t))'
  <2>1. CASE Remove(s)
    BY <1>1, <1>2, <1>6, <2>1, ResultTypes
       DEF Remove, TypeOK, Goto, Return, Finish, Ask, PhaseInv, RequestInv, RemovalInv, Present
  <2>2. CASE LateRemove(s)
    BY <1>1, <1>2, <1>6, <2>2
       DEF LateRemove, TypeOK, clientVars, PhaseInv, RequestInv, RemovalInv, Present
  <2> QED  BY <2>1, <2>2
<1> QED  BY <1>3, <1>5, <1>6

(* A result is kept only after a removal that was reported and confirmed.  *)
LEMMA VerifyStep ==
    ASSUME IInv, NEW s \in Sessions, Verify(s)
    PROVE  IInv'
<1> USE DEF IInv, Verify, Goto, Return, Finish, daemonVars
<1>1. PICK answer \in Answers(s) :
          Finish(s, IF Confirmed(s, answer) THEN result[s] ELSE Infrastructure)
  OBVIOUS
<1>2. TypeOK'
  BY <1>1, ResultTypes DEF TypeOK, Phases
<1>3. NamesUnique'
  BY DEF NamesUnique, Present
<1>4. ASSUME NEW t \in Sessions PROVE (PhaseInv(t) /\ RequestInv(t) /\ RemovalInv(t))'
  BY <1>1, <1>4, ResultTypes
     DEF Confirmed, TypeOK, PhaseInv, RequestInv, RemovalInv, Present
<1> QED  BY <1>2, <1>3, <1>4

(* A create or a start that is carried out late.                           *)
LEMMA LateStep ==
    ASSUME IInv, NEW s \in Sessions, LateCreate(s) \/ LateStart(s)
    PROVE  IInv'
<1> USE DEF IInv, Take, Boxes, clientVars
<1>1. TypeOK'
  <2>1. box' \in [Sessions -> {"none", "created", "running", "ended", "removed"}]
    BY DEF LateCreate, LateStart, TypeOK
  <2>2. state' \in [Sessions -> StateTypes]
    <3>1. state \in [Sessions -> StateTypes]  BY DEF TypeOK, StateTypes
    <3>2. [state EXCEPT ![s].started = TRUE] \in [Sessions -> StateTypes]
      BY StateUpdates, OutputTypes
    <3>3. state' \in {state, [state EXCEPT ![s].started = TRUE]}
      BY DEF LateCreate, LateStart
    <3> QED  BY <3>1, <3>2, <3>3
  <2>3. requests' \in [Sessions -> SUBSET {"create", "start", "kill", "rm"}]
    BY DEF LateCreate, LateStart, TypeOK
  <2>4. UNCHANGED clientVars  BY DEF LateCreate, LateStart
  <2> QED  BY <2>1, <2>2, <2>3, <2>4 DEF TypeOK, StateTypes
<1>2. NamesUnique'
  <2>1. CASE LateCreate(s)
    BY <2>1 DEF LateCreate, NamesUnique, NameFree, Present, TypeOK
  <2>2. CASE LateStart(s)
    BY <2>2 DEF LateStart, NamesUnique, RequestInv, Present, TypeOK
  <2> QED  BY <2>1, <2>2
<1>3. ASSUME NEW t \in Sessions PROVE (PhaseInv(t) /\ RequestInv(t) /\ RemovalInv(t))'
  <2>1. CASE LateCreate(s)
    BY <1>3, <2>1 DEF LateCreate, TypeOK, PhaseInv, RequestInv, RemovalInv, Present
  <2>2. CASE LateStart(s)
    BY <1>3, <2>2 DEF LateStart, TypeOK, PhaseInv, RequestInv, RemovalInv, Present
  <2> QED  BY <2>1, <2>2
<1> QED  BY <1>1, <1>2, <1>3

(* The program in the container.                                           *)
LEMMA ProgramStep ==
    ASSUME IInv, NEW s \in Sessions, Program(s)
    PROVE  IInv'
<1> USE DEF IInv, clientVars
<1>1. TypeOK'
  <2>1. CASE \E out \in Outputs : ProgramWrites(s, out)
    <3>1. PICK out \in Outputs : ProgramWrites(s, out)  BY <2>1
    <3>2. state' \in [Sessions -> StateTypes]
      BY <3>1, StateUpdates, CodeTypes DEF ProgramWrites
    <3> QED  BY <3>1, <3>2 DEF ProgramWrites, TypeOK, StateTypes
  <2>2. CASE \E code \in Codes, oom \in BOOLEAN : ProgramEnds(s, code, oom)
    <3>1. PICK code \in Codes, oom \in BOOLEAN : ProgramEnds(s, code, oom)  BY <2>2
    <3>2. state' \in [Sessions -> StateTypes]
      BY <3>1, StateUpdates, OutputTypes DEF ProgramEnds
    <3>3. box' \in [Sessions -> {"none", "created", "running", "ended", "removed"}]
      BY <3>1 DEF ProgramEnds, TypeOK, Boxes
    <3> QED  BY <3>1, <3>2, <3>3 DEF ProgramEnds, TypeOK, StateTypes
  <2> QED  BY <2>1, <2>2 DEF Program
<1>2. /\ UNCHANGED <<phase, name, removed, result, requests>>
      /\ \A t \in Sessions : box'[t] = box[t] \/ (box[t] = "running" /\ box'[t] = "ended")
  <2>1. /\ UNCHANGED <<phase, name, removed, result, requests>>
        /\ box' = box \/ (box[s] = "running" /\ box' = Boxes(s, "ended"))
    BY DEF Program, ProgramWrites, ProgramEnds
  <2> QED  BY <2>1 DEF Boxes, TypeOK
<1>3. NamesUnique'
  BY <1>2 DEF NamesUnique, Present
<1>4. ASSUME NEW t \in Sessions PROVE (PhaseInv(t) /\ RequestInv(t) /\ RemovalInv(t))'
  BY <1>2, <1>4 DEF PhaseInv, RequestInv, RemovalInv, Present
<1> QED  BY <1>1, <1>3, <1>4

(* Every step of every actor preserves the invariant.                      *)
LEMMA StepInv == IInv /\ [Next]_sandboxVars => IInv'
<1> SUFFICES ASSUME IInv, [Next]_sandboxVars PROVE IInv'
  OBVIOUS
<1>1. CASE UNCHANGED sandboxVars
  BY <1>1 DEF sandboxVars, clientVars, daemonVars, IInv, TypeOK, NamesUnique, PhaseInv,
              RequestInv, RemovalInv, Present
<1>2. CASE Next
  BY <1>2, AdmitStep, CreateStep, ClientStep, KillStep, RemoveStep, VerifyStep, LateStep,
     ProgramStep DEF Next, RunObserved, Daemon
<1> QED  BY <1>1, <1>2

(* The invariant holds throughout.                                         *)
THEOREM SandboxInvariant == Spec => []IInv
  BY InitInv, StepInv, PTL DEF Spec

(* Type correctness of the sandbox for any number of calls.                *)
THEOREM SandboxTypeCorrect == Spec => []TypeOK
<1>1. IInv => TypeOK  BY DEF IInv
<1> QED  BY <1>1, SandboxInvariant, PTL

(* A result other than an infrastructure error is only returned once the   *)
(* container is gone for good (run_observed, DockerCleanupEvidence).       *)
THEOREM ResultsVouch == Spec => []VouchedGone
<1>1. IInv => VouchedGone  BY DEF IInv, PhaseInv, VouchedGone, Vouched
<1> QED  BY <1>1, SandboxInvariant, PTL

(* No clean-up, in time or late, by id or by name, removes the container   *)
(* of another call (_cleanup_container).                                   *)
THEOREM OwnersRemove == Spec => []RemovedByOwner
<1>1. IInv => RemovedByOwner  BY DEF IInv, RemovalInv, RemovedByOwner
<1> QED  BY <1>1, SandboxInvariant, PTL

-----------------------------------------------------------------------------
(* What a result says of the program. *)

\* An output is read from a program that was started, and a result with one
\* shows how that program ended: nothing changes it any more.
OutcomeInv(s) ==
    /\ state[s].started => box[s] \in {"running", "ended", "removed"}
    /\ box[s] = "running" => state[s].started
    /\ state[s].out # Nothing => state[s].started
    /\ capture[s] # Nothing => capture[s] \in Seqs!Prefixes(state[s].out)
    /\ phase[s] = "idle" => result[s] = NoResult
    /\ result[s].status = "exited" /\ result[s].stdout # Nothing =>
          /\ box[s] \in {"ended", "removed"}
          /\ state[s].started /\ ~state[s].oom
          /\ result[s].code = state[s].code
          /\ result[s].stdout \in Seqs!Prefixes(state[s].out)

OutcomesInv == \A s \in Sessions : OutcomeInv(s)

(* Results without an output say nothing of the program.                   *)
LEMMA SilentResults ==
    /\ Infrastructure.status # "exited" /\ Unavailable.status # "exited"
    /\ NoResult.status # "exited"
  BY DEF Infrastructure, Unavailable, NoResult, Result

(* Nothing has been started at first.                                      *)
LEMMA OutcomeInit == Init => OutcomesInv
<1> SUFFICES ASSUME Init, NEW s \in Sessions PROVE OutcomeInv(s)
  BY DEF OutcomesInv
<1>1. /\ state[s] = [started |-> FALSE, code |-> 0, oom |-> FALSE, out |-> Nothing]
      /\ box[s] = "none" /\ capture[s] = Nothing /\ result[s] = NoResult
  BY DEF Init
<1>2. state[s].started = FALSE /\ state[s].out = Nothing
  BY <1>1
<1> QED  BY <1>1, <1>2, SilentResults DEF OutcomeInv

(* The steps of the client read what is known and do not change it.        *)
LEMMA OutcomeClientStep ==
    ASSUME IInv, OutcomesInv, NEW s \in Sessions,
           \/ Admit(s) \/ CreateAnswered(s) \/ CreateFailed(s) \/ Start(s) \/ AttachEnds(s)
           \/ Deadline(s) \/ OutputExhausted(s) \/ Reap(s) \/ Inspect(s) \/ Verify(s)
    PROVE  OutcomesInv'
<1> USE DEF Goto, Return, Finish, Observe, daemonVars
<1>1. state' = state
  BY DEF Admit, CreateAnswered, CreateFailed, Start, AttachEnds, Deadline, OutputExhausted, Reap,
         Inspect, Verify
<1>2. box' = box \/ (phase[s] = "create" /\ box' = [box EXCEPT ![s] = "created"])
  BY DEF Admit, CreateAnswered, CreateFailed, Start, AttachEnds, Deadline, OutputExhausted, Reap,
         Inspect, Verify, Boxes
<1>3. phase[s] = "create" => box[s] = "none"
  BY DEF IInv, PhaseInv
<1>4. \A t \in Sessions \ {s} :
          /\ phase'[t] = phase[t] /\ capture'[t] = capture[t] /\ result'[t] = result[t]
          /\ box'[t] = box[t]
  BY DEF IInv, TypeOK, Admit, CreateAnswered, CreateFailed, Start, AttachEnds, Deadline,
         OutputExhausted, Reap, Inspect, Verify, Boxes
<1>5. phase'[s] # "idle"
  BY DEF IInv, TypeOK, Admit, CreateAnswered, CreateFailed, Start, AttachEnds, Deadline,
         OutputExhausted, Reap, Inspect, Verify
<1>6. capture'[s] \in {capture[s], Nothing} \cup Seqs!Prefixes(state[s].out)
  BY DEF IInv, TypeOK, Admit, CreateAnswered, CreateFailed, Start, AttachEnds, Deadline,
         OutputExhausted, Reap, Inspect, Verify, Readable
<1>7. \/ result'[s] \in {result[s], Infrastructure, Unavailable}
      \/ /\ result'[s] = Result(Observed(s), state[s].code, capture[s])
         /\ phase[s] = "inspect" /\ box[s] # "running" /\ box' = box
  BY DEF IInv, TypeOK, Admit, CreateAnswered, CreateFailed, Start, AttachEnds, Deadline,
         OutputExhausted, Reap, Inspect, Verify
<1>8. ASSUME NEW t \in Sessions PROVE OutcomeInv(t)'
  <2>1. CASE t # s
    BY <1>1, <1>4, <2>1 DEF OutcomesInv, OutcomeInv
  <2>2. CASE t = s
    <3>1. OutcomeInv(s) /\ box \in [Sessions -> {"none", "created", "running", "ended", "removed"}]
      BY DEF OutcomesInv, IInv, TypeOK
    <3>2. \/ box'[s] = box[s]
          \/ box[s] = "none" /\ box'[s] = "created"
             /\ result'[s] \in {result[s], Infrastructure, Unavailable}
      BY <1>2, <1>3, <1>7, <3>1
    <3>3. /\ state'[s].started => box'[s] \in {"running", "ended", "removed"}
          /\ box'[s] = "running" => state'[s].started
          /\ state'[s].out # Nothing => state'[s].started
          /\ capture'[s] # Nothing => capture'[s] \in Seqs!Prefixes(state'[s].out)
      BY <1>1, <1>6, <3>1, <3>2 DEF OutcomeInv
    <3>4. CASE result'[s] \in {result[s], Infrastructure, Unavailable}
      BY <1>1, <1>5, <2>2, <3>1, <3>2, <3>3, <3>4, SilentResults DEF OutcomeInv
    <3>5. CASE /\ result'[s] = Result(Observed(s), state[s].code, capture[s])
               /\ phase[s] = "inspect" /\ box[s] # "running" /\ box' = box
      <4>1. ASSUME result'[s].status = "exited", result'[s].stdout # Nothing
            PROVE  /\ box[s] \in {"ended", "removed"} /\ state[s].started /\ ~state[s].oom
                   /\ result'[s].code = state[s].code
                   /\ result'[s].stdout \in Seqs!Prefixes(state[s].out)
        <5>1. /\ result'[s].status = Observed(s) /\ result'[s].code = state[s].code
              /\ result'[s].stdout = capture[s]
          BY <3>5 DEF Result
        <5>2. /\ capture[s] \in Seqs!Prefixes(state[s].out) /\ state[s].started
              /\ box[s] \in {"ended", "removed"}
          BY <3>1, <3>5, <4>1, <5>1, ShortReadings DEF OutcomeInv
        <5>3. ~state[s].oom
          BY <4>1, <5>1 DEF Observed, IInv, TypeOK
        <5> QED  BY <5>1, <5>2, <5>3
      <4> QED  BY <1>1, <1>5, <2>2, <3>3, <3>5, <4>1 DEF OutcomeInv
    <3> QED  BY <1>7, <3>4, <3>5
  <2> QED  BY <2>1, <2>2
<1> QED  BY <1>8 DEF OutcomesInv

(* A step of the daemon or of a program changes what is known of a         *)
(* container only while it is created or runs.                             *)
LEMMA OutcomeDaemonStep ==
    ASSUME IInv, OutcomesInv, NEW s \in Sessions,
           \/ Kill(s) \/ Remove(s) \/ LateCreate(s) \/ LateStart(s) \/ LateKill(s)
           \/ LateRemove(s) \/ Program(s)
    PROVE  OutcomesInv'
<1> DEFINE known == state[s]
<1>1. /\ state \in [Sessions -> StateTypes] /\ known \in StateTypes
      /\ box \in [Sessions -> {"none", "created", "running", "ended", "removed"}]
  BY DEF IInv, TypeOK, StateTypes
<1>2. capture' = capture
  BY DEF Kill, Remove, LateCreate, LateStart, LateKill, LateRemove, Program, ProgramWrites,
         ProgramEnds, clientVars
<1>3. \A t \in Sessions : /\ phase'[t] = "idle" => phase[t] = "idle"
                          /\ result'[t] \in {result[t], Infrastructure}
                          /\ result'[t] = result[t] \/ phase[t] # "idle"
  BY DEF IInv, TypeOK, Kill, Remove, LateCreate, LateStart, LateKill, LateRemove, Program,
         ProgramWrites, ProgramEnds, clientVars, Goto, Finish, Return
<1>4. \A t \in Sessions \ {s} : state'[t] = state[t]
  BY <1>1 DEF Kill, Remove, LateCreate, LateStart, LateKill, LateRemove, Program,
              ProgramWrites, ProgramEnds, Killed
<1>5. \A t \in Sessions \ {s} : box'[t] \in {box[t], "removed"} /\ (Present(t) \/ box'[t] = box[t])
  BY <1>1 DEF Kill, Remove, LateCreate, LateStart, LateKill, LateRemove, Program, Boxes,
              ProgramWrites, ProgramEnds, AfterKill, AfterRemoval, Gone
<1>6. ASSUME NEW t \in Sessions \ {s} PROVE OutcomeInv(t)'
  <2>1. OutcomeInv(t) /\ t \in Sessions
    BY DEF OutcomesInv
  <2>2. box'[t] = box[t] \/ box'[t] = "removed"
    BY <1>5
  <2> QED  BY <1>2, <1>3, <1>4, <2>1, <2>2, SilentResults DEF OutcomeInv
<1>7. OutcomeInv(s)'
  <2>1. OutcomeInv(s)
    BY DEF OutcomesInv
  <2>2. ASSUME state'[s] = state[s],
               \/ box'[s] \in {box[s], "removed"} \/ (box[s] = "none" /\ box'[s] = "created")
               \/ (box[s] = "running" /\ box'[s] = "ended")
        PROVE  OutcomeInv(s)'
    BY <1>1, <1>2, <1>3, <2>1, <2>2, SilentResults DEF OutcomeInv
  <2>3. ASSUME box[s] = "running", box'[s] \in {"running", "ended"}, state'[s].started,
               state'[s].out # Nothing => (state'[s].out = state[s].out \/ state[s].out = Nothing),
               state[s].out # Nothing => state'[s].out = state[s].out
        PROVE  OutcomeInv(s)'
    BY <1>1, <1>2, <1>3, <2>1, <2>3, SilentResults, ShortReadings DEF OutcomeInv
  <2>4. CASE Kill(s) \/ LateKill(s)
    <3>1. CASE box[s] = "running" /\ state' = Killed(s) /\ box' = AfterKill(s)
      <4>1. state'[s] = [known EXCEPT !.code = KilledCode] /\ box'[s] = "ended"
        BY <1>1, <3>1 DEF Killed, AfterKill, Boxes
      <4> QED  BY <1>1, <2>1, <2>3, <3>1, <4>1 DEF StateTypes, OutcomeInv
    <3>2. CASE state' = state /\ box' = box
      BY <2>2, <3>2
    <3> QED  BY <2>4, <3>1, <3>2 DEF Kill, LateKill, Killed, AfterKill
  <2>5. CASE Remove(s) \/ LateRemove(s)
    BY <1>1, <2>2, <2>5 DEF Remove, LateRemove, AfterRemoval
  <2>6. CASE LateCreate(s)
    BY <1>1, <2>2, <2>6 DEF LateCreate, Take, Boxes, IInv, RequestInv
  <2>7. CASE LateStart(s)
    <3>1. box[s] = "created" /\ state'[s] = [known EXCEPT !.started = TRUE] /\ box'[s] = "running"
      BY <1>1, <2>7 DEF LateStart, Take, Boxes, IInv, RequestInv
    <3> QED  BY <1>1, <1>2, <1>3, <2>1, <3>1, SilentResults DEF StateTypes, OutcomeInv
  <2>8. ASSUME NEW out \in Outputs, ProgramWrites(s, out) PROVE OutcomeInv(s)'
    <3>1. /\ box[s] = "running" /\ state[s].out = Nothing /\ box' = box
          /\ state'[s] = [known EXCEPT !.out = out]
      BY <1>1, <2>8 DEF ProgramWrites
    <3> QED  BY <1>1, <2>1, <2>3, <3>1 DEF StateTypes, OutcomeInv
  <2>9. ASSUME NEW code \in Codes, NEW oom \in BOOLEAN, ProgramEnds(s, code, oom)
        PROVE  OutcomeInv(s)'
    <3>1. /\ box[s] = "running" /\ box'[s] = "ended"
          /\ state'[s] = [known EXCEPT !.code = IF oom THEN KilledCode ELSE code, !.oom = oom]
      BY <1>1, <2>9 DEF ProgramEnds, Boxes
    <3> QED  BY <1>1, <2>1, <2>3, <3>1 DEF StateTypes, OutcomeInv
  <2> QED  BY <2>4, <2>5, <2>6, <2>7, <2>8, <2>9 DEF Program
<1> QED  BY <1>6, <1>7 DEF OutcomesInv

(* No step makes a result or an output tell of another program's end.      *)
LEMMA OutcomeStep == IInv /\ OutcomesInv /\ [Next]_sandboxVars => OutcomesInv'
<1> SUFFICES ASSUME IInv, OutcomesInv, [Next]_sandboxVars PROVE OutcomesInv'
  OBVIOUS
<1>1. CASE UNCHANGED sandboxVars
  BY <1>1 DEF sandboxVars, clientVars, daemonVars, OutcomesInv, OutcomeInv
<1>2. CASE Next
  BY <1>2, OutcomeClientStep, OutcomeDaemonStep DEF Next, RunObserved, Daemon
<1> QED  BY <1>1, <1>2

(* A result with an output tells how the program that printed it ended,    *)
(* whatever the daemon does late (_start_and_observe, _capture_attached).  *)
THEOREM ResultsTell == Spec => []OutcomesInv
  BY InitInv, StepInv, OutcomeInit, OutcomeStep, PTL DEF Spec

-----------------------------------------------------------------------------
(* Part 2: the evaluator. *)

\* Whoever is at or past the scorer has a usable result of the candidate.
SequenceInv ==
    \A e \in Evaluations :
        phase[Score(e)] # "idle" \/ stage[e] \in {"score", "scoring"} =>
            phase[Invoke(e)] = "done" /\ result[Invoke(e)].status = "exited"

StageType ==
    stage \in [Evaluations -> {"prepare", "invoke", "invoking", "score", "scoring", "done"}]

EvaluatorInv == IInv /\ StageType /\ SequenceInv

(* The calls of an evaluation are calls, different ones, and not those of  *)
(* others.                                                                 *)
LEMMA CallsDiffer ==
    ASSUME NEW e \in Evaluations
    PROVE  /\ Invoke(e) \in Sessions /\ Score(e) \in Sessions
           /\ Score(e) \notin Others
           /\ \A f \in Evaluations : Score(e) # Invoke(f) /\ (Score(e) = Score(f) => e = f)
  BY PhasePerContainer DEF Invoke, Score

(* What the two programs print are outputs.                                *)
LEMMA OutputsKnown ==
    /\ CandidateOutputs \subseteq Outputs
    /\ \A e \in Evaluations : \A c \in {Scored(response[e]), "evaluator_error"} : <<c>> \in Outputs
  BY OutputsAre DEF Records, Classifications, Scored

(* Every step of the evaluator is a step of the sandbox or leaves it alone *)
(* (evaluate calls nothing of the sandbox but run).                        *)
LEMMA EvaluatorIsEnvironment == [EvaluatorNext]_vars => [Next]_sandboxVars
<1> SUFFICES ASSUME [EvaluatorNext]_vars PROVE [Next]_sandboxVars
  OBVIOUS
<1>1. CASE UNCHANGED vars
  BY <1>1 DEF vars
<1>2. ASSUME NEW e \in Evaluations, Evaluate(e) PROVE [Next]_sandboxVars
  BY <1>2, CallsDiffer DEF Evaluate, Prepare, RunInvoke, InvokeReturned, ScoreNotDispatched,
                           RunScore, ScoreReturned, Next
<1>3. ASSUME NEW e \in Evaluations, CandidateWrites(e) \/ ScorerWrites(e) PROVE Next
  BY <1>3, CallsDiffer, OutputsKnown DEF CandidateWrites, ScorerWrites, Next, Program
<1>4. ASSUME NEW s \in Sessions, SandboxStep(s) \/ DaemonStep(s) \/ Ends(s) PROVE Next
  BY <1>4 DEF SandboxStep, DaemonStep, Ends, Next, Program
<1>5. ASSUME NEW s \in Others, OtherCall(s) PROVE Next
  BY <1>5, PhasePerContainer DEF OtherCall, Next
<1> QED  BY <1>1, <1>2, <1>3, <1>4, <1>5 DEF EvaluatorNext

(* A call that has returned keeps its result.                              *)
LEMMA DoneIsFinal ==
    ASSUME TypeOK, [Next]_sandboxVars, NEW t \in Sessions, phase[t] = "done"
    PROVE  phase'[t] = "done" /\ result'[t] = result[t]
<1>1. CASE UNCHANGED sandboxVars
  BY <1>1 DEF sandboxVars, clientVars
<1>2. ASSUME NEW s \in Sessions, Admit(s) \/ CreateAnswered(s) \/ CreateFailed(s) \/ Start(s)
      PROVE  phase'[t] = "done" /\ result'[t] = result[t]
  BY <1>2 DEF TypeOK, Admit, CreateAnswered, CreateFailed, Start, Goto, Return, Finish, Observe
<1>3. ASSUME NEW s \in Sessions, Deadline(s) \/ OutputExhausted(s) \/ AttachEnds(s) \/ Kill(s)
      PROVE  phase'[t] = "done" /\ result'[t] = result[t]
  BY <1>3 DEF TypeOK, Deadline, OutputExhausted, AttachEnds, Kill, Goto
<1>4. ASSUME NEW s \in Sessions, Reap(s) \/ Inspect(s) \/ Remove(s) \/ Verify(s)
      PROVE  phase'[t] = "done" /\ result'[t] = result[t]
  BY <1>4 DEF TypeOK, Reap, Inspect, Remove, Verify, Goto, Return, Finish, Observe
<1>5. ASSUME NEW s \in Sessions,
             \/ LateCreate(s) \/ LateStart(s) \/ LateKill(s) \/ LateRemove(s) \/ Program(s)
      PROVE  phase'[t] = "done" /\ result'[t] = result[t]
  BY <1>5 DEF LateCreate, LateStart, LateKill, LateRemove, Program, ProgramWrites, ProgramEnds,
              clientVars
<1> QED  BY <1>1, <1>2, <1>3, <1>4, <1>5 DEF Next, RunObserved, Daemon

(* A call begins by being admitted.                                        *)
LEMMA IdleUntilAdmitted ==
    ASSUME IInv, NEW s \in Sessions, NEW t \in Sessions, phase[t] = "idle",
           \/ RunObserved(s) \/ Daemon(s) \/ Program(s)
           \/ Admit(s) /\ s # t
    PROVE  phase'[t] = "idle"
<1>1. CASE Admit(s) /\ s # t
  BY <1>1 DEF IInv, TypeOK, Admit, Goto, Finish
<1>2. CASE CreateAnswered(s) \/ CreateFailed(s) \/ Start(s) \/ Deadline(s) \/ OutputExhausted(s)
           \/ AttachEnds(s) \/ Kill(s)
  BY <1>2 DEF IInv, TypeOK, CreateAnswered, CreateFailed, Start, Deadline, OutputExhausted,
              AttachEnds, Kill, Goto, Finish, Observe
<1>3. CASE Reap(s) \/ Inspect(s) \/ Remove(s) \/ Verify(s)
  BY <1>3 DEF IInv, TypeOK, Reap, Inspect, Remove, Verify, Goto, Finish, Observe
<1>4. CASE LateCreate(s) \/ LateStart(s) \/ LateKill(s) \/ LateRemove(s) \/ Program(s)
  BY <1>4 DEF LateCreate, LateStart, LateKill, LateRemove, Program, ProgramWrites, ProgramEnds,
              clientVars
<1> QED  BY <1>1, <1>2, <1>3, <1>4 DEF RunObserved, Daemon

(* Initially nobody has called the sandbox.                                *)
LEMMA EvaluatorInitInv == EvaluatorInit => EvaluatorInv
  BY InitInv, CallsDiffer DEF EvaluatorInit, EvaluatorInv, StageType, SequenceInv, Init

(* The scorer is called only with a usable result of the candidate, and    *)
(* that result is final.                                                   *)
LEMMA EvaluatorStepInv == EvaluatorInv /\ [EvaluatorNext]_vars => EvaluatorInv'
<1> SUFFICES ASSUME EvaluatorInv, [EvaluatorNext]_vars PROVE EvaluatorInv'
  OBVIOUS
<1> USE DEF EvaluatorInv
<1>1. [Next]_sandboxVars
  BY EvaluatorIsEnvironment
<1>2. IInv'
  BY <1>1, StepInv
<1>3. \A e \in Evaluations :
          phase[Invoke(e)] = "done" /\ result[Invoke(e)].status = "exited" =>
              (phase[Invoke(e)] = "done" /\ result[Invoke(e)].status = "exited")'
  BY <1>1, DoneIsFinal, CallsDiffer DEF IInv
<1>4. CASE UNCHANGED vars
  BY <1>2, <1>4 DEF vars, sandboxVars, clientVars, evaluatorVars, StageType, SequenceInv
<1>5. ASSUME NEW f \in Evaluations, Evaluate(f) PROVE StageType' /\ SequenceInv'
  <2> USE DEF At, Conclude
  <2>1. StageType'
    BY <1>5 DEF StageType, Evaluate, Prepare, RunInvoke, InvokeReturned, ScoreNotDispatched,
                RunScore, ScoreReturned
  <2>2. CASE Prepare(f) \/ ScoreNotDispatched(f) \/ ScoreReturned(f)
    <3>1. UNCHANGED <<phase, result>>
      BY <2>2 DEF Prepare, ScoreNotDispatched, ScoreReturned, sandboxVars, clientVars
    <3>2. \A e \in Evaluations : stage'[e] \in {"score", "scoring"} => stage'[e] = stage[e]
      BY <2>2 DEF Prepare, ScoreNotDispatched, ScoreReturned, StageType
    <3> QED  BY <2>1, <3>1, <3>2 DEF SequenceInv
  <2>3. CASE InvokeReturned(f)
    <3>1. UNCHANGED <<phase, result>>
      BY <2>3 DEF InvokeReturned, sandboxVars, clientVars
    <3>2. \A e \in Evaluations :
              stage'[e] \in {"score", "scoring"} =>
                  \/ stage'[e] = stage[e]
                  \/ phase[Invoke(e)] = "done" /\ result[Invoke(e)].status = "exited"
      BY <2>3 DEF InvokeReturned, Usable, StageType
    <3> QED  BY <2>1, <3>1, <3>2 DEF SequenceInv
  <2>4. CASE RunInvoke(f)
    <3>1. \A e \in Evaluations : stage'[e] \in {"score", "scoring"} => stage'[e] = stage[e]
      BY <2>4 DEF RunInvoke, StageType
    <3>2. \A e \in Evaluations : phase[Score(e)] = "idle" => phase'[Score(e)] = "idle"
      BY <2>4, IdleUntilAdmitted, CallsDiffer DEF RunInvoke
    <3> QED  BY <1>3, <2>1, <3>1, <3>2 DEF SequenceInv
  <2>5. CASE RunScore(f)
    <3>1. stage[f] = "score" /\ \A e \in Evaluations \ {f} : stage'[e] = stage[e]
      BY <2>5 DEF RunScore, StageType
    <3>2. \A e \in Evaluations \ {f} : phase[Score(e)] = "idle" => phase'[Score(e)] = "idle"
      BY <2>5, IdleUntilAdmitted, CallsDiffer DEF RunScore
    <3> QED  BY <1>3, <2>1, <3>1, <3>2 DEF SequenceInv
  <2> QED  BY <1>5, <2>1, <2>2, <2>3, <2>4, <2>5 DEF Evaluate
<1>6. ASSUME stage' = stage,
             \A e \in Evaluations : phase[Score(e)] = "idle" => phase'[Score(e)] = "idle"
      PROVE  StageType' /\ SequenceInv'
  BY <1>3, <1>6 DEF StageType, SequenceInv
<1>7. ASSUME NEW f \in Evaluations, CandidateWrites(f) \/ ScorerWrites(f)
      PROVE  StageType' /\ SequenceInv'
  BY <1>6, <1>7 DEF CandidateWrites, ScorerWrites, ProgramWrites, evaluatorVars, clientVars
<1>8. ASSUME NEW s \in Sessions, SandboxStep(s) \/ DaemonStep(s) \/ Ends(s)
      PROVE  StageType' /\ SequenceInv'
  <2>1. stage' = stage /\ (RunObserved(s) \/ Daemon(s) \/ Program(s))
    BY <1>8 DEF SandboxStep, DaemonStep, Ends, Program, evaluatorVars
  <2> QED  BY <1>6, <2>1, IdleUntilAdmitted, CallsDiffer
<1>9. ASSUME NEW s \in Others, OtherCall(s) PROVE StageType' /\ SequenceInv'
  <2>1. stage' = stage /\ Admit(s) /\ s \in Sessions
    BY <1>9, PhasePerContainer DEF OtherCall, evaluatorVars
  <2> QED  BY <1>6, <2>1, IdleUntilAdmitted, CallsDiffer
<1> QED  BY <1>2, <1>4, <1>5, <1>7, <1>8, <1>9 DEF EvaluatorNext

(* The invariant holds throughout every behaviour of the evaluator.        *)
THEOREM EvaluatorInvariant == EvaluatorSpec => []EvaluatorInv
  BY EvaluatorInitInv, EvaluatorStepInv, PTL DEF EvaluatorSpec

(* The candidate's container and the scorer's never exist together, for    *)
(* any number of evaluations, whatever the daemon does late (evaluate over *)
(* run_observed, ADR 0004).                                                *)
THEOREM PhasesSequential == EvaluatorSpec => []PhasesNeverOverlap
<1>1. EvaluatorInv => PhasesNeverOverlap
  BY CallsDiffer DEF EvaluatorInv, IInv, SequenceInv, PhaseInv, Present, PhasesNeverOverlap,
                     Vouched, Statuses
<1> QED  BY <1>1, EvaluatorInvariant, PTL

(* What the sandbox guarantees of its calls holds under the evaluator: no  *)
(* clean-up removes another call's container, and results vouch for the    *)
(* removal (run_observed).                                                 *)
THEOREM SandboxUnderEvaluator == EvaluatorSpec => [](RemovedByOwner /\ VouchedGone)
<1>1. EvaluatorInv => RemovedByOwner /\ VouchedGone
  BY DEF EvaluatorInv, IInv, RemovalInv, PhaseInv, RemovedByOwner, VouchedGone, Vouched
<1> QED  BY <1>1, EvaluatorInvariant, PTL

-----------------------------------------------------------------------------
(* A verdict is earned. *)

EvaluatorTypes ==
    /\ patch \in [Evaluations -> PatchBytes \cup {"none"}]
    /\ response \in [Evaluations -> Readings]
    /\ verdict = [e \in Evaluations |-> verdict[e]]

\* What each stage of an evaluation rests on.
VerdictInv(e) ==
    /\ stage[e] \in {"invoke", "invoking", "score", "scoring"} => patch[e] = "committed"
    /\ phase[Score(e)] # "idle" => stage[e] \in {"scoring", "done"}
    /\ stage[e] \in {"score", "scoring"} \/ verdict[e] = "passed" =>
          /\ phase[Invoke(e)] = "done" /\ Usable(result[Invoke(e)])
          /\ response[e] = result[Invoke(e)].stdout /\ patch[e] = "committed"
    /\ state[Score(e)].out # Nothing =>
          state[Score(e)].out \in {<<Scored(response[e])>>, <<"evaluator_error">>}
    /\ verdict[e] # "none" => stage[e] = "done"
    /\ verdict[e] = "passed" =>
          /\ phase[Score(e)] = "done" /\ Usable(result[Score(e)])
          /\ result[Score(e)].stdout = <<"passed">>
    /\ verdict[e] = "tests_failed" /\ phase[Score(e)] # "idle" =>
          /\ phase[Score(e)] = "done" /\ result[Score(e)].status = "exited"
          /\ result[Score(e)].stdout = <<"candidate_failed">>

EarnedInv == OutcomesInv /\ EvaluatorTypes /\ \A e \in Evaluations : VerdictInv(e)

(* Only a program that prints changes what was printed, and only its own.  *)
LEMMA PrintedStays ==
    ASSUME TypeOK, NEW s \in Sessions, NEW t \in Sessions,
           \/ Admit(s) \/ RunObserved(s) \/ Daemon(s)
           \/ \E code \in Codes, oom \in BOOLEAN : ProgramEnds(s, code, oom)
           \/ s # t /\ \E out \in Outputs : ProgramWrites(s, out)
    PROVE  state'[t].out = state[t].out
<1>1. state \in [Sessions -> StateTypes]
  BY DEF TypeOK, StateTypes
<1>2. CASE state' = state
  BY <1>2
<1>3. ASSUME NEW code, state' = [state EXCEPT ![s].code = code] PROVE state'[t].out = state[t].out
  BY <1>1, <1>3 DEF StateTypes
<1>4. CASE state' = [state EXCEPT ![s].started = TRUE]
  BY <1>1, <1>4 DEF StateTypes
<1>5. ASSUME NEW code, NEW oom, state' = [state EXCEPT ![s].code = code, ![s].oom = oom]
      PROVE  state'[t].out = state[t].out
  BY <1>1, <1>5 DEF StateTypes
<1>6. CASE s # t /\ \E out \in Outputs : ProgramWrites(s, out)
  BY <1>1, <1>6 DEF ProgramWrites
<1>7. CASE Admit(s) \/ RunObserved(s) \/ Daemon(s)
  <2>1. \/ state' = state \/ state' = [state EXCEPT ![s].started = TRUE]
        \/ state' = [state EXCEPT ![s].code = KilledCode]
    BY <1>7 DEF Admit, RunObserved, CreateAnswered, CreateFailed, Start, Deadline, OutputExhausted,
                Kill, Reap, Inspect, Remove, Verify, Daemon, AttachEnds, LateCreate, LateStart,
                LateKill, LateRemove, Killed, daemonVars
  <2> QED  BY <1>2, <1>3, <1>4, <2>1
<1>8. CASE \E code \in Codes, oom \in BOOLEAN : ProgramEnds(s, code, oom)
  BY <1>5, <1>8 DEF ProgramEnds
<1> QED  BY <1>6, <1>7, <1>8

(* A step of the sandbox that is not the evaluation's own leaves it with   *)
(* what it rests on.                                                       *)
LEMMA VerdictFrame ==
    ASSUME EvaluatorInv, [Next]_sandboxVars, NEW e \in Evaluations, VerdictInv(e),
           stage'[e] = stage[e], patch'[e] = patch[e], response'[e] = response[e],
           verdict'[e] = verdict[e],
           phase[Score(e)] = "idle" => phase'[Score(e)] = "idle",
           state'[Score(e)].out = state[Score(e)].out
    PROVE  VerdictInv(e)'
<1>1. Invoke(e) \in Sessions /\ Score(e) \in Sessions
  BY CallsDiffer
<1>2. ASSUME NEW t \in Sessions, phase[t] = "done"
      PROVE  phase'[t] = "done" /\ result'[t] = result[t]
  BY <1>2, DoneIsFinal DEF EvaluatorInv, IInv
<1>4. phase[Invoke(e)] = "done" => phase'[Invoke(e)] = "done" /\ result'[Invoke(e)] = result[Invoke(e)]
  BY <1>1, <1>2
<1>5. phase[Score(e)] = "done" => phase'[Score(e)] = "done" /\ result'[Score(e)] = result[Score(e)]
  BY <1>1, <1>2
<1> QED  BY <1>4, <1>5 DEF VerdictInv

(* The steps of one evaluation leave the others alone.                     *)
LEMMA OtherEvaluations ==
    ASSUME StageType, EvaluatorTypes, NEW f \in Evaluations, Evaluate(f),
           NEW e \in Evaluations, e # f
    PROVE  /\ stage'[e] = stage[e] /\ patch'[e] = patch[e]
           /\ response'[e] = response[e] /\ verdict'[e] = verdict[e]
<1> USE DEF At, Conclude, StageType, EvaluatorTypes
<1>1. CASE Prepare(f)  BY <1>1 DEF Prepare
<1>2. CASE InvokeReturned(f)  BY <1>2 DEF InvokeReturned
<1>3. CASE ScoreNotDispatched(f) \/ ScoreReturned(f)  BY <1>3 DEF ScoreNotDispatched, ScoreReturned
<1>4. CASE RunInvoke(f) \/ RunScore(f)  BY <1>4 DEF RunInvoke, RunScore
<1> QED  BY <1>1, <1>2, <1>3, <1>4 DEF Evaluate

(* The variables of an evaluation keep their types.                        *)
LEMMA EvaluatorTypesStep ==
    ASSUME TypeOK, EvaluatorTypes, [EvaluatorNext]_vars
    PROVE  EvaluatorTypes'
<1>1. CASE UNCHANGED evaluatorVars
  BY <1>1 DEF evaluatorVars, EvaluatorTypes
<1>2. ASSUME NEW f \in Evaluations, Evaluate(f) PROVE EvaluatorTypes'
  <2>1. \/ patch' = patch \/ \E bytes \in PatchBytes : patch' = [patch EXCEPT ![f] = bytes]
    BY <1>2 DEF Evaluate, Prepare, RunInvoke, InvokeReturned, ScoreNotDispatched, RunScore,
                ScoreReturned
  <2>2. response' = response \/ response' = [response EXCEPT ![f] = result[Invoke(f)].stdout]
    BY <1>2 DEF Evaluate, Prepare, RunInvoke, InvokeReturned, ScoreNotDispatched, RunScore,
                ScoreReturned
  <2>3. verdict' = verdict \/ \E v : verdict' = [verdict EXCEPT ![f] = v]
    BY <1>2 DEF Evaluate, Prepare, RunInvoke, InvokeReturned, ScoreNotDispatched, RunScore,
                ScoreReturned, Conclude
  <2>4. result[Invoke(f)].stdout \in Readings
    BY CallsDiffer DEF TypeOK, Results
  <2> QED  BY <2>1, <2>2, <2>3, <2>4 DEF EvaluatorTypes
<1> QED
  BY <1>1, <1>2 DEF EvaluatorNext, CandidateWrites, ScorerWrites, SandboxStep, DaemonStep, Ends,
                    OtherCall, vars

(* Before the sandbox is called, and after it has answered.                *)
LEMMA EvaluateVerdict ==
    ASSUME EvaluatorInv, EarnedInv, NEW e \in Evaluations, Evaluate(e)
    PROVE  VerdictInv(e)'
<1> USE DEF At, Conclude
<1>1. /\ VerdictInv(e) /\ Invoke(e) \in Sessions /\ Score(e) \in Sessions /\ TypeOK
      /\ Score(e) # Invoke(e)
  BY CallsDiffer DEF EarnedInv, EvaluatorInv, IInv
<1>2. StageType /\ EvaluatorTypes
  BY DEF EvaluatorInv, EarnedInv
<1>3. CASE Prepare(e)
  <2>1. UNCHANGED <<phase, result, state, response>> /\ stage[e] = "prepare"
    BY <1>3 DEF Prepare, sandboxVars, clientVars, daemonVars
  <2>2. \/ /\ stage'[e] = "done" /\ patch' = patch
           /\ verdict'[e] \in {"infrastructure_error", "invalid_patch", "patch_apply_failed"}
        \/ stage'[e] = "invoke" /\ patch'[e] = "committed" /\ verdict' = verdict
    BY <1>2, <1>3 DEF Prepare, ExpectedPatch, PatchOutcomes, StageType, EvaluatorTypes
  <2> QED  BY <1>1, <2>1, <2>2 DEF VerdictInv
<1>4. CASE InvokeReturned(e)
  <2>1. UNCHANGED <<phase, result, state, patch>> /\ stage[e] = "invoking" /\ phase[Invoke(e)] = "done"
    BY <1>4 DEF InvokeReturned, sandboxVars, clientVars, daemonVars
  <2>2. patch[e] = "committed" /\ phase[Score(e)] = "idle" /\ verdict[e] = "none"
    BY <1>1, <2>1 DEF VerdictInv
  <2>3. state[Score(e)].out = Nothing
    BY <1>1, <2>2 DEF EarnedInv, OutcomesInv, OutcomeInv, EvaluatorInv, IInv, PhaseInv
  <2>4. \/ /\ Usable(result[Invoke(e)]) /\ response'[e] = result[Invoke(e)].stdout
           /\ stage'[e] = "score" /\ verdict' = verdict
        \/ /\ stage'[e] = "done" /\ verdict'[e] = CandidatePhaseResult(result[Invoke(e)])
           /\ response' = response
    BY <1>2, <1>4 DEF InvokeReturned, StageType, EvaluatorTypes
  <2>5. CandidatePhaseResult(result[Invoke(e)]) # "passed"
    BY <1>1 DEF TypeOK, Results, CandidatePhaseResult, Statuses
  <2> QED  BY <2>1, <2>2, <2>3, <2>4, <2>5 DEF VerdictInv
<1>5. CASE ScoreNotDispatched(e)
  <2>1. /\ UNCHANGED <<phase, result, state, patch, response>> /\ stage[e] = "score"
        /\ stage'[e] = "done" /\ verdict'[e] = "infrastructure_error"
    BY <1>2, <1>5 DEF ScoreNotDispatched, sandboxVars, clientVars, daemonVars, StageType,
                      EvaluatorTypes
  <2> QED  BY <1>1, <2>1 DEF VerdictInv
<1>6. CASE ScoreReturned(e)
  <2>1. /\ UNCHANGED <<phase, result, state, patch, response>> /\ stage[e] = "scoring"
        /\ phase[Score(e)] = "done"
        /\ stage'[e] = "done" /\ verdict'[e] = TrustedStatus(result[Score(e)])
    BY <1>2, <1>6 DEF ScoreReturned, sandboxVars, clientVars, daemonVars, StageType,
                      EvaluatorTypes
  <2>2. /\ verdict'[e] = "passed" =>
              Usable(result[Score(e)]) /\ result[Score(e)].stdout = <<"passed">>
        /\ verdict'[e] = "tests_failed" =>
              /\ result[Score(e)].status = "exited"
              /\ result[Score(e)].stdout = <<"candidate_failed">>
    BY <2>1 DEF TrustedStatus, Usable
  <2> QED  BY <1>1, <2>1, <2>2 DEF VerdictInv
<1>7. CASE RunInvoke(e)
  <2>1. /\ UNCHANGED <<patch, response, verdict, state>> /\ stage[e] = "invoke"
        /\ stage'[e] = "invoking" /\ Admit(Invoke(e))
    BY <1>2, <1>7 DEF RunInvoke, Admit, daemonVars, StageType
  <2>2. phase[Score(e)] = "idle" /\ verdict[e] = "none"
    BY <1>1, <2>1 DEF VerdictInv
  <2>3. phase'[Score(e)] = "idle"
    BY <1>1, <2>1, <2>2, IdleUntilAdmitted DEF EvaluatorInv
  <2> QED  BY <1>1, <2>1, <2>2, <2>3 DEF VerdictInv
<1>8. CASE RunScore(e)
  <2>1. /\ UNCHANGED <<patch, response, verdict, state>> /\ stage[e] = "score"
        /\ stage'[e] = "scoring" /\ Admit(Score(e))
    BY <1>2, <1>8 DEF RunScore, Admit, daemonVars, StageType
  <2>2. verdict[e] = "none" /\ phase[Invoke(e)] = "done"
    BY <1>1, <2>1 DEF VerdictInv
  <2>3. phase'[Invoke(e)] = "done" /\ result'[Invoke(e)] = result[Invoke(e)]
    BY <1>1, <2>1, <2>2, DoneIsFinal DEF Next
  <2> QED  BY <1>1, <2>1, <2>2, <2>3 DEF VerdictInv
<1> QED  BY <1>3, <1>4, <1>5, <1>6, <1>7, <1>8 DEF Evaluate

(* The scorer prints what it makes of the response it was given.           *)
LEMMA ScorerVerdict ==
    ASSUME EvaluatorInv, EarnedInv, NEW e \in Evaluations, ScorerWrites(e)
    PROVE  VerdictInv(e)'
<1>1. PICK c \in {Scored(response[e]), "evaluator_error"} : ProgramWrites(Score(e), <<c>>)
  BY DEF ScorerWrites
<1>2. /\ state'[Score(e)].out = <<c>>
      /\ UNCHANGED <<phase, result, stage, patch, response, verdict>>
  <2>1. /\ state' = [state EXCEPT ![Score(e)].out = <<c>>]
        /\ UNCHANGED <<phase, result, stage, patch, response, verdict>>
    BY <1>1 DEF ScorerWrites, ProgramWrites, clientVars, evaluatorVars
  <2> QED  BY <2>1, CallsDiffer DEF EvaluatorInv, IInv, TypeOK
<1>3. VerdictInv(e)
  BY DEF EarnedInv
<1> QED  BY <1>2, <1>3 DEF VerdictInv

(* Initially there is no verdict to be earned.                             *)
LEMMA EarnedInit == EvaluatorInit => EarnedInv
<1> SUFFICES ASSUME EvaluatorInit PROVE EarnedInv
  OBVIOUS
<1>1. OutcomesInv
  BY OutcomeInit DEF EvaluatorInit
<1>2. EvaluatorTypes
  BY NothingIsRead DEF EvaluatorInit, EvaluatorTypes
<1>3. ASSUME NEW e \in Evaluations PROVE VerdictInv(e)
  <2>1. phase[Score(e)] = "idle" /\ state[Score(e)].out = Nothing
    BY CallsDiffer DEF EvaluatorInit, Init
  <2> QED  BY <2>1 DEF EvaluatorInit, VerdictInv
<1> QED  BY <1>1, <1>2, <1>3 DEF EarnedInv

(* Every step keeps what the verdicts rest on.                             *)
LEMMA EarnedStep == EvaluatorInv /\ EarnedInv /\ [EvaluatorNext]_vars => EarnedInv'
<1> SUFFICES ASSUME EvaluatorInv, EarnedInv, [EvaluatorNext]_vars PROVE EarnedInv'
  OBVIOUS
<1>1. [Next]_sandboxVars /\ TypeOK /\ IInv
  BY EvaluatorIsEnvironment DEF EvaluatorInv, IInv
<1>2. OutcomesInv' /\ EvaluatorTypes'
  BY <1>1, OutcomeStep, EvaluatorTypesStep DEF EarnedInv
<1>3. ASSUME NEW e \in Evaluations, UNCHANGED evaluatorVars,
             phase[Score(e)] = "idle" => phase'[Score(e)] = "idle",
             state'[Score(e)].out = state[Score(e)].out
      PROVE  VerdictInv(e)'
  BY <1>1, <1>3, VerdictFrame DEF EarnedInv, evaluatorVars
<1>4. ASSUME NEW e \in Evaluations PROVE VerdictInv(e)'
  <2>1. Invoke(e) \in Sessions /\ Score(e) \in Sessions /\ VerdictInv(e)
    BY CallsDiffer DEF EarnedInv
  <2>2. CASE UNCHANGED vars
    BY <1>3, <2>2 DEF vars, sandboxVars, clientVars, daemonVars
  <2>3. ASSUME NEW f \in Evaluations, Evaluate(f) PROVE VerdictInv(e)'
    <3>1. CASE f = e
      BY <2>3, <3>1, EvaluateVerdict
    <3>2. CASE f # e
      <4>1. /\ stage'[e] = stage[e] /\ patch'[e] = patch[e]
            /\ response'[e] = response[e] /\ verdict'[e] = verdict[e]
        BY <2>3, <3>2, OtherEvaluations DEF EvaluatorInv, EarnedInv
      <4>2. UNCHANGED <<phase, state>> \/ Admit(Invoke(f)) \/ Admit(Score(f))
        BY <2>3 DEF Evaluate, Prepare, RunInvoke, InvokeReturned, ScoreNotDispatched, RunScore,
                    ScoreReturned, sandboxVars, clientVars, daemonVars
      <4>3. /\ phase[Score(e)] = "idle" => phase'[Score(e)] = "idle"
            /\ state'[Score(e)].out = state[Score(e)].out
        BY <1>1, <2>1, <3>2, <4>2, CallsDiffer, IdleUntilAdmitted, PrintedStays
      <4> QED  BY <1>1, <2>1, <4>1, <4>3, VerdictFrame
    <3> QED  BY <3>1, <3>2
  <2>4. ASSUME NEW s \in Sessions, s # Score(e), NEW out \in Outputs, ProgramWrites(s, out),
               UNCHANGED evaluatorVars
        PROVE  VerdictInv(e)'
    <3>1. phase' = phase
      BY <2>4 DEF ProgramWrites, clientVars
    <3> QED  BY <1>1, <1>3, <2>1, <2>4, <3>1, PrintedStays
  <2>5. ASSUME NEW f \in Evaluations, CandidateWrites(f) PROVE VerdictInv(e)'
    BY <2>4, <2>5, CallsDiffer, OutputsKnown DEF CandidateWrites
  <2>6. ASSUME NEW f \in Evaluations, ScorerWrites(f) PROVE VerdictInv(e)'
    <3>1. CASE f = e
      BY <2>6, <3>1, ScorerVerdict
    <3>2. CASE f # e
      BY <2>4, <2>6, <3>2, CallsDiffer, OutputsKnown DEF ScorerWrites
    <3> QED  BY <3>1, <3>2
  <2>7. ASSUME NEW s \in Sessions, SandboxStep(s) \/ DaemonStep(s) \/ Ends(s)
        PROVE  VerdictInv(e)'
    <3>1. /\ UNCHANGED evaluatorVars
          /\ \/ RunObserved(s) \/ Daemon(s)
             \/ \E code \in Codes, oom \in BOOLEAN : ProgramEnds(s, code, oom)
      BY <2>7 DEF SandboxStep, DaemonStep, Ends
    <3>2. state'[Score(e)].out = state[Score(e)].out
      BY <1>1, <2>1, <3>1, PrintedStays
    <3>3. phase[Score(e)] = "idle" => phase'[Score(e)] = "idle"
      BY <1>1, <2>1, <3>1, IdleUntilAdmitted DEF Program
    <3> QED  BY <1>3, <3>1, <3>2, <3>3
  <2>8. ASSUME NEW s \in Others, OtherCall(s) PROVE VerdictInv(e)'
    <3>1. UNCHANGED evaluatorVars /\ Admit(s) /\ s \in Sessions /\ s # Score(e)
      BY <2>8, CallsDiffer, PhasePerContainer DEF OtherCall
    <3> QED  BY <1>1, <1>3, <2>1, <3>1, PrintedStays, IdleUntilAdmitted
  <2> QED  BY <2>2, <2>3, <2>5, <2>6, <2>7, <2>8 DEF EvaluatorNext
<1> QED  BY <1>2, <1>4 DEF EarnedInv

(* Where nothing was read there is no record to match.                     *)
LEMMA NothingFails == Scored(Nothing) = "candidate_failed"
<1>1. Len(<<>>) = 0  OBVIOUS
<1>2. 1..0 = {}  OBVIOUS
<1> QED  BY <1>1, <1>2 DEF Scored, Nothing

(* What a verdict rests on makes it earned.                                *)
LEMMA EarnedImplies == EvaluatorInv /\ EarnedInv => VerdictIsEarned
<1> SUFFICES ASSUME EvaluatorInv, EarnedInv, NEW e \in Evaluations
             PROVE  /\ verdict[e] = "passed" =>
                          /\ patch[e] = "committed"
                          /\ state[Invoke(e)].started /\ state[Invoke(e)].code = 0
                          /\ ~state[Invoke(e)].oom
                          /\ response[e] \in Seqs!Prefixes(state[Invoke(e)].out)
                          /\ Scored(response[e]) = "passed"
                          /\ state[Score(e)].code = 0 /\ ~state[Score(e)].oom
                    /\ verdict[e] = "tests_failed" /\ result[Score(e)] # NoResult =>
                          Scored(response[e]) = "candidate_failed"
  BY DEF VerdictIsEarned
<1>1. /\ VerdictInv(e) /\ OutcomeInv(Invoke(e)) /\ OutcomeInv(Score(e))
  BY CallsDiffer DEF EarnedInv, OutcomesInv
<1>2. \A c, d : <<c>> \in Seqs!Prefixes(<<d>>) => c = d
  BY ShortReadings
<1>3. CASE verdict[e] = "passed"
  <2>1. /\ Usable(result[Invoke(e)]) /\ response[e] = result[Invoke(e)].stdout
        /\ patch[e] = "committed"
        /\ Usable(result[Score(e)]) /\ result[Score(e)].stdout = <<"passed">>
    BY <1>1, <1>3 DEF VerdictInv
  <2>2. result[Score(e)].stdout # Nothing
    BY <2>1, ShortReadings
  <2>3. /\ ~state[Score(e)].oom /\ state[Score(e)].code = 0
        /\ <<"passed">> \in Seqs!Prefixes(state[Score(e)].out)
    BY <1>1, <2>1, <2>2 DEF OutcomeInv, Usable
  <2>4. state[Score(e)].out \in {<<Scored(response[e])>>, <<"evaluator_error">>}
    BY <1>1, <2>3, ShortReadings DEF VerdictInv
  <2>5. Scored(response[e]) = "passed"
    BY <1>2, <2>3, <2>4
  <2>6. response[e] # Nothing
    BY <2>5, NothingFails
  <2>7. /\ state[Invoke(e)].started /\ state[Invoke(e)].code = 0 /\ ~state[Invoke(e)].oom
        /\ response[e] \in Seqs!Prefixes(state[Invoke(e)].out)
    BY <1>1, <2>1, <2>6 DEF OutcomeInv, Usable
  <2> QED  BY <1>3, <2>1, <2>3, <2>5, <2>7
<1>4. CASE verdict[e] = "tests_failed" /\ result[Score(e)] # NoResult
  <2>1. phase[Score(e)] # "idle"
    BY <1>1, <1>4 DEF OutcomeInv
  <2>2. result[Score(e)].status = "exited" /\ result[Score(e)].stdout = <<"candidate_failed">>
    BY <1>1, <1>4, <2>1 DEF VerdictInv
  <2>3. result[Score(e)].stdout # Nothing
    BY <2>2, ShortReadings
  <2>4. <<"candidate_failed">> \in Seqs!Prefixes(state[Score(e)].out)
    BY <1>1, <2>2, <2>3 DEF OutcomeInv
  <2>5. state[Score(e)].out \in {<<Scored(response[e])>>, <<"evaluator_error">>}
    BY <1>1, <2>4, ShortReadings DEF VerdictInv
  <2> QED  BY <1>2, <1>4, <2>4, <2>5
<1> QED  BY <1>3, <1>4

(* A pass is earned, and a failure the scorer found is one: by the         *)
(* committed patch, by a program that ran and ended within its limits, and *)
(* by a part of what it printed that is one whole matching record, however *)
(* early its attachment was lost (evaluate, _trusted_status, score.py).    *)
THEOREM VerdictsEarned == EvaluatorSpec => []VerdictIsEarned
  BY EvaluatorInitInv, EvaluatorStepInv, EarnedInit, EarnedStep, EarnedImplies, PTL
  DEF EvaluatorSpec

=============================================================================
