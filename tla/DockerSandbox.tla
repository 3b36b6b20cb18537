--------------------------- MODULE DockerSandbox ---------------------------
(***************************************************************************)
(* One run of a program in a container (sandbox/docker.py): create, start  *)
(* and attach, capture until the program ends or a limit is met, inspect,  *)
(* remove, verify the removal.  Several runs share one Docker daemon.      *)
(*                                                                         *)
(* Every command goes through the docker command line under a timeout.  An *)
(* answered command has had its effect.  One that fails or times out may   *)
(* have had it, may have it later, whatever the client does by then, or    *)
(* may never have it: it joins requests, which the daemon carries out in   *)
(* any order and at any time, or not at all.                               *)
(***************************************************************************)
EXTENDS Integers, Sequences

Seqs == INSTANCE SequencesExt

CONSTANTS
    Sessions,  \* calls of run_observed
    Names,     \* container names
    NamesOf,   \* the names a call may draw: its execution id and a random suffix
    NoName,    \* the name of a call that has not drawn one
    Policy,    \* the host policy: "reference" or "development_only"
    Codes,     \* exit codes of a program that ends by itself
    Outputs,   \* whole outputs of a program, as sequences of pieces
    Flood      \* an output above the limit

ASSUME NameTypes == NamesOf \in [Sessions -> SUBSET Names] /\ NoName \notin Names
ASSUME CodeTypes == Codes \subseteq Nat /\ 0 \in Codes

Nothing == <<>>
ASSUME OutputTypes == Nothing \notin Outputs /\ Flood \in Outputs

\* What can be read of outputs.
Readings == {Nothing} \cup UNION {Seqs!Prefixes(out) : out \in Outputs}

VARIABLES
    phase,     \* the next step of each call
    name,      \* the name of its container
    byId,      \* whether it addresses the container by a well-formed id
    term,      \* what ended the capture: none, timed_out or output_exhausted
    capture,   \* the output it has read
    removed,   \* whether docker rm reported success
    result,    \* its SandboxResult
    box,       \* the container: none, created, running, ended or removed
    state,     \* what Docker and the program know of it
    requests   \* commands the daemon may still carry out

clientVars == <<phase, name, byId, term, capture, removed, result>>
daemonVars == <<box, state, requests>>
sandboxVars == <<clientVars, daemonVars>>

NoCode == -1
KilledCode == 137

Statuses == {"exited", "timed_out", "output_exhausted", "oom_killed", "infrastructure_error"}
Result(status, code, out) == [status |-> status, code |-> code, stdout |-> out]
\* The output an infrastructure error keeps as evidence is left out.
Infrastructure == Result("infrastructure_error", NoCode, Nothing)
\* SandboxUnavailableError is raised instead of a result.
Unavailable == Result("unavailable", NoCode, Nothing)
NoResult == Result("none", NoCode, Nothing)

Init ==
    /\ phase = [s \in Sessions |-> "idle"]
    /\ name = [s \in Sessions |-> NoName]
    /\ byId = [s \in Sessions |-> FALSE]
    /\ term = [s \in Sessions |-> "none"]
    /\ capture = [s \in Sessions |-> Nothing]
    /\ removed = [s \in Sessions |-> FALSE]
    /\ result = [s \in Sessions |-> NoResult]
    /\ box = [s \in Sessions |-> "none"]
    /\ state = [s \in Sessions |-> [started |-> FALSE, code |-> 0, oom |-> FALSE, out |-> Nothing]]
    /\ requests = [s \in Sessions |-> {}]

Goto(s, label) == phase' = [phase EXCEPT ![s] = label]
Return(s, r) == result' = [result EXCEPT ![s] = r]
\* A call is over, and its locals with it.
Observe(s, r) ==
    /\ Return(s, r)
    /\ Goto(s, "remove")
    /\ term' = [term EXCEPT ![s] = "none"]
    /\ capture' = [capture EXCEPT ![s] = Nothing]
Finish(s, r) ==
    /\ Return(s, r)
    /\ Goto(s, "done")
    /\ removed' = [removed EXCEPT ![s] = FALSE]
Ask(s, command) == requests' = [requests EXCEPT ![s] = @ \cup {command}]

-----------------------------------------------------------------------------
(* The daemon. *)

Present(s) == box[s] \in {"created", "running", "ended"}
NameFree(n) == \A t \in Sessions : Present(t) => name[t] # n

\* The containers a command of s addresses.
Target(s) == IF byId[s] THEN {s} ELSE {t \in Sessions : name[t] = name[s]}

Boxes(s, to) == [box EXCEPT ![s] = to]
Gone(s) == {t \in Target(s) : Present(t)}
AfterRemoval(s) == [t \in Sessions |-> IF t \in Gone(s) THEN "removed" ELSE box[t]]
\* Commands for a container that is gone have no effect any more.
Pending(s) == [t \in Sessions |-> IF t \in Gone(s) THEN {} ELSE requests[t]]
Killed(s) ==
    IF box[s] = "running" THEN [state EXCEPT ![s].code = KilledCode] ELSE state
AfterKill(s) == IF box[s] = "running" THEN Boxes(s, "ended") ELSE box

\* A command is carried out, whoever still waits for it.
Take(s, command) ==
    /\ command \in requests[s]
    /\ requests' = [requests EXCEPT ![s] = @ \ {command}]
LateCreate(s) ==
    /\ Take(s, "create")
    /\ box' = IF NameFree(name[s]) THEN Boxes(s, "created") ELSE box
    /\ UNCHANGED <<clientVars, state>>
LateStart(s) ==
    /\ Take(s, "start")
    /\ box' = Boxes(s, "running")
    /\ state' = [state EXCEPT ![s].started = TRUE]
    /\ UNCHANGED clientVars
LateKill(s) ==
    /\ Take(s, "kill")
    /\ box' = AfterKill(s) /\ state' = Killed(s)
    /\ UNCHANGED clientVars
LateRemove(s) ==
    /\ "rm" \in requests[s]
    /\ box' = AfterRemoval(s) /\ requests' = Pending(s)
    /\ UNCHANGED <<clientVars, state>>

\* The program prints, which matters while somebody reads it, and ends by
\* itself.
ProgramWrites(s, out) ==
    /\ box[s] = "running" /\ phase[s] = "attached" /\ state[s].out = Nothing
    /\ state' = [state EXCEPT ![s].out = out]
    /\ UNCHANGED <<clientVars, box, requests>>
ProgramEnds(s, code, oom) ==
    /\ box[s] = "running"
    /\ box' = Boxes(s, "ended")
    /\ state' = [state EXCEPT ![s].code = IF oom THEN KilledCode ELSE code, ![s].oom = oom]
    /\ UNCHANGED <<clientVars, requests>>

-----------------------------------------------------------------------------
(* run_observed *)

\* assess_docker_info: the checks that failed, as mandatory ones (linux,
\* cgroup v2, seccomp, private cgroups, limits) and reference ones
\* (x86_64, rootless).
Accepted(failures) ==
    IF Policy = "reference" THEN failures = {} ELSE "mandatory" \notin failures

\* assess_host, _inspect_image and _validate_mount_sources, then a name.
Admit(s) ==
    /\ phase[s] = "idle"
    /\ \E failures \in SUBSET {"mandatory", "reference"}, usable \in BOOLEAN, n \in NamesOf[s] :
          IF Accepted(failures) /\ usable
            THEN /\ name' = [name EXCEPT ![s] = n]
                 /\ Goto(s, "create")
                 /\ UNCHANGED <<removed, result>>
            ELSE Finish(s, Unavailable) /\ UNCHANGED name
    /\ UNCHANGED <<byId, term, capture, daemonVars>>

\* docker create answers with an id, or with something that is not one.
CreateAnswered(s) ==
    /\ phase[s] = "create" /\ NameFree(name[s])
    /\ box' = Boxes(s, "created")
    /\ \E wellFormed \in BOOLEAN :
          /\ byId' = [byId EXCEPT ![s] = wellFormed]
          /\ Goto(s, IF wellFormed THEN "start" ELSE "remove")
          /\ IF wellFormed THEN UNCHANGED result ELSE Return(s, Infrastructure)
    /\ UNCHANGED <<name, term, capture, removed, state, requests>>

\* Mutant: an ambiguous create is cleaned up by name.
CreateFailedCleansUp(s) ==
    /\ phase[s] = "create"
    /\ Ask(s, "create")
    /\ Return(s, Infrastructure)
    /\ Goto(s, "remove")
    /\ UNCHANGED <<name, byId, term, capture, removed, box, state>>
\* docker create fails, as for a name in use, or times out: nothing is
\* cleaned up.
CreateFailed(s) ==
    /\ phase[s] = "create"
    /\ Ask(s, "create")
    /\ Finish(s, Infrastructure)
    /\ UNCHANGED <<name, byId, term, capture, box, state>>

\* _start_and_observe: docker start --attach runs beside the client, unless
\* it cannot even be spawned.
Start(s) ==
    /\ phase[s] = "start"
    /\ \/ Ask(s, "start") /\ Goto(s, "attached") /\ UNCHANGED <<term, capture, result>>
       \/ Observe(s, Infrastructure) /\ UNCHANGED requests
    /\ UNCHANGED <<name, byId, removed, box, state>>

\* What the attached command line may have handed over by now: the output up
\* to any piece.
Readable(s) == Seqs!Prefixes(state[s].out) \ {Flood}

\* The attached command line is gone and its pipes are closed: because the
\* program ended, or because it failed or lost the daemon earlier.  Its exit
\* code is not looked at, so what was read may stop anywhere.
AttachEnds(s) ==
    /\ phase[s] = "attached"
    /\ \E out \in Readable(s) : capture' = [capture EXCEPT ![s] = out]
    /\ Goto(s, "inspect")
    /\ UNCHANGED <<name, byId, term, removed, result, daemonVars>>

\* Mutant: the deadline is looked at only while there is output to read.
DeadlineOnOutput(s) ==
    /\ phase[s] = "attached" /\ state[s].out # Nothing
    /\ term' = [term EXCEPT ![s] = "timed_out"]
    /\ Goto(s, "kill")
    /\ UNCHANGED <<name, byId, capture, removed, result, daemonVars>>
\* What was read before a limit was met is evidence only, and left out.
Deadline(s) ==
    /\ phase[s] = "attached"
    /\ term' = [term EXCEPT ![s] = "timed_out"]
    /\ Goto(s, "kill")
    /\ UNCHANGED <<name, byId, capture, removed, result, daemonVars>>

\* The combined limit is met.  The container is killed unless the attached
\* command line is gone already.
OutputExhausted(s) ==
    /\ phase[s] = "attached" /\ state[s].out = Flood
    /\ term' = [term EXCEPT ![s] = "output_exhausted"]
    /\ \E next \in {"kill", "inspect"} : Goto(s, next)
    /\ UNCHANGED <<name, byId, capture, removed, result, daemonVars>>

\* _kill_container: its outcome is evidence and decides nothing.
Kill(s) ==
    /\ phase[s] = "kill"
    /\ \/ box' = AfterKill(s) /\ state' = Killed(s) /\ UNCHANGED requests
       \/ Ask(s, "kill") /\ UNCHANGED <<box, state>>
    /\ Goto(s, "reap")
    /\ UNCHANGED <<name, byId, term, capture, removed, result>>

\* The attached command line is killed and waited for, at most twice.
Reap(s) ==
    /\ phase[s] = "reap"
    /\ \/ Goto(s, "inspect") /\ UNCHANGED <<term, capture, result>>
       \/ Observe(s, Infrastructure)
    /\ UNCHANGED <<name, byId, removed, daemonVars>>

\* The status of a container that docker inspect shows as not running.
Observed(s) ==
    IF term[s] # "none" THEN term[s]
    ELSE IF state[s].oom THEN "oom_killed" ELSE "exited"

\* docker inspect of the state: no answer, a malformed one, one with an
\* error and a container that still runs are infrastructure errors.
Inspect(s) ==
    /\ phase[s] = "inspect"
    /\ \/ Observe(s, Infrastructure)
       \/ /\ box[s] # "running"
          /\ Observe(s, Result(Observed(s), state[s].code, capture[s]))
    /\ UNCHANGED <<name, byId, removed, daemonVars>>

\* _cleanup_container: docker rm --force succeeds, fails, or times out, and
\* then absence is not looked at.
Remove(s) ==
    /\ phase[s] = "remove"
    /\ \/ /\ box' = AfterRemoval(s)
          /\ removed' = [removed EXCEPT ![s] = TRUE]
          /\ requests' = Pending(s)
          /\ Goto(s, "verify")
          /\ UNCHANGED result
       \/ /\ Ask(s, "rm")
          /\ Goto(s, "verify")
          /\ UNCHANGED <<removed, result, box>>
       \/ /\ Ask(s, "rm")
          /\ Finish(s, Infrastructure)
          /\ UNCHANGED box
    /\ UNCHANGED <<name, byId, term, capture, state>>

\* _container_is_absent: the true answer, or none.
Answers(s) ==
    {"unknown", IF \E t \in Target(s) : Present(t) THEN "present" ELSE "absent"}

\* Mutant: only a container that is seen to be there spoils the result.
ConfirmedUnlessSeen(s, answer) == answer # "present"
\* DockerCleanupEvidence.confirmed
Confirmed(s, answer) == removed[s] /\ answer = "absent"

Verify(s) ==
    /\ phase[s] = "verify"
    /\ \E answer \in Answers(s) :
          Finish(s, IF Confirmed(s, answer) THEN result[s] ELSE Infrastructure)
    /\ UNCHANGED <<name, byId, term, capture, daemonVars>>

\* The steps run_observed takes by itself once it has been called.
RunObserved(s) ==
    \/ CreateAnswered(s) \/ CreateFailed(s) \/ Start(s) \/ Deadline(s) \/ OutputExhausted(s)
    \/ Kill(s) \/ Reap(s) \/ Inspect(s) \/ Remove(s) \/ Verify(s)

\* What happens to it.
Daemon(s) == AttachEnds(s) \/ LateCreate(s) \/ LateStart(s) \/ LateKill(s) \/ LateRemove(s)
Program(s) ==
    \/ \E out \in Outputs : ProgramWrites(s, out)
    \/ \E code \in Codes, oom \in BOOLEAN : ProgramEnds(s, code, oom)

Next == \E s \in Sessions : Admit(s) \/ RunObserved(s) \/ Daemon(s) \/ Program(s)

Spec == Init /\ [][Next]_sandboxVars

-----------------------------------------------------------------------------
(* Properties. *)

Phases == {"idle", "create", "start", "attached", "kill", "reap", "inspect", "remove", "verify",
           "done"}
Results == [status : Statuses \cup {"none", "unavailable"},
            code : Codes \cup {NoCode, KilledCode, 0}, stdout : Readings]

TypeOK ==
    /\ phase \in [Sessions -> Phases]
    /\ name \in [Sessions -> Names \cup {NoName}]
    /\ byId \in [Sessions -> BOOLEAN]
    /\ term \in [Sessions -> {"none", "timed_out", "output_exhausted"}]
    /\ capture \in [Sessions -> Readings]
    /\ removed \in [Sessions -> BOOLEAN]
    /\ result \in [Sessions -> Results]
    /\ box \in [Sessions -> {"none", "created", "running", "ended", "removed"}]
    /\ state \in [Sessions -> [started : BOOLEAN, code : Codes \cup {KilledCode}, oom : BOOLEAN,
                               out : Outputs \cup {Nothing}]]
    /\ requests \in [Sessions -> SUBSET {"create", "start", "kill", "rm"}]

(* A result other than an infrastructure error vouches for the container:  *)
(* it is gone when the result is returned, and no command that is still    *)
(* under way brings it back (run_observed, DockerCleanupEvidence).         *)
VouchedGone ==
    \A s \in Sessions :
        phase[s] = "done" /\ result[s].status \in Statuses \ {"infrastructure_error"}
            => box[s] = "removed"

(* A container is removed by the call that created it, and only once that  *)
(* call is done with it (it has inspected the container, or has given it   *)
(* up for a malformed id, a start it could not spawn or a command line it  *)
(* could not reap): no clean-up, in time or late, by id or by name, takes  *)
(* the container of another call that drew the same name.                  *)
RemovedByOwner ==
    \A s \in Sessions :
        box[s] = "removed" => phase[s] \in {"verify", "done"}

=============================================================================
