-------------------------- MODULE EventStoreProofs --------------------------
(***************************************************************************)
(* Proofs about event streams and about the event store, for any runs,     *)
(* usage vectors, caps, request identities and clock readings.             *)
(*                                                                         *)
(* Part 1, replay_events over arbitrary streams.  The strengthening says   *)
(* what is due while a budget transition waits for its snapshot, and which *)
(* phases go together.                                                     *)
(*                                                                         *)
(* Part 2, the store.  A row's stream replays to one state, and that state *)
(* says in which phase the run is (Between).  The events that a method     *)
(* appends are replayed from that state, since the replay of a longer      *)
(* stream continues the replay of the shorter one; this is shown by        *)
(* looking at the least position at which it would not.                    *)
(***************************************************************************)
EXTENDS EventStore, StreamReplay, WellFoundedInduction, SequenceTheorems, TLAPS

-----------------------------------------------------------------------------
(* Part 1: streams. *)

ReplayState ==
    [created : BOOLEAN, status : Statuses \ {"absent"},
     used : BudgetUsage, reserved : BudgetUsage,
     artifacts : SUBSET ArtifactNames, absent : SUBSET ExpectedNames,
     outcome : Outcomes \cup {None}, id : RequestIds \cup {None},
     request : {"not_started", "started", "completed", "ambiguous"},
     maximum : BudgetUsage, reported : BudgetUsage, returned : BOOLEAN, reason : Reasons,
     pending : {None, "reserve", "reconcile", "ambiguous"}, amount : BudgetUsage]

\* The budget, between snapshots and while one is due.
BudgetInv(s) ==
    /\ s.pending = None =>
         /\ s.request = "not_started" => s.used = NoUsage /\ s.reserved = NoUsage
         /\ s.request = "started" => s.used = NoUsage /\ s.reserved = s.maximum
         /\ s.request = "completed" => /\ s.used = s.reported
                                       /\ UsageAtMost(s.used, s.maximum)
                                       /\ s.reserved = NoUsage
         /\ s.request = "ambiguous" => s.used = s.maximum /\ s.reserved = NoUsage
    /\ s.pending = "reserve" => /\ s.request = "started" /\ s.amount = s.maximum
                                /\ s.used = NoUsage /\ s.reserved = NoUsage
    /\ s.pending = "reconcile" => /\ s.request = "completed"
                                  /\ UsageAtMost(s.amount, s.maximum) /\ s.amount = s.reported
                                  /\ s.used = NoUsage /\ s.reserved = s.maximum
    /\ s.pending = "ambiguous" => /\ s.request = "ambiguous"
                                  /\ s.used = NoUsage /\ s.reserved = s.maximum
    /\ s.pending # None => s.status = "running"

\* The phases.
PhaseInv(s) ==
    /\ s.artifacts \cap s.absent = {}
    /\ s.artifacts # {} => "task_spec" \in s.artifacts
    /\ s.request = "completed" => s.returned
    /\ s.outcome # None => /\ s.request = "completed"
                           /\ EvaluationNames \cup {"patch"} \subseteq s.artifacts
    /\ IsTerminal(s.status) =>
         /\ s.request # "started"
         /\ s.status \in {"succeeded", "failed", "timed_out"} => s.outcome # None
         /\ s.request = "ambiguous" => /\ s.status = "infrastructure_error"
                                       /\ s.reason = "ambiguous_model_request"

ReplayInv(s) == s \in ReplayState /\ BudgetInv(s) /\ PhaseInv(s)

(* Usage arithmetic (_add_usage, _subtract_usage).                         *)
LEMMA UsageArithmetic ==
    /\ NoUsage \in BudgetUsage
    /\ \A u \in BudgetUsage : /\ AddUsage(NoUsage, u) = u
                              /\ SubtractUsage(u, u) = NoUsage
    BY DEF NoUsage, BudgetUsage, AddUsage, SubtractUsage

(* The state before the first event satisfies the invariant.               *)
LEMMA EmptyInv == ReplayInv(Empty)
<1>1. Empty \in ReplayState
    BY UsageArithmetic DEF Empty, ReplayState, Statuses, Reasons, None
<1>2. BudgetInv(Empty)
    BY DEF Empty, BudgetInv, None
<1>3. PhaseInv(Empty)
    BY DEF Empty, PhaseInv, None, IsTerminal, TerminalStatuses, EvaluationStatuses
<1>4. QED
    BY <1>1, <1>2, <1>3 DEF ReplayInv

-----------------------------------------------------------------------------
(* One lemma per event type. *)

(* run.created and run.started only move the run's phase.                  *)
LEMMA LifecycleInv ==
    ASSUME NEW s, ReplayInv(s), NEW e \in {Created([d \in {} |-> 0]), Started}, Legal(s, e)
    PROVE  ReplayInv(Apply(s, e))
<1>1. s \in ReplayState /\ BudgetInv(s) /\ PhaseInv(s)
    BY DEF ReplayInv
<1>2. CASE e = Created([d \in {} |-> 0])
    <2>1. Apply(s, e) = [s EXCEPT !.created = TRUE]
        BY <1>2 DEF Apply, Created
    <2>2. [s EXCEPT !.created = TRUE] \in ReplayState
        BY <1>1 DEF ReplayState
    <2>3. BudgetInv([s EXCEPT !.created = TRUE])
        BY <1>1 DEF ReplayState, BudgetInv
    <2>4. PhaseInv([s EXCEPT !.created = TRUE])
        BY <1>1 DEF ReplayState, PhaseInv
    <2>5. QED
        BY <2>1, <2>2, <2>3, <2>4 DEF ReplayInv
<1>3. CASE e = Started
    <2>1. Apply(s, e) = [s EXCEPT !.status = "running"] /\ s.status = "pending"
        BY <1>3 DEF Apply, Legal, Started
    <2>2. [s EXCEPT !.status = "running"] \in ReplayState
        BY <1>1 DEF ReplayState, Statuses
    <2>3. BudgetInv([s EXCEPT !.status = "running"])
        BY <1>1 DEF ReplayState, BudgetInv
    <2>4. PhaseInv([s EXCEPT !.status = "running"])
        BY <1>1 DEF ReplayState, PhaseInv, IsTerminal, TerminalStatuses, EvaluationStatuses
    <2>5. QED
        BY <2>1, <2>2, <2>3, <2>4 DEF ReplayInv
<1>4. QED
    BY <1>2, <1>3

(* model.request_started makes a reservation due.                          *)
LEMMA RequestStartedInv ==
    ASSUME NEW s, ReplayInv(s), NEW id \in RequestIds, NEW u \in BudgetUsage,
           Legal(s, RequestStarted(id, u))
    PROVE  ReplayInv(Apply(s, RequestStarted(id, u)))
<1> DEFINE n == [s EXCEPT !.id = id, !.maximum = u, !.request = "started",
                          !.pending = "reserve", !.amount = u]
<1>1. s \in ReplayState /\ BudgetInv(s) /\ PhaseInv(s)
    BY DEF ReplayInv
<1>2. Apply(s, RequestStarted(id, u)) = n
    BY DEF Apply, RequestStarted
<1>3. s.status = "running" /\ s.request = "not_started" /\ s.pending = None
    BY DEF Legal, RequestStarted
<1>4. s.used = NoUsage /\ s.reserved = NoUsage
    BY <1>1, <1>3 DEF BudgetInv
<1>5. n \in ReplayState
    BY <1>1 DEF ReplayState
<1>6. BudgetInv(n)
    BY <1>1, <1>3, <1>4 DEF ReplayState, BudgetInv, None
<1>7. PhaseInv(n)
    BY <1>1, <1>3 DEF ReplayState, PhaseInv, IsTerminal, TerminalStatuses, EvaluationStatuses
<1>8. QED
    BY <1>2, <1>5, <1>6, <1>7 DEF ReplayInv

(* model.response_completed makes its reconciliation due.                  *)
LEMMA ResponseCompletedInv ==
    ASSUME NEW s, ReplayInv(s), NEW id \in RequestIds, NEW u \in BudgetUsage,
           Legal(s, ResponseCompleted(id, u))
    PROVE  ReplayInv(Apply(s, ResponseCompleted(id, u)))
<1> DEFINE n == [s EXCEPT !.returned = TRUE, !.request = "completed", !.reported = u,
                          !.pending = "reconcile", !.amount = u]
<1>1. s \in ReplayState /\ BudgetInv(s) /\ PhaseInv(s)
    BY DEF ReplayInv
<1>2. Apply(s, ResponseCompleted(id, u)) = n
    BY DEF Apply, ResponseCompleted
<1>3. /\ s.status = "running" /\ s.request = "started" /\ s.pending = None
      /\ UsageAtMost(u, s.maximum) /\ u.calls = 1
    BY DEF Legal, ResponseCompleted
<1>4. s.used = NoUsage /\ s.reserved = s.maximum
    BY <1>1, <1>3 DEF BudgetInv
<1>5. n \in ReplayState
    BY <1>1 DEF ReplayState
<1>6. BudgetInv(n)
    BY <1>1, <1>3, <1>4 DEF ReplayState, BudgetInv, None
<1>7. PhaseInv(n)
    BY <1>1, <1>3 DEF ReplayState, PhaseInv, IsTerminal, TerminalStatuses, EvaluationStatuses
<1>8. QED
    BY <1>2, <1>5, <1>6, <1>7 DEF ReplayInv

(* model.request_ambiguous makes the whole charge due.                     *)
LEMMA RequestAmbiguousInv ==
    ASSUME NEW s, ReplayInv(s), NEW id \in RequestIds, Legal(s, RequestAmbiguous(id))
    PROVE  ReplayInv(Apply(s, RequestAmbiguous(id)))
<1> DEFINE n == [s EXCEPT !.request = "ambiguous", !.pending = "ambiguous",
                          !.amount = s.reserved]
<1>1. s \in ReplayState /\ BudgetInv(s) /\ PhaseInv(s)
    BY DEF ReplayInv
<1>2. Apply(s, RequestAmbiguous(id)) = n
    BY DEF Apply, RequestAmbiguous
<1>3. s.status = "running" /\ s.request = "started" /\ s.pending = None
    BY DEF Legal, RequestAmbiguous
<1>4. s.used = NoUsage /\ s.reserved = s.maximum
    BY <1>1, <1>3 DEF BudgetInv
<1>5. n \in ReplayState
    BY <1>1 DEF ReplayState
<1>6. BudgetInv(n)
    BY <1>1, <1>3, <1>4 DEF ReplayState, BudgetInv, None
<1>7. PhaseInv(n)
    BY <1>1, <1>3 DEF ReplayState, PhaseInv, IsTerminal, TerminalStatuses, EvaluationStatuses
<1>8. QED
    BY <1>2, <1>5, <1>6, <1>7 DEF ReplayInv

(* budget.snapshot settles the transition that is due.                     *)
LEMMA SnapshotInv ==
    ASSUME NEW s, ReplayInv(s), NEW u \in BudgetUsage, NEW v \in BudgetUsage,
           Legal(s, Snapshot(u, v))
    PROVE  ReplayInv(Apply(s, Snapshot(u, v)))
<1> DEFINE n == [s EXCEPT !.used = u, !.reserved = v, !.pending = None, !.amount = NoUsage]
<1>1. /\ s \in ReplayState /\ BudgetInv(s) /\ PhaseInv(s)
      /\ s.maximum \in BudgetUsage /\ s.amount \in BudgetUsage
    BY DEF ReplayInv, ReplayState
<1>2. Apply(s, Snapshot(u, v)) = n
    BY DEF Apply, Snapshot
<1>3. ~IsTerminal(s.status) /\ u = SnapshotExpected(s).used /\ v = SnapshotExpected(s).reserved
    BY DEF Legal, Snapshot, SnapshotLegal
<1>4. n \in ReplayState
    BY <1>1, UsageArithmetic DEF ReplayState
<1>5. /\ n.used = u /\ n.reserved = v /\ n.pending = None /\ n.request = s.request
      /\ n.maximum = s.maximum /\ n.reported = s.reported
    BY <1>1 DEF ReplayState
<1>6. BudgetInv(n)
    <2>1. CASE s.pending = None
        <3>1. u = s.used /\ v = s.reserved
            BY <1>3, <2>1 DEF SnapshotExpected, None
        <3>2. QED
            BY <1>1, <1>5, <2>1, <3>1 DEF BudgetInv, None
    <2>2. CASE s.pending = "reserve"
        <3>1. u = NoUsage /\ v = s.maximum
            BY <1>1, <1>3, <2>2, UsageArithmetic DEF SnapshotExpected, BudgetInv, None
        <3>2. n.request = "started"
            BY <1>1, <1>5, <2>2 DEF BudgetInv
        <3>3. QED
            BY <1>5, <3>1, <3>2 DEF BudgetInv, None
    <2>3. CASE s.pending = "reconcile"
        <3>1. u = s.amount /\ v = NoUsage
            BY <1>1, <1>3, <2>3, UsageArithmetic DEF SnapshotExpected, BudgetInv, None
        <3>2. n.request = "completed" /\ UsageAtMost(s.amount, s.maximum) /\ s.amount = s.reported
            BY <1>1, <1>5, <2>3 DEF BudgetInv
        <3>3. QED
            BY <1>5, <3>1, <3>2 DEF BudgetInv, None
    <2>4. CASE s.pending = "ambiguous"
        <3>1. u = s.maximum /\ v = NoUsage
            BY <1>1, <1>3, <2>4, UsageArithmetic DEF SnapshotExpected, BudgetInv, None
        <3>2. n.request = "ambiguous"
            BY <1>1, <1>5, <2>4 DEF BudgetInv
        <3>3. QED
            BY <1>5, <3>1, <3>2 DEF BudgetInv, None
    <2>5. QED
        BY <1>1, <2>1, <2>2, <2>3, <2>4 DEF ReplayState
<1>7. PhaseInv(n)
    BY <1>1, <1>3 DEF ReplayState, PhaseInv
<1>8. QED
    BY <1>2, <1>4, <1>6, <1>7 DEF ReplayInv

(* artifact.recorded binds a name that is not accounted for, in position.  *)
LEMMA RecordedInv ==
    ASSUME NEW s, ReplayInv(s), NEW name \in ArtifactNames, Legal(s, Recorded(name))
    PROVE  ReplayInv(Apply(s, Recorded(name)))
<1> DEFINE n == [s EXCEPT !.artifacts = @ \cup {name}]
<1>1. s \in ReplayState /\ BudgetInv(s) /\ PhaseInv(s)
    BY DEF ReplayInv
<1>2. Apply(s, Recorded(name)) = n
    BY DEF Apply, Recorded
<1>3. s.status = "running" /\ name \notin s.artifacts \cup s.absent /\ InPosition(s, name)
    BY DEF Legal, Recorded, Unaccounted
<1>4. name = "task_spec" \/ "task_spec" \in s.artifacts
    BY <1>3 DEF InPosition, Predecessors, ArtifactNames, ExpectedNames, EvaluationNames,
                OptionalNames
<1>5. n \in ReplayState
    BY <1>1 DEF ReplayState
<1>6. BudgetInv(n)
    BY <1>1 DEF ReplayState, BudgetInv
<1>7. PhaseInv(n)
    BY <1>1, <1>3, <1>4
    DEF ReplayState, PhaseInv, IsTerminal, TerminalStatuses, EvaluationStatuses
<1>8. QED
    BY <1>2, <1>5, <1>6, <1>7 DEF ReplayInv

(* artifact.not_produced accounts for an expected name.                    *)
LEMMA NotProducedInv ==
    ASSUME NEW s, ReplayInv(s), NEW name \in ArtifactNames, Legal(s, NotProduced(name))
    PROVE  ReplayInv(Apply(s, NotProduced(name)))
<1> DEFINE n == [s EXCEPT !.absent = @ \cup {name}]
<1>1. s \in ReplayState /\ BudgetInv(s) /\ PhaseInv(s)
    BY DEF ReplayInv
<1>2. Apply(s, NotProduced(name)) = n
    BY DEF Apply, NotProduced
<1>3. name \in ExpectedNames /\ name \notin s.artifacts \cup s.absent
    BY DEF Legal, NotProduced, NotProducedLegal, Unaccounted
<1>4. n \in ReplayState
    BY <1>1, <1>3 DEF ReplayState
<1>5. BudgetInv(n)
    BY <1>1 DEF ReplayState, BudgetInv
<1>6. PhaseInv(n)
    BY <1>1, <1>3 DEF ReplayState, PhaseInv
<1>7. QED
    BY <1>2, <1>4, <1>5, <1>6 DEF ReplayInv

(* evaluation.completed needs an answered request and bound evidence.      *)
LEMMA EvaluationCompletedInv ==
    ASSUME NEW s, ReplayInv(s), NEW o \in Outcomes, Legal(s, EvaluationCompleted(o))
    PROVE  ReplayInv(Apply(s, EvaluationCompleted(o)))
<1> DEFINE n == [s EXCEPT !.outcome = o]
<1>1. s \in ReplayState /\ BudgetInv(s) /\ PhaseInv(s)
    BY DEF ReplayInv
<1>2. Apply(s, EvaluationCompleted(o)) = n
    BY DEF Apply, EvaluationCompleted
<1>3. /\ s.status = "running" /\ s.request = "completed"
      /\ EvaluationNames \cup {"patch"} \subseteq s.artifacts
    BY DEF Legal, EvaluationCompleted
<1>4. n \in ReplayState
    BY <1>1 DEF ReplayState
<1>5. BudgetInv(n)
    BY <1>1 DEF ReplayState, BudgetInv
<1>6. PhaseInv(n)
    BY <1>1, <1>3 DEF ReplayState, PhaseInv, IsTerminal, TerminalStatuses, EvaluationStatuses
<1>7. QED
    BY <1>2, <1>4, <1>5, <1>6 DEF ReplayInv

(* run.terminal classifies the request and rests on the evaluation.        *)
LEMMA TerminalEventInv ==
    ASSUME NEW s, ReplayInv(s), NEW st \in Statuses \ {"absent"}, NEW o \in Outcomes \cup {None},
           NEW re \in Reasons, Legal(s, TerminalEvent(st, o, re))
    PROVE  ReplayInv(Apply(s, TerminalEvent(st, o, re)))
<1> DEFINE n == [s EXCEPT !.status = st, !.reason = re]
<1>1. s \in ReplayState /\ BudgetInv(s) /\ PhaseInv(s)
    BY DEF ReplayInv
<1>2. Apply(s, TerminalEvent(st, o, re)) = n
    BY DEF Apply, TerminalEvent
<1>3. s.pending = None /\ TerminalLegal(s, TerminalEvent(st, o, re))
    BY DEF Legal, TerminalEvent
<1>4. /\ s.request # "started"
      /\ s.outcome = None => st \in {"budget_exhausted", "cancelled", "infrastructure_error"}
      /\ s.request = "ambiguous" => st = "infrastructure_error" /\ re = "ambiguous_model_request"
    BY <1>3 DEF TerminalLegal, TerminalEvent
<1>5. n \in ReplayState
    BY <1>1 DEF ReplayState
<1>6. BudgetInv(n)
    BY <1>1, <1>3 DEF ReplayState, BudgetInv
<1>7. PhaseInv(n)
    BY <1>1, <1>4 DEF ReplayState, PhaseInv
<1>8. QED
    BY <1>2, <1>5, <1>6, <1>7 DEF ReplayInv

-----------------------------------------------------------------------------

(* Every legal event keeps the invariant.                                  *)
LEMMA ReplayInvStep == ReplayInv(state) /\ [ReplayNext]_state => ReplayInv(state)'
<1>1. SUFFICES ASSUME ReplayInv(state), [ReplayNext]_state PROVE ReplayInv(state')
    OBVIOUS
<1>2. CASE UNCHANGED state
    BY <1>1, <1>2
<1>3. CASE ReplayNext
    <2>1. PICK e \in Events : Legal(state, e) /\ state' = Apply(state, e)
        BY <1>3 DEF ReplayNext
    <2>2. ReplayInv(Apply(state, e))
        BY <1>1, <2>1, UsagesType, LifecycleInv, RequestStartedInv, ResponseCompletedInv,
           RequestAmbiguousInv, SnapshotInv, RecordedInv, NotProducedInv,
           EvaluationCompletedInv, TerminalEventInv
        DEF Events
    <2>3. QED
        BY <2>1, <2>2
<1>4. QED
    BY <1>1, <1>2, <1>3

(* The invariant implies the properties of the replayed state.             *)
LEMMA ReplayInvImplies ==
    ReplayInv(state) => ReplayTypeOK /\ ReplayedSpend /\ ReplayedVerdict
<1>1. SUFFICES ASSUME ReplayInv(state)
      PROVE  ReplayTypeOK /\ ReplayedSpend /\ ReplayedVerdict
    OBVIOUS
<1>2. state \in ReplayState /\ BudgetInv(state) /\ PhaseInv(state)
    BY <1>1 DEF ReplayInv
<1>3. ReplayTypeOK
    BY <1>2 DEF ReplayTypeOK, ReplayState
<1>4. state.request \in {"not_started", "started", "completed", "ambiguous"}
    BY <1>2 DEF ReplayState
<1>5. ReplayedSpend
    BY <1>2, <1>4 DEF ReplayedSpend, BudgetInv
<1>6. IsTerminal(state.status) => state.reserved = NoUsage /\ state.pending = None
    BY <1>2, <1>4 DEF BudgetInv, PhaseInv, IsTerminal, TerminalStatuses, EvaluationStatuses
<1>7. ReplayedVerdict
    BY <1>2, <1>6 DEF ReplayedVerdict, PhaseInv, ExpectedNames
<1>8. QED
    BY <1>3, <1>5, <1>7

(* The inductive invariant holds of every accepted prefix of a stream.     *)
LEMMA ReplayInvariant == ReplaySpec => []ReplayInv(state)
<1>1. ReplayInit => ReplayInv(state)
    BY EmptyInv DEF ReplayInit
<1>2. QED
    BY <1>1, ReplayInvStep, PTL DEF ReplaySpec

(* The replayed state of every stream has its type.                        *)
THEOREM ReplayTypeCorrect == ReplaySpec => []ReplayTypeOK
    BY ReplayInvariant, ReplayInvImplies, PTL

(* Any stream that replays, whoever wrote it, shows only justified spend   *)
(* and ends with nothing reserved (replay_run_events).                     *)
THEOREM ReplayIsSound == ReplaySpec => []ReplayedSpend
    BY ReplayInvariant, ReplayInvImplies, PTL

(* Any stream that replays earns the verdict it ends with.                 *)
THEOREM ReplayEarnsVerdict == ReplaySpec => []ReplayedVerdict
    BY ReplayInvariant, ReplayInvImplies, PTL

-----------------------------------------------------------------------------
(* Part 2: the store. *)

\* The stages of a replay from a set of states.
Stages(f, n, states, events) ==
    f = [i \in 0..n |-> IF i = 0 THEN states ELSE ReplayStep(f[i - 1], events[i])]

(* A set of naturals that is not empty has a least element.                *)
LEMMA Least == ASSUME NEW T \in SUBSET Nat, T # {} PROVE \E x \in T : \A y \in T : ~(y < x)
<1>1. IsWellFoundedOn(OpToRel(<, Nat), Nat) BY NatLessThanWellFounded
<1>2. \E x \in T : \A y \in T : ~(<<y, x>> \in OpToRel(<, Nat)) BY <1>1, WFMin
<1>3. \A x, y \in Nat : y < x => <<y, x>> \in OpToRel(<, Nat) BY DEF OpToRel
<1>. QED BY <1>2, <1>3

(* A replay has stages.                                                    *)
LEMMA StagesExist == ASSUME NEW S, NEW es PROVE \A n \in Nat : \E f : Stages(f, n, S, es)
<1>. DEFINE T == {n \in Nat : ~\E f : Stages(f, n, S, es)}
<1>1. SUFFICES ASSUME T # {} PROVE FALSE OBVIOUS
<1>2. PICK n \in T : \A y \in T : ~(y < n) BY <1>1, Least
<1>3. CASE n = 0
    <2>1. Stages([i \in 0..0 |-> S], 0, S, es) BY DEF Stages
    <2>. QED BY <1>2, <1>3, <2>1
<1>4. CASE n # 0
    <2>1. n - 1 \in Nat /\ n - 1 < n BY <1>2, <1>4
    <2>2. PICK f : Stages(f, n - 1, S, es) BY <1>2, <2>1
    <2>. DEFINE g == [i \in 0..n |-> IF i < n THEN f[i] ELSE ReplayStep(f[n - 1], es[n])]
    <2>3. \A i \in 0..(n - 1) : f[i] = IF i = 0 THEN S ELSE ReplayStep(f[i - 1], es[i])
        BY <2>2 DEF Stages
    <2>4. \A i \in 0..n : g[i] = IF i = 0 THEN S ELSE ReplayStep(g[i - 1], es[i])
        <3>. SUFFICES ASSUME NEW i \in 0..n
                      PROVE  g[i] = IF i = 0 THEN S ELSE ReplayStep(g[i - 1], es[i])
            OBVIOUS
        <3>1. CASE i = n BY <2>1, <3>1
        <3>2. CASE i < n /\ i # 0 BY <2>1, <2>3, <3>2
        <3>3. CASE i = 0 BY <2>1, <2>3, <3>3
        <3>. QED BY <3>1, <3>2, <3>3, <2>1
    <2>5. Stages(g, n, S, es)
        <3>1. g = [i \in 0..n |-> g[i]] OBVIOUS
        <3>. HIDE DEF g
        <3>. QED BY <3>1, <2>4 DEF Stages
    <2>. QED BY <1>2, <2>5
<1>. QED BY <1>3, <1>4

(* What a replay computes is its last stage.                               *)
LEMMA LastStage ==
    ASSUME NEW S, NEW es, Len(es) \in Nat
    PROVE  \E f : Stages(f, Len(es), S, es) /\ ReplayFrom(S, es) = f[Len(es)]
<1>. DEFINE f == CHOOSE k : Stages(k, Len(es), S, es)
<1>1. ReplayFrom(S, es) = f[Len(es)] BY DEF ReplayFrom, Stages
<1>2. Stages(f, Len(es), S, es) BY StagesExist
<1>. QED BY <1>1, <1>2

\* The events lead from each stage to the next.
Follows(f, n, events) == \A i \in 1..n : f[i] = ReplayStep(f[i - 1], events[i])

(* Replays over the same events from the same states have the same stages. *)
LEMMA SameStages ==
    ASSUME NEW es, NEW n \in Nat, NEW f, NEW g,
           Follows(f, n, es), Follows(g, n, es), f[0] = g[0]
    PROVE  \A i \in 0..n : f[i] = g[i]
<1>. DEFINE T == {i \in 0..n : f[i] # g[i]}
<1>1. SUFFICES ASSUME T # {} PROVE FALSE OBVIOUS
<1>2. PICK i \in T : \A y \in T : ~(y < i)
    <2>1. T \in SUBSET Nat OBVIOUS
    <2>. HIDE DEF T
    <2>. QED BY <1>1, <2>1, Least
<1>3. CASE i = 0 BY <1>2, <1>3
<1>4. CASE i # 0
    <2>1. i - 1 \in 0..n /\ i - 1 < i /\ i \in 1..n BY <1>2, <1>4
    <2>2. f[i - 1] = g[i - 1] BY <1>2, <2>1
    <2>3. f[i] = ReplayStep(f[i - 1], es[i]) /\ g[i] = ReplayStep(g[i - 1], es[i])
        BY <2>1 DEF Follows
    <2>. QED BY <1>2, <2>2, <2>3
<1>. QED BY <1>3, <1>4

(* The stages of a replay start at its states and follow its events.       *)
LEMMA StagesFollow ==
    ASSUME NEW f, NEW n \in Nat, NEW S, NEW es, Stages(f, n, S, es)
    PROVE  Follows(f, n, es) /\ f[0] = S
<1>1. \A i \in 0..n : f[i] = IF i = 0 THEN S ELSE ReplayStep(f[i - 1], es[i])
    BY DEF Stages
<1>2. f[0] = S
    <2>1. 0 \in 0..n OBVIOUS
    <2>. QED BY <1>1, <2>1
<1>3. ASSUME NEW i \in 1..n PROVE f[i] = ReplayStep(f[i - 1], es[i])
    <2>1. i \in 0..n /\ i # 0 OBVIOUS
    <2>. QED BY <1>1, <2>1
<1>. QED BY <1>2, <1>3 DEF Follows

(* The replay of a longer stream continues that of the shorter one.        *)
LEMMA ReplayConcat ==
    ASSUME NEW E, NEW es \in Seq(E), NEW fs \in Seq(E), NEW S
    PROVE  ReplayFrom(S, es \o fs) = ReplayFrom(ReplayFrom(S, es), fs)
<1>. DEFINE n == Len(es)
            m == Len(fs)
            all == es \o fs
<1>1. /\ n \in Nat /\ m \in Nat /\ Len(all) = n + m
      /\ \A i \in 1..n : es[i] = all[i]
      /\ \A i \in 1..m : fs[i] = all[n + i]
    OBVIOUS
<1>2. PICK f : Stages(f, n, S, es) /\ ReplayFrom(S, es) = f[n] BY <1>1, LastStage
<1>3. PICK g : Stages(g, m, f[n], fs) /\ ReplayFrom(f[n], fs) = g[m] BY <1>1, LastStage
<1>. HIDE DEF n, m, all
<1>4. PICK h : Stages(h, n + m, S, all) /\ ReplayFrom(S, all) = h[n + m]
    <2>1. Len(all) \in Nat BY <1>1
    <2>2. \E h : Stages(h, Len(all), S, all) /\ ReplayFrom(S, all) = h[Len(all)]
        BY <2>1, LastStage
    <2>. QED BY <1>1, <2>2
<1>5. \A i \in 0..(n + m) : h[i] = IF i = 0 THEN S ELSE ReplayStep(h[i - 1], all[i])
    BY <1>4 DEF Stages
<1>6. f[n] = h[n]
    <2>1. Follows(f, n, es) /\ f[0] = S BY <1>1, <1>2, StagesFollow
    <2>2. Follows(h, n, es) /\ h[0] = S
        <3>1. ASSUME NEW i \in 1..n PROVE h[i] = ReplayStep(h[i - 1], es[i])
            <4>1. i \in 0..(n + m) /\ i # 0 /\ es[i] = all[i] BY <1>1
            <4>. QED BY <1>5, <4>1
        <3>2. h[0] = S BY <1>1, <1>5
        <3>. QED BY <3>1, <3>2 DEF Follows
    <2>3. f[0] = h[0] BY <2>1, <2>2
    <2>4. \A i \in 0..n : f[i] = h[i] BY <1>1, <2>1, <2>2, <2>3, SameStages
    <2>5. n \in 0..n BY <1>1
    <2>. QED BY <2>4, <2>5
<1>7. g[m] = h[n + m]
    <2>. DEFINE k == [i \in 0..m |-> h[n + i]]
    <2>1. Follows(g, m, fs) /\ g[0] = f[n] BY <1>1, <1>3, StagesFollow
    <2>2. Follows(k, m, fs)
        <3>1. ASSUME NEW i \in 1..m PROVE k[i] = ReplayStep(k[i - 1], fs[i])
            <4>1. /\ n + i \in 0..(n + m) /\ n + i # 0 /\ fs[i] = all[n + i]
                  /\ (n + i) - 1 = n + (i - 1) /\ i \in 0..m /\ i - 1 \in 0..m
                BY <1>1
            <4>2. h[n + i] = ReplayStep(h[n + (i - 1)], fs[i]) BY <1>5, <4>1
            <4>. QED BY <4>1, <4>2
        <3>. QED BY <3>1 DEF Follows
    <2>3. k[0] = f[n] /\ k[m] = h[n + m] BY <1>1, <1>6
    <2>. HIDE DEF k
    <2>4. g[0] = k[0] BY <2>1, <2>3
    <2>5. \A i \in 0..m : g[i] = k[i] BY <1>1, <2>1, <2>2, <2>4, SameStages
    <2>6. m \in 0..m BY <1>1
    <2>. QED BY <2>3, <2>5, <2>6
<1>. QED BY <1>2, <1>3, <1>4, <1>7 DEF all

(* Streams of at most one event.                                           *)
LEMMA ReplayShort ==
    ASSUME NEW S
    PROVE  /\ ReplayFrom(S, <<>>) = S
           /\ \A e : ReplayFrom(S, <<e>>) = ReplayStep(S, e)
<1>1. ReplayFrom(S, <<>>) = S
    <2>1. Len(<<>>) = 0 OBVIOUS
    <2>2. PICK f : Stages(f, 0, S, <<>>) /\ ReplayFrom(S, <<>>) = f[0] BY <2>1, LastStage
    <2>. QED BY <2>2 DEF Stages
<1>2. ASSUME NEW e PROVE ReplayFrom(S, <<e>>) = ReplayStep(S, e)
    <2>1. Len(<<e>>) = 1 OBVIOUS
    <2>2. PICK f : Stages(f, 1, S, <<e>>) /\ ReplayFrom(S, <<e>>) = f[1] BY <2>1, LastStage
    <2>3. \A i \in 0..1 : f[i] = IF i = 0 THEN S ELSE ReplayStep(f[i - 1], <<e>>[i])
        BY <2>2 DEF Stages
    <2>4. f[0] = S /\ f[1] = ReplayStep(f[0], e) BY <2>3
    <2>. QED BY <2>2, <2>4
<1>. QED BY <1>1, <1>2

-----------------------------------------------------------------------------
(* What each event needs and does. *)

(* A state is kept only if the event is legal in it.                       *)
LEMMA OneEvent ==
    ASSUME NEW s, NEW e
    PROVE  /\ Legal(s, e) => ReplayStep({s}, e) = {Apply(s, e)}
           /\ ~Legal(s, e) => ReplayStep({s}, e) = {}
           /\ ReplayStep({}, e) = {}
BY DEF ReplayStep

(* Streams of one, two and three events.                                   *)
LEMMA ReplayOne == ASSUME NEW s, NEW e, Legal(s, e) PROVE ReplayFrom({s}, <<e>>) = {Apply(s, e)}
<1>1. ReplayFrom({s}, <<e>>) = ReplayStep({s}, e) BY ReplayShort
<1>. QED BY <1>1, OneEvent

(* The replay of two events.                                               *)
LEMMA ReplayTwo ==
    ASSUME NEW S, NEW a, NEW b
    PROVE  ReplayFrom(S, <<a, b>>) = ReplayStep(ReplayStep(S, a), b)
<1>. DEFINE E == {a, b}
            p == <<a>> \o <<b>>
            q == <<a, b>>
<1>1. <<a>> \in Seq(E) /\ <<b>> \in Seq(E) OBVIOUS
<1>2. p \in Seq(E) /\ Len(p) = 2 /\ p[1] = a /\ p[2] = b OBVIOUS
<1>3. q \in Seq(E) /\ Len(q) = 2 /\ q[1] = a /\ q[2] = b OBVIOUS
<1>. HIDE DEF E, p, q
<1>4. \A i \in 1..Len(p) : p[i] = q[i] BY <1>2, <1>3
<1>5. p = q BY <1>2, <1>3, <1>4, SeqEqual
<1>6. ReplayFrom(S, p) = ReplayFrom(ReplayFrom(S, <<a>>), <<b>>) BY <1>1, ReplayConcat DEF p
<1>7. ReplayFrom(S, <<a>>) = ReplayStep(S, a) BY ReplayShort
<1>8. ReplayFrom(ReplayStep(S, a), <<b>>) = ReplayStep(ReplayStep(S, a), b) BY ReplayShort
<1>. QED BY <1>5, <1>6, <1>7, <1>8 DEF q

(* The replay of three events.                                             *)
LEMMA ReplayThree ==
    ASSUME NEW S, NEW a, NEW b, NEW c
    PROVE  ReplayFrom(S, <<a, b, c>>) = ReplayStep(ReplayStep(ReplayStep(S, a), b), c)
<1>. DEFINE E == {a, b, c}
            p == <<a, b>> \o <<c>>
            q == <<a, b, c>>
<1>1. <<a, b>> \in Seq(E) /\ <<c>> \in Seq(E) OBVIOUS
<1>2. p \in Seq(E) /\ Len(p) = 3 /\ p[1] = a /\ p[2] = b /\ p[3] = c OBVIOUS
<1>3. q \in Seq(E) /\ Len(q) = 3 /\ q[1] = a /\ q[2] = b /\ q[3] = c OBVIOUS
<1>. HIDE DEF E, p, q
<1>4. \A i \in 1..Len(p) : p[i] = q[i] BY <1>2, <1>3
<1>5. p = q BY <1>2, <1>3, <1>4, SeqEqual
<1>. DEFINE U == ReplayStep(ReplayStep(S, a), b)
<1>6. ReplayFrom(S, p) = ReplayFrom(ReplayFrom(S, <<a, b>>), <<c>>) BY <1>1, ReplayConcat DEF p
<1>7. ReplayFrom(S, <<a, b>>) = U BY ReplayTwo
<1>8. ReplayFrom(U, <<c>>) = ReplayStep(U, c) BY ReplayShort
<1>. QED BY <1>5, <1>6, <1>7, <1>8 DEF q

(* run.started, model.request_started, model.response_completed and        *)
(* model.request_ambiguous.                                                *)
LEMMA ProgressEvents ==
    ASSUME NEW s, ReplayInv(s), NEW id, NEW u
    PROVE  /\ Legal(s, Started) <=> s.status = "pending" /\ s.pending = None /\ s.created
           /\ Legal(s, RequestStarted(id, u)) <=>
                 /\ s.status = "running" /\ s.pending = None /\ s.created
                 /\ s.request = "not_started" /\ s.artifacts = {"task_spec"} /\ u.calls = 1
           /\ Legal(s, ResponseCompleted(id, u)) <=>
                 /\ s.status = "running" /\ s.pending = None /\ s.created
                 /\ s.request = "started" /\ id = s.id /\ u.calls = 1
                 /\ UsageAtMost(u, s.maximum)
           /\ Legal(s, RequestAmbiguous(id)) <=>
                 /\ s.status = "running" /\ s.pending = None /\ s.created
                 /\ s.request = "started" /\ id = s.id
<1>1. /\ s.created \in BOOLEAN
      /\ \A st \in {"pending", "running"} : ~IsTerminal(st)
    BY DEF ReplayInv, ReplayState, IsTerminal, TerminalStatuses, EvaluationStatuses
<1>2. Legal(s, Started) <=> s.status = "pending" /\ s.pending = None /\ s.created
    BY <1>1 DEF Legal, Started
<1>3. Legal(s, RequestStarted(id, u)) <=>
            /\ s.status = "running" /\ s.pending = None /\ s.created
            /\ s.request = "not_started" /\ s.artifacts = {"task_spec"} /\ u.calls = 1
    BY <1>1 DEF Legal, RequestStarted
<1>4. Legal(s, ResponseCompleted(id, u)) <=>
            /\ s.status = "running" /\ s.pending = None /\ s.created
            /\ s.request = "started" /\ id = s.id /\ u.calls = 1
            /\ UsageAtMost(u, s.maximum)
    BY <1>1 DEF Legal, ResponseCompleted
<1>5. Legal(s, RequestAmbiguous(id)) <=>
            /\ s.status = "running" /\ s.pending = None /\ s.created
            /\ s.request = "started" /\ id = s.id
    BY <1>1 DEF Legal, RequestAmbiguous
<1>. QED BY <1>2, <1>3, <1>4, <1>5

(* budget.snapshot.                                                        *)
LEMMA SnapshotEvent ==
    ASSUME NEW s, ReplayInv(s), NEW u, NEW v
    PROVE  Legal(s, Snapshot(u, v)) <=>
                 /\ ~IsTerminal(s.status) /\ s.created
                 /\ UsageAtMost(s.used, u)
                 /\ s.pending = "reconcile" => UsageAtMost(s.maximum, s.reserved)
                 /\ u = SnapshotExpected(s).used /\ v = SnapshotExpected(s).reserved
<1>1. s.created \in BOOLEAN BY DEF ReplayInv, ReplayState
<1>. QED BY <1>1 DEF Legal, Snapshot, SnapshotLegal

(* The artifact events, evaluation.completed and run.terminal.             *)
LEMMA EvidenceEvent ==
    ASSUME NEW s, ReplayInv(s), NEW name, NEW o, NEW st, NEW re
    PROVE  /\ Legal(s, Recorded(name)) <=>
                 /\ s.status = "running" /\ s.pending = None /\ s.created
                 /\ Unaccounted(s, name) /\ InPosition(s, name)
           /\ Legal(s, NotProduced(name)) <=>
                 /\ ~IsTerminal(s.status) /\ s.pending = None /\ s.created
                 /\ name \in ExpectedNames /\ Unaccounted(s, name)
           /\ Legal(s, EvaluationCompleted(o)) <=>
                 /\ s.status = "running" /\ s.pending = None /\ s.created
                 /\ s.request = "completed" /\ s.outcome = None
                 /\ EvaluationNames \cup {"patch"} \subseteq s.artifacts
           /\ Legal(s, TerminalEvent(st, o, re)) <=>
                 /\ ~IsTerminal(s.status) /\ s.pending = None /\ s.created
                 /\ TerminalLegal(s, TerminalEvent(st, o, re))
<1>1. s.created \in BOOLEAN /\ ~IsTerminal("running")
    BY DEF ReplayInv, ReplayState, IsTerminal, TerminalStatuses, EvaluationStatuses
<1>2. Legal(s, Recorded(name)) <=>
            /\ s.status = "running" /\ s.pending = None /\ s.created
            /\ Unaccounted(s, name) /\ InPosition(s, name)
    BY <1>1 DEF Legal, Recorded
<1>3. Legal(s, NotProduced(name)) <=>
            /\ ~IsTerminal(s.status) /\ s.pending = None /\ s.created
            /\ name \in ExpectedNames /\ Unaccounted(s, name)
    BY <1>1 DEF Legal, NotProduced, NotProducedLegal
<1>4. Legal(s, EvaluationCompleted(o)) <=>
            /\ s.status = "running" /\ s.pending = None /\ s.created
            /\ s.request = "completed" /\ s.outcome = None
            /\ EvaluationNames \cup {"patch"} \subseteq s.artifacts
    BY <1>1 DEF Legal, EvaluationCompleted
<1>5. Legal(s, TerminalEvent(st, o, re)) <=>
            /\ ~IsTerminal(s.status) /\ s.pending = None /\ s.created
            /\ TerminalLegal(s, TerminalEvent(st, o, re))
    BY <1>1 DEF Legal, TerminalEvent
<1>. QED BY <1>2, <1>3, <1>4, <1>5

-----------------------------------------------------------------------------
(* The phases of a run. *)

StoreEvents ==
    {Created(limits) : limits \in Caps} \cup {Started}
    \cup {RequestStarted(id, u) : id \in RequestIds, u \in Usages}
    \cup {ResponseCompleted(id, u) : id \in RequestIds, u \in Usages}
    \cup {RequestAmbiguous(id) : id \in RequestIds}
    \cup {Snapshot(u, v) : u \in BudgetUsage, v \in BudgetUsage}
    \cup {Recorded(n) : n \in ArtifactNames} \cup {NotProduced(n) : n \in ArtifactNames}
    \cup {EvaluationCompleted(o) : o \in Outcomes}
    \cup {TerminalEvent(st, o, re) :
            st \in TerminalStatuses, o \in Outcomes \cup {None}, re \in Reasons}

\* What a stream replays to between two transactions.
Between(s) ==
    /\ ReplayInv(s) /\ s.created /\ s.pending = None
    /\ ~IsTerminal(s.status) =>
         /\ s.absent = {} /\ s.outcome = None /\ s.reason = None
         /\ s.status = "pending" => s.request = "not_started" /\ s.artifacts = {}
         /\ s.request = "not_started" => s.artifacts \subseteq {"task_spec"}
         /\ s.request = "started" => s.artifacts = {"task_spec"} /\ s.id \in RequestIds
         /\ s.request = "completed" => s.artifacts = {"task_spec", "patch"}
         /\ s.request # "ambiguous"

\* What an event leaves alone.
SameBudget(s, t) ==
    /\ t.used = s.used /\ t.reserved = s.reserved /\ t.maximum = s.maximum
    /\ t.reported = s.reported /\ t.request = s.request
SameEvidence(s, t) == t.artifacts = s.artifacts /\ t.absent = s.absent
SameRest(s, t) == t.returned = s.returned /\ t.reason = s.reason

(* Usage vectors are closed under addition, which never lowers them.       *)
LEMMA UsageFacts ==
    \A u, v \in BudgetUsage :
        AddUsage(u, v) \in BudgetUsage /\ UsageAtMost(u, AddUsage(u, v)) /\ UsageAtMost(u, u)
BY DEF BudgetUsage, AddUsage, UsageAtMost

(* An active run is pending or running.                                    *)
LEMMA ActiveStatus ==
    /\ \A s : ReplayInv(s) => (~IsTerminal(s.status) <=> s.status \in {"pending", "running"})
    /\ ~IsTerminal("pending") /\ ~IsTerminal("running")
BY DEF ReplayInv, ReplayState, Statuses, IsTerminal, TerminalStatuses, EvaluationStatuses

(* start_run.                                                              *)
LEMMA StartPhase ==
    ASSUME NEW s, Between(s), s.status = "pending"
    PROVE  \E t : /\ ReplayFrom({s}, <<Started>>) = {t} /\ Between(t)
                  /\ t.status = "running" /\ SameBudget(s, t)
                  /\ SameEvidence(s, t) /\ SameRest(s, t)
<1>. DEFINE t == [s EXCEPT !.status = "running"]
<1>1. s \in ReplayState /\ ReplayInv(s) BY DEF Between, ReplayInv
<1>2. Legal(s, Started) BY <1>1, ProgressEvents DEF Between
<1>3. Apply(s, Started) = t BY DEF Apply, Started
<1>4. ReplayFrom({s}, <<Started>>) = {t} BY <1>2, <1>3, ReplayOne
<1>5. ReplayInv(t) BY <1>1, <1>2, <1>3, LifecycleInv
<1>6. /\ t.status = "running" /\ SameBudget(s, t) /\ SameEvidence(s, t) /\ SameRest(s, t)
      /\ t.created = s.created /\ t.pending = s.pending /\ t.outcome = s.outcome /\ t.id = s.id
    BY <1>1 DEF ReplayState, SameBudget, SameEvidence, SameRest
<1>. HIDE DEF t
<1>7. Between(t)
    BY <1>5, <1>6, ActiveStatus DEF Between, SameBudget, SameEvidence, SameRest
<1>. QED BY <1>4, <1>6, <1>7

(* record_artifact.                                                        *)
LEMMA TaskSpecPhase ==
    ASSUME NEW s, Between(s), s.status = "running", s.request = "not_started",
           "task_spec" \notin s.artifacts
    PROVE  \E t : /\ ReplayFrom({s}, <<Recorded("task_spec")>>) = {t} /\ Between(t)
                  /\ t.status = "running" /\ t.artifacts = {"task_spec"} /\ t.absent = s.absent
                  /\ SameBudget(s, t) /\ SameRest(s, t)
<1>. DEFINE e == Recorded("task_spec")
            t == [s EXCEPT !.artifacts = @ \cup {"task_spec"}]
<1>1. s \in ReplayState /\ ReplayInv(s) BY DEF Between, ReplayInv
<1>2. s.artifacts = {} /\ s.absent = {} BY <1>1, ActiveStatus DEF Between
<1>3. Unaccounted(s, "task_spec") /\ InPosition(s, "task_spec")
    BY <1>2 DEF Unaccounted, InPosition
<1>4. Legal(s, e) BY <1>1, <1>3, EvidenceEvent DEF Between
<1>5. Apply(s, e) = t BY DEF Apply, Recorded
<1>6. ReplayFrom({s}, <<e>>) = {t} BY <1>4, <1>5, ReplayOne
<1>7. ReplayInv(t)
    <2>1. "task_spec" \in ArtifactNames BY DEF ArtifactNames, ExpectedNames
    <2>. QED BY <1>1, <1>4, <1>5, <2>1, RecordedInv
<1>8. /\ t.status = "running" /\ t.artifacts = {"task_spec"} /\ t.absent = s.absent
      /\ SameBudget(s, t) /\ SameRest(s, t)
      /\ t.created = s.created /\ t.pending = s.pending /\ t.outcome = s.outcome /\ t.id = s.id
    BY <1>1, <1>2 DEF ReplayState, SameBudget, SameRest
<1>. HIDE DEF t, e
<1>9. Between(t)
    BY <1>7, <1>8, ActiveStatus DEF Between, SameBudget, SameRest
<1>. QED BY <1>6, <1>8, <1>9 DEF e

(* Replay state t follows s by the request_started and its snapshot.       *)
Requested(s, t, u) ==
    /\ t.status = "running" /\ t.request = "started" /\ t.maximum = u
    /\ t.reported = s.reported
    /\ t.used = s.used /\ t.reserved = AddUsage(s.reserved, u)
    /\ SameEvidence(s, t) /\ SameRest(s, t)

(* start_model_request: the replay refuses a second request and a request  *)
(* without its task_spec.                                                  *)
LEMMA RequestPhase ==
    ASSUME NEW s, Between(s), NEW id \in RequestIds, NEW u \in BudgetUsage, u.calls = 1,
           s.status = "running"
    PROVE  LET es == <<RequestStarted(id, u), Snapshot(s.used, AddUsage(s.reserved, u))>> IN
           /\ ReplayFrom({s}, es) # {} => s.request = "not_started" /\ s.artifacts = {"task_spec"}
           /\ s.request = "not_started" /\ s.artifacts = {"task_spec"} =>
                \E t : ReplayFrom({s}, es) = {t} /\ Between(t) /\ Requested(s, t, u)
<1>. DEFINE a == RequestStarted(id, u)
            v == AddUsage(s.reserved, u)
            b == Snapshot(s.used, v)
            p == Apply(s, a)
            t == Apply(p, b)
<1>1. s \in ReplayState /\ ReplayInv(s) /\ s.created /\ s.pending = None
    BY DEF Between, ReplayInv
<1>2. ReplayFrom({s}, <<a, b>>) = ReplayStep(ReplayStep({s}, a), b) BY ReplayTwo
<1>3. ReplayFrom({s}, <<a, b>>) # {} => s.request = "not_started" /\ s.artifacts = {"task_spec"}
    <2>1. ~Legal(s, a) => ReplayFrom({s}, <<a, b>>) = {} BY <1>2, OneEvent
    <2>2. Legal(s, a) => s.request = "not_started" /\ s.artifacts = {"task_spec"}
        BY <1>1, ProgressEvents
    <2>. QED BY <2>1, <2>2
<1>4. ASSUME s.request = "not_started", s.artifacts = {"task_spec"}
      PROVE  \E k : /\ ReplayFrom({s}, <<a, b>>) = {k} /\ Between(k)
                    /\ Requested(s, k, u)
    <2>0. Legal(s, a) BY <1>1, <1>4, ProgressEvents
    <2>1. p = [s EXCEPT !.id = id, !.maximum = u, !.request = "started",
                        !.pending = "reserve", !.amount = u]
        BY DEF Apply, RequestStarted
    <2>2. ReplayInv(p) BY <1>1, <2>0, RequestStartedInv
    <2>3. /\ p.status = "running" /\ p.request = "started" /\ p.maximum = u
          /\ p.reported = s.reported /\ p.id = id
          /\ p.pending = "reserve" /\ p.amount = u /\ p.used = s.used /\ p.reserved = s.reserved
          /\ SameEvidence(s, p) /\ SameRest(s, p) /\ p.created /\ p.outcome = s.outcome
        BY <1>1, <2>1 DEF ReplayState, SameEvidence, SameRest
    <2>4. s.used \in BudgetUsage /\ v \in BudgetUsage BY <1>1, UsageFacts DEF ReplayState
    <2>. HIDE DEF p
    <2>5. Legal(p, b) /\ t = [p EXCEPT !.used = s.used, !.reserved = v, !.pending = None,
                                       !.amount = NoUsage]
        <3>1. SnapshotExpected(p) = [used |-> s.used, reserved |-> v]
            BY <2>3 DEF SnapshotExpected, None
        <3>2. UsageAtMost(p.used, s.used) BY <2>3, <2>4, UsageFacts
        <3>3. ~IsTerminal(p.status) /\ p.pending # "reconcile" BY <2>3, ActiveStatus
        <3>4. Legal(p, b) BY <2>2, <2>3, <3>1, <3>2, <3>3, SnapshotEvent
        <3>5. t = [p EXCEPT !.used = s.used, !.reserved = v, !.pending = None,
                            !.amount = NoUsage]
            BY DEF Apply, Snapshot
        <3>. QED BY <3>4, <3>5
    <2>6. ReplayInv(t) BY <2>2, <2>4, <2>5, SnapshotInv
    <2>7. p \in ReplayState BY <2>2 DEF ReplayInv
    <2>8. /\ t.status = "running" /\ t.request = "started" /\ t.maximum = u
          /\ t.reported = s.reported /\ t.id = id
          /\ t.used = s.used /\ t.reserved = v /\ t.pending = None
          /\ SameEvidence(s, t) /\ SameRest(s, t) /\ t.created /\ t.outcome = s.outcome
        BY <2>3, <2>5, <2>7 DEF ReplayState, SameEvidence, SameRest
    <2>9. ReplayFrom({s}, <<a, b>>) = {t} BY <1>2, <2>0, <2>5, OneEvent DEF p
    <2>. HIDE DEF t
    <2>10. Between(t)
        BY <1>4, <2>6, <2>8, ActiveStatus DEF Between, SameEvidence, SameRest
    <2>11. Requested(s, t, u) BY <2>8 DEF Requested
    <2>. QED BY <2>9, <2>10, <2>11
<1>. QED BY <1>3, <1>4

(* A snapshot that says what is expected settles the budget.               *)
LEMMA SnapshotSettles ==
    ASSUME NEW p, ReplayInv(p), p.created, ~IsTerminal(p.status),
           NEW u \in BudgetUsage, NEW v \in BudgetUsage,
           UsageAtMost(p.used, u), p.pending = "reconcile" => UsageAtMost(p.maximum, p.reserved),
           SnapshotExpected(p) = [used |-> u, reserved |-> v]
    PROVE  /\ Legal(p, Snapshot(u, v))
           /\ \E t : /\ t = Apply(p, Snapshot(u, v)) /\ ReplayInv(t)
                     /\ t.used = u /\ t.reserved = v /\ t.pending = None
                     /\ t.status = p.status /\ t.request = p.request /\ t.maximum = p.maximum
                     /\ t.reported = p.reported
                     /\ t.id = p.id /\ t.outcome = p.outcome /\ t.created
                     /\ SameEvidence(p, t) /\ SameRest(p, t)
<1>. DEFINE t == [p EXCEPT !.used = u, !.reserved = v, !.pending = None, !.amount = NoUsage]
<1>1. Legal(p, Snapshot(u, v)) BY SnapshotEvent
<1>2. Apply(p, Snapshot(u, v)) = t BY DEF Apply, Snapshot
<1>3. ReplayInv(t) BY <1>1, <1>2, SnapshotInv
<1>4. p \in ReplayState BY DEF ReplayInv
<1>5. /\ t.used = u /\ t.reserved = v /\ t.pending = None
      /\ t.status = p.status /\ t.request = p.request /\ t.maximum = p.maximum
      /\ t.reported = p.reported
      /\ t.id = p.id /\ t.outcome = p.outcome /\ t.created
      /\ SameEvidence(p, t) /\ SameRest(p, t)
    BY <1>4 DEF ReplayState, SameEvidence, SameRest
<1>. HIDE DEF t
<1>. QED BY <1>1, <1>2, <1>3, <1>5

(* complete_model_response.                                                *)
LEMMA ResponsePhase ==
    ASSUME NEW s, Between(s), NEW u \in BudgetUsage, u.calls = 1, s.status = "running",
           s.request = "started", UsageAtMost(u, s.maximum), UsageAtMost(s.maximum, s.reserved)
    PROVE  LET used == AddUsage(s.used, u)
               reserved == SubtractUsage(s.reserved, s.maximum)
               es == <<ResponseCompleted(s.id, u), Snapshot(used, reserved), Recorded("patch")>>
           IN  \E t : /\ ReplayFrom({s}, es) = {t} /\ Between(t)
                      /\ t.status = "running" /\ t.request = "completed" /\ t.maximum = s.maximum
                      /\ t.reported = u
                      /\ t.used = used /\ t.reserved = reserved /\ reserved = NoUsage
                      /\ t.artifacts = s.artifacts \cup {"patch"} /\ t.absent = s.absent
                      /\ t.returned /\ t.reason = s.reason
<1>. DEFINE used == AddUsage(s.used, u)
            reserved == SubtractUsage(s.reserved, s.maximum)
            a == ResponseCompleted(s.id, u)
            b == Snapshot(used, reserved)
            c == Recorded("patch")
            p == Apply(s, a)
<1>1. /\ s \in ReplayState /\ ReplayInv(s) /\ s.created /\ s.pending = None
      /\ s.artifacts = {"task_spec"} /\ s.absent = {} /\ s.outcome = None /\ s.reason = None
      /\ s.id \in RequestIds
    BY ActiveStatus DEF Between, ReplayInv
<1>2. Legal(s, a) BY <1>1, ProgressEvents
<1>3. p = [s EXCEPT !.returned = TRUE, !.request = "completed", !.reported = u,
                    !.pending = "reconcile",
                    !.amount = u]
    BY DEF Apply, ResponseCompleted
<1>4. ReplayInv(p) BY <1>1, <1>2, ResponseCompletedInv
<1>5. /\ p.status = "running" /\ p.request = "completed" /\ p.maximum = s.maximum
      /\ p.reported = u /\ p.id = s.id
      /\ p.pending = "reconcile" /\ p.amount = u /\ p.used = s.used /\ p.reserved = s.reserved
      /\ SameEvidence(s, p) /\ p.returned /\ p.reason = s.reason /\ p.created
      /\ p.outcome = s.outcome
    BY <1>1, <1>3 DEF ReplayState, SameEvidence
<1>6. s.used \in BudgetUsage /\ used \in BudgetUsage /\ UsageAtMost(s.used, used)
    BY <1>1, UsageFacts DEF ReplayState
<1>7. s.reserved = s.maximum /\ s.maximum \in BudgetUsage
    BY <1>1 DEF ReplayInv, BudgetInv, ReplayState
<1>8. reserved = NoUsage /\ reserved \in BudgetUsage BY <1>7, UsageArithmetic
<1>9. SnapshotExpected(p) = [used |-> used, reserved |-> reserved]
    BY <1>5 DEF SnapshotExpected, None
<1>. HIDE DEF p, used, reserved
<1>10. ~IsTerminal(p.status) /\ UsageAtMost(p.used, used) /\ UsageAtMost(p.maximum, p.reserved)
    BY <1>5, <1>6, ActiveStatus
<1>11. Legal(p, b) BY <1>4, <1>5, <1>6, <1>8, <1>9, <1>10, SnapshotSettles
<1>12. PICK q : /\ q = Apply(p, b) /\ ReplayInv(q)
                /\ q.used = used /\ q.reserved = reserved /\ q.pending = None
                /\ q.status = p.status /\ q.request = p.request /\ q.maximum = p.maximum
                /\ q.reported = p.reported
                /\ q.id = p.id /\ q.outcome = p.outcome /\ q.created
                /\ SameEvidence(p, q) /\ SameRest(p, q)
    BY <1>4, <1>5, <1>6, <1>8, <1>9, <1>10, SnapshotSettles
<1>. DEFINE t == [q EXCEPT !.artifacts = @ \cup {"patch"}]
<1>13. q.artifacts = {"task_spec"} /\ q.absent = {} /\ q.request = "completed"
    BY <1>1, <1>5, <1>12 DEF SameEvidence
<1>14. Unaccounted(q, "patch") /\ InPosition(q, "patch")
    BY <1>13 DEF Unaccounted, InPosition
<1>15. Legal(q, c) BY <1>5, <1>12, <1>14, EvidenceEvent
<1>16. Apply(q, c) = t BY DEF Apply, Recorded
<1>17. ReplayInv(t)
    <2>1. "patch" \in ArtifactNames BY DEF ArtifactNames, ExpectedNames
    <2>2. ReplayInv(q) BY <1>12
    <2>3. ReplayInv(Apply(q, Recorded("patch"))) BY <1>15, <2>1, <2>2, RecordedInv
    <2>. QED BY <1>16, <2>3
<1>18. q \in ReplayState BY <1>12 DEF ReplayInv
<1>19. /\ t.status = "running" /\ t.request = "completed" /\ t.maximum = s.maximum /\ t.reported = u
       /\ t.used = used /\ t.reserved = reserved /\ t.artifacts = s.artifacts \cup {"patch"}
       /\ t.absent = s.absent /\ t.returned /\ t.reason = s.reason
       /\ t.created /\ t.pending = None /\ t.outcome = s.outcome
    BY <1>1, <1>5, <1>12, <1>13, <1>18 DEF ReplayState, SameEvidence, SameRest
<1>20. ReplayFrom({s}, <<a, b, c>>) = {t}
    <2>1. ReplayStep({s}, a) = {p} BY <1>2, OneEvent DEF p
    <2>2. ReplayStep({p}, b) = {q} BY <1>11, <1>12, OneEvent
    <2>3. ReplayStep({q}, c) = {Apply(q, c)} BY <1>15, OneEvent
    <2>4. ReplayFrom({s}, <<a, b, c>>) = ReplayStep(ReplayStep(ReplayStep({s}, a), b), c)
        BY ReplayThree
    <2>. QED BY <1>16, <2>1, <2>2, <2>3, <2>4
<1>. HIDE DEF t
<1>21. Between(t) BY <1>1, <1>17, <1>19, ActiveStatus DEF Between
<1>. QED BY <1>8, <1>19, <1>20, <1>21 DEF used, reserved

\* Everything but the evidence.
SameOthers(s, t) ==
    /\ SameBudget(s, t) /\ SameRest(s, t)
    /\ t.status = s.status /\ t.id = s.id /\ t.outcome = s.outcome
    /\ t.created = s.created /\ t.pending = s.pending

(* Events that are appended are replayed from the state reached so far.    *)
LEMMA Continue ==
    ASSUME NEW es \in Seq(StoreEvents), NEW fs \in Seq(StoreEvents), NEW S
    PROVE  /\ es \o fs \in Seq(StoreEvents)
           /\ ReplayFrom(S, es \o fs) = ReplayFrom(ReplayFrom(S, es), fs)
<1>1. es \o fs \in Seq(StoreEvents) OBVIOUS
<1>2. ReplayFrom(S, es \o fs) = ReplayFrom(ReplayFrom(S, es), fs) BY ReplayConcat
<1>. QED BY <1>1, <1>2

(* One artifact of an evaluation, if it was produced.                      *)
LEMMA RecordOne ==
    ASSUME NEW s, ReplayInv(s), s.created, s.pending = None, s.status = "running",
           NEW names, NEW n \in ArtifactNames,
           n \in names => Unaccounted(s, n) /\ InPosition(s, n)
    PROVE  \E t : /\ ReplayFrom({s}, RecordedIn(names, n)) = {t} /\ ReplayInv(t)
                  /\ t.artifacts = s.artifacts \cup ({n} \cap names) /\ t.absent = s.absent
                  /\ SameOthers(s, t)
<1>1. CASE n \notin names
    <2>1. RecordedIn(names, n) = <<>> BY <1>1 DEF RecordedIn
    <2>2. ReplayFrom({s}, <<>>) = {s} BY ReplayShort
    <2>3. SameOthers(s, s) BY DEF SameOthers, SameBudget, SameRest
    <2>4. s.artifacts = s.artifacts \cup ({n} \cap names) BY <1>1
    <2>. QED BY <2>1, <2>2, <2>3, <2>4
<1>2. CASE n \in names
    <2>. DEFINE t == [s EXCEPT !.artifacts = @ \cup {n}]
    <2>1. RecordedIn(names, n) = <<Recorded(n)>> BY <1>2 DEF RecordedIn
    <2>2. Legal(s, Recorded(n)) BY <1>2, EvidenceEvent
    <2>3. Apply(s, Recorded(n)) = t BY DEF Apply, Recorded
    <2>4. ReplayFrom({s}, <<Recorded(n)>>) = {Apply(s, Recorded(n))} BY <2>2, ReplayOne
    <2>5. ReplayInv(t) BY <2>2, <2>3, RecordedInv
    <2>6. s \in ReplayState BY DEF ReplayInv
    <2>7. t.artifacts = s.artifacts \cup {n} /\ t.absent = s.absent /\ SameOthers(s, t)
        BY <2>6 DEF ReplayState, SameOthers, SameBudget, SameRest
    <2>8. {n} \cap names = {n} BY <1>2
    <2>. HIDE DEF t
    <2>. QED BY <2>1, <2>3, <2>4, <2>5, <2>7, <2>8
<1>. QED BY <1>1, <1>2

(* The appended events are events.                                        *)
LEMMA EvidenceType ==
    ASSUME NEW names
    PROVE  /\ \A n \in ArtifactNames : RecordedIn(names, n) \in Seq(StoreEvents)
           /\ EvidenceEvents(names) \in Seq(StoreEvents)
<1>1. ASSUME NEW n \in ArtifactNames PROVE RecordedIn(names, n) \in Seq(StoreEvents)
    <2>1. Recorded(n) \in StoreEvents BY DEF StoreEvents
    <2>2. <<>> \in Seq(StoreEvents) /\ <<Recorded(n)>> \in Seq(StoreEvents) BY <2>1
    <2>. QED BY <2>2 DEF RecordedIn
<1>2. {"evaluation_stdout", "evaluation_stderr", "evaluation_candidate_stdout",
       "evaluation_scorer_stdout", "evaluation"} \subseteq ArtifactNames
    BY DEF ArtifactNames, ExpectedNames, EvaluationNames, OptionalNames
<1>3. \A p, q \in Seq(StoreEvents) : p \o q \in Seq(StoreEvents) OBVIOUS
<1>. QED BY <1>1, <1>2, <1>3 DEF EvidenceEvents

(* The artifacts of an evaluation are legal in the preferred order.        *)
LEMMA EvidencePhase ==
    ASSUME NEW s, Between(s), s.status = "running", s.request = "completed",
           NEW names \in EvidenceSets
    PROVE  \E t : /\ ReplayFrom({s}, EvidenceEvents(names)) = {t} /\ ReplayInv(t)
                  /\ t.artifacts = s.artifacts \cup names /\ t.absent = s.absent
                  /\ SameOthers(s, t)
<1>. DEFINE n1 == "evaluation_stdout"
            n2 == "evaluation_stderr"
            n3 == "evaluation_candidate_stdout"
            n4 == "evaluation_scorer_stdout"
            n5 == "evaluation"
<1>1. /\ ReplayInv(s) /\ s.created /\ s.pending = None /\ s.absent = {}
      /\ s.artifacts = {"task_spec", "patch"}
    BY ActiveStatus DEF Between
<1>2. /\ names \subseteq {n1, n2, n3, n4, n5}
      /\ n1 \in names /\ n2 \in names /\ n5 \in names /\ (n4 \in names => n3 \in names)
    BY DEF EvidenceSets, EvaluationNames, OptionalNames
<1>3. {n1, n2, n3, n4, n5} \subseteq ArtifactNames
    BY DEF ArtifactNames, ExpectedNames, EvaluationNames, OptionalNames
<1>4. \A n \in ArtifactNames : RecordedIn(names, n) \in Seq(StoreEvents) BY EvidenceType
<1>5. PICK a : /\ ReplayFrom({s}, RecordedIn(names, n1)) = {a} /\ ReplayInv(a)
               /\ a.artifacts = {"task_spec", "patch", n1} /\ a.absent = {} /\ SameOthers(s, a)
    <2>1. Unaccounted(s, n1) /\ InPosition(s, n1)
        BY <1>1 DEF Unaccounted, InPosition
    <2>2. {n1} \cap names = {n1} BY <1>2
    <2>. QED BY <1>1, <1>3, <2>1, <2>2, RecordOne
<1>6. PICK b : /\ ReplayFrom({a}, RecordedIn(names, n2)) = {b} /\ ReplayInv(b)
               /\ b.artifacts = {"task_spec", "patch", n1, n2} /\ b.absent = {}
               /\ SameOthers(s, b)
    <2>1. Unaccounted(a, n2) /\ InPosition(a, n2)
        BY <1>5 DEF Unaccounted, InPosition, Predecessors, SameOthers, SameBudget
    <2>2. {n2} \cap names = {n2} BY <1>2
    <2>3. a.created /\ a.pending = None /\ a.status = "running"
        BY <1>1, <1>5 DEF SameOthers
    <2>4. PICK t : /\ ReplayFrom({a}, RecordedIn(names, n2)) = {t} /\ ReplayInv(t)
                   /\ t.artifacts = a.artifacts \cup ({n2} \cap names) /\ t.absent = a.absent
                   /\ SameOthers(a, t)
        <3>1. n2 \in ArtifactNames BY <1>3
        <3>2. ReplayInv(a) /\ (n2 \in names => Unaccounted(a, n2) /\ InPosition(a, n2))
            BY <1>5, <2>1
        <3>. HIDE DEF n1, n2, n3, n4, n5
        <3>. QED BY <2>3, <3>1, <3>2, RecordOne
    <2>5. SameOthers(s, t) BY <1>5, <2>4 DEF SameOthers, SameBudget, SameRest
    <2>. QED BY <1>5, <2>2, <2>4, <2>5
<1>7. PICK c : /\ ReplayFrom({b}, RecordedIn(names, n3)) = {c} /\ ReplayInv(c)
               /\ c.artifacts = {"task_spec", "patch", n1, n2} \cup ({n3} \cap names)
               /\ c.absent = {} /\ SameOthers(s, c)
    <2>1. Unaccounted(b, n3) /\ InPosition(b, n3)
        BY <1>6 DEF Unaccounted, InPosition, Predecessors, SameOthers, SameBudget
    <2>2. b.created /\ b.pending = None /\ b.status = "running"
        BY <1>1, <1>6 DEF SameOthers
    <2>3. PICK t : /\ ReplayFrom({b}, RecordedIn(names, n3)) = {t} /\ ReplayInv(t)
                   /\ t.artifacts = b.artifacts \cup ({n3} \cap names) /\ t.absent = b.absent
                   /\ SameOthers(b, t)
        <3>1. n3 \in ArtifactNames BY <1>3
        <3>2. ReplayInv(b) /\ (n3 \in names => Unaccounted(b, n3) /\ InPosition(b, n3))
            BY <1>6, <2>1
        <3>. HIDE DEF n1, n2, n3, n4, n5
        <3>. QED BY <2>2, <3>1, <3>2, RecordOne
    <2>4. SameOthers(s, t) BY <1>6, <2>3 DEF SameOthers, SameBudget, SameRest
    <2>. QED BY <1>6, <2>3, <2>4
<1>8. PICK d : /\ ReplayFrom({c}, RecordedIn(names, n4)) = {d} /\ ReplayInv(d)
               /\ d.artifacts = {"task_spec", "patch", n1, n2} \cup ({n3, n4} \cap names)
               /\ d.absent = {} /\ SameOthers(s, d)
    <2>1. n4 \in names => Unaccounted(c, n4) /\ InPosition(c, n4)
        <3>1. SUFFICES ASSUME n4 \in names PROVE Unaccounted(c, n4) /\ InPosition(c, n4)
            OBVIOUS
        <3>2. c.artifacts = {"task_spec", "patch", n1, n2, n3} BY <1>2, <1>7, <3>1
        <3>. QED BY <1>7, <3>2 DEF Unaccounted, InPosition, Predecessors, SameOthers, SameBudget
    <2>2. c.created /\ c.pending = None /\ c.status = "running"
        BY <1>1, <1>7 DEF SameOthers
    <2>3. PICK t : /\ ReplayFrom({c}, RecordedIn(names, n4)) = {t} /\ ReplayInv(t)
                   /\ t.artifacts = c.artifacts \cup ({n4} \cap names) /\ t.absent = c.absent
                   /\ SameOthers(c, t)
        <3>1. n4 \in ArtifactNames BY <1>3
        <3>2. ReplayInv(c) /\ (n4 \in names => Unaccounted(c, n4) /\ InPosition(c, n4))
            BY <1>7, <2>1
        <3>. HIDE DEF n1, n2, n3, n4, n5
        <3>. QED BY <2>2, <3>1, <3>2, RecordOne
    <2>4. SameOthers(s, t) BY <1>7, <2>3 DEF SameOthers, SameBudget, SameRest
    <2>5. t.artifacts = {"task_spec", "patch", n1, n2} \cup ({n3, n4} \cap names)
        BY <1>7, <2>3
    <2>. QED BY <1>7, <2>3, <2>4, <2>5
<1>9. PICK t : /\ ReplayFrom({d}, RecordedIn(names, n5)) = {t} /\ ReplayInv(t)
               /\ t.artifacts = d.artifacts \cup ({n5} \cap names) /\ t.absent = {}
               /\ SameOthers(s, t)
    <2>1. Unaccounted(d, n5) /\ InPosition(d, n5)
        BY <1>8 DEF Unaccounted, InPosition, Predecessors, SameOthers, SameBudget, OptionalNames
    <2>2. d.created /\ d.pending = None /\ d.status = "running"
        BY <1>1, <1>8 DEF SameOthers
    <2>3. PICK t : /\ ReplayFrom({d}, RecordedIn(names, n5)) = {t} /\ ReplayInv(t)
                   /\ t.artifacts = d.artifacts \cup ({n5} \cap names) /\ t.absent = d.absent
                   /\ SameOthers(d, t)
        <3>1. n5 \in ArtifactNames BY <1>3
        <3>2. ReplayInv(d) /\ (n5 \in names => Unaccounted(d, n5) /\ InPosition(d, n5))
            BY <1>8, <2>1
        <3>. HIDE DEF n1, n2, n3, n4, n5
        <3>. QED BY <2>2, <3>1, <3>2, RecordOne
    <2>4. SameOthers(s, t) BY <1>8, <2>3 DEF SameOthers, SameBudget, SameRest
    <2>. QED BY <1>8, <2>3, <2>4
<1>10. t.artifacts = s.artifacts \cup names BY <1>1, <1>2, <1>8, <1>9
<1>11. ReplayFrom({s}, EvidenceEvents(names)) = {t}
    <2>. DEFINE r1 == RecordedIn(names, n1)
                r2 == RecordedIn(names, n2)
                r3 == RecordedIn(names, n3)
                r4 == RecordedIn(names, n4)
                r5 == RecordedIn(names, n5)
    <2>1. /\ r1 \in Seq(StoreEvents) /\ r2 \in Seq(StoreEvents) /\ r3 \in Seq(StoreEvents)
          /\ r4 \in Seq(StoreEvents) /\ r5 \in Seq(StoreEvents)
        BY <1>3, <1>4
    <2>2. EvidenceEvents(names) = (((r1 \o r2) \o r3) \o r4) \o r5 BY DEF EvidenceEvents
    <2>. HIDE DEF r1, r2, r3, r4, r5
    <2>3. /\ r1 \o r2 \in Seq(StoreEvents) /\ (r1 \o r2) \o r3 \in Seq(StoreEvents)
          /\ ((r1 \o r2) \o r3) \o r4 \in Seq(StoreEvents)
        BY <2>1
    <2>4. /\ ReplayFrom({s}, r1) = {a} /\ ReplayFrom({a}, r2) = {b} /\ ReplayFrom({b}, r3) = {c}
          /\ ReplayFrom({c}, r4) = {d} /\ ReplayFrom({d}, r5) = {t}
        BY <1>5, <1>6, <1>7, <1>8, <1>9 DEF r1, r2, r3, r4, r5
    <2>5. ReplayFrom({s}, r1 \o r2) = {b}
        <3>1. ReplayFrom({s}, r1 \o r2) = ReplayFrom(ReplayFrom({s}, r1), r2) BY <2>1, Continue
        <3>. QED BY <2>4, <3>1
    <2>6. ReplayFrom({s}, (r1 \o r2) \o r3) = {c}
        <3>1. ReplayFrom({s}, (r1 \o r2) \o r3) = ReplayFrom(ReplayFrom({s}, r1 \o r2), r3)
            BY <2>1, <2>3, Continue
        <3>. QED BY <2>4, <2>5, <3>1
    <2>7. ReplayFrom({s}, ((r1 \o r2) \o r3) \o r4) = {d}
        <3>1. ReplayFrom({s}, ((r1 \o r2) \o r3) \o r4)
                = ReplayFrom(ReplayFrom({s}, (r1 \o r2) \o r3), r4)
            BY <2>1, <2>3, Continue
        <3>. QED BY <2>4, <2>6, <3>1
    <2>8. ReplayFrom({s}, (((r1 \o r2) \o r3) \o r4) \o r5) = {t}
        <3>1. ReplayFrom({s}, (((r1 \o r2) \o r3) \o r4) \o r5)
                = ReplayFrom(ReplayFrom({s}, ((r1 \o r2) \o r3) \o r4), r5)
            BY <2>1, <2>3, Continue
        <3>. QED BY <2>4, <2>7, <3>1
    <2>. QED BY <2>2, <2>8
<1>. QED BY <1>1, <1>9, <1>10, <1>11

\* The events es evaluate the run: they replay if and only if the reason goes
\* with the status.
Evaluates(s, es, names, st, re) ==
    /\ es \in Seq(StoreEvents)
    /\ ReplayFrom({s}, es) # {} => (re = None) = (st = "succeeded")
    /\ (re = None) = (st = "succeeded") =>
         \E t : /\ ReplayFrom({s}, es) = {t} /\ Between(t) /\ Complete(t)
                /\ t.status = st /\ t.reason = re /\ t.returned = s.returned
                /\ t.artifacts = s.artifacts \cup names /\ t.absent = s.absent
                /\ SameBudget(s, t)

(* complete_evaluation_with_events: the replay refuses a reason that does  *)
(* not go with the status.                                                 *)
LEMMA EvaluationPhase ==
    ASSUME NEW s, Between(s), s.status = "running", s.request = "completed",
           NEW names \in EvidenceSets, NEW o \in Outcomes, NEW st \in TerminalStatuses,
           NEW re \in Reasons, StatusMatchesOutcome(st, o)
    PROVE  Evaluates(s, EvidenceEvents(names)
                        \o <<EvaluationCompleted(o), Snapshot(s.used, NoUsage),
                             TerminalEvent(st, o, re)>>, names, st, re)
<1>. DEFINE a == EvaluationCompleted(o)
            b == Snapshot(s.used, NoUsage)
            c == TerminalEvent(st, o, re)
            tail == <<a, b, c>>
            es == EvidenceEvents(names) \o tail
<1>1. /\ s \in ReplayState /\ ReplayInv(s) /\ s.created /\ s.pending = None /\ s.absent = {}
      /\ s.artifacts = {"task_spec", "patch"} /\ s.outcome = None
    BY ActiveStatus DEF Between, ReplayInv
<1>2. s.used \in BudgetUsage /\ NoUsage \in BudgetUsage /\ s.reserved = NoUsage
    BY <1>1, UsageArithmetic DEF ReplayInv, ReplayState, BudgetInv
<1>3. PICK p : /\ ReplayFrom({s}, EvidenceEvents(names)) = {p} /\ ReplayInv(p)
               /\ p.artifacts = s.artifacts \cup names /\ p.absent = s.absent
               /\ SameOthers(s, p)
    BY EvidencePhase
<1>4. /\ p.created /\ p.pending = None /\ p.status = "running" /\ p.request = "completed"
      /\ p.outcome = None /\ p.used = s.used /\ p.reserved = NoUsage
    BY <1>1, <1>2, <1>3 DEF SameOthers, SameBudget
<1>5. EvaluationNames \subseteq names /\ ExpectedNames \subseteq p.artifacts
      /\ EvaluationNames \cup {"patch"} \subseteq p.artifacts
    BY <1>1, <1>3 DEF EvidenceSets, ExpectedNames
<1>6. EvidenceEvents(names) \in Seq(StoreEvents) BY EvidenceType
<1>7. a \in StoreEvents /\ b \in StoreEvents /\ c \in StoreEvents
    BY <1>2 DEF StoreEvents
<1>8. tail \in Seq(StoreEvents) BY <1>7
<1>9. es \in Seq(StoreEvents) /\ ReplayFrom({s}, es) = ReplayFrom({p}, tail)
    <2>1. ReplayFrom({s}, es) = ReplayFrom(ReplayFrom({s}, EvidenceEvents(names)), tail)
        BY <1>6, <1>8, Continue
    <2>. QED BY <1>3, <1>6, <1>8, <2>1, Continue
<1>10. Legal(p, a) BY <1>3, <1>4, <1>5, EvidenceEvent
<1>. DEFINE q == [p EXCEPT !.outcome = o]
<1>11. Apply(p, a) = q BY DEF Apply, EvaluationCompleted
<1>12. ReplayInv(q) BY <1>3, <1>10, <1>11, EvaluationCompletedInv
<1>13. /\ q.created /\ q.pending = None /\ q.status = "running" /\ q.request = "completed"
       /\ q.outcome = o /\ q.used = s.used /\ q.reserved = NoUsage /\ q.maximum = p.maximum
       /\ q.reported = p.reported
       /\ SameEvidence(p, q) /\ SameRest(p, q)
    <2>1. p \in ReplayState BY <1>3 DEF ReplayInv
    <2>. QED BY <1>4, <2>1 DEF ReplayState, SameEvidence, SameRest
<1>. HIDE DEF q
<1>14. SnapshotExpected(q) = [used |-> s.used, reserved |-> NoUsage]
    BY <1>13 DEF SnapshotExpected, None
<1>15. ~IsTerminal(q.status) /\ UsageAtMost(q.used, s.used) /\ q.pending # "reconcile"
    BY <1>2, <1>13, UsageFacts, ActiveStatus DEF None
<1>16. Legal(q, b) BY <1>2, <1>12, <1>13, <1>14, <1>15, SnapshotSettles
<1>17. PICK k : /\ k = Apply(q, b) /\ ReplayInv(k)
                /\ k.used = s.used /\ k.reserved = NoUsage /\ k.pending = None
                /\ k.status = q.status /\ k.request = q.request /\ k.maximum = q.maximum
                /\ k.reported = q.reported
                /\ k.id = q.id /\ k.outcome = q.outcome /\ k.created
                /\ SameEvidence(q, k) /\ SameRest(q, k)
    BY <1>2, <1>12, <1>13, <1>14, <1>15, SnapshotSettles
<1>18. ReplayFrom({s}, es) = ReplayStep({k}, c)
    <2>1. ReplayFrom({p}, tail) = ReplayStep(ReplayStep(ReplayStep({p}, a), b), c)
        BY ReplayThree
    <2>2. ReplayStep({p}, a) = {Apply(p, a)} BY <1>10, OneEvent
    <2>3. ReplayStep({q}, b) = {Apply(q, b)} BY <1>16, OneEvent
    <2>. QED BY <1>9, <1>11, <1>17, <2>1, <2>2, <2>3
<1>19. Legal(k, c) <=> (re = None) = (st = "succeeded")
    <2>1. IsTerminal(st) /\ o # None
        BY DEF IsTerminal, Outcomes, None
    <2>2. /\ k.request = "completed" /\ k.outcome = o /\ k.pending = None /\ k.created
          /\ ~IsTerminal(k.status)
        BY <1>13, <1>15, <1>17
    <2>3. TerminalLegal(k, c) <=> (re = None) = (st = "succeeded")
        BY <2>1, <2>2 DEF TerminalLegal, TerminalEvent
    <2>. QED BY <1>17, <2>2, <2>3, EvidenceEvent
<1>20. ReplayFrom({s}, es) # {} => (re = None) = (st = "succeeded")
    BY <1>18, <1>19, OneEvent
<1>21. ASSUME (re = None) = (st = "succeeded")
       PROVE  \E t : /\ ReplayFrom({s}, es) = {t} /\ Between(t) /\ Complete(t)
                     /\ t.status = st /\ t.reason = re /\ t.returned = s.returned
                     /\ t.artifacts = s.artifacts \cup names /\ t.absent = s.absent
                     /\ SameBudget(s, t)
    <2>. DEFINE t == [k EXCEPT !.status = st, !.reason = re]
    <2>1. Legal(k, c) BY <1>19, <1>21
    <2>2. Apply(k, c) = t BY DEF Apply, TerminalEvent
    <2>3. ReplayInv(t)
        <3>1. st \in Statuses \ {"absent"} /\ o \in Outcomes \cup {None}
            BY DEF Statuses, TerminalStatuses, EvaluationStatuses
        <3>. QED BY <1>17, <2>1, <2>2, <3>1, TerminalEventInv
    <2>4. k \in ReplayState BY <1>17 DEF ReplayInv
    <2>5. /\ t.status = st /\ t.reason = re /\ t.created /\ t.pending = None
          /\ t.request = "completed" /\ t.reserved = NoUsage /\ t.used = k.used
          /\ t.maximum = k.maximum /\ t.reported = k.reported /\ t.artifacts = k.artifacts
          /\ t.absent = k.absent
          /\ t.returned = k.returned
        BY <1>13, <1>17, <2>4 DEF ReplayState
    <2>6. ReplayFrom({s}, es) = {t} BY <1>18, <2>1, <2>2, OneEvent
    <2>. HIDE DEF t
    <2>7. /\ t.returned = s.returned /\ t.artifacts = s.artifacts \cup names
          /\ t.absent = s.absent /\ SameBudget(s, t)
        BY <1>2, <1>3, <1>4, <1>13, <1>17, <2>5
        DEF SameOthers, SameBudget, SameRest, SameEvidence
    <2>8. IsTerminal(t.status) BY <2>5 DEF IsTerminal
    <2>9. Between(t) BY <2>3, <2>5, <2>8 DEF Between
    <2>10. Complete(t) BY <1>3, <1>5, <2>5, <2>7, <2>8 DEF Complete
    <2>. QED BY <2>5, <2>6, <2>7, <2>9, <2>10
<1>. QED BY <1>9, <1>20, <1>21 DEF Evaluates

-----------------------------------------------------------------------------
(* Runs that end without an evaluation. *)

(* One artifact, if it was not produced.                                   *)
LEMMA AbsentOne ==
    ASSUME NEW s, ReplayInv(s), s.created, s.pending = None, ~IsTerminal(s.status),
           NEW names, s.artifacts = names, NEW n \in ExpectedNames, n \notin s.absent
    PROVE  \E t : /\ ReplayFrom({s}, AbsentFrom(names, n)) = {t} /\ ReplayInv(t)
                  /\ t.absent = s.absent \cup ({n} \ names) /\ t.artifacts = names
                  /\ SameOthers(s, t)
<1>1. CASE n \in names
    <2>1. AbsentFrom(names, n) = <<>> BY <1>1 DEF AbsentFrom
    <2>2. ReplayFrom({s}, <<>>) = {s} BY ReplayShort
    <2>3. SameOthers(s, s) BY DEF SameOthers, SameBudget, SameRest
    <2>4. s.absent = s.absent \cup ({n} \ names) BY <1>1
    <2>. QED BY <2>1, <2>2, <2>3, <2>4
<1>2. CASE n \notin names
    <2>. DEFINE t == [s EXCEPT !.absent = @ \cup {n}]
    <2>1. AbsentFrom(names, n) = <<NotProduced(n)>> BY <1>2 DEF AbsentFrom
    <2>2. Legal(s, NotProduced(n)) BY <1>2, EvidenceEvent DEF Unaccounted
    <2>3. Apply(s, NotProduced(n)) = t BY DEF Apply, NotProduced
    <2>4. ReplayFrom({s}, <<NotProduced(n)>>) = {Apply(s, NotProduced(n))} BY <2>2, ReplayOne
    <2>5. ReplayInv(t)
        <3>1. n \in ArtifactNames BY DEF ArtifactNames
        <3>. QED BY <2>2, <2>3, <3>1, NotProducedInv
    <2>6. s \in ReplayState BY DEF ReplayInv
    <2>7. t.absent = s.absent \cup {n} /\ t.artifacts = names /\ SameOthers(s, t)
        BY <2>6 DEF ReplayState, SameOthers, SameBudget, SameRest
    <2>8. {n} \ names = {n} BY <1>2
    <2>. HIDE DEF t
    <2>. QED BY <2>1, <2>3, <2>4, <2>5, <2>7, <2>8
<1>. QED BY <1>1, <1>2

(* What was not produced is accounted for.                                 *)
LEMMA AbsencePhase ==
    ASSUME NEW s, Between(s), ~IsTerminal(s.status), NEW names, names = s.artifacts
    PROVE  /\ AbsenceEvents(names) \in Seq(StoreEvents)
           /\ \E t : /\ ReplayFrom({s}, AbsenceEvents(names)) = {t} /\ ReplayInv(t)
                     /\ t.absent = ExpectedNames \ names /\ t.artifacts = names
                     /\ SameOthers(s, t)
<1>. DEFINE n1 == "evaluation"
            n2 == "evaluation_stderr"
            n3 == "evaluation_stdout"
            n4 == "patch"
            n5 == "task_spec"
            r1 == AbsentFrom(names, n1)
            r2 == AbsentFrom(names, n2)
            r3 == AbsentFrom(names, n3)
            r4 == AbsentFrom(names, n4)
            r5 == AbsentFrom(names, n5)
<1>1. ReplayInv(s) /\ s.created /\ s.pending = None /\ s.absent = {} BY DEF Between
<1>2. ExpectedNames = {n1, n2, n3, n4, n5} BY DEF ExpectedNames, EvaluationNames
<1>3. \A n \in ExpectedNames : AbsentFrom(names, n) \in Seq(StoreEvents)
    <2>1. ASSUME NEW n \in ExpectedNames PROVE AbsentFrom(names, n) \in Seq(StoreEvents)
        <3>1. NotProduced(n) \in StoreEvents BY DEF StoreEvents, ArtifactNames
        <3>2. <<>> \in Seq(StoreEvents) /\ <<NotProduced(n)>> \in Seq(StoreEvents) BY <3>1
        <3>. QED BY <3>2 DEF AbsentFrom
    <2>. QED BY <2>1
<1>4. ASSUME NEW p, ReplayInv(p), SameOthers(s, p), p.artifacts = names,
             NEW n \in ExpectedNames, n \notin p.absent
      PROVE  \E t : /\ ReplayFrom({p}, AbsentFrom(names, n)) = {t} /\ ReplayInv(t)
                    /\ t.absent = p.absent \cup ({n} \ names) /\ t.artifacts = names
                    /\ SameOthers(s, t)
    <2>1. p.created /\ p.pending = None /\ ~IsTerminal(p.status) BY <1>1, <1>4 DEF SameOthers
    <2>2. PICK t : /\ ReplayFrom({p}, AbsentFrom(names, n)) = {t} /\ ReplayInv(t)
                   /\ t.absent = p.absent \cup ({n} \ names) /\ t.artifacts = names
                   /\ SameOthers(p, t)
        BY <1>4, <2>1, AbsentOne
    <2>3. SameOthers(s, t) BY <1>4, <2>2 DEF SameOthers, SameBudget, SameRest
    <2>. QED BY <2>2, <2>3
<1>5. SameOthers(s, s) /\ s.artifacts = names BY DEF SameOthers, SameBudget, SameRest
<1>6. PICK a : /\ ReplayFrom({s}, r1) = {a} /\ ReplayInv(a) /\ a.absent = {n1} \ names
               /\ a.artifacts = names /\ SameOthers(s, a)
    <2>1. n1 \in ExpectedNames /\ n1 \notin s.absent BY <1>1, <1>2
    <2>2. PICK t : /\ ReplayFrom({s}, r1) = {t} /\ ReplayInv(t)
                   /\ t.absent = s.absent \cup ({n1} \ names) /\ t.artifacts = names
                   /\ SameOthers(s, t)
        BY <1>1, <1>4, <1>5, <2>1
    <2>3. t.absent = {n1} \ names BY <1>1, <2>2
    <2>. QED BY <2>2, <2>3
<1>7. PICK b : /\ ReplayFrom({a}, r2) = {b} /\ ReplayInv(b) /\ b.absent = {n1, n2} \ names
               /\ b.artifacts = names /\ SameOthers(s, b)
    <2>1. n2 \in ExpectedNames /\ n2 \notin a.absent BY <1>2, <1>6
    <2>2. PICK t : /\ ReplayFrom({a}, r2) = {t} /\ ReplayInv(t)
                   /\ t.absent = a.absent \cup ({n2} \ names) /\ t.artifacts = names
                   /\ SameOthers(s, t)
        BY <1>4, <1>6, <2>1
    <2>3. t.absent = {n1, n2} \ names BY <1>6, <2>2
    <2>. QED BY <2>2, <2>3
<1>8. PICK c : /\ ReplayFrom({b}, r3) = {c} /\ ReplayInv(c) /\ c.absent = {n1, n2, n3} \ names
               /\ c.artifacts = names /\ SameOthers(s, c)
    <2>1. n3 \in ExpectedNames /\ n3 \notin b.absent BY <1>2, <1>7
    <2>2. PICK t : /\ ReplayFrom({b}, r3) = {t} /\ ReplayInv(t)
                   /\ t.absent = b.absent \cup ({n3} \ names) /\ t.artifacts = names
                   /\ SameOthers(s, t)
        BY <1>4, <1>7, <2>1
    <2>3. t.absent = {n1, n2, n3} \ names BY <1>7, <2>2
    <2>. QED BY <2>2, <2>3
<1>9. PICK d : /\ ReplayFrom({c}, r4) = {d} /\ ReplayInv(d)
               /\ d.absent = {n1, n2, n3, n4} \ names
               /\ d.artifacts = names /\ SameOthers(s, d)
    <2>1. n4 \in ExpectedNames /\ n4 \notin c.absent BY <1>2, <1>8
    <2>2. PICK t : /\ ReplayFrom({c}, r4) = {t} /\ ReplayInv(t)
                   /\ t.absent = c.absent \cup ({n4} \ names) /\ t.artifacts = names
                   /\ SameOthers(s, t)
        BY <1>4, <1>8, <2>1
    <2>3. t.absent = {n1, n2, n3, n4} \ names BY <1>8, <2>2
    <2>. QED BY <2>2, <2>3
<1>10. PICK t : /\ ReplayFrom({d}, r5) = {t} /\ ReplayInv(t)
                /\ t.absent = ExpectedNames \ names
                /\ t.artifacts = names /\ SameOthers(s, t)
    <2>1. n5 \in ExpectedNames /\ n5 \notin d.absent BY <1>2, <1>9
    <2>2. PICK t : /\ ReplayFrom({d}, r5) = {t} /\ ReplayInv(t)
                   /\ t.absent = d.absent \cup ({n5} \ names) /\ t.artifacts = names
                   /\ SameOthers(s, t)
        BY <1>4, <1>9, <2>1
    <2>3. t.absent = ExpectedNames \ names BY <1>2, <1>9, <2>2
    <2>. QED BY <2>2, <2>3
<1>11. AbsenceEvents(names) = (((r1 \o r2) \o r3) \o r4) \o r5 BY DEF AbsenceEvents
<1>12. /\ r1 \in Seq(StoreEvents) /\ r2 \in Seq(StoreEvents) /\ r3 \in Seq(StoreEvents)
       /\ r4 \in Seq(StoreEvents) /\ r5 \in Seq(StoreEvents)
    BY <1>2, <1>3
<1>. HIDE DEF r1, r2, r3, r4, r5
<1>13. /\ r1 \o r2 \in Seq(StoreEvents) /\ (r1 \o r2) \o r3 \in Seq(StoreEvents)
       /\ ((r1 \o r2) \o r3) \o r4 \in Seq(StoreEvents)
       /\ (((r1 \o r2) \o r3) \o r4) \o r5 \in Seq(StoreEvents)
    BY <1>12
<1>14. ReplayFrom({s}, r1 \o r2) = {b}
    <2>1. ReplayFrom({s}, r1 \o r2) = ReplayFrom(ReplayFrom({s}, r1), r2) BY <1>12, Continue
    <2>. QED BY <1>6, <1>7, <2>1
<1>15. ReplayFrom({s}, (r1 \o r2) \o r3) = {c}
    <2>1. ReplayFrom({s}, (r1 \o r2) \o r3) = ReplayFrom(ReplayFrom({s}, r1 \o r2), r3)
        BY <1>12, <1>13, Continue
    <2>. QED BY <1>8, <1>14, <2>1
<1>16. ReplayFrom({s}, ((r1 \o r2) \o r3) \o r4) = {d}
    <2>1. ReplayFrom({s}, ((r1 \o r2) \o r3) \o r4)
            = ReplayFrom(ReplayFrom({s}, (r1 \o r2) \o r3), r4)
        BY <1>12, <1>13, Continue
    <2>. QED BY <1>9, <1>15, <2>1
<1>17. ReplayFrom({s}, (((r1 \o r2) \o r3) \o r4) \o r5) = {t}
    <2>1. ReplayFrom({s}, (((r1 \o r2) \o r3) \o r4) \o r5)
            = ReplayFrom(ReplayFrom({s}, ((r1 \o r2) \o r3) \o r4), r5)
        BY <1>12, <1>13, Continue
    <2>. QED BY <1>10, <1>16, <2>1
<1>. QED BY <1>10, <1>11, <1>13, <1>17

(* The last snapshot and the terminal event.                               *)
LEMMA EndPhase ==
    ASSUME NEW p, ReplayInv(p), p.created, ~IsTerminal(p.status), p.outcome = None,
           p.request # "started", p.absent = ExpectedNames \ p.artifacts,
           p.pending # "reconcile", NEW used \in BudgetUsage, UsageAtMost(p.used, used),
           SnapshotExpected(p) = [used |-> used, reserved |-> NoUsage],
           NEW st \in {"infrastructure_error", "budget_exhausted"},
           NEW why \in Reasons, why # None,
           p.request = "ambiguous" =>
               st = "infrastructure_error" /\ why = "ambiguous_model_request"
    PROVE  LET es == <<Snapshot(used, NoUsage), TerminalEvent(st, None, why)>> IN
           /\ es \in Seq(StoreEvents)
           /\ \E t : /\ ReplayFrom({p}, es) = {t} /\ Between(t) /\ Complete(t)
                     /\ t.status = st /\ t.reason = why /\ t.used = used /\ t.reserved = NoUsage
                     /\ t.request = p.request /\ t.maximum = p.maximum /\ t.reported = p.reported
                     /\ t.returned = p.returned /\ SameEvidence(p, t)
<1>. DEFINE a == Snapshot(used, NoUsage)
            b == TerminalEvent(st, None, why)
<1>1. NoUsage \in BudgetUsage BY UsageArithmetic
<1>2. Legal(p, a) BY <1>1, SnapshotSettles
<1>3. PICK q : /\ q = Apply(p, a) /\ ReplayInv(q)
               /\ q.used = used /\ q.reserved = NoUsage /\ q.pending = None
               /\ q.status = p.status /\ q.request = p.request /\ q.maximum = p.maximum
               /\ q.reported = p.reported
               /\ q.id = p.id /\ q.outcome = p.outcome /\ q.created
               /\ SameEvidence(p, q) /\ SameRest(p, q)
    BY <1>1, SnapshotSettles
<1>4. IsTerminal(st) /\ st \in TerminalStatuses /\ st # "succeeded"
    BY DEF IsTerminal, TerminalStatuses, EvaluationStatuses
<1>5. TerminalLegal(q, b) BY <1>3, <1>4 DEF TerminalLegal, TerminalEvent
<1>6. Legal(q, b) BY <1>3, <1>5, EvidenceEvent
<1>. DEFINE t == [q EXCEPT !.status = st, !.reason = why]
<1>7. Apply(q, b) = t BY DEF Apply, TerminalEvent
<1>8. ReplayInv(t)
    <2>1. st \in Statuses \ {"absent"} /\ None \in Outcomes \cup {None}
        BY <1>4 DEF Statuses, TerminalStatuses, EvaluationStatuses
    <2>. QED BY <1>3, <1>6, <1>7, <2>1, TerminalEventInv
<1>9. q \in ReplayState BY <1>3 DEF ReplayInv
<1>10. /\ t.status = st /\ t.reason = why /\ t.used = used /\ t.reserved = NoUsage
      /\ t.request = p.request /\ t.maximum = p.maximum /\ t.reported = p.reported
      /\ t.returned = p.returned
      /\ SameEvidence(p, t) /\ t.created /\ t.pending = None
    BY <1>3, <1>9 DEF ReplayState, SameEvidence, SameRest
<1>11. ReplayFrom({p}, <<a, b>>) = {t}
    <2>1. ReplayFrom({p}, <<a, b>>) = ReplayStep(ReplayStep({p}, a), b) BY ReplayTwo
    <2>2. ReplayStep({p}, a) = {Apply(p, a)} BY <1>2, OneEvent
    <2>3. ReplayStep({q}, b) = {Apply(q, b)} BY <1>6, OneEvent
    <2>. QED BY <1>3, <1>7, <2>1, <2>2, <2>3
<1>. HIDE DEF t
<1>12. Between(t) BY <1>4, <1>8, <1>10 DEF Between
<1>13. Complete(t) BY <1>4, <1>10 DEF Complete, SameEvidence
<1>14. <<a, b>> \in Seq(StoreEvents)
    <2>1. a \in StoreEvents /\ b \in StoreEvents BY <1>1, <1>4 DEF StoreEvents
    <2>. QED BY <2>1
<1>. QED BY <1>10, <1>11, <1>12, <1>13, <1>14

\* What recovery and exhaustion leave of the state.
Ended(s, t, st, why, used) ==
    /\ Between(t) /\ Complete(t) /\ t.status = st /\ t.reason = why
    /\ t.used = used /\ t.reserved = NoUsage /\ t.maximum = s.maximum /\ t.reported = s.reported
    /\ t.returned = s.returned
    /\ t.artifacts = s.artifacts /\ t.absent = ExpectedNames \ s.artifacts

(* complete_budget_exhaustion_with_events, and recovery of a run with no   *)
(* open request.                                                           *)
LEMMA ClosedPhase ==
    ASSUME NEW s, Between(s), ~IsTerminal(s.status), s.request # "started",
           NEW st \in {"infrastructure_error", "budget_exhausted"},
           NEW why \in Reasons, why # None
    PROVE  LET es == AbsenceEvents(s.artifacts)
                     \o <<Snapshot(s.used, NoUsage), TerminalEvent(st, None, why)>>
           IN  /\ es \in Seq(StoreEvents)
               /\ \E t : /\ ReplayFrom({s}, es) = {t} /\ Ended(s, t, st, why, s.used)
                         /\ t.request = s.request
<1>. DEFINE used == s.used
            head == AbsenceEvents(s.artifacts)
            tail == <<Snapshot(used, NoUsage), TerminalEvent(st, None, why)>>
<1>1. /\ s \in ReplayState /\ ReplayInv(s) /\ s.created /\ s.pending = None
      /\ s.outcome = None /\ s.request # "ambiguous"
    BY DEF Between, ReplayInv
<1>2. used \in BudgetUsage /\ s.reserved = NoUsage /\ UsageAtMost(s.used, used)
    BY <1>1, UsageFacts DEF ReplayInv, ReplayState, BudgetInv
<1>3. PICK p : /\ ReplayFrom({s}, head) = {p} /\ ReplayInv(p)
               /\ p.absent = ExpectedNames \ s.artifacts /\ p.artifacts = s.artifacts
               /\ SameOthers(s, p)
    BY AbsencePhase
<1>4. head \in Seq(StoreEvents) BY AbsencePhase
<1>5. /\ p.created /\ p.pending = None /\ ~IsTerminal(p.status) /\ p.outcome = None
      /\ p.request = s.request /\ p.used = used /\ p.reserved = NoUsage
      /\ p.maximum = s.maximum /\ p.reported = s.reported /\ p.returned = s.returned
    BY <1>1, <1>2, <1>3 DEF SameOthers, SameBudget, SameRest
<1>6. SnapshotExpected(p) = [used |-> used, reserved |-> NoUsage] /\ p.pending # "reconcile"
    BY <1>5 DEF SnapshotExpected, None
<1>7. p.absent = ExpectedNames \ p.artifacts /\ UsageAtMost(p.used, used)
      /\ p.request # "started" /\ p.request # "ambiguous"
    BY <1>1, <1>2, <1>3, <1>5
<1>. HIDE DEF used
<1>8. /\ tail \in Seq(StoreEvents)
      /\ \E t : /\ ReplayFrom({p}, tail) = {t} /\ Between(t) /\ Complete(t)
                /\ t.status = st /\ t.reason = why /\ t.used = used /\ t.reserved = NoUsage
                /\ t.request = p.request /\ t.maximum = p.maximum /\ t.reported = p.reported
                /\ t.returned = p.returned /\ SameEvidence(p, t)
    <2>1. /\ ReplayInv(p) /\ p.created /\ ~IsTerminal(p.status) /\ p.outcome = None
          /\ p.request # "started" /\ p.absent = ExpectedNames \ p.artifacts
          /\ p.pending # "reconcile" /\ UsageAtMost(p.used, used)
          /\ SnapshotExpected(p) = [used |-> used, reserved |-> NoUsage]
          /\ p.request = "ambiguous" =>
                st = "infrastructure_error" /\ why = "ambiguous_model_request"
          /\ used \in BudgetUsage
        BY <1>2, <1>3, <1>5, <1>6, <1>7
    <2>. HIDE DEF tail
    <2>. QED BY <2>1, EndPhase DEF tail
<1>. HIDE DEF head, tail
<1>9. PICK t : /\ ReplayFrom({p}, tail) = {t} /\ Between(t) /\ Complete(t)
               /\ t.status = st /\ t.reason = why /\ t.used = used /\ t.reserved = NoUsage
               /\ t.request = p.request /\ t.maximum = p.maximum /\ t.reported = p.reported
               /\ t.returned = p.returned /\ SameEvidence(p, t)
    BY <1>8
<1>10. head \o tail \in Seq(StoreEvents) /\ ReplayFrom({s}, head \o tail) = {t}
    <2>1. ReplayFrom({s}, head \o tail) = ReplayFrom(ReplayFrom({s}, head), tail)
        BY <1>4, <1>8, Continue
    <2>. QED BY <1>3, <1>4, <1>8, <1>9, <2>1, Continue
<1>11. Ended(s, t, st, why, used) /\ t.request = s.request
    BY <1>3, <1>5, <1>9 DEF Ended, SameEvidence
<1>. QED BY <1>10, <1>11 DEF head, tail, used

(* recover_run_with_events on an open request: it is made ambiguous and    *)
(* its whole reservation is charged.                                       *)
LEMMA AmbiguousPhase ==
    ASSUME NEW s, Between(s), ~IsTerminal(s.status), s.request = "started"
    PROVE  LET used == AddUsage(s.used, s.reserved)
               es == (AbsenceEvents(s.artifacts) \o <<RequestAmbiguous(s.id)>>)
                     \o <<Snapshot(used, NoUsage),
                          TerminalEvent("infrastructure_error", None, "ambiguous_model_request")>>
           IN  /\ es \in Seq(StoreEvents)
               /\ \E t : /\ ReplayFrom({s}, es) = {t} /\ t.request = "ambiguous"
                         /\ Ended(s, t, "infrastructure_error", "ambiguous_model_request", used)
<1>. DEFINE st == "infrastructure_error"
            why == "ambiguous_model_request"
            used == AddUsage(s.used, s.reserved)
            head == AbsenceEvents(s.artifacts)
            e == RequestAmbiguous(s.id)
            tail == <<Snapshot(used, NoUsage), TerminalEvent(st, None, why)>>
<1>1. /\ s \in ReplayState /\ ReplayInv(s) /\ s.created /\ s.pending = None
      /\ s.outcome = None /\ s.id \in RequestIds /\ s.status = "running"
    <2>1. ReplayInv(s) /\ s.status \in {"pending", "running"} BY ActiveStatus DEF Between
    <2>. QED BY <2>1 DEF Between, ReplayInv
<1>2. used \in BudgetUsage /\ UsageAtMost(s.used, used)
    BY <1>1, UsageFacts DEF ReplayState
<1>3. PICK p : /\ ReplayFrom({s}, head) = {p} /\ ReplayInv(p)
               /\ p.absent = ExpectedNames \ s.artifacts /\ p.artifacts = s.artifacts
               /\ SameOthers(s, p)
    BY AbsencePhase
<1>4. head \in Seq(StoreEvents) BY AbsencePhase
<1>5. /\ p.created /\ p.pending = None /\ p.status = "running" /\ p.outcome = None
      /\ p.request = "started" /\ p.used = s.used /\ p.reserved = s.reserved
      /\ p.maximum = s.maximum /\ p.reported = s.reported /\ p.returned = s.returned /\ p.id = s.id
    BY <1>1, <1>3 DEF SameOthers, SameBudget, SameRest
<1>6. Legal(p, e) BY <1>3, <1>5, ProgressEvents
<1>. DEFINE q == [p EXCEPT !.request = "ambiguous", !.pending = "ambiguous",
                           !.amount = p.reserved]
<1>7. Apply(p, e) = q BY DEF Apply, RequestAmbiguous
<1>8. ReplayInv(q) BY <1>1, <1>3, <1>6, <1>7, RequestAmbiguousInv
<1>9. /\ q.created /\ q.pending = "ambiguous" /\ q.status = "running" /\ q.outcome = None
      /\ q.request = "ambiguous" /\ q.used = s.used /\ q.reserved = s.reserved
      /\ q.maximum = s.maximum /\ q.reported = s.reported /\ q.returned = s.returned
      /\ q.artifacts = s.artifacts /\ q.absent = ExpectedNames \ s.artifacts
    <2>1. p \in ReplayState BY <1>3 DEF ReplayInv
    <2>. QED BY <1>3, <1>5, <2>1 DEF ReplayState
<1>. HIDE DEF q
<1>10. ReplayFrom({p}, <<e>>) = {q} BY <1>6, <1>7, ReplayOne
<1>11. SnapshotExpected(q) = [used |-> used, reserved |-> NoUsage]
    BY <1>9 DEF SnapshotExpected, None
<1>12. /\ ~IsTerminal(q.status) /\ q.request # "started" /\ q.pending # "reconcile"
       /\ q.absent = ExpectedNames \ q.artifacts /\ UsageAtMost(q.used, used)
       /\ st \in {"infrastructure_error", "budget_exhausted"}
       /\ why \in Reasons /\ why # None
    BY <1>2, <1>9, ActiveStatus DEF Reasons, None
<1>. HIDE DEF used
<1>13. /\ tail \in Seq(StoreEvents)
       /\ \E t : /\ ReplayFrom({q}, tail) = {t} /\ Between(t) /\ Complete(t)
                 /\ t.status = st /\ t.reason = why /\ t.used = used /\ t.reserved = NoUsage
                 /\ t.request = q.request /\ t.maximum = q.maximum /\ t.reported = q.reported
                 /\ t.returned = q.returned /\ SameEvidence(q, t)
    BY <1>2, <1>8, <1>9, <1>11, <1>12, EndPhase
<1>14. <<e>> \in Seq(StoreEvents)
    <2>1. e \in StoreEvents BY <1>1 DEF StoreEvents
    <2>. QED BY <2>1
<1>. HIDE DEF head, tail, e
<1>15. PICK t : /\ ReplayFrom({q}, tail) = {t} /\ Between(t) /\ Complete(t)
                /\ t.status = st /\ t.reason = why /\ t.used = used /\ t.reserved = NoUsage
                /\ t.request = q.request /\ t.maximum = q.maximum /\ t.reported = q.reported
                /\ t.returned = q.returned /\ SameEvidence(q, t)
    BY <1>13
<1>16. head \o <<e>> \in Seq(StoreEvents) /\ ReplayFrom({s}, head \o <<e>>) = {q}
    <2>1. ReplayFrom({s}, head \o <<e>>) = ReplayFrom(ReplayFrom({s}, head), <<e>>)
        BY <1>4, <1>14, Continue
    <2>. QED BY <1>3, <1>4, <1>10, <1>14, <2>1, Continue
<1>17. /\ (head \o <<e>>) \o tail \in Seq(StoreEvents)
       /\ ReplayFrom({s}, (head \o <<e>>) \o tail) = {t}
    <2>1. ReplayFrom({s}, (head \o <<e>>) \o tail)
            = ReplayFrom(ReplayFrom({s}, head \o <<e>>), tail)
        BY <1>13, <1>16, Continue
    <2>. QED BY <1>13, <1>15, <1>16, <2>1, Continue
<1>18. Ended(s, t, st, why, used) /\ t.request = "ambiguous"
    BY <1>9, <1>15 DEF Ended, SameEvidence
<1>. QED BY <1>17, <1>18 DEF head, tail, e, used

-----------------------------------------------------------------------------
(* Rows. *)

Manifests ==
    [status : Statuses \ {"absent"}, limits : Caps, created : Times,
     started : Times \cup {NoTime}, finished : Times \cup {NoTime},
     returned : BOOLEAN, artifacts : SUBSET ArtifactNames, reason : Reasons]

Rows ==
    [history : Seq(Manifests), events : Seq(StoreEvents),
     budget : [limits : Caps, used : BudgetUsage, reserved : BudgetUsage]]

\* A committed row verifies, and its stream replays to one state, which lies
\* between two transactions.
RowInv(row) ==
    /\ row \in Rows /\ row.history # <<>> /\ row.events # <<>>
    /\ VerifiedRoot(row)
    /\ \E s : ReplayEvents(row.events) = {s} /\ Between(s)

\* The inductive invariant of the store.
StoreInv ==
    /\ db \in [RunIds -> Rows \cup {NoRow}]
    /\ \A r \in RunIds : db[r] = NoRow \/ RowInv(db[r])

\* What verification compares.
Agrees(s, m, used, reserved) ==
    /\ s.status = m.status /\ s.used = used /\ s.reserved = reserved
    /\ s.artifacts = m.artifacts /\ s.returned = m.returned
    /\ IsTerminal(m.status) => Complete(s) /\ s.reason = m.reason

Row(history, events, limits, used, reserved) ==
    [history |-> history, events |-> events,
     budget |-> [limits |-> limits, used |-> used, reserved |-> reserved]]

(* Verification of a row whose stream replays to one state.                *)
LEMMA VerifiedMeans ==
    ASSUME NEW row, NEW s, ReplayEvents(row.events) = {s}
    PROVE  /\ Replayed(row) = s
           /\ VerifiedRoot(row) <=>
                 /\ HistoryValid(row.history)
                 /\ Head(row.events) = Created(Manifest(row).limits)
                 /\ row.budget.limits = Manifest(row).limits
                 /\ Agrees(s, Manifest(row), row.budget.used, row.budget.reserved)
<1>1. Replayed(row) = s BY DEF Replayed
<1>. DEFINE m == Manifest(row)
            b == row.budget
            A == Agrees(s, m, b.used, b.reserved)
            X == \E q \in ReplayEvents(row.events), k \in {m} :
                    /\ q.status = k.status
                    /\ q.used = b.used /\ q.reserved = b.reserved
                    /\ q.artifacts = k.artifacts
                    /\ q.returned = k.returned
                    /\ IsTerminal(k.status) => Complete(q) /\ q.reason = k.reason
<1>2. X <=> A
    <2>. HIDE DEF m, b
    <2>. QED BY DEF Agrees
<1>3. VerifiedRoot(row) <=> /\ HistoryValid(row.history)
                            /\ Head(row.events) = Created(m.limits)
                            /\ b.limits = m.limits
                            /\ X
    BY DEF VerifiedRoot
<1>. HIDE DEF X, A
<1>4. VerifiedRoot(row) <=> /\ HistoryValid(row.history)
                            /\ Head(row.events) = Created(m.limits)
                            /\ b.limits = m.limits
                            /\ A
    BY <1>2, <1>3
<1>. QED BY <1>1, <1>4 DEF A

(* What is known of a committed row.                                       *)
LEMMA RowFacts ==
    ASSUME NEW row, RowInv(row)
    PROVE  /\ row \in Rows /\ row # NoRow /\ row.history # <<>> /\ row.events # <<>>
           /\ ReplayEvents(row.events) = {Replayed(row)} /\ Between(Replayed(row))
           /\ Manifest(row) \in Manifests
           /\ HistoryValid(row.history) /\ LifecycleValid(Manifest(row))
           /\ Head(row.events) = Created(Manifest(row).limits)
           /\ row.budget.limits = Manifest(row).limits
           /\ Agrees(Replayed(row), Manifest(row), row.budget.used, row.budget.reserved)
<1>1. PICK s : ReplayEvents(row.events) = {s} /\ Between(s) BY DEF RowInv
<1>2. row \in Rows /\ row.history # <<>> /\ row.events # <<>> /\ VerifiedRoot(row) BY DEF RowInv
<1>3. row # NoRow BY <1>2 DEF NoRow
<1>4. Replayed(row) = s BY <1>1, VerifiedMeans
<1>5. /\ HistoryValid(row.history)
      /\ Head(row.events) = Created(Manifest(row).limits)
      /\ row.budget.limits = Manifest(row).limits
      /\ Agrees(s, Manifest(row), row.budget.used, row.budget.reserved)
    BY <1>1, <1>2, VerifiedMeans
<1>6. row.history \in Seq(Manifests) /\ Len(row.history) \in DOMAIN row.history
    BY <1>2 DEF Rows
<1>7. Manifest(row) \in Manifests BY <1>6 DEF Manifest
<1>8. LifecycleValid(Manifest(row)) BY <1>5, <1>6 DEF HistoryValid, Manifest
<1>. QED BY <1>1, <1>2, <1>3, <1>4, <1>5, <1>7, <1>8

(* A saved revision.                                                       *)
LEMMA SavedHistory ==
    ASSUME NEW h \in Seq(Manifests), h # <<>>, HistoryValid(h), NEW m \in Manifests
    PROVE  /\ Append(h, m) \in Seq(Manifests) /\ Append(h, m) # <<>>
           /\ Append(h, m)[Len(Append(h, m))] = m
           /\ LifecycleValid(m) /\ ManifestTransition(h[Len(h)], m) => HistoryValid(Append(h, m))
<1>. DEFINE g == Append(h, m)
            n == Len(h)
<1>1. /\ g \in Seq(Manifests) /\ g # <<>> /\ n \in Nat /\ n # 0 /\ Len(g) = n + 1
      /\ g[n + 1] = m /\ \A i \in 1..n : g[i] = h[i]
    OBVIOUS
<1>2. DOMAIN g = 1..(n + 1) /\ DOMAIN h = 1..n BY <1>1
<1>. HIDE DEF g, n
<1>3. ASSUME LifecycleValid(m), ManifestTransition(h[n], m) PROVE HistoryValid(g)
    <2>1. ASSUME NEW i \in DOMAIN g PROVE LifecycleValid(g[i])
        <3>1. CASE i = n + 1 BY <1>1, <1>3, <3>1
        <3>2. CASE i \in 1..n
            <4>1. g[i] = h[i] BY <1>1, <3>2
            <4>2. LifecycleValid(h[i]) BY <1>2, <3>2 DEF HistoryValid
            <4>. QED BY <4>1, <4>2
        <3>. QED BY <1>1, <1>2, <3>1, <3>2
    <2>2. ASSUME NEW i \in 2..Len(g) PROVE ManifestTransition(g[i - 1], g[i])
        <3>1. CASE i = n + 1
            <4>1. i - 1 = n /\ n \in 1..n BY <1>1, <3>1
            <4>2. g[i - 1] = h[n] /\ g[i] = m BY <1>1, <3>1, <4>1
            <4>. QED BY <1>3, <4>2
        <3>2. CASE i \in 2..n
            <4>1. i \in 1..n /\ i - 1 \in 1..n BY <1>1, <3>2
            <4>2. g[i - 1] = h[i - 1] /\ g[i] = h[i] BY <1>1, <4>1
            <4>3. ManifestTransition(h[i - 1], h[i]) BY <3>2 DEF HistoryValid, n
            <4>. QED BY <4>2, <4>3
        <3>. QED BY <1>1, <3>1, <3>2
    <2>. QED BY <2>1, <2>2 DEF HistoryValid
<1>. QED BY <1>1, <1>3 DEF g, n

(* The events appended to a committed stream are replayed from its state.  *)
LEMMA ExtendedStream ==
    ASSUME NEW row, RowInv(row), NEW evs \in Seq(StoreEvents)
    PROVE  LET all == row.events \o evs IN
           /\ all \in Seq(StoreEvents) /\ all # <<>>
           /\ Head(all) = Created(Manifest(row).limits)
           /\ ReplayEvents(all) = ReplayFrom({Replayed(row)}, evs)
<1>. DEFINE es == row.events
<1>1. /\ es \in Seq(StoreEvents) /\ es # <<>> /\ Head(es) = Created(Manifest(row).limits)
      /\ ReplayFrom({Empty}, es) = {Replayed(row)}
    <2>1. /\ row \in Rows /\ es # <<>> /\ Head(es) = Created(Manifest(row).limits)
          /\ ReplayEvents(es) = {Replayed(row)}
        BY RowFacts
    <2>2. es \in Seq(StoreEvents) BY <2>1 DEF Rows
    <2>. QED BY <2>1, <2>2 DEF ReplayEvents
<1>. HIDE DEF es
<1>2. ReplayFrom({Empty}, es \o evs) = ReplayFrom(ReplayFrom({Empty}, es), evs)
    BY <1>1, Continue
<1>3. es \o evs \in Seq(StoreEvents) /\ es \o evs # <<>> /\ Head(es \o evs) = Head(es)
    BY <1>1
<1>. QED BY <1>1, <1>2, <1>3 DEF es, ReplayEvents

\* What is known of a row n that is staged from row: evs are appended, and h
\* are the revisions, of which m is the last.
StagedFrom(row, n, evs, h, m, used, reserved) ==
    /\ n \in Rows /\ n # NoRow /\ Manifest(n) = m
    /\ n.budget.used = used /\ n.budget.reserved = reserved
    /\ VerifiedRoot(n) => ReplayFrom({Replayed(row)}, evs) # {}
    /\ \A t : ReplayFrom({Replayed(row)}, evs) = {t} =>
         /\ Replayed(n) = t
         /\ Between(t) /\ VerifiedRoot(n) => RowInv(n)
         /\ /\ Agrees(t, m, used, reserved) /\ m.limits = Manifest(row).limits
            /\ HistoryValid(h)
            => VerifiedRoot(n)

(* A staged row.                                                           *)
LEMMA StagedRow ==
    ASSUME NEW row, RowInv(row), NEW evs \in Seq(StoreEvents),
           NEW h \in Seq(Manifests), h # <<>>, NEW m, m = h[Len(h)],
           NEW used \in BudgetUsage, NEW reserved \in BudgetUsage, NEW n,
           n = Row(h, row.events \o evs, row.budget.limits, used, reserved)
    PROVE  StagedFrom(row, n, evs, h, m, used, reserved)
<1>. DEFINE es == row.events \o evs
<1>1. row \in Rows /\ row.budget.limits \in Caps /\ row.budget.limits = Manifest(row).limits
    BY RowFacts DEF Rows
<1>2. /\ es \in Seq(StoreEvents) /\ es # <<>> /\ Head(es) = Created(Manifest(row).limits)
      /\ ReplayEvents(es) = ReplayFrom({Replayed(row)}, evs)
    BY ExtendedStream
<1>. HIDE DEF es
<1>3. /\ n.history = h /\ n.events = es /\ n.budget.limits = row.budget.limits
      /\ n.budget.used = used /\ n.budget.reserved = reserved
    BY DEF Row, es
<1>4. n \in Rows BY <1>1, <1>2 DEF Row, Rows, es
<1>5. n # NoRow BY <1>3 DEF NoRow
<1>6. Manifest(n) = m BY <1>3 DEF Manifest
<1>7. VerifiedRoot(n) => ReplayFrom({Replayed(row)}, evs) # {}
    BY <1>2, <1>3 DEF VerifiedRoot
<1>8. ASSUME NEW t, ReplayFrom({Replayed(row)}, evs) = {t}
      PROVE  /\ Replayed(n) = t
             /\ Between(t) /\ VerifiedRoot(n) => RowInv(n)
             /\ /\ Agrees(t, m, used, reserved) /\ m.limits = Manifest(row).limits
                /\ HistoryValid(h)
                => VerifiedRoot(n)
    <2>1. ReplayEvents(n.events) = {t} BY <1>2, <1>3, <1>8
    <2>2. Replayed(n) = t BY <2>1, VerifiedMeans
    <2>3. Between(t) /\ VerifiedRoot(n) => RowInv(n)
        BY <1>2, <1>3, <1>4, <2>1 DEF RowInv
    <2>4. ASSUME Agrees(t, m, used, reserved), m.limits = Manifest(row).limits, HistoryValid(h)
          PROVE  VerifiedRoot(n)
        <3>1. HistoryValid(n.history) BY <1>3, <2>4
        <3>2. /\ Head(n.events) = Created(Manifest(n).limits)
              /\ n.budget.limits = Manifest(n).limits
            BY <1>1, <1>2, <1>3, <1>6, <2>4
        <3>3. Agrees(t, Manifest(n), n.budget.used, n.budget.reserved) BY <1>3, <1>6, <2>4
        <3>. QED BY <2>1, <3>1, <3>2, <3>3, VerifiedMeans
    <2>. QED BY <2>2, <2>3, <2>4
<1>. QED BY <1>3, <1>4, <1>5, <1>6, <1>7, <1>8 DEF StagedFrom

RunRecords ==
    [status : Statuses, limits : Caps,
     request : {"not_started", "started", "completed", "ambiguous"},
     maximum : BudgetUsage, reported : BudgetUsage, used : BudgetUsage, reserved : BudgetUsage,
     artifacts : SUBSET ArtifactNames, absent : SUBSET ExpectedNames, reason : Reasons]

\* The record a that the callers are promised, for a row that exists.
Shows(a, m, s, used, reserved) ==
    /\ a \in RunRecords
    /\ a.status = m.status /\ a.limits = m.limits /\ a.request = s.request
    /\ a.maximum = s.maximum /\ a.reported = s.reported /\ a.used = used /\ a.reserved = reserved
    /\ a.artifacts = m.artifacts /\ a.absent = s.absent /\ a.reason = m.reason

(* Records of the ledger that agree on every field are equal.              *)
LEMMA RunEqual ==
    ASSUME NEW a \in RunRecords, NEW b \in RunRecords,
           a.status = b.status, a.limits = b.limits, a.request = b.request,
           a.maximum = b.maximum, a.reported = b.reported, a.used = b.used, a.reserved = b.reserved,
           a.artifacts = b.artifacts, a.absent = b.absent, a.reason = b.reason
    PROVE  a = b
BY DEF RunRecords

(* Only one record shows a given manifest, replayed state and budget.      *)
LEMMA ShowsOne ==
    ASSUME NEW m, NEW s, NEW used, NEW reserved, NEW a, NEW b,
           Shows(a, m, s, used, reserved), Shows(b, m, s, used, reserved)
    PROVE  a = b
BY RunEqual DEF Shows

(* What a row stands for.                                                  *)
LEMMA AbstractRow ==
    ASSUME NEW row, row # NoRow, NEW m \in Manifests, m = Manifest(row),
           NEW s \in ReplayState, s = Replayed(row),
           NEW used \in BudgetUsage, used = row.budget.used,
           NEW reserved \in BudgetUsage, reserved = row.budget.reserved
    PROVE  Shows(AbstractRun(row), m, s, used, reserved)
<1>1. AbstractRun(row) =
        [status |-> m.status, limits |-> m.limits, request |-> s.request, maximum |-> s.maximum,
         reported |-> s.reported,
         used |-> used, reserved |-> reserved, artifacts |-> m.artifacts, absent |-> s.absent,
         reason |-> m.reason]
    BY DEF AbstractRun
<1>. QED BY <1>1 DEF Shows, RunRecords, Manifests, ReplayState

(* The parts of a staged row.                                              *)
LEMMA StagedParts ==
    ASSUME NEW row \in Rows, NEW evs, NEW m, NEW used, NEW reserved
    PROVE  /\ Save(AppendEvents(row, evs), m)
                = Row(Append(row.history, m), row.events \o evs, row.budget.limits,
                      row.budget.used, row.budget.reserved)
           /\ UpdateBudget(Save(AppendEvents(row, evs), m), used, reserved)
                = Row(Append(row.history, m), row.events \o evs, row.budget.limits,
                      used, reserved)
           /\ UpdateBudget(AppendEvents(row, evs), used, reserved)
                = Row(row.history, row.events \o evs, row.budget.limits, used, reserved)
<1>. DEFINE h == row.history
            e == row.events
            l == row.budget.limits
            u == row.budget.used
            v == row.budget.reserved
            all == e \o evs
            saved == Append(h, m)
<1>1. row = Row(h, e, l, u, v) BY DEF Rows, Row
<1>2. row.events = e /\ row.history = h OBVIOUS
<1>. HIDE DEF h, e, l, u, v
<1>3. AppendEvents(row, evs) = Row(h, all, l, u, v)
    <2>1. AppendEvents(row, evs) = [row EXCEPT !.events = all] BY <1>2 DEF AppendEvents
    <2>. HIDE DEF all
    <2>. QED BY <1>1, <2>1 DEF Row
<1>. HIDE DEF all
<1>4. Save(AppendEvents(row, evs), m) = Row(saved, all, l, u, v)
    <2>1. Row(h, all, l, u, v).history = h BY DEF Row
    <2>2. Save(Row(h, all, l, u, v), m) = [Row(h, all, l, u, v) EXCEPT !.history = saved]
        BY <2>1 DEF Save
    <2>. HIDE DEF saved
    <2>3. [Row(h, all, l, u, v) EXCEPT !.history = saved] = Row(saved, all, l, u, v) BY DEF Row
    <2>. QED BY <1>3, <2>2, <2>3
<1>. HIDE DEF saved
<1>5. ASSUME NEW x, NEW y PROVE UpdateBudget(Row(x, y, l, u, v), used, reserved)
                                  = Row(x, y, l, used, reserved)
    <2>. DEFINE b == [limits |-> l, used |-> u, reserved |-> v]
                c == [limits |-> l, used |-> used, reserved |-> reserved]
    <2>1. b.limits = l OBVIOUS
    <2>2. Row(x, y, l, u, v).budget = b BY DEF Row
    <2>3. UpdateBudget(Row(x, y, l, u, v), used, reserved) =
            [Row(x, y, l, u, v) EXCEPT !.budget = c]
        BY <2>1, <2>2 DEF UpdateBudget
    <2>. QED BY <2>3 DEF Row
<1>6. UpdateBudget(Save(AppendEvents(row, evs), m), used, reserved)
        = Row(saved, all, l, used, reserved)
    BY <1>4, <1>5
<1>7. UpdateBudget(AppendEvents(row, evs), used, reserved) = Row(h, all, l, used, reserved)
    BY <1>3, <1>5
<1>. QED BY <1>4, <1>6, <1>7 DEF h, e, l, u, v, all, saved

(* The fields of a committed row.                                          *)
LEMMA RowFields ==
    ASSUME NEW row, RowInv(row), NEW m, m = Manifest(row), NEW s, s = Replayed(row)
    PROVE  /\ row \in Rows /\ Between(s) /\ s \in ReplayState /\ row # NoRow
           /\ m \in Manifests /\ LifecycleValid(m)
           /\ s.status = m.status /\ s.artifacts = m.artifacts /\ s.returned = m.returned
           /\ s.used = row.budget.used /\ s.reserved = row.budget.reserved
           /\ s.used \in BudgetUsage /\ s.reserved \in BudgetUsage
           /\ Shows(AbstractRun(row), m, s, s.used, s.reserved)
<1>1. /\ row \in Rows /\ row # NoRow /\ Between(s) /\ m \in Manifests /\ LifecycleValid(m)
      /\ Agrees(s, m, row.budget.used, row.budget.reserved)
    BY RowFacts
<1>2. s \in ReplayState BY <1>1 DEF Between, ReplayInv
<1>3. s.used \in BudgetUsage /\ s.reserved \in BudgetUsage BY <1>2 DEF ReplayState
<1>4. s.used = row.budget.used /\ s.reserved = row.budget.reserved BY <1>1 DEF Agrees
<1>5. Shows(AbstractRun(row), m, s, s.used, s.reserved)
    BY <1>1, <1>2, <1>3, <1>4, AbstractRow
<1>. QED BY <1>1, <1>2, <1>3, <1>4, <1>5 DEF Agrees

(* A row staged with one more revision.                                    *)
LEMMA SavedRow ==
    ASSUME NEW row, RowInv(row), NEW evs \in Seq(StoreEvents), NEW m \in Manifests,
           NEW used \in BudgetUsage, NEW reserved \in BudgetUsage, NEW n,
           n = Row(Append(row.history, m), row.events \o evs, row.budget.limits, used, reserved)
    PROVE  StagedFrom(row, n, evs, Append(row.history, m), m, used, reserved)
<1>1. row.history \in Seq(Manifests) /\ row.history # <<>> /\ HistoryValid(row.history)
    BY RowFacts DEF Rows
<1>. DEFINE h == Append(row.history, m)
<1>2. h \in Seq(Manifests) /\ h # <<>> /\ h[Len(h)] = m BY <1>1, SavedHistory
<1>. HIDE DEF h
<1>3. n = Row(h, row.events \o evs, row.budget.limits, used, reserved) BY DEF h
<1>4. StagedFrom(row, n, evs, h, m, used, reserved) BY <1>2, <1>3, StagedRow
<1>. QED BY <1>4 DEF h

(* The revision is a valid one.                                            *)
LEMMA SavedValid ==
    ASSUME NEW row, RowInv(row), NEW m \in Manifests,
           LifecycleValid(m), ManifestTransition(Manifest(row), m)
    PROVE  HistoryValid(Append(row.history, m))
<1>1. row.history \in Seq(Manifests) /\ row.history # <<>> /\ HistoryValid(row.history)
    BY RowFacts DEF Rows
<1>. QED BY <1>1, SavedHistory DEF Manifest

\* What a transaction on row that stages n amounts to, if the appended events
\* replay to t and the saved revision is m.
Yields(row, n, m, t, used, reserved) ==
    /\ n \in Rows /\ n # NoRow
    /\ VerifiedRoot(n) => RowInv(n)
    /\ Shows(AbstractRun(n), m, t, used, reserved)
    /\ /\ Agrees(t, m, used, reserved) /\ m.limits = Manifest(row).limits
       /\ LifecycleValid(m) /\ ManifestTransition(Manifest(row), m)
       => VerifiedRoot(n)

(* What staging a revision and its events leads to.                        *)
LEMMA StageYields ==
    ASSUME NEW row, RowInv(row), NEW evs \in Seq(StoreEvents), NEW m \in Manifests,
           NEW used \in BudgetUsage, NEW reserved \in BudgetUsage, NEW n,
           n = Row(Append(row.history, m), row.events \o evs, row.budget.limits, used, reserved),
           NEW s, s = Replayed(row), NEW t, ReplayFrom({s}, evs) = {t}, Between(t)
    PROVE  Yields(row, n, m, t, used, reserved)
<1>. DEFINE h == Append(row.history, m)
<1>1. StagedFrom(row, n, evs, h, m, used, reserved) BY SavedRow
<1>2. LifecycleValid(m) /\ ManifestTransition(Manifest(row), m) => HistoryValid(h)
    BY SavedValid
<1>. HIDE DEF h
<1>3. /\ n \in Rows /\ n # NoRow /\ Manifest(n) = m /\ Replayed(n) = t
      /\ n.budget.used = used /\ n.budget.reserved = reserved
      /\ VerifiedRoot(n) => RowInv(n)
      /\ Agrees(t, m, used, reserved) /\ m.limits = Manifest(row).limits /\ HistoryValid(h)
         => VerifiedRoot(n)
    BY <1>1 DEF StagedFrom
<1>4. Shows(AbstractRun(n), m, t, used, reserved)
    <2>1. t \in ReplayState BY DEF Between, ReplayInv
    <2>. QED BY <1>3, <2>1, AbstractRow
<1>. QED BY <1>2, <1>3, <1>4 DEF Yields

(* start_run.                                                              *)
LEMMA StagedStart ==
    ASSUME NEW row, RowInv(row), Manifest(row).status = "pending", NEW now \in Times,
           NEW n, n = StageStart(row, now)
    PROVE  /\ n \in Rows /\ n # NoRow
           /\ VerifiedRoot(n) => RowInv(n)
           /\ AbstractRun(n) = [AbstractRun(row) EXCEPT !.status = "running"]
           /\ now >= Manifest(row).created => VerifiedRoot(n)
<1>. DEFINE evs == <<Started>>
            m == [Manifest(row) EXCEPT !.status = "running", !.started = now]
<1>1. PICK old, s : old = Manifest(row) /\ s = Replayed(row) OBVIOUS
<1>2. /\ row \in Rows /\ Between(s) /\ old \in Manifests /\ LifecycleValid(old)
      /\ s.status = old.status /\ s.artifacts = old.artifacts /\ s.returned = old.returned
      /\ s.used = row.budget.used /\ s.reserved = row.budget.reserved
      /\ s.used \in BudgetUsage /\ s.reserved \in BudgetUsage
      /\ Shows(AbstractRun(row), old, s, s.used, s.reserved)
    BY <1>1, RowFields
<1>3. n = Row(Append(row.history, m), row.events \o evs, row.budget.limits, s.used, s.reserved)
    BY <1>2, StagedParts DEF StageStart
<1>4. evs \in Seq(StoreEvents)
    <2>1. Started \in StoreEvents BY DEF StoreEvents
    <2>. QED BY <2>1
<1>5. /\ m \in Manifests /\ m.status = "running" /\ m.started = now
      /\ m.finished = old.finished /\ m.limits = old.limits /\ m.created = old.created
      /\ m.returned = old.returned /\ m.artifacts = old.artifacts /\ m.reason = old.reason
    BY <1>1, <1>2 DEF Manifests, Statuses
<1>6. PICK t : /\ ReplayFrom({s}, evs) = {t} /\ Between(t) /\ t.status = "running"
               /\ SameBudget(s, t) /\ SameEvidence(s, t) /\ SameRest(s, t)
    BY <1>1, <1>2, StartPhase
<1>. HIDE DEF m, evs
<1>7. Yields(row, n, m, t, s.used, s.reserved)
    BY <1>1, <1>2, <1>3, <1>4, <1>5, <1>6, StageYields
<1>8. AbstractRun(n) = [AbstractRun(row) EXCEPT !.status = "running"]
    <2>. DEFINE a == AbstractRun(row)
                b == AbstractRun(n)
                c == [a EXCEPT !.status = "running"]
    <2>1. Shows(a, old, s, s.used, s.reserved) /\ Shows(b, m, t, s.used, s.reserved)
        BY <1>2, <1>7 DEF Yields
    <2>. HIDE DEF a, b
    <2>2. Shows(c, m, t, s.used, s.reserved)
        <3>1. /\ c \in RunRecords /\ c.status = "running" /\ c.limits = a.limits
              /\ c.request = a.request /\ c.maximum = a.maximum /\ c.reported = a.reported
              /\ c.used = a.used
              /\ c.reserved = a.reserved /\ c.artifacts = a.artifacts
              /\ c.absent = a.absent /\ c.reason = a.reason
            BY <2>1 DEF Shows, RunRecords, Statuses
        <3>. HIDE DEF c
        <3>. QED BY <1>5, <1>6, <2>1, <3>1 DEF Shows, SameBudget, SameEvidence
    <2>3. b = c BY <2>1, <2>2, ShowsOne
    <2>. QED BY <2>3 DEF a, b
<1>9. ASSUME now >= old.created PROVE VerifiedRoot(n)
    <2>1. old.status = "pending" /\ ~IsTerminal("pending") /\ ~IsTerminal("running")
        BY <1>1, ActiveStatus
    <2>2. old.started = NoTime /\ old.finished = NoTime /\ old.reason = None
        BY <1>2, <2>1 DEF LifecycleValid
    <2>3. now # NoTime BY TimesType DEF NoTime
    <2>4. LifecycleValid(m) BY <1>5, <1>9, <2>2, <2>3 DEF LifecycleValid
    <2>5. ManifestTransition(old, m) BY <1>5, <2>1, <2>2 DEF ManifestTransition
    <2>6. Agrees(t, m, s.used, s.reserved)
        BY <1>2, <1>5, <1>6, <2>1 DEF Agrees, SameBudget, SameEvidence, SameRest
    <2>. QED BY <1>1, <1>5, <1>7, <2>4, <2>5, <2>6 DEF Yields
<1>. QED BY <1>1, <1>7, <1>8, <1>9 DEF Yields

(* create_run.                                                             *)
LEMMA StagedCreation ==
    ASSUME NEW limits \in Caps, NEW now \in Times, NEW n, n = StageCreation(limits, now)
    PROVE  /\ RowInv(n)
           /\ AbstractRun(n) =
                [status |-> "pending", limits |-> limits, request |-> "not_started",
                 maximum |-> NoUsage, reported |-> NoUsage, used |-> NoUsage, reserved |-> NoUsage,
                 artifacts |-> {}, absent |-> {}, reason |-> None]
<1>. DEFINE m == [status |-> "pending", limits |-> limits, created |-> now, started |-> NoTime,
                  finished |-> NoTime, returned |-> FALSE, artifacts |-> {}, reason |-> None]
            e == Created(limits)
            t == [Empty EXCEPT !.created = TRUE]
<1>1. n = Row(<<m>>, <<e>>, limits, NoUsage, NoUsage) BY DEF StageCreation, Row
<1>2. m \in Manifests BY DEF Manifests, Statuses, Reasons, None
<1>3. /\ m.status = "pending" /\ m.limits = limits /\ m.started = NoTime /\ m.finished = NoTime
      /\ m.reason = None /\ m.artifacts = {} /\ m.returned = FALSE
    OBVIOUS
<1>4. /\ t.status = "pending" /\ t.artifacts = {} /\ t.returned = FALSE /\ t.created
      /\ t.used = NoUsage /\ t.reserved = NoUsage /\ t.maximum = NoUsage /\ t.reported = NoUsage
      /\ t.absent = {}
      /\ t.request = "not_started" /\ t.pending = None /\ t.outcome = None /\ t.reason = None
    BY DEF Empty
<1>5. e \in StoreEvents /\ Legal(Empty, e) /\ Apply(Empty, e) = t
    <2>1. Legal(Empty, e) BY ActiveStatus DEF Legal, Created, Empty
    <2>2. Apply(Empty, e) = t BY DEF Apply, Created
    <2>. QED BY <2>1, <2>2 DEF StoreEvents
<1>6. ReplayInv(t)
    <2>1. t \in ReplayState
        <3>1. Empty \in ReplayState BY EmptyInv DEF ReplayInv
        <3>. QED BY <3>1 DEF ReplayState
    <2>. HIDE DEF t
    <2>2. BudgetInv(t) BY <1>4 DEF BudgetInv, None
    <2>3. PhaseInv(t) BY <1>4, ActiveStatus DEF PhaseInv
    <2>. QED BY <2>1, <2>2, <2>3 DEF ReplayInv
<1>. HIDE DEF m, t
<1>7. Between(t) BY <1>4, <1>6 DEF Between
<1>8. ReplayEvents(<<e>>) = {t} BY <1>5, ReplayOne DEF ReplayEvents
<1>. HIDE DEF e
<1>9. /\ n.history = <<m>> /\ n.events = <<e>> /\ n.budget.limits = limits
      /\ n.budget.used = NoUsage /\ n.budget.reserved = NoUsage
    BY <1>1 DEF Row
<1>10. /\ <<m>> \in Seq(Manifests) /\ <<m>> # <<>> /\ Len(<<m>>) = 1 /\ <<m>>[1] = m
       /\ DOMAIN <<m>> = {1} /\ <<e>> \in Seq(StoreEvents) /\ <<e>> # <<>> /\ Head(<<e>>) = e
    BY <1>2, <1>5
<1>11. Manifest(n) = m BY <1>9, <1>10 DEF Manifest
<1>12. n \in Rows /\ n # NoRow
    <2>1. NoUsage \in BudgetUsage BY UsageArithmetic
    <2>2. n \in Rows BY <1>1, <1>10, <2>1 DEF Row, Rows
    <2>3. n # NoRow BY <1>9, <1>10 DEF NoRow
    <2>. QED BY <2>2, <2>3
<1>13. VerifiedRoot(n)
    <2>1. LifecycleValid(m) BY <1>3 DEF LifecycleValid, NoTime
    <2>2. HistoryValid(<<m>>) BY <1>10, <2>1 DEF HistoryValid
    <2>3. Agrees(t, m, NoUsage, NoUsage) BY <1>3, <1>4, ActiveStatus DEF Agrees
    <2>. QED BY <1>3, <1>8, <1>9, <1>10, <1>11, <2>2, <2>3, VerifiedMeans DEF e
<1>14. RowInv(n) BY <1>7, <1>8, <1>9, <1>10, <1>12, <1>13 DEF RowInv
<1>15. Replayed(n) = t BY <1>8, <1>9, VerifiedMeans
<1>. QED BY <1>3, <1>4, <1>9, <1>11, <1>12, <1>14, <1>15 DEF AbstractRun

(* record_artifact.                                                        *)
LEMMA StagedTaskSpec ==
    ASSUME NEW row, RowInv(row), Manifest(row).status = "running",
           Replayed(row).request = "not_started", "task_spec" \notin Manifest(row).artifacts,
           NEW n, n = StageTaskSpec(row)
    PROVE  /\ RowInv(n)
           /\ AbstractRun(n) = [AbstractRun(row) EXCEPT !.artifacts = @ \cup {"task_spec"}]
<1>. DEFINE evs == <<Recorded("task_spec")>>
            m == [Manifest(row) EXCEPT !.artifacts = @ \cup {"task_spec"}]
<1>1. PICK old, s : old = Manifest(row) /\ s = Replayed(row) OBVIOUS
<1>2. /\ row \in Rows /\ Between(s) /\ old \in Manifests /\ LifecycleValid(old)
      /\ s.status = old.status /\ s.artifacts = old.artifacts /\ s.returned = old.returned
      /\ s.used = row.budget.used /\ s.reserved = row.budget.reserved
      /\ s.used \in BudgetUsage /\ s.reserved \in BudgetUsage
      /\ Shows(AbstractRun(row), old, s, s.used, s.reserved)
    BY <1>1, RowFields
<1>3. n = Row(Append(row.history, m), row.events \o evs, row.budget.limits, s.used, s.reserved)
    BY <1>2, StagedParts DEF StageTaskSpec
<1>4. "task_spec" \in ArtifactNames /\ evs \in Seq(StoreEvents)
    <2>1. "task_spec" \in ArtifactNames BY DEF ArtifactNames, ExpectedNames
    <2>2. Recorded("task_spec") \in StoreEvents BY <2>1 DEF StoreEvents
    <2>. QED BY <2>1, <2>2
<1>5. /\ m \in Manifests /\ m.status = old.status /\ m.started = old.started
      /\ m.finished = old.finished /\ m.limits = old.limits /\ m.created = old.created
      /\ m.returned = old.returned /\ m.reason = old.reason
      /\ m.artifacts = old.artifacts \cup {"task_spec"}
    BY <1>1, <1>2, <1>4 DEF Manifests
<1>6. PICK t : /\ ReplayFrom({s}, evs) = {t} /\ Between(t)
               /\ t.status = "running" /\ t.artifacts = {"task_spec"} /\ t.absent = s.absent
               /\ SameBudget(s, t) /\ SameRest(s, t)
    BY <1>1, <1>2, TaskSpecPhase
<1>. HIDE DEF m, evs
<1>7. Yields(row, n, m, t, s.used, s.reserved)
    BY <1>1, <1>2, <1>3, <1>4, <1>5, <1>6, StageYields
<1>8. AbstractRun(n) = [AbstractRun(row) EXCEPT !.artifacts = @ \cup {"task_spec"}]
    <2>. DEFINE a == AbstractRun(row)
                b == AbstractRun(n)
                c == [a EXCEPT !.artifacts = @ \cup {"task_spec"}]
    <2>1. Shows(a, old, s, s.used, s.reserved) /\ Shows(b, m, t, s.used, s.reserved)
        BY <1>2, <1>7 DEF Yields
    <2>. HIDE DEF a, b
    <2>2. Shows(c, m, t, s.used, s.reserved)
        <3>1. /\ c \in RunRecords /\ c.status = a.status /\ c.limits = a.limits
              /\ c.request = a.request /\ c.maximum = a.maximum /\ c.reported = a.reported
              /\ c.used = a.used
              /\ c.reserved = a.reserved /\ c.artifacts = a.artifacts \cup {"task_spec"}
              /\ c.absent = a.absent /\ c.reason = a.reason
            BY <1>4, <2>1 DEF Shows, RunRecords
        <3>. HIDE DEF c
        <3>2. c.artifacts = m.artifacts BY <1>5, <2>1, <3>1 DEF Shows
        <3>. QED BY <1>5, <1>6, <2>1, <3>1, <3>2 DEF Shows, SameBudget
    <2>3. b = c BY <2>1, <2>2, ShowsOne
    <2>. QED BY <2>3 DEF a, b
<1>9. VerifiedRoot(n)
    <2>1. old.status = "running" /\ ~IsTerminal("running") BY <1>1, ActiveStatus
    <2>2. LifecycleValid(m) BY <1>2, <1>5 DEF LifecycleValid
    <2>3. ManifestTransition(old, m) BY <1>5, <2>1 DEF ManifestTransition
    <2>4. old.artifacts \cup {"task_spec"} = {"task_spec"}
        BY <1>1, <1>2, <2>1 DEF Between
    <2>5. Agrees(t, m, s.used, s.reserved)
        BY <1>2, <1>5, <1>6, <2>1, <2>4 DEF Agrees, SameBudget, SameRest
    <2>. QED BY <1>1, <1>5, <1>7, <2>2, <2>3, <2>5 DEF Yields
<1>. QED BY <1>7, <1>8, <1>9 DEF Yields

\* The row a model request stages: it verifies only in the phase that may
\* dispatch, and there always.
Requests(row, n, max, reserved) ==
    /\ n # NoRow
    /\ VerifiedRoot(n) =>
         /\ RowInv(n)
         /\ Replayed(row).request = "not_started"
         /\ Manifest(row).artifacts = {"task_spec"}
         /\ AbstractRun(n) = [AbstractRun(row) EXCEPT !.request = "started",
                                 !.maximum = max, !.reserved = reserved]
    /\ Replayed(row).request = "not_started" /\ Manifest(row).artifacts # {} =>
         VerifiedRoot(n)

(* start_model_request.                                                    *)
LEMMA StagedRequest ==
    ASSUME NEW row, RowInv(row), NEW id \in RequestIds, NEW max \in Usages,
           NEW used, NEW reserved, RequestLegal(row, max, used, reserved),
           NEW n, n = StageRequest(row, id, max, used, reserved)
    PROVE  Requests(row, n, max, reserved)
<1>1. PICK old, s : old = Manifest(row) /\ s = Replayed(row) OBVIOUS
<1>2. /\ row \in Rows /\ Between(s) /\ old \in Manifests /\ LifecycleValid(old)
      /\ s.status = old.status /\ s.artifacts = old.artifacts /\ s.returned = old.returned
      /\ s.used = row.budget.used /\ s.reserved = row.budget.reserved
      /\ s.used \in BudgetUsage /\ s.reserved \in BudgetUsage
      /\ Shows(AbstractRun(row), old, s, s.used, s.reserved)
    BY <1>1, RowFields
<1>3. /\ max.calls = 1 /\ old.status = "running" /\ max \in BudgetUsage
      /\ used = s.used /\ reserved = AddUsage(s.reserved, max)
    BY <1>1, <1>2, UsagesType DEF RequestLegal
<1>4. used \in BudgetUsage /\ reserved \in BudgetUsage BY <1>2, <1>3, UsageFacts
<1>. DEFINE evs == <<RequestStarted(id, max), Snapshot(used, reserved)>>
<1>5. n = Row(row.history, row.events \o evs, row.budget.limits, used, reserved)
    BY <1>2, StagedParts DEF StageRequest
<1>6. evs \in Seq(StoreEvents)
    <2>1. RequestStarted(id, max) \in StoreEvents /\ Snapshot(used, reserved) \in StoreEvents
        BY <1>4 DEF StoreEvents
    <2>. QED BY <2>1
<1>7. /\ ReplayFrom({s}, evs) # {} => s.request = "not_started" /\ s.artifacts = {"task_spec"}
      /\ s.request = "not_started" /\ s.artifacts = {"task_spec"} =>
           \E t : /\ ReplayFrom({s}, evs) = {t} /\ Between(t)
                  /\ t.status = "running" /\ t.request = "started" /\ t.maximum = max
                  /\ t.reported = s.reported
                  /\ t.used = used /\ t.reserved = reserved
                  /\ SameEvidence(s, t) /\ SameRest(s, t)
    <2>. DEFINE es == <<RequestStarted(id, max), Snapshot(s.used, AddUsage(s.reserved, max))>>
    <2>1. Between(s) /\ s.status = "running" /\ max \in BudgetUsage /\ max.calls = 1
        BY <1>2, <1>3
    <2>2. ReplayFrom({s}, es) # {} => s.request = "not_started" /\ s.artifacts = {"task_spec"}
        BY <2>1, RequestPhase
    <2>3. s.request = "not_started" /\ s.artifacts = {"task_spec"} =>
           \E t : ReplayFrom({s}, es) = {t} /\ Between(t) /\ Requested(s, t, max)
        BY <2>1, RequestPhase
    <2>4. es = evs BY <1>3
    <2>. HIDE DEF es, evs
    <2>. QED BY <1>3, <2>2, <2>3, <2>4 DEF Requested
<1>. HIDE DEF evs
<1>8. /\ row.history \in Seq(Manifests) /\ row.history # <<>> /\ HistoryValid(row.history)
      /\ old = row.history[Len(row.history)]
    BY <1>1, RowFacts DEF Rows, Manifest
<1>9. StagedFrom(row, n, evs, row.history, old, used, reserved)
    BY <1>4, <1>5, <1>6, <1>8, StagedRow
<1>10. VerifiedRoot(n) => s.request = "not_started" /\ s.artifacts = {"task_spec"}
    BY <1>1, <1>7, <1>9 DEF StagedFrom
<1>11. ASSUME s.request = "not_started", s.artifacts = {"task_spec"}
       PROVE  /\ VerifiedRoot(n) /\ RowInv(n)
              /\ AbstractRun(n) = [AbstractRun(row) EXCEPT !.request = "started",
                                      !.maximum = max, !.reserved = reserved]
    <2>1. PICK t : /\ ReplayFrom({s}, evs) = {t} /\ Between(t)
                   /\ t.status = "running" /\ t.request = "started" /\ t.maximum = max
                   /\ t.reported = s.reported
                   /\ t.used = used /\ t.reserved = reserved
                   /\ SameEvidence(s, t) /\ SameRest(s, t)
        BY <1>7, <1>11
    <2>2. Agrees(t, old, used, reserved)
        BY <1>2, <1>3, <2>1, ActiveStatus DEF Agrees, SameEvidence, SameRest
    <2>3. /\ n # NoRow /\ Manifest(n) = old /\ Replayed(n) = t
          /\ n.budget.used = used /\ n.budget.reserved = reserved
          /\ VerifiedRoot(n) /\ RowInv(n)
        BY <1>1, <1>8, <1>9, <2>1, <2>2 DEF StagedFrom
    <2>4. Shows(AbstractRun(n), old, t, used, reserved)
        <3>1. t \in ReplayState BY <2>1 DEF Between, ReplayInv
        <3>. QED BY <1>2, <1>4, <2>3, <3>1, AbstractRow
    <2>5. AbstractRun(n) = [AbstractRun(row) EXCEPT !.request = "started",
                                !.maximum = max, !.reserved = reserved]
        <3>. DEFINE a == AbstractRun(row)
                    c == [a EXCEPT !.request = "started", !.maximum = max,
                                   !.reserved = reserved]
        <3>1. Shows(a, old, s, s.used, s.reserved) BY <1>2
        <3>. HIDE DEF a
        <3>2. Shows(c, old, t, used, reserved)
            <4>1. /\ c \in RunRecords /\ c.status = a.status /\ c.limits = a.limits
                  /\ c.request = "started" /\ c.maximum = max /\ c.reported = a.reported
                  /\ c.used = a.used
                  /\ c.reserved = reserved /\ c.artifacts = a.artifacts
                  /\ c.absent = a.absent /\ c.reason = a.reason
                BY <1>3, <1>4, <3>1 DEF Shows, RunRecords
            <4>. HIDE DEF c
            <4>. QED BY <1>3, <2>1, <3>1, <4>1 DEF Shows, SameEvidence
        <3>3. AbstractRun(n) = c BY <2>4, <3>2, ShowsOne
        <3>. QED BY <3>3 DEF a
    <2>. QED BY <2>3, <2>5
<1>12. s.request = "not_started" /\ s.artifacts # {} => s.artifacts = {"task_spec"}
    BY <1>2, <1>3, ActiveStatus DEF Between
<1>13. n # NoRow BY <1>9 DEF StagedFrom
<1>. QED BY <1>1, <1>2, <1>10, <1>11, <1>12, <1>13 DEF Requests

\* The row a model response stages.
Responds(row, n, actual, used, reserved) ==
    /\ RowInv(n) /\ Manifest(row).status = "running"
    /\ Manifest(row).artifacts = {"task_spec"}
    /\ AbstractRun(n) = [AbstractRun(row) EXCEPT !.request = "completed", !.reported = actual,
                            !.used = used, !.reserved = reserved, !.artifacts = @ \cup {"patch"}]

(* complete_model_response.                                                *)
LEMMA StagedResponse ==
    ASSUME NEW row, RowInv(row), ActiveRow(row), NEW id, NEW actual \in Usages,
           NEW used, NEW reserved, ResponseLegal(row, id, actual, used, reserved),
           NEW n, n = StageResponse(row, id, actual, used, reserved)
    PROVE  Responds(row, n, actual, used, reserved)
<1>. DEFINE m == [Manifest(row) EXCEPT !.returned = TRUE, !.artifacts = @ \cup {"patch"}]
            evs == <<ResponseCompleted(id, actual), Snapshot(used, reserved), Recorded("patch")>>
<1>1. PICK old, s : old = Manifest(row) /\ s = Replayed(row) OBVIOUS
<1>2. /\ row \in Rows /\ Between(s) /\ old \in Manifests /\ LifecycleValid(old)
      /\ s.status = old.status /\ s.artifacts = old.artifacts /\ s.returned = old.returned
      /\ s.used = row.budget.used /\ s.reserved = row.budget.reserved
      /\ s.used \in BudgetUsage /\ s.reserved \in BudgetUsage
      /\ Shows(AbstractRun(row), old, s, s.used, s.reserved)
    BY <1>1, RowFields
<1>3. /\ s.request = "started" /\ s.id = id /\ actual \in BudgetUsage /\ actual.calls = 1
      /\ UsageAtMost(actual, s.maximum) /\ UsageAtMost(s.maximum, s.reserved)
      /\ used = AddUsage(s.used, actual) /\ reserved = SubtractUsage(s.reserved, s.maximum)
    BY <1>1, <1>2, UsagesType DEF ResponseLegal
<1>4. old.status = "running" /\ s.artifacts = {"task_spec"} /\ s.id \in RequestIds
    BY <1>1, <1>2, <1>3, ActiveStatus DEF ActiveRow, Between
<1>5. PICK t : /\ ReplayFrom({s}, evs) = {t} /\ Between(t)
               /\ t.status = "running" /\ t.request = "completed" /\ t.maximum = s.maximum
               /\ t.reported = actual
               /\ t.used = used /\ t.reserved = reserved /\ reserved = NoUsage
               /\ t.artifacts = s.artifacts \cup {"patch"} /\ t.absent = s.absent
               /\ t.returned /\ t.reason = s.reason
    BY <1>2, <1>3, <1>4, ResponsePhase
<1>6. used \in BudgetUsage /\ reserved \in BudgetUsage
    BY <1>2, <1>3, <1>5, UsageFacts, UsageArithmetic
<1>7. "patch" \in ArtifactNames /\ evs \in Seq(StoreEvents)
    <2>1. "patch" \in ArtifactNames BY DEF ArtifactNames, ExpectedNames
    <2>2. /\ ResponseCompleted(id, actual) \in StoreEvents /\ Recorded("patch") \in StoreEvents
          /\ Snapshot(used, reserved) \in StoreEvents
        BY <1>3, <1>4, <1>6, <2>1 DEF StoreEvents
    <2>. QED BY <2>1, <2>2
<1>8. n = Row(Append(row.history, m), row.events \o evs, row.budget.limits, used, reserved)
    BY <1>2, StagedParts DEF StageResponse
<1>9. /\ m \in Manifests /\ m.status = old.status /\ m.started = old.started
      /\ m.finished = old.finished /\ m.limits = old.limits /\ m.created = old.created
      /\ m.returned = TRUE /\ m.reason = old.reason
      /\ m.artifacts = old.artifacts \cup {"patch"}
    BY <1>1, <1>2, <1>7 DEF Manifests
<1>. HIDE DEF m, evs
<1>10. Yields(row, n, m, t, used, reserved)
    BY <1>1, <1>5, <1>6, <1>7, <1>8, <1>9, StageYields
<1>11. AbstractRun(n) = [AbstractRun(row) EXCEPT !.request = "completed", !.reported = actual,
                            !.used = used, !.reserved = reserved, !.artifacts = @ \cup {"patch"}]
    <2>. DEFINE a == AbstractRun(row)
                c == [a EXCEPT !.request = "completed", !.reported = actual, !.used = used,
                               !.reserved = reserved, !.artifacts = @ \cup {"patch"}]
    <2>1. Shows(a, old, s, s.used, s.reserved) /\ Shows(AbstractRun(n), m, t, used, reserved)
        BY <1>2, <1>10 DEF Yields
    <2>. HIDE DEF a
    <2>2. Shows(c, m, t, used, reserved)
        <3>1. /\ c \in RunRecords /\ c.status = a.status /\ c.limits = a.limits
              /\ c.request = "completed" /\ c.maximum = a.maximum /\ c.reported = actual
              /\ c.used = used
              /\ c.reserved = reserved /\ c.artifacts = a.artifacts \cup {"patch"}
              /\ c.absent = a.absent /\ c.reason = a.reason
            <4>1. a \in RunRecords /\ actual \in BudgetUsage BY <1>3, <2>1 DEF Shows
            <4>. QED BY <1>6, <1>7, <4>1 DEF RunRecords
        <3>. HIDE DEF c
        <3>2. c.artifacts = m.artifacts BY <1>9, <2>1, <3>1 DEF Shows
        <3>. QED BY <1>5, <1>9, <2>1, <3>1, <3>2 DEF Shows
    <2>3. AbstractRun(n) = c BY <2>1, <2>2, ShowsOne
    <2>. QED BY <2>3 DEF a
<1>12. VerifiedRoot(n)
    <2>1. ~IsTerminal("running") BY ActiveStatus
    <2>2. LifecycleValid(m) BY <1>2, <1>9 DEF LifecycleValid
    <2>3. ManifestTransition(old, m) BY <1>4, <1>9, <2>1 DEF ManifestTransition
    <2>4. t.returned = TRUE
        <3>1. t.returned \in BOOLEAN BY <1>5 DEF Between, ReplayInv, ReplayState
        <3>. QED BY <1>5, <3>1
    <2>5. Agrees(t, m, used, reserved) BY <1>2, <1>4, <1>5, <1>9, <2>1, <2>4 DEF Agrees
    <2>. QED BY <1>1, <1>9, <1>10, <2>2, <2>3, <2>5 DEF Yields
<1>. QED BY <1>1, <1>2, <1>4, <1>10, <1>11, <1>12 DEF Yields, Responds

\* The row an evaluation stages: it verifies only with a reason that fits
\* the status, and then whenever the clock has not stepped back.
Scores(row, n, names, status, reason, now) ==
    /\ Manifest(row).artifacts = {"task_spec", "patch"} /\ n # NoRow
    /\ VerifiedRoot(n) =>
         /\ RowInv(n)
         /\ AbstractRun(n) =
              [AbstractRun(row) EXCEPT !.status = status, !.artifacts = @ \cup names,
                 !.reason = IF status = "succeeded" THEN "none" ELSE "evaluator_status"]
    /\ (reason = None) = (status = "succeeded") /\ now >= Manifest(row).started =>
         VerifiedRoot(n)

(* complete_evaluation_with_events.                                        *)
LEMMA StagedEvaluation ==
    ASSUME NEW row, RowInv(row), NEW now \in Times, NEW names, NEW outcome \in Outcomes,
           NEW status \in TerminalStatuses, NEW reason \in {None, "evaluator_status"},
           NEW used, NEW reserved, EvaluationLegal(row, names, outcome, status, used, reserved),
           NEW n, n = StageEvaluation(row, names, outcome, status, reason, now, used, reserved)
    PROVE  Scores(row, n, names, status, reason, now)
<1>. DEFINE m == [Manifest(row) EXCEPT !.status = status, !.finished = now, !.reason = reason,
                                       !.artifacts = @ \cup names]
            evs == EvidenceEvents(names)
                   \o <<EvaluationCompleted(outcome), Snapshot(used, reserved),
                        TerminalEvent(status, outcome, reason)>>
            fits == (reason = None) = (status = "succeeded")
<1>1. PICK old, s : old = Manifest(row) /\ s = Replayed(row) OBVIOUS
<1>2. /\ row \in Rows /\ Between(s) /\ old \in Manifests /\ LifecycleValid(old)
      /\ s.status = old.status /\ s.artifacts = old.artifacts /\ s.returned = old.returned
      /\ s.used = row.budget.used /\ s.reserved = row.budget.reserved
      /\ s.used \in BudgetUsage /\ s.reserved \in BudgetUsage
      /\ Shows(AbstractRun(row), old, s, s.used, s.reserved)
    BY <1>1, RowFields
<1>3. /\ names \in EvidenceSets /\ old.status = "running" /\ s.request = "completed"
      /\ StatusMatchesOutcome(status, outcome)
      /\ used = s.used /\ reserved = s.reserved /\ reserved = NoUsage
    BY <1>1, <1>2 DEF EvaluationLegal
<1>4. s.artifacts = {"task_spec", "patch"} BY <1>2, <1>3, ActiveStatus DEF Between
<1>5. reason \in Reasons BY DEF Reasons, None
<1>6. Evaluates(s, evs, names, status, reason)
    <2>. DEFINE es == EvidenceEvents(names)
                      \o <<EvaluationCompleted(outcome), Snapshot(s.used, NoUsage),
                           TerminalEvent(status, outcome, reason)>>
    <2>1. /\ Between(s) /\ s.status = "running" /\ s.request = "completed"
          /\ names \in EvidenceSets /\ StatusMatchesOutcome(status, outcome)
          /\ reason \in Reasons
        BY <1>2, <1>3, <1>5
    <2>2. Evaluates(s, es, names, status, reason) BY <2>1, EvaluationPhase
    <2>3. es = evs BY <1>3
    <2>. HIDE DEF es, evs
    <2>. QED BY <2>2, <2>3
<1>7. names \in SUBSET ArtifactNames
    BY <1>3 DEF EvidenceSets, ArtifactNames, ExpectedNames
<1>8. n = Row(Append(row.history, m), row.events \o evs, row.budget.limits, used, reserved)
    BY <1>2, StagedParts DEF StageEvaluation
<1>9. /\ m \in Manifests /\ m.status = status /\ m.started = old.started
      /\ m.finished = now /\ m.limits = old.limits /\ m.created = old.created
      /\ m.returned = old.returned /\ m.reason = reason
      /\ m.artifacts = old.artifacts \cup names
    <2>1. status \in Statuses \ {"absent"} BY DEF Statuses, TerminalStatuses, EvaluationStatuses
    <2>. QED BY <1>1, <1>2, <1>5, <1>7, <2>1 DEF Manifests
<1>. HIDE DEF m, evs
<1>10. n # NoRow /\ (VerifiedRoot(n) => fits)
    <2>1. StagedFrom(row, n, evs, Append(row.history, m), m, used, reserved)
        BY <1>2, <1>3, <1>6, <1>8, <1>9, SavedRow DEF Evaluates
    <2>. QED BY <1>1, <1>6, <2>1 DEF StagedFrom, Evaluates
<1>11. ASSUME fits
       PROVE  /\ VerifiedRoot(n) => RowInv(n)
              /\ AbstractRun(n) =
                     [AbstractRun(row) EXCEPT !.status = status, !.artifacts = @ \cup names,
                        !.reason = IF status = "succeeded" THEN "none" ELSE "evaluator_status"]
              /\ now >= old.started => VerifiedRoot(n)
    <2>1. PICK t : /\ ReplayFrom({s}, evs) = {t} /\ Between(t) /\ Complete(t)
                   /\ t.status = status /\ t.reason = reason /\ t.returned = s.returned
                   /\ t.artifacts = s.artifacts \cup names /\ t.absent = s.absent
                   /\ SameBudget(s, t)
        BY <1>6, <1>11 DEF Evaluates
    <2>2. Yields(row, n, m, t, used, reserved)
        BY <1>1, <1>2, <1>3, <1>6, <1>8, <1>9, <2>1, StageYields DEF Evaluates
    <2>3. AbstractRun(n) =
             [AbstractRun(row) EXCEPT !.status = status, !.artifacts = @ \cup names,
                !.reason = IF status = "succeeded" THEN "none" ELSE "evaluator_status"]
        <3>. DEFINE a == AbstractRun(row)
                    why == IF status = "succeeded" THEN "none" ELSE "evaluator_status"
                    c == [a EXCEPT !.status = status, !.artifacts = @ \cup names,
                                   !.reason = why]
        <3>1. why = reason /\ status \in Statuses
            BY <1>11 DEF None, Statuses, TerminalStatuses
        <3>2. Shows(a, old, s, s.used, s.reserved) /\ Shows(AbstractRun(n), m, t, used, reserved)
            BY <1>2, <2>2 DEF Yields
        <3>. HIDE DEF a, why
        <3>3. Shows(c, m, t, used, reserved)
            <4>1. /\ c \in RunRecords /\ c.status = status /\ c.limits = a.limits
                  /\ c.request = a.request /\ c.maximum = a.maximum /\ c.reported = a.reported
                  /\ c.used = a.used
                  /\ c.reserved = a.reserved /\ c.artifacts = a.artifacts \cup names
                  /\ c.absent = a.absent /\ c.reason = why
                BY <1>5, <1>7, <3>1, <3>2 DEF Shows, RunRecords
            <4>. HIDE DEF c
            <4>2. c.artifacts = m.artifacts BY <1>9, <3>2, <4>1 DEF Shows
            <4>. QED BY <1>3, <1>9, <2>1, <3>1, <3>2, <4>1, <4>2 DEF Shows, SameBudget
        <3>4. AbstractRun(n) = c BY <3>2, <3>3, ShowsOne
        <3>. QED BY <3>4 DEF a, why
    <2>4. ASSUME now >= old.started PROVE VerifiedRoot(n)
        <3>1. old.started # NoTime /\ old.started >= old.created
            BY <1>2, <1>3 DEF LifecycleValid
        <3>2. /\ old.started \in Nat /\ old.created \in Nat /\ now \in Nat
              /\ now # NoTime /\ now >= old.created
            <4>1. old.started \in Times /\ old.created \in Times BY <1>2, <3>1 DEF Manifests
            <4>2. old.started \in Nat /\ old.created \in Nat /\ now \in Nat BY <4>1, TimesType
            <4>. QED BY <2>4, <3>1, <4>2 DEF NoTime
        <3>3. status # "pending" /\ status # "running"
            BY DEF TerminalStatuses, EvaluationStatuses
        <3>4. LifecycleValid(m)
            BY <1>9, <1>11, <2>4, <3>1, <3>2, <3>3 DEF LifecycleValid
        <3>5. ManifestTransition(old, m)
            BY <1>3, <1>9, <3>3, ActiveStatus DEF ManifestTransition
        <3>6. Agrees(t, m, used, reserved)
            BY <1>2, <1>3, <1>9, <2>1 DEF Agrees, SameBudget
        <3>. QED BY <1>1, <1>9, <2>2, <3>4, <3>5, <3>6 DEF Yields
    <2>. QED BY <2>2, <2>3, <2>4 DEF Yields
<1>. QED BY <1>1, <1>2, <1>4, <1>10, <1>11 DEF Scores

(* The end that recovery and exhaustion save is never before the start.    *)
LEMMA SafeFinish ==
    ASSUME NEW m \in Manifests, LifecycleValid(m), NEW now \in Times
    PROVE  LET f == SafeFinished(m, now) IN
           f \in Times /\ f # NoTime /\ f >= m.created /\ f >= m.started
<1>1. m.created \in Times /\ m.started \in Times \cup {NoTime} BY DEF Manifests
<1>2. now \in Nat /\ m.created \in Nat /\ (m.started # NoTime => m.started \in Nat)
    BY <1>1, TimesType
<1>3. m.started # NoTime => m.started >= m.created BY DEF LifecycleValid
<1>4. CASE m.started = NoTime BY <1>1, <1>2, <1>4 DEF SafeFinished, NoTime
<1>5. CASE m.started # NoTime BY <1>1, <1>2, <1>3, <1>5 DEF SafeFinished, NoTime
<1>. QED BY <1>4, <1>5

\* The revision that ends a run.
EndRevision(old, st, why, now) ==
    [old EXCEPT !.status = st, !.reason = why, !.finished = SafeFinished(old, now)]

(* A row that ends a run verifies, whatever the clock says.                *)
LEMMA StagedEnd ==
    ASSUME NEW row, RowInv(row), ActiveRow(row), NEW now \in Times,
           NEW st \in {"infrastructure_error", "budget_exhausted"},
           NEW why \in Reasons, why # None, NEW used \in BudgetUsage,
           NEW evs \in Seq(StoreEvents), NEW s, s = Replayed(row),
           NEW t, ReplayFrom({s}, evs) = {t}, Ended(s, t, st, why, used),
           NEW m, m = EndRevision(Manifest(row), st, why, now),
           NEW n, n = Row(Append(row.history, m), row.events \o evs, row.budget.limits,
                          used, NoUsage)
    PROVE  RowInv(n) /\ Shows(AbstractRun(n), m, t, used, NoUsage)
<1>1. PICK old : old = Manifest(row) OBVIOUS
<1>2. /\ row \in Rows /\ Between(s) /\ old \in Manifests /\ LifecycleValid(old)
      /\ s.status = old.status /\ s.artifacts = old.artifacts /\ s.returned = old.returned
    BY <1>1, RowFields
<1>3. old.status \in {"pending", "running"} BY <1>1 DEF ActiveRow
<1>. DEFINE f == SafeFinished(old, now)
<1>4. f \in Times /\ f # NoTime /\ f >= old.created /\ f >= old.started BY <1>2, SafeFinish
<1>. HIDE DEF f
<1>5. m = [old EXCEPT !.status = st, !.reason = why, !.finished = f]
    BY <1>1 DEF EndRevision, f
<1>6. /\ m \in Manifests /\ m.status = st /\ m.started = old.started
      /\ m.finished = f /\ m.limits = old.limits /\ m.created = old.created
      /\ m.returned = old.returned /\ m.reason = why /\ m.artifacts = old.artifacts
    <2>1. st \in Statuses \ {"absent"} BY DEF Statuses, TerminalStatuses, EvaluationStatuses
    <2>. QED BY <1>2, <1>4, <1>5, <2>1 DEF Manifests
<1>7. Between(t) /\ NoUsage \in BudgetUsage BY UsageArithmetic DEF Ended
<1>8. Yields(row, n, m, t, used, NoUsage) BY <1>6, <1>7, StageYields
<1>9. LifecycleValid(m)
    <2>1. old.started # NoTime => old.started >= old.created BY <1>2 DEF LifecycleValid
    <2>. QED BY <1>4, <1>6, <2>1 DEF LifecycleValid
<1>10. ManifestTransition(old, m) BY <1>3, <1>6, ActiveStatus DEF ManifestTransition
<1>11. Agrees(t, m, used, NoUsage) BY <1>2, <1>6 DEF Agrees, Ended
<1>12. VerifiedRoot(n) BY <1>1, <1>6, <1>8, <1>9, <1>10, <1>11 DEF Yields
<1>. QED BY <1>8, <1>12 DEF Yields

(* The ledger and the store share their vocabulary.                        *)
LEMMA Vocabulary ==
    /\ Ledger!ExpectedNames = ExpectedNames /\ Ledger!NoUsage = NoUsage
    /\ Ledger!EvidenceSets = EvidenceSets /\ Ledger!Outcomes = Outcomes
    /\ Ledger!EvaluationStatuses = EvaluationStatuses
    /\ Ledger!RecoveryReasons = RecoveryReasons
    /\ \A u, v : /\ Ledger!AddUsage(u, v) = AddUsage(u, v)
                 /\ Ledger!SubtractUsage(u, v) = SubtractUsage(u, v)
                 /\ Ledger!UsageAtMost(u, v) <=> UsageAtMost(u, v)
                 /\ Ledger!WithinLimits(u, v) <=> WithinLimits(u, v)
                 /\ Ledger!StatusMatchesOutcome(u, v) <=> StatusMatchesOutcome(u, v)
<1>1. Ledger!ExpectedNames = ExpectedNames /\ Ledger!NoUsage = NoUsage
    BY DEF Ledger!ExpectedNames, ExpectedNames, Ledger!EvaluationNames, EvaluationNames,
           Ledger!NoUsage, NoUsage
<1>2. Ledger!EvidenceSets = EvidenceSets
    <2>1. Ledger!EvaluationNames = EvaluationNames /\ Ledger!OptionalNames = OptionalNames
        BY DEF Ledger!EvaluationNames, EvaluationNames, Ledger!OptionalNames, OptionalNames
    <2>. QED BY <2>1 DEF Ledger!EvidenceSets, EvidenceSets
<1>3. /\ Ledger!Outcomes = Outcomes /\ Ledger!EvaluationStatuses = EvaluationStatuses
      /\ Ledger!RecoveryReasons = RecoveryReasons
    BY DEF Ledger!Outcomes, Outcomes, Ledger!EvaluationStatuses, EvaluationStatuses,
           Ledger!RecoveryReasons, RecoveryReasons
<1>4. ASSUME NEW u, NEW v
      PROVE  /\ Ledger!AddUsage(u, v) = AddUsage(u, v)
             /\ Ledger!SubtractUsage(u, v) = SubtractUsage(u, v)
             /\ Ledger!UsageAtMost(u, v) <=> UsageAtMost(u, v)
             /\ Ledger!WithinLimits(u, v) <=> WithinLimits(u, v)
             /\ Ledger!StatusMatchesOutcome(u, v) <=> StatusMatchesOutcome(u, v)
    <2>1. /\ Ledger!AddUsage(u, v) = AddUsage(u, v)
          /\ Ledger!SubtractUsage(u, v) = SubtractUsage(u, v)
        BY DEF Ledger!AddUsage, AddUsage, Ledger!SubtractUsage, SubtractUsage
    <2>2. Ledger!UsageAtMost(u, v) <=> UsageAtMost(u, v)
        BY DEF Ledger!UsageAtMost, UsageAtMost
    <2>3. Ledger!WithinLimits(u, v) <=> WithinLimits(u, v)
        BY DEF Ledger!WithinLimits, WithinLimits, Ledger!Amount, Amount
    <2>4. Ledger!StatusMatchesOutcome(u, v) <=> StatusMatchesOutcome(u, v)
        BY DEF Ledger!StatusMatchesOutcome, StatusMatchesOutcome
    <2>. QED BY <2>1, <2>2, <2>3, <2>4
<1>. QED BY <1>1, <1>2, <1>3, <1>4

(* What the ledger promises of recovery and of exhaustion.                 *)
LEMMA RecoveredFields ==
    ASSUME NEW a \in RunRecords, NEW reason \in RecoveryReasons
    PROVE  LET c == Ledger!Recovered(a, reason)
               open == a.request = "started"
           IN  /\ c \in RunRecords /\ c.status = "infrastructure_error" /\ c.limits = a.limits
               /\ c.request = (IF open THEN "ambiguous" ELSE a.request)
               /\ c.maximum = a.maximum /\ c.reported = a.reported
               /\ c.used = (IF open THEN AddUsage(a.used, a.reserved) ELSE a.used)
               /\ c.reserved = NoUsage
               /\ c.artifacts = a.artifacts /\ c.absent = ExpectedNames \ a.artifacts
               /\ c.reason = (IF open THEN "ambiguous_model_request" ELSE reason)
<1>. DEFINE open == a.request = "started"
            gone == ExpectedNames \ a.artifacts
            req == IF open THEN "ambiguous" ELSE a.request
            used == IF open THEN AddUsage(a.used, a.reserved) ELSE a.used
            why == IF open THEN "ambiguous_model_request" ELSE reason
            c == [a EXCEPT !.status = "infrastructure_error", !.absent = gone,
                           !.request = req, !.used = used, !.reserved = NoUsage, !.reason = why]
<1>1. Ledger!Recovered(a, reason) = c BY Vocabulary DEF Ledger!Recovered
<1>2. req \in {"not_started", "started", "completed", "ambiguous"} BY DEF RunRecords
<1>3. used \in BudgetUsage /\ NoUsage \in BudgetUsage
    BY UsageFacts, UsageArithmetic DEF RunRecords
<1>4. why \in Reasons /\ "infrastructure_error" \in Statuses
    BY DEF Reasons, Statuses, TerminalStatuses, EvaluationStatuses
<1>5. gone \in SUBSET ExpectedNames OBVIOUS
<1>. HIDE DEF req, used, why, gone
<1>6. /\ c \in RunRecords /\ c.status = "infrastructure_error" /\ c.limits = a.limits
      /\ c.request = req /\ c.maximum = a.maximum /\ c.reported = a.reported /\ c.used = used
      /\ c.reserved = NoUsage
      /\ c.artifacts = a.artifacts /\ c.absent = gone /\ c.reason = why
    BY <1>2, <1>3, <1>4, <1>5 DEF RunRecords
<1>. HIDE DEF c
<1>. QED BY <1>1, <1>6 DEF req, used, why, gone

(* What the ledger promises of exhaustion.                                 *)
LEMMA ExhaustedFields ==
    ASSUME NEW a \in RunRecords
    PROVE  LET c == Ledger!Exhausted(a) IN
           /\ c \in RunRecords /\ c.status = "budget_exhausted" /\ c.limits = a.limits
           /\ c.request = a.request /\ c.maximum = a.maximum /\ c.reported = a.reported
           /\ c.used = a.used
           /\ c.reserved = a.reserved
           /\ c.artifacts = a.artifacts /\ c.absent = ExpectedNames \ a.artifacts
           /\ c.reason = "model_reservation_refused"
<1>. DEFINE gone == ExpectedNames \ a.artifacts
            c == [a EXCEPT !.status = "budget_exhausted", !.absent = gone,
                           !.reason = "model_reservation_refused"]
<1>1. Ledger!Exhausted(a) = c BY Vocabulary DEF Ledger!Exhausted
<1>2. /\ "model_reservation_refused" \in Reasons /\ "budget_exhausted" \in Statuses
      /\ gone \in SUBSET ExpectedNames
    BY DEF Reasons, Statuses, TerminalStatuses
<1>. HIDE DEF gone
<1>3. /\ c \in RunRecords /\ c.status = "budget_exhausted" /\ c.limits = a.limits
      /\ c.request = a.request /\ c.maximum = a.maximum /\ c.reported = a.reported
      /\ c.used = a.used
      /\ c.reserved = a.reserved /\ c.artifacts = a.artifacts /\ c.absent = gone
      /\ c.reason = "model_reservation_refused"
    BY <1>2 DEF RunRecords
<1>. HIDE DEF c
<1>. QED BY <1>1, <1>3 DEF gone

(* recover_run_with_events: recovery is legal on every active run, and     *)
(* what it stages verifies.                                                *)
LEMMA StagedRecovery ==
    ASSUME NEW row, RowInv(row), ActiveRow(row), NEW now \in Times,
           NEW reason \in RecoveryReasons, NEW n, n = StageRecovery(row, now, reason)
    PROVE  /\ RecoveryLegal(row) /\ RowInv(n)
           /\ AbstractRun(n) = Ledger!Recovered(AbstractRun(row), reason)
<1>. DEFINE st == "infrastructure_error"
            a == AbstractRun(row)
<1>1. PICK old, s : old = Manifest(row) /\ s = Replayed(row) OBVIOUS
<1>2. /\ row \in Rows /\ Between(s) /\ s \in ReplayState /\ old \in Manifests
      /\ s.status = old.status /\ s.artifacts = old.artifacts /\ s.returned = old.returned
      /\ s.used = row.budget.used /\ s.reserved = row.budget.reserved
      /\ s.used \in BudgetUsage /\ s.reserved \in BudgetUsage
      /\ Shows(a, old, s, s.used, s.reserved)
    BY <1>1, RowFields
<1>3. ~IsTerminal(s.status) BY <1>1, <1>2, ActiveStatus DEF ActiveRow
<1>4. reason \in Reasons /\ reason # None /\ "ambiguous_model_request" \in Reasons
      /\ "ambiguous_model_request" # None
    BY DEF Reasons, RecoveryReasons, None
<1>5. RecoveryLegal(row)
    BY <1>1, <1>2, <1>3 DEF RecoveryLegal, Between, ReplayInv, BudgetInv, ReplayState
<1>6. CASE s.request = "started"
    <2>. DEFINE why == "ambiguous_model_request"
                used == AddUsage(s.used, s.reserved)
                m == EndRevision(Manifest(row), st, why, now)
                evs == (AbsenceEvents(s.artifacts) \o <<RequestAmbiguous(s.id)>>)
                       \o <<Snapshot(used, NoUsage), TerminalEvent(st, None, why)>>
    <2>1. n = Row(Append(row.history, m), row.events \o evs, row.budget.limits, used, NoUsage)
        BY <1>1, <1>2, <1>6, StagedParts DEF StageRecovery, EndRevision
    <2>2. evs \in Seq(StoreEvents) BY <1>2, <1>3, <1>6, AmbiguousPhase
    <2>3. PICK t : /\ ReplayFrom({s}, evs) = {t} /\ t.request = "ambiguous"
                   /\ Ended(s, t, st, why, used)
        BY <1>2, <1>3, <1>6, AmbiguousPhase
    <2>4. used \in BudgetUsage BY <1>2, UsageFacts
    <2>. HIDE DEF evs, used
    <2>5. RowInv(n) /\ Shows(AbstractRun(n), m, t, used, NoUsage)
        BY <1>1, <1>4, <2>1, <2>2, <2>3, <2>4, StagedEnd
    <2>6. m.status = st /\ m.limits = old.limits /\ m.artifacts = old.artifacts /\ m.reason = why
        BY <1>1, <1>2 DEF EndRevision, Manifests
    <2>. HIDE DEF m, a
    <2>7. Shows(Ledger!Recovered(a, reason), m, t, used, NoUsage)
        BY <1>2, <1>6, <2>3, <2>6, RecoveredFields DEF Shows, Ended, used
    <2>8. AbstractRun(n) = Ledger!Recovered(a, reason) BY <2>5, <2>7, ShowsOne
    <2>. QED BY <1>5, <2>5, <2>8 DEF a
<1>7. CASE s.request # "started"
    <2>. DEFINE m == EndRevision(Manifest(row), st, reason, now)
                head == AbsenceEvents(s.artifacts)
                tail == <<Snapshot(s.used, NoUsage), TerminalEvent(st, None, reason)>>
                evs == head \o tail
    <2>1. /\ evs \in Seq(StoreEvents)
          /\ \E t : /\ ReplayFrom({s}, evs) = {t} /\ Ended(s, t, st, reason, s.used)
                    /\ t.request = s.request
        BY <1>2, <1>3, <1>4, <1>7, ClosedPhase
    <2>2. PICK t : /\ ReplayFrom({s}, evs) = {t} /\ Ended(s, t, st, reason, s.used)
                   /\ t.request = s.request
        BY <2>1
    <2>3. n = Row(Append(row.history, m), row.events \o ((head \o <<>>) \o tail),
                  row.budget.limits, s.used, NoUsage)
        BY <1>1, <1>2, <1>7, StagedParts DEF StageRecovery, EndRevision
    <2>4. head \o <<>> = head
        <3>1. head \in Seq(StoreEvents) BY <1>2, <1>3, AbsencePhase
        <3>. HIDE DEF head
        <3>. QED BY <3>1
    <2>5. n = Row(Append(row.history, m), row.events \o evs, row.budget.limits, s.used, NoUsage)
        BY <2>3, <2>4
    <2>. HIDE DEF evs
    <2>6. RowInv(n) /\ Shows(AbstractRun(n), m, t, s.used, NoUsage)
        BY <1>1, <1>2, <1>4, <2>1, <2>2, <2>5, StagedEnd
    <2>7. /\ m.status = st /\ m.limits = old.limits /\ m.artifacts = old.artifacts
          /\ m.reason = reason
        BY <1>1, <1>2 DEF EndRevision, Manifests
    <2>. HIDE DEF m, a
    <2>8. Shows(Ledger!Recovered(a, reason), m, t, s.used, NoUsage)
        BY <1>2, <1>7, <2>2, <2>7, RecoveredFields DEF Shows, Ended
    <2>9. AbstractRun(n) = Ledger!Recovered(a, reason) BY <2>6, <2>8, ShowsOne
    <2>. QED BY <1>5, <2>6, <2>9 DEF a
<1>. QED BY <1>6, <1>7

(* complete_budget_exhaustion_with_events.                                 *)
LEMMA StagedExhaustion ==
    ASSUME NEW row, RowInv(row), ActiveRow(row), ExhaustionLegal(row), NEW now \in Times,
           NEW n, n = StageExhaustion(row, now)
    PROVE  RowInv(n) /\ AbstractRun(n) = Ledger!Exhausted(AbstractRun(row))
<1>. DEFINE st == "budget_exhausted"
            why == "model_reservation_refused"
            a == AbstractRun(row)
            m == EndRevision(Manifest(row), st, why, now)
<1>1. PICK old, s : old = Manifest(row) /\ s = Replayed(row) OBVIOUS
<1>2. /\ row \in Rows /\ Between(s) /\ s \in ReplayState /\ old \in Manifests
      /\ s.status = old.status /\ s.artifacts = old.artifacts /\ s.returned = old.returned
      /\ s.used = row.budget.used /\ s.reserved = row.budget.reserved
      /\ s.used \in BudgetUsage /\ s.reserved \in BudgetUsage
      /\ Shows(a, old, s, s.used, s.reserved)
    BY <1>1, RowFields
<1>. DEFINE evs == AbsenceEvents(s.artifacts)
                   \o <<Snapshot(s.used, NoUsage), TerminalEvent(st, None, why)>>
<1>3. ~IsTerminal(s.status) BY <1>1, <1>2, ActiveStatus DEF ActiveRow
<1>4. s.request = "not_started" /\ s.reserved = NoUsage
    BY <1>1, <1>2 DEF ExhaustionLegal
<1>5. why \in Reasons /\ why # None BY DEF Reasons, None
<1>6. /\ evs \in Seq(StoreEvents)
      /\ \E t : /\ ReplayFrom({s}, evs) = {t} /\ Ended(s, t, st, why, s.used)
                /\ t.request = s.request
    BY <1>2, <1>3, <1>4, <1>5, ClosedPhase
<1>7. PICK t : /\ ReplayFrom({s}, evs) = {t} /\ Ended(s, t, st, why, s.used)
               /\ t.request = s.request
    BY <1>6
<1>8. n = Row(Append(row.history, m), row.events \o evs, row.budget.limits, s.used, NoUsage)
    <2>1. row.budget.used = s.used /\ row.budget.reserved = NoUsage BY <1>2, <1>4
    <2>2. n = Save(AppendEvents(row, evs), m) BY <1>1, <2>1 DEF StageExhaustion, EndRevision
    <2>. HIDE DEF evs, m
    <2>3. Save(AppendEvents(row, evs), m)
            = Row(Append(row.history, m), row.events \o evs, row.budget.limits,
                  row.budget.used, row.budget.reserved)
        BY <1>2, StagedParts
    <2>. QED BY <2>1, <2>2, <2>3
<1>. HIDE DEF evs
<1>9. RowInv(n) /\ Shows(AbstractRun(n), m, t, s.used, NoUsage)
    BY <1>1, <1>2, <1>5, <1>6, <1>7, <1>8, StagedEnd
<1>10. m.status = st /\ m.limits = old.limits /\ m.artifacts = old.artifacts /\ m.reason = why
    BY <1>1, <1>2 DEF EndRevision, Manifests
<1>. HIDE DEF m, a
<1>11. Shows(Ledger!Exhausted(a), m, t, s.used, NoUsage)
    BY <1>2, <1>4, <1>7, <1>10, ExhaustedFields DEF Shows, Ended
<1>12. AbstractRun(n) = Ledger!Exhausted(a) BY <1>9, <1>11, ShowsOne
<1>. QED BY <1>9, <1>12 DEF a

-----------------------------------------------------------------------------
(* The transactions: each keeps the invariant and is a step of the ledger. *)

(* What a run is to the ledger.                                            *)
LEMMA AbstractView ==
    ASSUME StoreInv, NEW r \in RunIds
    PROVE  /\ AbstractRuns[r] = AbstractRun(db[r])
           /\ ~HasRun(r) => AbstractRuns[r].status = "absent"
           /\ HasRun(r) => RowInv(db[r])
<1>1. AbstractRuns[r] = AbstractRun(db[r]) BY DEF AbstractRuns
<1>2. db[r] = NoRow => AbstractRun(db[r]).status = "absent" BY DEF AbstractRun
<1>. QED BY <1>1, <1>2 DEF StoreInv, HasRun

(* The fields of a run that exists.                                        *)
LEMMA ViewFields ==
    ASSUME StoreInv, NEW r \in RunIds, RowInv(db[r])
    PROVE  LET a == AbstractRuns[r]
               s == Replayed(db[r])
           IN  /\ a.status = Manifest(db[r]).status /\ a.limits = Manifest(db[r]).limits
               /\ a.request = s.request /\ a.maximum = s.maximum /\ a.reported = s.reported
               /\ a.used = db[r].budget.used /\ a.reserved = db[r].budget.reserved
               /\ a.artifacts = Manifest(db[r]).artifacts
               /\ s.status = Manifest(db[r]).status /\ s.used = db[r].budget.used
               /\ s.reserved = db[r].budget.reserved
               /\ a.status \in {"pending", "running"} <=> ActiveRow(db[r])
<1>1. PICK old, s : old = Manifest(db[r]) /\ s = Replayed(db[r]) OBVIOUS
<1>2. /\ s.status = old.status /\ s.used = db[r].budget.used
      /\ s.reserved = db[r].budget.reserved /\ db[r] # NoRow
      /\ Shows(AbstractRun(db[r]), old, s, s.used, s.reserved)
    BY <1>1, RowFields
<1>3. AbstractRuns[r] = AbstractRun(db[r]) BY AbstractView
<1>. QED BY <1>1, <1>2, <1>3 DEF Shows, ActiveRow

(* A committed transaction.                                                *)
LEMMA Committed ==
    ASSUME StoreInv, NEW r \in RunIds, NEW n, Transaction(r, n), n # NoRow,
           VerifiedRoot(n) => RowInv(n)
    PROVE  /\ VerifiedRoot(n) /\ StoreInv'
           /\ AbstractRuns' = [AbstractRuns EXCEPT ![r] = AbstractRun(n)]
<1>1. db \in [RunIds -> Rows \cup {NoRow}] BY DEF StoreInv
<1>2. db' = [db EXCEPT ![r] = n] BY DEF Transaction
<1>3. VerifiedRoot(n) /\ RowInv(n)
    <2>1. [db EXCEPT ![r] = n][r] = n BY <1>1
    <2>. QED BY <2>1 DEF Transaction
<1>4. n \in Rows BY <1>3 DEF RowInv
<1>5. StoreInv'
    <2>1. db' \in [RunIds -> Rows \cup {NoRow}] BY <1>1, <1>2, <1>4
    <2>2. \A q \in RunIds : db'[q] = IF q = r THEN n ELSE db[q] BY <1>1, <1>2
    <2>3. \A q \in RunIds : db'[q] = NoRow \/ RowInv(db'[q])
        BY <1>3, <2>2 DEF StoreInv
    <2>. QED BY <2>1, <2>3 DEF StoreInv
<1>6. AbstractRuns' = [AbstractRuns EXCEPT ![r] = AbstractRun(n)]
    <2>1. \A q \in RunIds : AbstractRun(db'[q]) = IF q = r THEN AbstractRun(n)
                                                         ELSE AbstractRun(db[q])
        BY <1>1, <1>2
    <2>2. AbstractRuns' = [q \in RunIds |-> AbstractRun(db'[q])] BY DEF AbstractRuns
    <2>. QED BY <2>1, <2>2 DEF AbstractRuns
<1>. QED BY <1>3, <1>5, <1>6

(* create_run is CreateRun of the ledger.                                  *)
LEMMA CreateStep ==
    ASSUME StoreInv, NEW r \in RunIds, NEW t \in Times, NEW limits \in Caps,
           create_run(r, limits, t)
    PROVE  StoreInv' /\ Ledger!CreateRun(r, limits)
<1>. DEFINE n == StageCreation(limits, t)
<1>1. ~HasRun(r) /\ Transaction(r, n) BY DEF create_run
<1>2. /\ RowInv(n)
      /\ AbstractRun(n) =
            [status |-> "pending", limits |-> limits, request |-> "not_started",
             maximum |-> NoUsage, reported |-> NoUsage, used |-> NoUsage, reserved |-> NoUsage,
             artifacts |-> {}, absent |-> {}, reason |-> None]
    BY StagedCreation
<1>. HIDE DEF n
<1>3. n # NoRow BY <1>2, RowFacts
<1>4. StoreInv' /\ AbstractRuns' = [AbstractRuns EXCEPT ![r] = AbstractRun(n)]
    BY <1>1, <1>2, <1>3, Committed
<1>5. AbstractRun(n) = Ledger!NewRun(limits) BY <1>2, Vocabulary DEF Ledger!NewRun, None
<1>6. Ledger!CanCreateRun(r) BY <1>1, AbstractView DEF Ledger!CanCreateRun
<1>. QED BY <1>4, <1>5, <1>6 DEF Ledger!CreateRun, Ledger!Commit

(* start_run is StartRun.                                                  *)
LEMMA StartStep ==
    ASSUME StoreInv, NEW r \in RunIds, NEW t \in Times, start_run(r, t)
    PROVE  StoreInv' /\ Ledger!StartRun(r)
<1>. DEFINE n == StageStart(db[r], t)
<1>1. HasRun(r) /\ Manifest(db[r]).status = "pending" /\ Transaction(r, n) BY DEF start_run
<1>2. RowInv(db[r]) /\ AbstractRuns[r] = AbstractRun(db[r]) BY <1>1, AbstractView
<1>3. /\ VerifiedRoot(n) => RowInv(n)
      /\ n # NoRow
      /\ AbstractRun(n) = [AbstractRun(db[r]) EXCEPT !.status = "running"]
    BY <1>1, <1>2, StagedStart
<1>. HIDE DEF n
<1>4. StoreInv' /\ AbstractRuns' = [AbstractRuns EXCEPT ![r] = AbstractRun(n)]
    BY <1>1, <1>3, Committed
<1>5. Ledger!CanStartRun(r) BY <1>1, <1>2, ViewFields DEF Ledger!CanStartRun
<1>. QED BY <1>2, <1>3, <1>4, <1>5 DEF Ledger!StartRun, Ledger!Commit

(* record_artifact, as the runner calls it, is RecordTaskSpec.             *)
LEMMA TaskSpecStep ==
    ASSUME StoreInv, NEW r \in RunIds, record_artifact(r)
    PROVE  StoreInv' /\ Ledger!RecordTaskSpec(r)
<1>. DEFINE n == StageTaskSpec(db[r])
<1>1. /\ HasRun(r) /\ Manifest(db[r]).status = "running"
      /\ Replayed(db[r]).request = "not_started"
      /\ "task_spec" \notin Manifest(db[r]).artifacts /\ Transaction(r, n)
    BY DEF record_artifact
<1>2. RowInv(db[r]) /\ AbstractRuns[r] = AbstractRun(db[r]) BY <1>1, AbstractView
<1>3. /\ RowInv(n)
      /\ AbstractRun(n) = [AbstractRun(db[r]) EXCEPT !.artifacts = @ \cup {"task_spec"}]
    BY <1>1, <1>2, StagedTaskSpec
<1>. HIDE DEF n
<1>4. n # NoRow BY <1>3, RowFacts
<1>5. StoreInv' /\ AbstractRuns' = [AbstractRuns EXCEPT ![r] = AbstractRun(n)]
    BY <1>1, <1>3, <1>4, Committed
<1>6. Ledger!CanRecordTaskSpec(r) BY <1>1, <1>2, ViewFields DEF Ledger!CanRecordTaskSpec
<1>. QED BY <1>2, <1>3, <1>5, <1>6 DEF Ledger!RecordTaskSpec, Ledger!Commit

(* start_model_request is StartRequest with the budget the ledger shows.   *)
LEMMA RequestStep ==
    ASSUME StoreInv, NEW r \in RunIds, NEW id \in RequestIds, NEW max \in Usages,
           NEW used, NEW reserved, start_model_request(r, id, max, used, reserved)
    PROVE  /\ StoreInv'
           /\ Ledger!StartRequest(r, max, AbstractRuns[r].used,
                                  Ledger!AddUsage(AbstractRuns[r].reserved, max))
<1>. DEFINE n == StageRequest(db[r], id, max, used, reserved)
<1>1. HasRun(r) /\ RequestLegal(db[r], max, used, reserved) /\ Transaction(r, n)
    BY DEF start_model_request
<1>2. RowInv(db[r]) /\ AbstractRuns[r] = AbstractRun(db[r]) BY <1>1, AbstractView
<1>3. Requests(db[r], n, max, reserved) BY <1>1, <1>2, StagedRequest
<1>. HIDE DEF n
<1>4. n # NoRow /\ (VerifiedRoot(n) => RowInv(n)) BY <1>3 DEF Requests
<1>5. /\ VerifiedRoot(n) /\ StoreInv'
      /\ AbstractRuns' = [AbstractRuns EXCEPT ![r] = AbstractRun(n)]
    BY <1>1, <1>4, Committed
<1>6. /\ max.calls = 1 /\ AbstractRuns[r].status = "running" /\ used = AbstractRuns[r].used
      /\ reserved = AddUsage(AbstractRuns[r].reserved, max)
      /\ WithinLimits(AddUsage(used, reserved), AbstractRuns[r].limits)
    BY <1>1, <1>2, ViewFields DEF RequestLegal
<1>7. AbstractRuns[r].request = "not_started" /\ AbstractRuns[r].artifacts = {"task_spec"}
    BY <1>2, <1>3, <1>5, ViewFields DEF Requests
<1>8. Ledger!CanStartRequest(r, max, used, reserved)
    BY <1>6, <1>7, Vocabulary DEF Ledger!CanStartRequest
<1>9. Ledger!StartRequest(r, max, used, reserved)
    BY <1>2, <1>3, <1>5, <1>8 DEF Requests, Ledger!StartRequest, Ledger!Commit
<1>. QED BY <1>5, <1>6, <1>9, Vocabulary

(* complete_model_response is CompleteResponse.                            *)
LEMMA ResponseStep ==
    ASSUME StoreInv, NEW r \in RunIds, NEW id, NEW actual \in Usages, NEW used, NEW reserved,
           complete_model_response(r, id, actual, used, reserved)
    PROVE  /\ StoreInv'
           /\ Ledger!CompleteResponse(r, actual, Ledger!AddUsage(AbstractRuns[r].used, actual),
                  Ledger!SubtractUsage(AbstractRuns[r].reserved, AbstractRuns[r].maximum))
<1>. DEFINE n == StageResponse(db[r], id, actual, used, reserved)
<1>1. HasRun(r) /\ ResponseLegal(db[r], id, actual, used, reserved) /\ Transaction(r, n)
    BY DEF complete_model_response
<1>2. RowInv(db[r]) /\ AbstractRuns[r] = AbstractRun(db[r]) BY <1>1, AbstractView
<1>3. /\ AbstractRuns[r].request = "started" /\ UsageAtMost(actual, AbstractRuns[r].maximum)
      /\ actual.calls = 1 /\ UsageAtMost(AbstractRuns[r].maximum, AbstractRuns[r].reserved)
      /\ used = AddUsage(AbstractRuns[r].used, actual)
      /\ reserved = SubtractUsage(AbstractRuns[r].reserved, AbstractRuns[r].maximum)
      /\ Replayed(db[r]).request = "started"
    BY <1>1, <1>2, ViewFields DEF ResponseLegal
<1>4. ActiveRow(db[r])
    <2>. DEFINE s == Replayed(db[r])
    <2>1. Between(s) /\ s.status = Manifest(db[r]).status /\ db[r] # NoRow
        BY <1>2, RowFields
    <2>2. ~IsTerminal(s.status) BY <1>3, <2>1 DEF Between, ReplayInv, PhaseInv
    <2>3. s.status \in {"pending", "running"} BY <2>1, <2>2, ActiveStatus DEF Between
    <2>. QED BY <2>1, <2>3 DEF ActiveRow
<1>5. Responds(db[r], n, actual, used, reserved) BY <1>1, <1>2, <1>4, StagedResponse
<1>. HIDE DEF n
<1>6. RowInv(n) /\ n # NoRow BY <1>5, RowFacts DEF Responds
<1>7. StoreInv' /\ AbstractRuns' = [AbstractRuns EXCEPT ![r] = AbstractRun(n)]
    BY <1>1, <1>6, Committed
<1>8. AbstractRuns[r].status = "running" /\ AbstractRuns[r].artifacts = {"task_spec"}
    BY <1>2, <1>5, ViewFields DEF Responds
<1>9. Ledger!CanCompleteResponse(r, actual, used, reserved)
    BY <1>3, <1>8, Vocabulary DEF Ledger!CanCompleteResponse
<1>10. Ledger!CompleteResponse(r, actual, used, reserved)
    BY <1>2, <1>5, <1>7, <1>9 DEF Responds, Ledger!CompleteResponse, Ledger!Commit
<1>. QED BY <1>3, <1>7, <1>10, Vocabulary

(* complete_evaluation_with_events is CompleteEvaluation.                  *)
LEMMA EvaluationStep ==
    ASSUME StoreInv, NEW r \in RunIds, NEW t \in Times, NEW names, NEW outcome \in Outcomes,
           NEW status \in TerminalStatuses, NEW reason \in {None, "evaluator_status"},
           NEW used, NEW reserved,
           complete_evaluation(r, names, outcome, status, reason, t, used, reserved)
    PROVE  /\ StoreInv' /\ names \in EvidenceSets /\ status \in EvaluationStatuses
           /\ Ledger!CompleteEvaluation(r, names, outcome, status,
                                        AbstractRuns[r].used, AbstractRuns[r].reserved)
<1>. DEFINE n == StageEvaluation(db[r], names, outcome, status, reason, t, used, reserved)
<1>1. /\ HasRun(r) /\ EvaluationLegal(db[r], names, outcome, status, used, reserved)
      /\ Transaction(r, n)
    BY DEF complete_evaluation
<1>2. RowInv(db[r]) /\ AbstractRuns[r] = AbstractRun(db[r]) BY <1>1, AbstractView
<1>3. Scores(db[r], n, names, status, reason, t) BY <1>1, <1>2, StagedEvaluation
<1>. HIDE DEF n
<1>4. n # NoRow /\ (VerifiedRoot(n) => RowInv(n)) BY <1>3 DEF Scores
<1>5. /\ VerifiedRoot(n) /\ StoreInv'
      /\ AbstractRuns' = [AbstractRuns EXCEPT ![r] = AbstractRun(n)]
    BY <1>1, <1>4, Committed
<1>6. /\ names \in EvidenceSets /\ AbstractRuns[r].status = "running"
      /\ AbstractRuns[r].request = "completed" /\ StatusMatchesOutcome(status, outcome)
      /\ used = AbstractRuns[r].used /\ reserved = AbstractRuns[r].reserved
      /\ reserved = NoUsage /\ AbstractRuns[r].artifacts = {"task_spec", "patch"}
    BY <1>1, <1>2, <1>3, ViewFields DEF EvaluationLegal, Scores
<1>7. status \in EvaluationStatuses
    BY <1>6 DEF StatusMatchesOutcome, Outcomes, EvaluationStatuses
<1>8. Ledger!CanCompleteEvaluation(r, names, outcome, status, used, reserved)
    BY <1>6, Vocabulary DEF Ledger!CanCompleteEvaluation
<1>9. Ledger!CompleteEvaluation(r, names, outcome, status, used, reserved)
    BY <1>2, <1>3, <1>5, <1>8 DEF Scores, Ledger!CompleteEvaluation, Ledger!Commit
<1>. QED BY <1>5, <1>6, <1>7, <1>9

(* recover_run_with_events is Recover.                                     *)
LEMMA RecoveryStep ==
    ASSUME StoreInv, NEW r \in RunIds, NEW t \in Times, NEW reason \in RecoveryReasons,
           recover_run(r, t, reason)
    PROVE  StoreInv' /\ Ledger!Recover(r, reason)
<1>. DEFINE n == StageRecovery(db[r], t, reason)
<1>1. ActiveRow(db[r]) /\ RecoveryLegal(db[r]) /\ Transaction(r, n) BY DEF recover_run
<1>2. HasRun(r) BY <1>1 DEF ActiveRow, HasRun
<1>3. RowInv(db[r]) /\ AbstractRuns[r] = AbstractRun(db[r]) BY <1>2, AbstractView
<1>4. RowInv(n) /\ AbstractRun(n) = Ledger!Recovered(AbstractRun(db[r]), reason)
    BY <1>1, <1>3, StagedRecovery
<1>. HIDE DEF n
<1>5. n # NoRow BY <1>4, RowFacts
<1>6. StoreInv' /\ AbstractRuns' = [AbstractRuns EXCEPT ![r] = AbstractRun(n)]
    BY <1>1, <1>4, <1>5, Committed
<1>7. /\ AbstractRuns[r].status \in {"pending", "running"}
      /\ AbstractRuns[r].request = "started" \/ AbstractRuns[r].reserved = NoUsage
    BY <1>1, <1>3, ViewFields DEF RecoveryLegal
<1>8. Ledger!CanRecover(r) BY <1>7, Vocabulary DEF Ledger!CanRecover, Ledger!Active
<1>. QED BY <1>3, <1>4, <1>6, <1>8 DEF Ledger!Recover, Ledger!Commit

(* complete_budget_exhaustion_with_events is Exhaust.                      *)
LEMMA ExhaustionStep ==
    ASSUME StoreInv, NEW r \in RunIds, NEW t \in Times, complete_budget_exhaustion(r, t)
    PROVE  StoreInv' /\ Ledger!Exhaust(r)
<1>. DEFINE n == StageExhaustion(db[r], t)
<1>1. ActiveRow(db[r]) /\ ExhaustionLegal(db[r]) /\ Transaction(r, n)
    BY DEF complete_budget_exhaustion
<1>2. HasRun(r) BY <1>1 DEF ActiveRow, HasRun
<1>3. RowInv(db[r]) /\ AbstractRuns[r] = AbstractRun(db[r]) BY <1>2, AbstractView
<1>4. RowInv(n) /\ AbstractRun(n) = Ledger!Exhausted(AbstractRun(db[r]))
    BY <1>1, <1>3, StagedExhaustion
<1>. HIDE DEF n
<1>5. n # NoRow BY <1>4, RowFacts
<1>6. StoreInv' /\ AbstractRuns' = [AbstractRuns EXCEPT ![r] = AbstractRun(n)]
    BY <1>1, <1>4, <1>5, Committed
<1>7. /\ AbstractRuns[r].status \in {"pending", "running"}
      /\ AbstractRuns[r].request = "not_started" /\ AbstractRuns[r].reserved = NoUsage
    BY <1>1, <1>3, ViewFields DEF ExhaustionLegal
<1>8. Ledger!CanExhaust(r) BY <1>7, Vocabulary DEF Ledger!CanExhaust, Ledger!Active
<1>. QED BY <1>3, <1>4, <1>6, <1>8 DEF Ledger!Exhaust, Ledger!Commit

(* Every transaction keeps the invariant and is a transaction of the       *)
(* ledger.                                                                 *)
LEMMA StoreStep ==
    ASSUME StoreInv, StoreNext
    PROVE  StoreInv' /\ Ledger!LedgerNext
<1>1. PICK r \in RunIds, t \in Times :
        \/ \E limits \in Caps : create_run(r, limits, t)
        \/ start_run(r, t)
        \/ record_artifact(r)
        \/ \E id \in RequestIds, maximum, used, reserved \in Usages :
             start_model_request(r, id, maximum, used, reserved)
        \/ \E id \in RequestIds, actual, used, reserved \in Usages :
             complete_model_response(r, id, actual, used, reserved)
        \/ \E names \in SUBSET (EvaluationNames \cup OptionalNames),
              outcome \in Outcomes, status \in TerminalStatuses,
              reason \in {None, "evaluator_status"}, used, reserved \in Usages :
             complete_evaluation(r, names, outcome, status, reason, t, used, reserved)
        \/ \E reason \in RecoveryReasons : recover_run(r, t, reason)
        \/ complete_budget_exhaustion(r, t)
    BY DEF StoreNext
<1>2. ASSUME NEW limits \in Caps, create_run(r, limits, t)
      PROVE  StoreInv' /\ Ledger!LedgerNext
    <2>1. StoreInv' /\ Ledger!CreateRun(r, limits) BY <1>2, CreateStep
    <2>. QED BY <2>1 DEF Ledger!LedgerNext
<1>3. ASSUME start_run(r, t) PROVE StoreInv' /\ Ledger!LedgerNext
    <2>1. StoreInv' /\ Ledger!StartRun(r) BY <1>3, StartStep
    <2>. QED BY <2>1 DEF Ledger!LedgerNext
<1>4. ASSUME record_artifact(r) PROVE StoreInv' /\ Ledger!LedgerNext
    <2>1. StoreInv' /\ Ledger!RecordTaskSpec(r) BY <1>4, TaskSpecStep
    <2>. QED BY <2>1 DEF Ledger!LedgerNext
<1>5. ASSUME NEW id \in RequestIds, NEW max \in Usages, NEW used \in Usages,
             NEW reserved \in Usages, start_model_request(r, id, max, used, reserved)
      PROVE  StoreInv' /\ Ledger!LedgerNext
    <2>1. /\ StoreInv'
          /\ Ledger!StartRequest(r, max, AbstractRuns[r].used,
                                 Ledger!AddUsage(AbstractRuns[r].reserved, max))
        BY <1>5, RequestStep
    <2>. QED BY <2>1 DEF Ledger!LedgerNext
<1>6. ASSUME NEW id \in RequestIds, NEW actual \in Usages, NEW used \in Usages,
             NEW reserved \in Usages, complete_model_response(r, id, actual, used, reserved)
      PROVE  StoreInv' /\ Ledger!LedgerNext
    <2>1. /\ StoreInv'
          /\ Ledger!CompleteResponse(r, actual, Ledger!AddUsage(AbstractRuns[r].used, actual),
                 Ledger!SubtractUsage(AbstractRuns[r].reserved, AbstractRuns[r].maximum))
        BY <1>6, ResponseStep
    <2>. QED BY <2>1 DEF Ledger!LedgerNext
<1>7. ASSUME NEW names \in SUBSET (EvaluationNames \cup OptionalNames),
             NEW outcome \in Outcomes, NEW status \in TerminalStatuses,
             NEW reason \in {None, "evaluator_status"}, NEW used \in Usages,
             NEW reserved \in Usages,
             complete_evaluation(r, names, outcome, status, reason, t, used, reserved)
      PROVE  StoreInv' /\ Ledger!LedgerNext
    <2>1. /\ StoreInv' /\ names \in EvidenceSets /\ status \in EvaluationStatuses
          /\ Ledger!CompleteEvaluation(r, names, outcome, status,
                                       AbstractRuns[r].used, AbstractRuns[r].reserved)
        BY <1>7, EvaluationStep
    <2>2. /\ names \in Ledger!EvidenceSets /\ outcome \in Ledger!Outcomes
          /\ status \in Ledger!EvaluationStatuses
        BY <2>1, Vocabulary
    <2>. QED BY <2>1, <2>2 DEF Ledger!LedgerNext
<1>8. ASSUME NEW reason \in RecoveryReasons, recover_run(r, t, reason)
      PROVE  StoreInv' /\ Ledger!LedgerNext
    <2>1. StoreInv' /\ Ledger!Recover(r, reason) BY <1>8, RecoveryStep
    <2>2. reason \in Ledger!RecoveryReasons BY Vocabulary
    <2>. QED BY <2>1, <2>2 DEF Ledger!LedgerNext
<1>9. ASSUME complete_budget_exhaustion(r, t) PROVE StoreInv' /\ Ledger!LedgerNext
    <2>1. StoreInv' /\ Ledger!Exhaust(r) BY <1>9, ExhaustionStep
    <2>. QED BY <2>1 DEF Ledger!LedgerNext
<1>. QED BY <1>1, <1>2, <1>3, <1>4, <1>5, <1>6, <1>7, <1>8, <1>9

(* The empty store is an empty ledger.                                     *)
LEMMA StoreInitially ==
    ASSUME StoreInit
    PROVE  StoreInv /\ Ledger!LedgerInit
<1>1. StoreInv BY DEF StoreInit, StoreInv
<1>2. \A r \in RunIds : AbstractRun(db[r]) = Ledger!NoRun
    <2>. DEFINE none == [d \in {} |-> 0]
    <2>1. AbstractRun(NoRow) =
            [status |-> "absent", limits |-> none, request |-> "not_started",
             maximum |-> NoUsage, reported |-> NoUsage, used |-> NoUsage, reserved |-> NoUsage,
             artifacts |-> {}, absent |-> {}, reason |-> "none"]
        BY DEF AbstractRun, None
    <2>2. Ledger!NewRun(Ledger!NoLimits) =
            [status |-> "pending", limits |-> none, request |-> "not_started",
             maximum |-> NoUsage, reported |-> NoUsage, used |-> NoUsage, reserved |-> NoUsage,
             artifacts |-> {}, absent |-> {}, reason |-> "none"]
        BY Vocabulary DEF Ledger!NewRun, Ledger!NoLimits
    <2>. HIDE DEF none
    <2>3. AbstractRun(NoRow) = Ledger!NoRun BY <2>1, <2>2 DEF Ledger!NoRun
    <2>. QED BY <2>3 DEF StoreInit
<1>. QED BY <1>1, <1>2 DEF Ledger!LedgerInit, AbstractRuns

(* A step that leaves the store alone leaves the ledger alone.             *)
LEMMA StoreStutters ==
    ASSUME StoreInv, UNCHANGED db
    PROVE  StoreInv' /\ UNCHANGED AbstractRuns
BY DEF StoreInv, AbstractRuns

(* In every reachable store each row verifies, and its stream replays to   *)
(* one state, which lies between two transactions.                         *)
THEOREM StoreInvariant == StoreSpec => []StoreInv
<1>1. StoreInit => StoreInv BY StoreInitially
<1>2. StoreInv /\ [StoreNext]_db => StoreInv' BY StoreStep, StoreStutters
<1>. QED BY <1>1, <1>2, PTL DEF StoreSpec

(* Streams, manifest revisions, budget index and verification together     *)
(* are the record per run that the callers of events.py are promised.      *)
THEOREM StoreRefinesLedger == StoreSpec => ImplementsLedger
<1>1. StoreInit => Ledger!LedgerInit BY StoreInitially
<1>2. StoreInv /\ [StoreNext]_db => [Ledger!LedgerNext]_AbstractRuns
    BY StoreStep, StoreStutters
<1>. QED BY <1>1, <1>2, StoreInvariant, PTL DEF StoreSpec, ImplementsLedger, Ledger!LedgerSpec

(* recover_run_with_events can end every active run, at any clock reading. *)
THEOREM StoreAlwaysRecovers == StoreSpec => []RecoveryNeverStuck
<1>1. ASSUME StoreInv PROVE RecoveryNeverStuck
    <2>1. ASSUME NEW r \in RunIds, NEW t \in Times, NEW reason \in RecoveryReasons,
                 ActiveRow(db[r])
          PROVE  RecoveryLegal(db[r]) /\ VerifiedRoot(StageRecovery(db[r], t, reason))
        <3>1. RowInv(db[r]) BY <1>1, <2>1 DEF StoreInv, ActiveRow
        <3>2. PICK n : n = StageRecovery(db[r], t, reason) OBVIOUS
        <3>3. RecoveryLegal(db[r]) /\ RowInv(n) BY <2>1, <3>1, <3>2, StagedRecovery
        <3>. QED BY <3>2, <3>3 DEF RowInv
    <2>. QED BY <2>1 DEF RecoveryNeverStuck
<1>. QED BY <1>1, StoreInvariant, PTL

(* What the phase checks of a lifecycle method allow, the replay of its    *)
(* events and the final verification do not refuse.                        *)
THEOREM StoreAcceptsLegal == StoreSpec => []LegalNeverRefused
<1>1. ASSUME StoreInv PROVE LegalNeverRefused
    <2>1. ASSUME NEW r \in RunIds, NEW t \in Times, NEW row, row = db[r], ActiveRow(row),
                 NEW m, m = Manifest(row), NEW s, s = Replayed(row)
          PROVE
            /\ m.status = "pending" /\ t >= m.created => VerifiedRoot(StageStart(row, t))
            /\ m.status = "running" /\ s.request = "not_started" /\ m.artifacts = {} =>
                   VerifiedRoot(StageTaskSpec(row))
            /\ \A id \in RequestIds, u \in Usages :
                   LET held == AddUsage(row.budget.reserved, u) IN
                   RequestLegal(row, u, row.budget.used, held) /\ s.request = "not_started"
                     /\ m.artifacts # {}
                   => VerifiedRoot(StageRequest(row, id, u, row.budget.used, held))
            /\ \A u \in Usages :
                   LET used == AddUsage(row.budget.used, u) IN
                   ResponseLegal(row, s.id, u, used, NoUsage)
                   => VerifiedRoot(StageResponse(row, s.id, u, used, NoUsage))
            /\ \A names \in EvidenceSets, o \in Outcomes, st \in EvaluationStatuses :
                   EvaluationLegal(row, names, o, st, row.budget.used, NoUsage)
                     /\ t >= m.started
                   => VerifiedRoot(StageEvaluation(row, names, o, st,
                          IF st = "succeeded" THEN None ELSE "evaluator_status",
                          t, row.budget.used, NoUsage))
            /\ ExhaustionLegal(row) => VerifiedRoot(StageExhaustion(row, t))
        <3>1. RowInv(row) BY <1>1, <2>1 DEF StoreInv, ActiveRow
        <3>2. ASSUME m.status = "pending", t >= m.created PROVE VerifiedRoot(StageStart(row, t))
            <4>1. PICK n : n = StageStart(row, t) OBVIOUS
            <4>. QED BY <2>1, <3>1, <3>2, <4>1, StagedStart
        <3>3. ASSUME m.status = "running", s.request = "not_started", m.artifacts = {}
              PROVE  VerifiedRoot(StageTaskSpec(row))
            <4>1. PICK n : n = StageTaskSpec(row) OBVIOUS
            <4>2. RowInv(n) BY <2>1, <3>1, <3>3, <4>1, StagedTaskSpec
            <4>. QED BY <4>1, <4>2 DEF RowInv
        <3>4. ASSUME NEW id \in RequestIds, NEW u \in Usages, NEW used, NEW held,
                     RequestLegal(row, u, used, held), s.request = "not_started",
                     m.artifacts # {}
              PROVE  VerifiedRoot(StageRequest(row, id, u, used, held))
            <4>1. PICK n : n = StageRequest(row, id, u, used, held) OBVIOUS
            <4>2. Requests(row, n, u, held) BY <3>1, <3>4, <4>1, StagedRequest
            <4>. QED BY <2>1, <3>4, <4>1, <4>2 DEF Requests
        <3>5. ASSUME NEW u \in Usages, NEW used, NEW reserved,
                     ResponseLegal(row, s.id, u, used, reserved)
              PROVE  VerifiedRoot(StageResponse(row, s.id, u, used, reserved))
            <4>1. PICK n : n = StageResponse(row, s.id, u, used, reserved) OBVIOUS
            <4>2. Responds(row, n, u, used, reserved) BY <2>1, <3>1, <3>5, <4>1, StagedResponse
            <4>. QED BY <4>1, <4>2 DEF Responds, RowInv
        <3>6. ASSUME NEW names \in EvidenceSets, NEW o \in Outcomes,
                     NEW st \in EvaluationStatuses, NEW used, NEW reserved,
                     EvaluationLegal(row, names, o, st, used, reserved), t >= m.started,
                     NEW why, why = IF st = "succeeded" THEN None ELSE "evaluator_status"
              PROVE  VerifiedRoot(StageEvaluation(row, names, o, st, why, t, used, reserved))
            <4>1. st \in TerminalStatuses BY DEF TerminalStatuses
            <4>2. why \in {None, "evaluator_status"} /\ (why = None) = (st = "succeeded")
                BY <3>6 DEF None
            <4>3. PICK n : n = StageEvaluation(row, names, o, st, why, t, used, reserved)
                OBVIOUS
            <4>4. Scores(row, n, names, st, why, t)
                BY <3>1, <3>6, <4>1, <4>2, <4>3, StagedEvaluation
            <4>. QED BY <2>1, <3>6, <4>2, <4>3, <4>4 DEF Scores
        <3>7. ASSUME ExhaustionLegal(row) PROVE VerifiedRoot(StageExhaustion(row, t))
            <4>1. PICK n : n = StageExhaustion(row, t) OBVIOUS
            <4>2. RowInv(n) BY <2>1, <3>1, <3>7, <4>1, StagedExhaustion
            <4>. QED BY <4>1, <4>2 DEF RowInv
        <3>. QED BY <3>2, <3>3, <3>4, <3>5, <3>6, <3>7
    <2>. QED BY <2>1 DEF LegalNeverRefused
<1>. QED BY <1>1, StoreInvariant, PTL

=============================================================================
