--------------------------- MODULE CampaignProofs ---------------------------
(***************************************************************************)
(* Safety of reliability campaigns for every schedule, every number of     *)
(* processes that execute or judge it, and every number of changes made by *)
(* others.                                                                 *)
(*                                                                         *)
(* The argument has four parts: only one process ever executes (OneInv),   *)
(* it dispatches the attempts in order, so that those ahead of it have not *)
(* been dispatched (OrderInv); a terminal run never changes, so an         *)
(* evidence record stays true once it is made (FoundInv, CertifiedInv);    *)
(* and whatever makes an attempt flawed is in its note by the time the     *)
(* process judges it, or is seen in its code digest (FlawInv).             *)
(***************************************************************************)
EXTENDS Campaign, SequenceTheorems, TLAPS

Runs == {"none", "absent", "active"} \cup TerminalRuns
Directories == [run : Runs, owner : {"nobody", "campaign", "foreign"}, extra : BOOLEAN,
                evidence : {"clean", "orphaned", "lost"}]
Notes == [error : BOOLEAN, post : BOOLEAN]
Dispositions == {"none", "evidence_unusable", "evidence_invalid", "expected", "unexpected_result",
                 "post_commit_maintenance_error", "infrastructure_error"}
Evidence == [disposition : Dispositions, run : {"none"} \cup Runs]

\* The steps of the loop that executes attempts, after the attempt's dispatch.
Attempting == {"create", "running", "committed", "failing", "failing_budget", "after"}
\* The steps of a process that owns the state directory and has still to judge.
Engaged == {"write_manifest", "check", "dispatch"} \cup Attempting
Reconciling == {"read_manifest", "audit", "read", "final_audit", "report"}
Labels == {"idle", "prepare"} \cup Engaged \cup Reconciling

TypeInv ==
    /\ state \in {"absent", "made", "manifest"}
    /\ dir \in [Attempts -> Directories]
    /\ code \in BOOLEAN
    /\ pc \in [Processes -> Labels]
    /\ at \in [Processes -> Attempts]
    /\ notes \in [Processes -> [Attempts -> Notes]]
    /\ seen \in [Processes -> Runs]
    /\ found \in [Processes -> [Attempts -> Evidence]]
    /\ certified \in [Attempts -> SUBSET Runs]
    /\ dispatched \in [Attempts -> Nat]
    /\ flawed \in [Processes -> SUBSET Attempts]

\* One process executes, and none before the state directory is made.
OneInv ==
    /\ \A p, q \in Processes : pc[p] \in Engaged /\ pc[q] \in Engaged => p = q
    /\ state = "absent" => \A p \in Processes : pc[p] \notin Engaged
    /\ state = "absent" => \A a \in Attempts : dispatched[a] = 0

\* It goes through the schedule in order.
OrderInv ==
    /\ \A p \in Processes : pc[p] \in {"idle", "prepare", "write_manifest", "read_manifest"} => at[p] = 1
    /\ \A p \in Processes : pc[p] \in Engaged =>
          \A a \in Attempts : a > at[p] \/ (a = at[p] /\ pc[p] \notin Attempting) => dispatched[a] = 0
    /\ \A p \in Processes : pc[p] = "create" => dispatched[at[p]] > 0

\* A run of the campaign was dispatched.
OwnerInv == \A a \in Attempts : dir[a].owner = "campaign" => dispatched[a] > 0

\* Evidence is only judged after execution.
PhaseInv ==
    \A p \in Processes : pc[p] \notin Reconciling => \A a \in Attempts : found[p][a] = NoEvidence

\* What a process has seen of a run before it makes its evidence record.
SeenInv ==
    \A p \in Processes :
        /\ pc[p] = "read" => seen[p] \in TerminalRuns \cup {"active"}
        /\ pc[p] = "final_audit" => seen[p] \in TerminalRuns

FoundInv ==
    \A p \in Processes, a \in Attempts :
        /\ found[p][a].run # "none" => found[p][a].run \in TerminalRuns /\ dir[a].run = found[p][a].run
        /\ found[p][a].disposition = "expected" =>
              /\ dir[a].run = "succeeded" /\ dir[a].owner = "campaign"
              /\ ~notes[p][a].error

CertifiedInv == \A a \in Attempts : \A x \in certified[a] : x \in TerminalRuns /\ dir[a].run = x

\* A flaw is in the note, or in the code digest, or still ahead of its note.
FlawInv ==
    \A p \in Processes, a \in Attempts :
        a \in flawed[p] =>
            \/ notes[p][a].error \/ ~code
            \/ at[p] = a /\ pc[p] = "failing"
            \/ at[p] = a /\ pc[p] \in Attempting /\ FixtureOf(a) \notin intact

IInv ==
    /\ TypeInv /\ OneInv /\ OrderInv /\ OwnerInv /\ PhaseInv /\ SeenInv
    /\ FoundInv /\ CertifiedInv /\ FlawInv /\ DispatchedOnce

-----------------------------------------------------------------------------
(* The schedule and the types. *)

(* The schedule has a first attempt, and attempts are positive numbers. *)
LEMMA AttemptsFacts == 1 \in Attempts /\ \A a \in Attempts : a \in Nat /\ a > 0
<1>1. Len(Fixtures) \in Nat /\ Len(Fixtures) # 0
    BY FixturesAssumption, EmptySeq, LenProperties
<1>2. \A m, n \in Nat \ {0} : m * n \in Nat /\ m * n >= 1
    OBVIOUS
<1>3. Rounds * Len(Fixtures) \in Nat /\ Rounds * Len(Fixtures) >= 1
    BY <1>1, <1>2, RoundsAssumption
<1>. QED BY <1>3 DEF Attempts

(* A directory entry with one run replaced. *)
LEMMA PutRun ==
    ASSUME dir \in [Attempts -> Directories], NEW a \in Attempts, NEW x \in Runs,
           dir' = [dir EXCEPT ![a].run = x]
    PROVE  /\ dir' \in [Attempts -> Directories]
           /\ dir'[a].run = x /\ dir'[a].owner = dir[a].owner
           /\ \A b \in Attempts \ {a} : dir'[b] = dir[b]
BY DEF Directories

(* A directory entry with one run and its owner replaced. *)
LEMMA PutOwner ==
    ASSUME dir \in [Attempts -> Directories], NEW a \in Attempts, NEW x \in Runs,
           NEW o \in {"campaign", "foreign"},
           dir' = [dir EXCEPT ![a].run = x, ![a].owner = o]
    PROVE  /\ dir' \in [Attempts -> Directories]
           /\ dir'[a].run = x /\ dir'[a].owner = o
           /\ \A b \in Attempts \ {a} : dir'[b] = dir[b]
<1>. DEFINE D == [dir EXCEPT ![a].run = x]
<1>1. /\ D \in [Attempts -> Directories] /\ D[a].run = x
      /\ \A b \in Attempts \ {a} : D[b] = dir[b]
    BY DEF Directories
<1>2. dir' = [D EXCEPT ![a].owner = o] OBVIOUS
<1>. HIDE DEF D
<1>4. dir'[a] = [D[a] EXCEPT !.owner = o] /\ D[a] \in Directories BY <1>1, <1>2
<1>3. dir' \in [Attempts -> Directories]
    <2>1. [D[a] EXCEPT !.owner = o] \in Directories BY <1>4 DEF Directories
    <2>2. dir' = [b \in Attempts |-> IF b = a THEN [D[a] EXCEPT !.owner = o] ELSE D[b]]
        BY <1>1, <1>2
    <2>. QED BY <1>1, <2>1, <2>2
<1>5. dir'[a].run = x /\ dir'[a].owner = o BY <1>1, <1>4 DEF Directories
<1>6. \A b \in Attempts \ {a} : dir'[b] = dir[b] BY <1>1, <1>2
<1>. QED BY <1>3, <1>5, <1>6

(* A directory that somebody else uses too. *)
LEMMA PutExtra ==
    ASSUME dir \in [Attempts -> Directories], NEW a \in Attempts,
           dir' = [dir EXCEPT ![a].extra = TRUE,
                              ![a].run = IF @ = "none" THEN "absent" ELSE @]
    PROVE  /\ dir' \in [Attempts -> Directories]
           /\ dir[a].run # "none" => dir'[a].run = dir[a].run
           /\ dir'[a].owner = dir[a].owner
           /\ \A b \in Attempts \ {a} : dir'[b] = dir[b]
<1>. DEFINE D == [dir EXCEPT ![a].extra = TRUE]
            x == IF D[a].run = "none" THEN "absent" ELSE D[a].run
<1>1. /\ D \in [Attempts -> Directories] /\ D[a].run = dir[a].run /\ D[a].owner = dir[a].owner
      /\ \A b \in Attempts \ {a} : D[b] = dir[b]
    BY DEF Directories
<1>2. dir' = [D EXCEPT ![a].run = x] OBVIOUS
<1>. HIDE DEF D
<1>3. x \in Runs BY <1>1 DEF Directories, Runs
<1>4. dir'[a] = [D[a] EXCEPT !.run = x] /\ D[a] \in Directories BY <1>1, <1>2
<1>5. dir[a].run # "none" => x = dir[a].run BY <1>1
<1>. HIDE DEF x
<1>6. dir' \in [Attempts -> Directories]
    <2>1. [D[a] EXCEPT !.run = x] \in Directories BY <1>3, <1>4 DEF Directories
    <2>2. dir' = [b \in Attempts |-> IF b = a THEN [D[a] EXCEPT !.run = x] ELSE D[b]]
        BY <1>1, <1>2
    <2>. QED BY <1>1, <2>1, <2>2
<1>7. dir'[a].run = x /\ dir'[a].owner = dir[a].owner BY <1>1, <1>4 DEF Directories
<1>8. \A b \in Attempts \ {a} : dir'[b] = dir[b] BY <1>1, <1>2
<1>. QED BY <1>5, <1>6, <1>7, <1>8

(* A directory whose evidence is left without an owner or lost. *)
LEMMA PutEvidence ==
    ASSUME dir \in [Attempts -> Directories], NEW a \in Attempts, NEW v \in {"orphaned", "lost"},
           dir' = [dir EXCEPT ![a].evidence = v]
    PROVE  /\ dir' \in [Attempts -> Directories]
           /\ \A b \in Attempts : dir'[b].run = dir[b].run /\ dir'[b].owner = dir[b].owner
BY DEF Directories

\* What a step may do to a run: only a run that is not terminal changes, and
\* only the campaign's own creation makes it the campaign's.
RunsKept ==
    /\ dir' \in [Attempts -> Directories]
    /\ \A a \in Attempts : dir[a].run \in TerminalRuns =>
          dir'[a].run = dir[a].run /\ dir'[a].owner = dir[a].owner
    /\ \A a \in Attempts : dir'[a].owner = "campaign" =>
          \/ dir[a].owner = "campaign"
          \/ \E p \in Processes : pc[p] = "create" /\ at[p] = a

(* Guarded recovery changes an active run only. *)
LEMMA TerminalizeKeeps ==
    ASSUME dir \in [Attempts -> Directories], NEW a \in Attempts, NEW x \in Runs,
           Terminalize(a, x)
    PROVE  RunsKept
BY PutRun DEF Terminalize, Recoverable, RunsKept, TerminalRuns

(* Every step keeps terminal runs as they are. *)
LEMMA DirStep == ASSUME TypeInv, [Next]_vars PROVE RunsKept
<1>0. (dir \in [Attempts -> Directories]) /\ (at \in [Processes -> Attempts]) BY DEF TypeInv
<1>1. CASE UNCHANGED dir BY <1>0, <1>1 DEF RunsKept
<1>2. ASSUME NEW p \in Processes, CreateRun(p) PROVE RunsKept
    <2>1. at[p] \in Attempts BY <1>0
    <2>2. pc[p] = "create" /\ dir[at[p]].run \notin TerminalRuns
        BY <1>2 DEF CreateRun, TerminalRuns
    <2>3. /\ dir' \in [Attempts -> Directories]
          /\ \A b \in Attempts \ {at[p]} : dir'[b] = dir[b]
        BY <1>0, <1>2, <2>1, PutOwner DEF CreateRun, Runs
    <2>. QED BY <2>1, <2>2, <2>3 DEF RunsKept
<1>3. ASSUME NEW p \in Processes, NEW x \in TerminalRuns, CommitRun(p, x) PROVE RunsKept
    <2>1. at[p] \in Attempts BY <1>0
    <2>2. dir[at[p]].run = "active" /\ x \in Runs BY <1>3 DEF CommitRun, Runs
    <2>3. /\ dir' \in [Attempts -> Directories] /\ dir'[at[p]].owner = dir[at[p]].owner
          /\ \A b \in Attempts \ {at[p]} : dir'[b] = dir[b]
        BY <1>0, <1>3, <2>1, <2>2, PutRun DEF CommitRun
    <2>. QED BY <2>1, <2>2, <2>3 DEF RunsKept, TerminalRuns
<1>4. ASSUME NEW p \in Processes, NEW label, Raise(p, label) PROVE RunsKept
    <2>1. at[p] \in Attempts BY <1>0
    <2>2. CASE dir' = [dir EXCEPT ![at[p]].evidence = "orphaned"]
        BY <1>0, <2>1, <2>2, PutEvidence DEF RunsKept
    <2>. QED BY <1>1, <1>4, <2>2 DEF Raise
<1>5. ASSUME NEW p \in Processes, Recover(p) PROVE RunsKept
    <2>1. at[p] \in Attempts BY <1>0
    <2>2. CASE \E x \in {"infrastructure_error", "budget_exhausted"} : Terminalize(at[p], x)
        BY <1>0, <2>1, <2>2, TerminalizeKeeps DEF Runs, TerminalRuns
    <2>. QED BY <1>1, <1>5, <2>2 DEF Recover
<1>6. ASSUME NEW a \in Attempts, RogueRun(a) PROVE RunsKept
    BY <1>0, <1>6, PutExtra DEF RogueRun, RunsKept, TerminalRuns
<1>7. ASSUME NEW a \in Attempts, NEW x \in {"active", "succeeded"}, ForeignRun(a, x)
      PROVE RunsKept
    <2>1. dir[a].run \notin TerminalRuns /\ x \in Runs BY <1>7 DEF ForeignRun, TerminalRuns, Runs
    <2>2. /\ dir' \in [Attempts -> Directories] /\ dir'[a].owner = "foreign"
          /\ \A b \in Attempts \ {a} : dir'[b] = dir[b]
        BY <1>0, <1>7, <2>1, PutOwner DEF ForeignRun
    <2>. QED BY <2>1, <2>2 DEF RunsKept
<1>8. ASSUME NEW a \in Attempts, LoseEvidence(a) PROVE RunsKept
    BY <1>0, <1>8, PutEvidence DEF LoseEvidence, RunsKept
<1>9. ASSUME NEW a \in Attempts, OperatorRecovers(a) PROVE RunsKept
    BY <1>0, <1>9, TerminalizeKeeps DEF OperatorRecovers, Runs, TerminalRuns
<1>10. ASSUME NEW p \in Processes, Execute(p) PROVE RunsKept
    BY <1>1, <1>2, <1>3, <1>4, <1>5, <1>10
    DEF Execute, Load, PrepareState, WriteManifest, CheckFixture, Dispatch, Return,
        PostCommitError, AfterAttempt, fileVars
<1>11. ASSUME NEW p \in Processes, Reconcile(p) \/ Die(p) PROVE RunsKept
    BY <1>1, <1>11
    DEF Reconcile, ReadManifest, Audit, ReadEvents, FinalAudit, Report, Die, fileVars
<1>12. CASE Interfere
    BY <1>1, <1>6, <1>7, <1>8, <1>9, <1>12 DEF Interfere, ChangeCode, ChangeFixture
<1>13. CASE UNCHANGED vars
    BY <1>1, <1>13 DEF vars, fileVars
<1>. QED BY <1>10, <1>11, <1>12, <1>13 DEF Next

\* f becomes g, for one process only.
Local(p, f, g, T) == g \in [Processes -> T] /\ \A q \in Processes \ {p} : g[q] = f[q]

(* A step of a process leaves the program counters of the others alone. *)
LEMMA PcStep ==
    ASSUME TypeInv, NEW p \in Processes, Execute(p) \/ Reconcile(p) \/ Die(p)
    PROVE  Local(p, pc, pc', Labels)
<1>0. pc \in [Processes -> Labels] BY DEF TypeInv
<1>1. ASSUME NEW label \in Labels, Goto(p, label) PROVE Local(p, pc, pc', Labels)
    BY <1>0, <1>1 DEF Goto, Local
<1>2. ASSUME NEW loop \in Labels, NEW label \in Labels, Advance(p, loop, label)
      PROVE  Local(p, pc, pc', Labels)
    BY <1>1, <1>2 DEF Advance
<1>3. \A label \in {"idle", "prepare", "write_manifest", "check", "dispatch", "create", "running",
                    "committed", "failing", "failing_budget", "after", "read_manifest", "audit",
                    "read", "final_audit", "report"} : label \in Labels
    BY DEF Labels, Engaged, Attempting, Reconciling
<1>4. CASE Execute(p)
    BY <1>1, <1>2, <1>3, <1>4
    DEF Execute, Load, PrepareState, WriteManifest, CheckFixture, Dispatch, CreateRun, CommitRun,
        Return, PostCommitError, Raise, Failing, Recover, AfterAttempt, Finish
<1>5. CASE Reconcile(p)
    BY <1>1, <1>2, <1>3, <1>5
    DEF Reconcile, ReadManifest, Audit, ReadEvents, FinalAudit, Report, RecordUnusable, Record,
        Finish
<1>6. CASE Die(p)
    BY <1>1, <1>3, <1>6 DEF Die, Finish
<1>. QED BY <1>4, <1>5, <1>6

(* A step of a process leaves the attempts the others are at alone. *)
LEMMA AtStep ==
    ASSUME TypeInv, NEW p \in Processes, Execute(p) \/ Reconcile(p) \/ Die(p)
    PROVE  Local(p, at, at', Attempts)
<1>0. at \in [Processes -> Attempts] BY DEF TypeInv
<1>1. CASE UNCHANGED at BY <1>0, <1>1 DEF Local
<1>2. CASE at' = [at EXCEPT ![p] = 1] BY <1>0, <1>2, AttemptsFacts DEF Local
<1>3. ASSUME NEW loop, NEW label, Advance(p, loop, label)
      PROVE  Local(p, at, at', Attempts)
    BY <1>0, <1>2, <1>3 DEF Advance, Local
<1>4. CASE Execute(p)
    BY <1>1, <1>2, <1>3, <1>4
    DEF Execute, Load, PrepareState, WriteManifest, CheckFixture, Dispatch, CreateRun, CommitRun,
        Return, PostCommitError, Raise, Recover, AfterAttempt, Finish, localVars
<1>5. CASE Reconcile(p)
    BY <1>1, <1>2, <1>3, <1>5
    DEF Reconcile, ReadManifest, Audit, ReadEvents, FinalAudit, Report, RecordUnusable, Record,
        Finish
<1>6. CASE Die(p)
    BY <1>2, <1>6 DEF Die, Finish
<1>. QED BY <1>4, <1>5, <1>6

(* A step of a process leaves the notes and flaws of the others alone. *)
LEMMA NotesStep ==
    ASSUME TypeInv, NEW p \in Processes, Execute(p) \/ Reconcile(p) \/ Die(p)
    PROVE  /\ Local(p, notes, notes', [Attempts -> Notes])
           /\ Local(p, flawed, flawed', SUBSET Attempts)
<1>0. /\ notes \in [Processes -> [Attempts -> Notes]] /\ (at[p] \in Attempts)
      /\ flawed \in [Processes -> SUBSET Attempts]
    BY DEF TypeInv
<1>1. UNCHANGED notes => Local(p, notes, notes', [Attempts -> Notes]) BY <1>0 DEF Local
<1>2. ASSUME NEW n \in Notes, Take(p, n) PROVE Local(p, notes, notes', [Attempts -> Notes])
    BY <1>0, <1>2 DEF Take, Local
<1>3. ASSUME Finish(p)
      PROVE  /\ Local(p, notes, notes', [Attempts -> Notes])
             /\ Local(p, flawed, flawed', SUBSET Attempts)
    <2>1. [a \in Attempts |-> NoNote] \in [Attempts -> Notes] BY DEF NoNote, Notes
    <2>. QED BY <1>0, <1>3, <2>1 DEF Finish, Local
<1>4. UNCHANGED flawed => Local(p, flawed, flawed', SUBSET Attempts) BY <1>0 DEF Local
<1>5. Flaw(p) => Local(p, flawed, flawed', SUBSET Attempts) BY <1>0 DEF Flaw, Local
<1>6. /\ [error |-> TRUE, post |-> FALSE] \in Notes /\ [error |-> TRUE, post |-> TRUE] \in Notes
      /\ \A n \in Notes : [n EXCEPT !.error = TRUE] \in Notes
      /\ notes[p][at[p]] \in Notes
    BY <1>0 DEF Notes
<1>7. CASE Execute(p)
    BY <1>1, <1>2, <1>3, <1>4, <1>5, <1>6, <1>7
    DEF Execute, Load, PrepareState, WriteManifest, CheckFixture, Dispatch, CreateRun, CommitRun,
        Return, PostCommitError, Raise, Recover, AfterAttempt, localVars
<1>8. CASE Reconcile(p)
    BY <1>1, <1>3, <1>4, <1>8
    DEF Reconcile, ReadManifest, Audit, ReadEvents, FinalAudit, Report
<1>9. CASE Die(p)
    BY <1>3, <1>9 DEF Die
<1>. QED BY <1>7, <1>8, <1>9

(* A step of a process leaves what the others have seen and found alone. *)
LEMMA EvidenceStep ==
    ASSUME TypeInv, NEW p \in Processes, Execute(p) \/ Reconcile(p) \/ Die(p)
    PROVE  /\ Local(p, seen, seen', Runs)
           /\ Local(p, found, found', [Attempts -> Evidence])
<1>0. /\ (seen \in [Processes -> Runs]) /\ (at[p] \in Attempts)
      /\ (found \in [Processes -> [Attempts -> Evidence]]) /\ (dir[at[p]] \in Directories)
    BY DEF TypeInv
<1>1. CASE UNCHANGED <<seen, found>> BY <1>0, <1>1 DEF Local
<1>2. ASSUME NEW d \in Dispositions, NEW r \in Runs, Record(p, d, r)
      PROVE  /\ Local(p, seen, seen', Runs)
             /\ Local(p, found, found', [Attempts -> Evidence])
    <2>1. [disposition |-> d, run |-> r] \in Evidence BY DEF Evidence
    <2>2. "none" \in Runs BY DEF Runs
    <2>. QED BY <1>0, <1>2, <2>1, <2>2 DEF Record, Local
<1>3. ASSUME Finish(p)
      PROVE  /\ Local(p, seen, seen', Runs)
             /\ Local(p, found, found', [Attempts -> Evidence])
    <2>1. [a \in Attempts |-> NoEvidence] \in [Attempts -> Evidence]
        BY DEF NoEvidence, Evidence, Dispositions
    <2>2. "none" \in Runs BY DEF Runs
    <2>. QED BY <1>0, <1>3, <2>1, <2>2 DEF Finish, Local
<1>4. CASE Execute(p)
    BY <1>1, <1>3, <1>4
    DEF Execute, Load, PrepareState, WriteManifest, CheckFixture, Dispatch, CreateRun, CommitRun,
        Return, PostCommitError, Raise, Recover, AfterAttempt, localVars, reconcileVars
<1>5. CASE RecordUnusable(p)
    BY <1>2, <1>5 DEF RecordUnusable, Dispositions, Runs
<1>6. CASE Reconcile(p)
    <2>1. dir[at[p]].run \in Runs BY <1>0 DEF Directories
    <2>2. Disposition(p, dir[at[p]]) \in Dispositions BY DEF Disposition, Dispositions
    <2>3. CASE Audit(p)
        BY <1>0, <1>5, <2>1, <2>3 DEF Audit, Local
    <2>4. CASE ReadManifest(p) \/ ReadEvents(p)
        BY <1>1, <1>5, <2>4 DEF ReadManifest, ReadEvents
    <2>5. CASE FinalAudit(p)
        BY <1>2, <1>5, <2>1, <2>2, <2>5 DEF FinalAudit
    <2>6. CASE Report(p)
        BY <1>3, <2>6 DEF Report
    <2>. QED BY <1>6, <2>3, <2>4, <2>5, <2>6 DEF Reconcile
<1>7. CASE Die(p)
    BY <1>3, <1>7 DEF Die
<1>. QED BY <1>4, <1>6, <1>7

(* Changes made by others touch no process. *)
LEMMA InterfereFrame ==
    ASSUME Interfere
    PROVE  UNCHANGED <<state, output, pc, localVars, historyVars>>
BY DEF Interfere, ChangeCode, ChangeFixture, RogueRun, ForeignRun, LoseEvidence, OperatorRecovers,
       Change

(* Every step keeps every variable in its type. *)
LEMMA TypeStep == ASSUME TypeInv, Next PROVE TypeInv'
<1>1. dir' \in [Attempts -> Directories] BY DirStep DEF RunsKept
<1>2. CASE Interfere
    <2>1. code' \in BOOLEAN
        BY <1>2 DEF TypeInv, Interfere, ChangeCode, ChangeFixture, RogueRun, ForeignRun,
                    LoseEvidence, OperatorRecovers
    <2>. QED BY <1>1, <1>2, <2>1, InterfereFrame DEF TypeInv, localVars, historyVars, reconcileVars
<1>3. ASSUME NEW p \in Processes, Execute(p) \/ Reconcile(p) \/ Die(p)
      PROVE  TypeInv'
    <2>1. /\ pc' \in [Processes -> Labels] /\ at' \in [Processes -> Attempts]
          /\ notes' \in [Processes -> [Attempts -> Notes]] /\ seen' \in [Processes -> Runs]
          /\ found' \in [Processes -> [Attempts -> Evidence]]
          /\ flawed' \in [Processes -> SUBSET Attempts]
        BY <1>3, PcStep, AtStep, NotesStep, EvidenceStep DEF Local
    <2>2. state' \in {"absent", "made", "manifest"} /\ code' \in BOOLEAN
        BY <1>3 DEF TypeInv, Execute, Load, PrepareState, WriteManifest, CheckFixture, Dispatch,
                    CreateRun, CommitRun, Return, PostCommitError, Raise, Recover, AfterAttempt,
                    Reconcile, ReadManifest, Audit, ReadEvents, FinalAudit, Report, Die, fileVars
    <2>3. certified' \in [Attempts -> SUBSET Runs]
        <3>1. CASE Report(p)
            <4>1. \A a \in Attempts : found[p][a].run \in Runs BY DEF TypeInv, Evidence, Runs
            <4>. QED BY <3>1, <4>1 DEF Report, TypeInv
        <3>2. CASE UNCHANGED certified BY <3>2 DEF TypeInv
        <3>. QED
            BY <1>3, <3>1, <3>2
            DEF Execute, Load, PrepareState, WriteManifest, CheckFixture, Dispatch, CreateRun,
                CommitRun, Return, PostCommitError, Raise, Recover, AfterAttempt, Reconcile,
                ReadManifest, Audit, ReadEvents, FinalAudit, Die, historyVars
    <2>4. dispatched' \in [Attempts -> Nat]
        <3>1. CASE Dispatch(p) BY <3>1 DEF Dispatch, TypeInv
        <3>2. CASE UNCHANGED dispatched BY <3>2 DEF TypeInv
        <3>. QED
            BY <1>3, <3>1, <3>2
            DEF Execute, Load, PrepareState, WriteManifest, CheckFixture, CreateRun, CommitRun,
                Return, PostCommitError, Raise, Recover, AfterAttempt, Reconcile, ReadManifest,
                Audit, ReadEvents, FinalAudit, Report, Die, historyVars
    <2>. QED BY <1>1, <2>1, <2>2, <2>3, <2>4 DEF TypeInv
<1>. QED BY <1>2, <1>3 DEF Next

-----------------------------------------------------------------------------
(* One process executes the schedule, in order. *)

(* A process starts to execute by making the state directory. *)
LEMMA EngageStep ==
    ASSUME TypeInv, NEW p \in Processes, Execute(p) \/ Reconcile(p) \/ Die(p)
    PROVE  /\ pc'[p] \in Engaged =>
                 \/ pc[p] \in Engaged /\ state' # "absent"
                 \/ pc[p] \in Engaged /\ state' = state
                 \/ pc'[p] = "write_manifest" /\ state = "absent" /\ state' = "made"
           /\ state' = "absent" => state = "absent"
<1>0. (pc \in [Processes -> Labels]) /\ (state \in {"absent", "made", "manifest"}) BY DEF TypeInv
<1>. USE DEF Goto, Engaged, Attempting
<1>1. CASE Die(p)
    BY <1>0, <1>1 DEF Die, Finish, fileVars
<1>2. CASE Reconcile(p)
    BY <1>0, <1>2
    DEF Reconcile, ReadManifest, Audit, ReadEvents, FinalAudit, Report, RecordUnusable, Record,
        Advance, Finish, fileVars
<1>3. CASE Execute(p)
    BY <1>0, <1>3
    DEF Execute, Load, PrepareState, WriteManifest, CheckFixture, Dispatch, CreateRun, CommitRun,
        Return, PostCommitError, Raise, Recover, AfterAttempt, Advance, Finish, Executing,
        Failing, fileVars
<1>. QED BY <1>1, <1>2, <1>3

(* Only a dispatch counts as one. *)
LEMMA DispatchedFrame ==
    ASSUME NEW p \in Processes, Execute(p) \/ Reconcile(p) \/ Die(p), ~Dispatch(p)
    PROVE  UNCHANGED dispatched
BY DEF Execute, Load, PrepareState, WriteManifest, CheckFixture, CreateRun, CommitRun, Return,
       PostCommitError, Raise, Recover, AfterAttempt, Reconcile, ReadManifest, Audit, ReadEvents,
       FinalAudit, Report, Die, historyVars

(* The state directory is made once, so one process executes. *)
LEMMA OneStep == ASSUME IInv, Next PROVE OneInv'
<1>0. TypeInv /\ OneInv /\ (pc \in [Processes -> Labels]) BY DEF IInv, TypeInv
<1>1. CASE Interfere
    BY <1>0, <1>1, InterfereFrame DEF OneInv, historyVars
<1>2. ASSUME NEW p \in Processes, Execute(p) \/ Reconcile(p) \/ Die(p)
      PROVE  OneInv'
    <2>1. \A q \in Processes \ {p} : pc'[q] = pc[q] BY <1>0, <1>2, PcStep DEF Local
    <2>2. /\ pc'[p] \in Engaged =>
                \/ pc[p] \in Engaged /\ state' # "absent"
                \/ pc[p] \in Engaged /\ state' = state
                \/ pc'[p] = "write_manifest" /\ state = "absent" /\ state' = "made"
          /\ state' = "absent" => state = "absent"
        BY <1>0, <1>2, EngageStep
    <2>3. \A q, r \in Processes : pc'[q] \in Engaged /\ pc'[r] \in Engaged => q = r
        BY <1>0, <2>1, <2>2 DEF OneInv
    <2>4. state' = "absent" => \A q \in Processes : pc'[q] \notin Engaged
        BY <1>0, <2>1, <2>2 DEF OneInv
    <2>5. state' = "absent" => \A a \in Attempts : dispatched'[a] = 0
        <3>1. CASE Dispatch(p)
            BY <1>0, <2>2, <3>1 DEF Dispatch, OneInv, Engaged
        <3>2. CASE ~Dispatch(p)
            BY <1>0, <1>2, <2>2, <3>2, DispatchedFrame DEF OneInv
        <3>. QED BY <3>1, <3>2
    <2>. QED BY <2>3, <2>4, <2>5 DEF OneInv
<1>. QED BY <1>1, <1>2 DEF Next

(* How a process gets on in the schedule: it goes to the next attempt, or  *)
(* stays at the one it is at, and starts at the first.                     *)
LEMMA ScheduleStep ==
    ASSUME TypeInv, NEW p \in Processes, Execute(p) \/ Reconcile(p) \/ Die(p)
    PROVE  /\ pc'[p] \in {"idle", "prepare", "write_manifest", "read_manifest"} =>
                 \/ at'[p] = 1
                 \/ at'[p] = at[p] /\ pc[p] \in {"idle", "prepare"}
           /\ pc'[p] \in Engaged =>
                 \/ pc[p] = "prepare" /\ pc'[p] = "write_manifest"
                 \/ at'[p] = at[p] /\ pc[p] \in Engaged
                       /\ (pc[p] \in Attempting => pc'[p] \in Attempting)
                 \/ at'[p] = at[p] + 1 /\ pc[p] \in Engaged
           /\ pc'[p] = "create" => Dispatch(p)
<1>0. (pc \in [Processes -> Labels]) /\ (at \in [Processes -> Attempts]) BY DEF TypeInv
<1>. USE DEF Goto, Engaged, Attempting
<1>1. CASE Die(p)
    BY <1>0, <1>1 DEF Die, Finish
<1>2. CASE Reconcile(p)
    BY <1>0, <1>2
    DEF Reconcile, ReadManifest, Audit, ReadEvents, FinalAudit, Report, RecordUnusable, Record,
        Advance, Finish
<1>3. CASE Load(p) \/ PrepareState(p) \/ WriteManifest(p)
    BY <1>0, <1>3 DEF Load, PrepareState, WriteManifest, Finish, localVars
<1>4. CASE CheckFixture(p) \/ AfterAttempt(p)
    BY <1>0, <1>4 DEF CheckFixture, AfterAttempt, Advance
<1>5. CASE Execute(p) /\ ~(Load(p) \/ PrepareState(p) \/ WriteManifest(p))
           /\ ~(CheckFixture(p) \/ AfterAttempt(p))
    BY <1>0, <1>5
    DEF Execute, Dispatch, CreateRun, CommitRun, Return, PostCommitError, Raise, Recover,
        Executing, Failing, localVars
<1>. QED BY <1>1, <1>2, <1>3, <1>4, <1>5 

(* The attempts ahead of the process that executes have not been           *)
(* dispatched.                                                             *)
LEMMA OrderStep == ASSUME IInv, Next PROVE OrderInv' /\ DispatchedOnce'
<1>0. /\ TypeInv /\ OneInv /\ OrderInv /\ DispatchedOnce /\ (pc \in [Processes -> Labels])
      /\ (at \in [Processes -> Attempts]) /\ (dispatched \in [Attempts -> Nat])
    BY DEF IInv, TypeInv
<1>1. CASE Interfere
    BY <1>0, <1>1, InterfereFrame DEF OrderInv, DispatchedOnce, historyVars, localVars
<1>2. ASSUME NEW p \in Processes, Execute(p) \/ Reconcile(p) \/ Die(p)
      PROVE  OrderInv' /\ DispatchedOnce'
    <2>1. \A q \in Processes \ {p} : pc'[q] = pc[q] /\ at'[q] = at[q]
        BY <1>0, <1>2, PcStep, AtStep DEF Local
    <2>2. /\ pc'[p] \in {"idle", "prepare", "write_manifest", "read_manifest"} =>
                \/ at'[p] = 1
                \/ at'[p] = at[p] /\ pc[p] \in {"idle", "prepare"}
          /\ pc'[p] \in Engaged =>
                \/ pc[p] = "prepare" /\ pc'[p] = "write_manifest"
                \/ at'[p] = at[p] /\ pc[p] \in Engaged
                      /\ (pc[p] \in Attempting => pc'[p] \in Attempting)
                \/ at'[p] = at[p] + 1 /\ pc[p] \in Engaged
          /\ pc'[p] = "create" => Dispatch(p)
        BY <1>0, <1>2, ScheduleStep
    <2>3. \A q \in Processes :
              pc'[q] \in {"idle", "prepare", "write_manifest", "read_manifest"} => at'[q] = 1
        BY <1>0, <2>1, <2>2 DEF OrderInv
    <2>4. CASE Dispatch(p)
        <3>1. /\ pc[p] = "dispatch" /\ pc'[p] = "create" /\ at'[p] = at[p] /\ (at[p] \in Attempts)
              /\ dispatched' = [dispatched EXCEPT ![at[p]] = @ + 1]
            BY <1>0, <2>4 DEF Dispatch, Goto
        <3>2. dispatched[at[p]] = 0 BY <1>0, <3>1 DEF OrderInv, Engaged, Attempting
        <3>3. /\ dispatched'[at[p]] = 1
              /\ \A a \in Attempts \ {at[p]} : dispatched'[a] = dispatched[a]
            BY <1>0, <3>1, <3>2
        <3>4. \A q \in Processes \ {p} : pc[q] \notin Engaged
            BY <1>0, <3>1 DEF OneInv, Engaged
        <3>5. DispatchedOnce' BY <1>0, <3>3 DEF DispatchedOnce
        <3>6. \A q \in Processes : pc'[q] \in Engaged => q = p BY <2>1, <3>4
        <3>7. \A a \in Attempts :
                  a > at'[p] \/ (a = at'[p] /\ pc'[p] \notin Attempting) => dispatched'[a] = 0
            BY <1>0, <3>1, <3>3, AttemptsFacts DEF OrderInv, Engaged, Attempting
        <3>8. \A q \in Processes : pc'[q] = "create" => dispatched'[at'[q]] > 0
            BY <3>1, <3>3, <3>6 DEF Engaged, Attempting
        <3>. QED BY <2>3, <3>5, <3>6, <3>7, <3>8 DEF OrderInv
    <2>5. CASE ~Dispatch(p)
        <3>1. dispatched' = dispatched BY <1>2, <2>5, DispatchedFrame
        <3>2. \A q \in Processes : pc'[q] = "create" => dispatched'[at'[q]] > 0
            BY <1>0, <2>1, <2>2, <2>5, <3>1 DEF OrderInv
        <3>3. ASSUME pc'[p] \in Engaged, NEW a \in Attempts,
                     a > at'[p] \/ (a = at'[p] /\ pc'[p] \notin Attempting)
              PROVE  dispatched'[a] = 0
            <4>1. a \in Nat /\ at[p] \in Nat BY <1>0, AttemptsFacts
            <4>2. CASE pc[p] = "prepare" /\ pc'[p] = "write_manifest"
                <5>1. state = "absent"
                    BY <1>0, <1>2, <4>2, EngageStep DEF Engaged, Attempting
                <5>. QED BY <1>0, <3>1, <5>1 DEF OneInv
            <4>3. CASE pc[p] \in Engaged /\ at'[p] = at[p] + 1
                BY <1>0, <3>1, <3>3, <4>1, <4>3 DEF OrderInv
            <4>4. CASE at'[p] = at[p] /\ pc[p] \in Engaged
                       /\ (pc[p] \in Attempting => pc'[p] \in Attempting)
                BY <1>0, <3>1, <3>3, <4>1, <4>4 DEF OrderInv
            <4>. QED BY <2>2, <3>3, <4>2, <4>3, <4>4
        <3>4. \A q \in Processes : pc'[q] \in Engaged => \A a \in Attempts :
                  a > at'[q] \/ (a = at'[q] /\ pc'[q] \notin Attempting) => dispatched'[a] = 0
            BY <1>0, <2>1, <3>1, <3>3 DEF OrderInv
        <3>. QED BY <1>0, <2>3, <3>1, <3>2, <3>4 DEF OrderInv, DispatchedOnce
    <2>. QED BY <2>4, <2>5
<1>. QED BY <1>1, <1>2 DEF Next

(* A run is the campaign's only if its attempt was dispatched. *)
LEMMA OwnerStep == ASSUME IInv, Next PROVE OwnerInv'
<1>0. /\ TypeInv /\ OwnerInv /\ OrderInv /\ (dispatched \in [Attempts -> Nat])
      /\ (at \in [Processes -> Attempts])
    BY DEF IInv, TypeInv
<1>1. \A a \in Attempts : dispatched'[a] >= dispatched[a]
    <2>1. CASE Interfere BY <1>0, <2>1, InterfereFrame DEF historyVars
    <2>2. ASSUME NEW p \in Processes, Execute(p) \/ Reconcile(p) \/ Die(p)
          PROVE  <1>1
        BY <1>0, <2>2, DispatchedFrame DEF Dispatch
    <2>. QED BY <2>1, <2>2 DEF Next
<1>2. \A a \in Attempts : dir'[a].owner = "campaign" =>
          dir[a].owner = "campaign" \/ \E p \in Processes : pc[p] = "create" /\ at[p] = a
    BY <1>0, DirStep DEF RunsKept
<1>3. TypeInv' BY <1>0, TypeStep
<1>4. \A a \in Attempts : dispatched'[a] \in Nat BY <1>3 DEF TypeInv
<1>. QED BY <1>0, <1>1, <1>2, <1>4 DEF OwnerInv, OrderInv

-----------------------------------------------------------------------------
(* Evidence records stay true. *)

(* Executing leaves the evidence records alone, and a process that leaves  *)
(* reconciliation forgets them.                                            *)
LEMMA PhaseStep == ASSUME IInv, Next PROVE PhaseInv'
<1>0. /\ TypeInv /\ PhaseInv /\ (pc \in [Processes -> Labels])
      /\ (found \in [Processes -> [Attempts -> Evidence]])
    BY DEF IInv, TypeInv
<1>1. CASE Interfere
    BY <1>0, <1>1, InterfereFrame DEF PhaseInv, localVars, reconcileVars
<1>2. ASSUME NEW p \in Processes, Execute(p) \/ Reconcile(p) \/ Die(p)
      PROVE  PhaseInv'
    <2>1. \A q \in Processes \ {p} : pc'[q] = pc[q] /\ found'[q] = found[q]
        BY <1>0, <1>2, PcStep, EvidenceStep DEF Local
    <2>2. Finish(p) => \A a \in Attempts : found'[p][a] = NoEvidence
        BY <1>0 DEF Finish
    <2>3. CASE Finish(p) BY <1>0, <2>1, <2>2, <2>3 DEF PhaseInv
    <2>4. CASE Execute(p) /\ ~Finish(p)
        <3>1. found' = found
            BY <2>4 DEF Execute, Load, PrepareState, WriteManifest, CheckFixture, Dispatch,
                        CreateRun, CommitRun, Return, PostCommitError, Raise, Recover,
                        AfterAttempt, localVars, reconcileVars
        <3>2. pc[p] \notin Reconciling
            BY <2>4 DEF Execute, Load, PrepareState, WriteManifest, CheckFixture, Dispatch,
                        CreateRun, CommitRun, Return, PostCommitError, Raise, Recover,
                        AfterAttempt, Executing, Failing, Reconciling
        <3>. QED BY <1>0, <2>1, <3>1, <3>2 DEF PhaseInv
    <2>5. CASE Reconcile(p) /\ ~Finish(p)
        <3>1. pc'[p] \in Reconciling
            BY <1>0, <2>5
            DEF Reconcile, ReadManifest, Audit, ReadEvents, FinalAudit, Report, RecordUnusable,
                Record, Advance, Goto, Reconciling
        <3>. QED BY <1>0, <2>1, <3>1 DEF PhaseInv
    <2>. QED BY <1>2, <2>3, <2>4, <2>5 DEF Die
<1>. QED BY <1>1, <1>2 DEF Next

(* What the two audits have in hand is a run, and after the replay a       *)
(* terminal one.                                                           *)
LEMMA SeenStep == ASSUME IInv, Next PROVE SeenInv'
<1>0. /\ TypeInv /\ SeenInv /\ (pc \in [Processes -> Labels]) /\ (seen \in [Processes -> Runs])
      /\ (dir \in [Attempts -> Directories]) /\ (at \in [Processes -> Attempts])
    BY DEF IInv, TypeInv
<1>1. CASE Interfere
    BY <1>0, <1>1, InterfereFrame DEF SeenInv, localVars, reconcileVars
<1>2. ASSUME NEW p \in Processes, Execute(p) \/ Reconcile(p) \/ Die(p)
      PROVE  SeenInv'
    <2>1. \A q \in Processes \ {p} : pc'[q] = pc[q] /\ seen'[q] = seen[q]
        BY <1>0, <1>2, PcStep, EvidenceStep DEF Local
    <2>2. CASE pc'[p] \notin {"read", "final_audit"}
        BY <1>0, <2>1, <2>2 DEF SeenInv
    <2>3. CASE pc'[p] \in {"read", "final_audit"}
        <3>1. Audit(p) \/ ReadEvents(p)
            BY <1>0, <1>2, <2>3
            DEF Execute, Load, PrepareState, WriteManifest, CheckFixture, Dispatch, CreateRun,
                CommitRun, Return, PostCommitError, Raise, Recover, AfterAttempt, Reconcile,
                ReadManifest, FinalAudit, Report, RecordUnusable, Record, Advance, Finish, Die,
                Goto, Failing
        <3>2. dir[at[p]].run \in Runs BY <1>0 DEF Directories
        <3>3. CASE Audit(p)
            <4>1. pc'[p] = "read" /\ seen'[p] = dir[at[p]].run
                  /\ dir[at[p]].run \notin {"none", "absent"}
                BY <1>0, <2>3, <3>3 DEF Audit, RecordUnusable, Record, Advance, Goto
            <4>2. seen'[p] \in TerminalRuns \cup {"active"} BY <3>2, <4>1 DEF Runs
            <4>. QED BY <1>0, <2>1, <4>1, <4>2 DEF SeenInv
        <3>4. CASE ReadEvents(p)
            <4>1. pc[p] = "read" /\ pc'[p] = "final_audit" /\ seen'[p] = seen[p]
                  /\ seen[p] # "active"
                BY <1>0, <2>3, <3>4 DEF ReadEvents, RecordUnusable, Record, Advance, Goto
            <4>2. seen'[p] \in TerminalRuns BY <1>0, <4>1 DEF SeenInv
            <4>. QED BY <1>0, <2>1, <4>1, <4>2 DEF SeenInv
        <3>. QED BY <3>1, <3>3, <3>4
    <2>. QED BY <2>2, <2>3
<1>. QED BY <1>1, <1>2 DEF Next

\* What an evidence record says of an attempt and of the notes about it.
RecordTrue(e, d, n) ==
    /\ e.run # "none" => e.run \in TerminalRuns /\ d.run = e.run
    /\ e.disposition = "expected" => d.run = "succeeded" /\ d.owner = "campaign" /\ ~n.error

(* FoundInv is RecordTrue for every process and attempt. *)
LEMMA FoundParts ==
    FoundInv <=> \A p \in Processes, a \in Attempts : RecordTrue(found[p][a], dir[a], notes[p][a])
BY DEF FoundInv, RecordTrue

(* A record that is true stays true when the run changes as runs may. *)
LEMMA RecordStays ==
    ASSUME NEW e, NEW a \in Attempts, NEW n, RecordTrue(e, dir[a], n), RunsKept
    PROVE  RecordTrue(e, dir'[a], n)
<1>1. "succeeded" \in TerminalRuns BY DEF TerminalRuns
<1>. QED BY <1>1 DEF RecordTrue, RunsKept

(* A record of nothing is true. *)
LEMMA NothingTrue == ASSUME NEW d, NEW n PROVE RecordTrue(NoEvidence, d, n)
BY DEF RecordTrue, NoEvidence

(* The notes of an attempt do not change once it may have been judged. *)
LEMMA NotesSettled ==
    ASSUME NEW p \in Processes, Reconcile(p), ~Finish(p)
    PROVE  UNCHANGED <<notes, flawed, dir>>
BY DEF Reconcile, ReadManifest, Audit, ReadEvents, FinalAudit, Report, fileVars

(* A new record is true of the run it was made from. *)
LEMMA NewRecordTrue ==
    ASSUME TypeInv, SeenInv, NEW p \in Processes, Reconcile(p), ~Finish(p), NEW a \in Attempts,
           found'[p][a] # found[p][a]
    PROVE  RecordTrue(found'[p][a], dir[a], notes[p][a])
<1>0. /\ (found \in [Processes -> [Attempts -> Evidence]]) /\ (at[p] \in Attempts)
      /\ (seen[p] \in Runs)
    BY DEF TypeInv
<1>1. CASE RecordUnusable(p)
    <2>1. a = at[p] /\ found'[p][a] = [disposition |-> "evidence_unusable", run |-> "none"]
        BY <1>0, <1>1 DEF RecordUnusable, Record
    <2>. QED BY <2>1 DEF RecordTrue
<1>2. CASE ~RecordUnusable(p)
    <2>1. FinalAudit(p)
        BY <1>0, <1>2 DEF Reconcile, ReadManifest, Audit, ReadEvents, Report
    <2>2. Record(p, Disposition(p, dir[at[p]]), dir[at[p]].run) /\ dir[at[p]].run = seen[p]
          /\ pc[p] = "final_audit"
        BY <1>2, <2>1 DEF FinalAudit
    <2>3. a = at[p] /\ found'[p][a] = [disposition |-> Disposition(p, dir[a]), run |-> dir[a].run]
        BY <1>0, <2>2 DEF Record
    <2>4. dir[a].run \in TerminalRuns
        BY <2>2, <2>3 DEF SeenInv
    <2>5. Disposition(p, dir[a]) = "expected" =>
              dir[a].run = "succeeded" /\ dir[a].owner = "campaign" /\ ~notes[p][a].error
        BY <2>3 DEF Disposition
    <2>. QED BY <2>3, <2>4, <2>5 DEF RecordTrue
<1>. QED BY <1>1, <1>2

(* Evidence records stay true. *)
LEMMA FoundStep == ASSUME IInv, Next PROVE FoundInv'
<1>0. /\ TypeInv /\ PhaseInv /\ SeenInv /\ (found \in [Processes -> [Attempts -> Evidence]])
      /\ RunsKept
      /\ \A p \in Processes, a \in Attempts : RecordTrue(found[p][a], dir[a], notes[p][a])
    BY FoundParts, DirStep DEF IInv, TypeInv
<1>1. SUFFICES ASSUME NEW q \in Processes, NEW a \in Attempts
               PROVE  RecordTrue(found'[q][a], dir'[a], notes'[q][a])
    BY DEF FoundInv, RecordTrue
<1>2. CASE found'[q] = found[q] /\ notes'[q] = notes[q]
    BY <1>0, <1>2, RecordStays
<1>3. CASE Interfere
    BY <1>2, <1>3, InterfereFrame DEF localVars, reconcileVars
<1>4. ASSUME NEW p \in Processes, Execute(p) \/ Reconcile(p) \/ Die(p)
      PROVE  RecordTrue(found'[q][a], dir'[a], notes'[q][a])
    <2>1. CASE p # q
        BY <1>0, <1>2, <1>4, <2>1, NotesStep, EvidenceStep DEF Local
    <2>2. CASE p = q /\ Finish(p)
        <3>1. found'[q][a] = NoEvidence BY <1>0, <2>2 DEF Finish
        <3>. QED BY <3>1, NothingTrue
    <2>3. CASE p = q /\ Execute(p) /\ ~Finish(p)
        <3>1. found' = found
            BY <2>3 DEF Execute, Load, PrepareState, WriteManifest, CheckFixture, Dispatch,
                        CreateRun, CommitRun, Return, PostCommitError, Raise, Recover,
                        AfterAttempt, localVars, reconcileVars
        <3>2. pc[p] \notin Reconciling
            BY <2>3 DEF Execute, Load, PrepareState, WriteManifest, CheckFixture, Dispatch,
                        CreateRun, CommitRun, Return, PostCommitError, Raise, Recover,
                        AfterAttempt, Executing, Failing, Reconciling
        <3>3. found'[q][a] = NoEvidence BY <1>0, <2>3, <3>1, <3>2 DEF PhaseInv
        <3>. QED BY <3>3, NothingTrue
    <2>4. CASE p = q /\ Reconcile(p) /\ ~Finish(p)
        <3>1. notes' = notes /\ dir' = dir BY <2>4, NotesSettled
        <3>2. CASE found'[q][a] = found[q][a] BY <1>0, <3>1, <3>2
        <3>3. CASE found'[q][a] # found[q][a] BY <1>0, <2>4, <3>1, <3>3, NewRecordTrue
        <3>. QED BY <3>2, <3>3
    <2>. QED BY <1>4, <2>1, <2>2, <2>3, <2>4 DEF Die
<1>. QED BY <1>3, <1>4 DEF Next

(* What a report certifies stays the result of the run. *)
LEMMA CertifiedStep == ASSUME IInv, Next PROVE CertifiedInv'
<1>0. TypeInv /\ FoundInv /\ CertifiedInv /\ RunsKept BY DirStep DEF IInv
<1>1. CASE UNCHANGED certified
    BY <1>0, <1>1 DEF CertifiedInv, RunsKept
<1>2. ASSUME NEW p \in Processes, Report(p) PROVE CertifiedInv'
    <2>1. /\ \A a \in Attempts : certified'[a] = certified[a] \cup ({found[p][a].run} \ {"none"})
          /\ dir' = dir
        BY <1>2 DEF Report
    <2>. QED BY <1>0, <2>1 DEF CertifiedInv, FoundInv
<1>3. ASSUME NEW p \in Processes, Execute(p) \/ Reconcile(p) \/ Die(p)
      PROVE  CertifiedInv'
    BY <1>1, <1>2, <1>3
    DEF Execute, Load, PrepareState, WriteManifest, CheckFixture, Dispatch, CreateRun, CommitRun,
        Return, PostCommitError, Raise, Recover, AfterAttempt, Reconcile, ReadManifest, Audit,
        ReadEvents, FinalAudit, Die, historyVars
<1>4. CASE Interfere
    BY <1>1, <1>4, InterfereFrame DEF historyVars
<1>. QED BY <1>3, <1>4 DEF Next

-----------------------------------------------------------------------------
(* Flaws are noted. *)

\* Why a flaw of a process at attempt a is not overlooked, given its note.
FlawSeen(p, a) ==
    \/ notes[p][a].error \/ ~code
    \/ at[p] = a /\ pc[p] = "failing"
    \/ at[p] = a /\ pc[p] \in Attempting /\ FixtureOf(a) \notin intact

(* FlawInv says that no flaw is overlooked. *)
LEMMA FlawParts ==
    FlawInv <=> \A p \in Processes, a \in Attempts : a \in flawed[p] => FlawSeen(p, a)
BY DEF FlawInv, FlawSeen

(* Changed sources stay changed. *)
LEMMA SourcesStep == ASSUME Next PROVE intact' \subseteq intact /\ (~code => ~code')
<1>1. CASE Interfere
    <2>1. /\ UNCHANGED intact \/ \E f : intact' = intact \ {f}
          /\ UNCHANGED code \/ code' = FALSE
        BY <1>1 DEF Interfere, ChangeCode, ChangeFixture, RogueRun, ForeignRun, LoseEvidence,
                    OperatorRecovers
    <2>. QED BY <2>1
<1>2. ASSUME NEW p \in Processes, Execute(p) \/ Reconcile(p) \/ Die(p)
      PROVE  UNCHANGED <<intact, code>>
    BY <1>2 DEF Execute, Load, PrepareState, WriteManifest, CheckFixture, Dispatch, CreateRun,
                CommitRun, Return, PostCommitError, Raise, Recover, AfterAttempt, Reconcile,
                ReadManifest, Audit, ReadEvents, FinalAudit, Report, Die, fileVars
<1>. QED BY <1>1, <1>2 DEF Next

(* A note is about the attempt the process is at. *)
LEMMA TakeEffect ==
    ASSUME TypeInv, NEW p \in Processes, NEW n, Take(p, n)
    PROVE  notes'[p][at[p]] = n /\ \A a \in Attempts \ {at[p]} : notes'[p][a] = notes[p][a]
BY DEF TypeInv, Take

(* A step of the process that has the flaw does not overlook it. *)
LEMMA OwnFlawStep ==
    ASSUME IInv, NEW p \in Processes, Execute(p), ~Finish(p), NEW a \in Attempts, a \in flawed'[p]
    PROVE  FlawSeen(p, a)'
<1>0. /\ TypeInv /\ (at[p] \in Attempts) /\ (pc \in [Processes -> Labels])
      /\ (at \in [Processes -> Attempts]) /\ (flawed \in [Processes -> SUBSET Attempts])
      /\ a \in flawed[p] => FlawSeen(p, a)
    BY FlawParts DEF IInv, TypeInv
<1>1. intact' = intact /\ code' = code
    BY DEF Execute, Load, PrepareState, WriteManifest, CheckFixture, Dispatch, CreateRun,
           CommitRun, Return, PostCommitError, Raise, Recover, AfterAttempt, fileVars
<1>. USE DEF FlawSeen, Attempting, Goto
<1>2. CASE Load(p) \/ PrepareState(p) \/ WriteManifest(p)
    BY <1>0, <1>1, <1>2 DEF Load, PrepareState, WriteManifest, localVars
<1>3. CASE CheckFixture(p)
    <2>1. pc[p] = "check" /\ flawed' = flawed BY <1>3 DEF CheckFixture
    <2>2. notes[p][a].error \/ ~code BY <1>0, <2>1
    <2>3. UNCHANGED notes \/ Take(p, [error |-> TRUE, post |-> FALSE])
        BY <1>3 DEF CheckFixture
    <2>4. notes'[p][a].error \/ ~code BY <1>0, <2>2, <2>3, TakeEffect
    <2>. QED BY <1>1, <2>4
<1>4. CASE Dispatch(p)
    <2>1. /\ pc[p] = "dispatch" /\ pc'[p] = "create" /\ notes' = notes /\ at' = at
          /\ a \in flawed[p] \/ (a = at[p] /\ ~(FixtureIntact(p) /\ code))
        BY <1>0, <1>4 DEF Dispatch, Flaw
    <2>. QED BY <1>0, <1>1, <2>1 DEF FixtureIntact
<1>5. CASE CreateRun(p) \/ (\E x \in TerminalRuns : CommitRun(p, x)) \/ Return(p)
    BY <1>0, <1>1, <1>5 DEF CreateRun, CommitRun, Return, localVars
<1>6. CASE PostCommitError(p)
    <2>1. /\ pc[p] = "committed" /\ pc'[p] = "after" /\ at' = at
          /\ Take(p, [error |-> TRUE, post |-> TRUE])
          /\ a \in flawed[p] \/ a = at[p]
        BY <1>0, <1>6 DEF PostCommitError, Flaw
    <2>2. CASE a = at[p] BY <1>0, <2>1, <2>2, TakeEffect
    <2>3. CASE a # at[p] BY <1>0, <1>1, <2>1, <2>3, TakeEffect
    <2>. QED BY <2>2, <2>3
<1>7. ASSUME NEW label \in Failing, Raise(p, label) PROVE FlawSeen(p, a)'
    <2>1. /\ pc[p] \in Executing /\ pc'[p] = label /\ at' = at /\ notes' = notes
          /\ a \in flawed[p] \/ (a = at[p] /\ label = "failing")
        BY <1>0, <1>7 DEF Raise, Flaw
    <2>. QED BY <1>0, <1>1, <1>7, <2>1 DEF Executing, Failing
<1>8. CASE Recover(p)
    <2>1. pc[p] \in Failing /\ pc'[p] = "after" /\ at' = at /\ flawed' = flawed
        BY <1>0, <1>8 DEF Recover
    <2>2. CASE pc[p] = "failing"
        <3>1. Take(p, [error |-> TRUE, post |-> FALSE]) BY <1>8, <2>2 DEF Recover
        <3>2. CASE a = at[p] BY <1>0, <3>1, <3>2, TakeEffect
        <3>3. CASE a # at[p] BY <1>0, <1>1, <2>1, <3>1, <3>3, TakeEffect
        <3>. QED BY <3>2, <3>3
    <2>3. CASE pc[p] # "failing"
        BY <1>0, <1>1, <1>8, <2>1, <2>3 DEF Recover, Failing
    <2>. QED BY <2>2, <2>3
<1>9. CASE AfterAttempt(p)
    <2>1. pc[p] = "after" /\ flawed' = flawed BY <1>9 DEF AfterAttempt
    <2>2. CASE FixtureIntact(p)
        <3>1. notes' = notes BY <1>9, <2>2 DEF AfterAttempt
        <3>. QED BY <1>0, <1>1, <2>1, <2>2, <3>1 DEF FixtureIntact
    <2>3. CASE ~FixtureIntact(p)
        <3>1. Take(p, [notes[p][at[p]] EXCEPT !.error = TRUE]) BY <1>9, <2>3 DEF AfterAttempt
        <3>2. [notes[p][at[p]] EXCEPT !.error = TRUE].error = TRUE
            BY <1>0 DEF TypeInv, Notes
        <3>3. CASE a = at[p] BY <1>0, <3>1, <3>2, <3>3, TakeEffect
        <3>4. CASE a # at[p] BY <1>0, <1>1, <2>1, <3>1, <3>4, TakeEffect
        <3>. QED BY <3>3, <3>4
    <2>. QED BY <2>2, <2>3
<1>. QED BY <1>2, <1>3, <1>4, <1>5, <1>6, <1>7, <1>8, <1>9 DEF Execute

(* No step overlooks a flaw. *)
LEMMA FlawStep == ASSUME IInv, Next PROVE FlawInv'
<1>0. /\ TypeInv /\ (pc \in [Processes -> Labels]) /\ (flawed \in [Processes -> SUBSET Attempts])
      /\ \A p \in Processes, a \in Attempts : a \in flawed[p] => FlawSeen(p, a)
    BY FlawParts DEF IInv, TypeInv
<1>1. intact' \subseteq intact /\ (~code => ~code') BY SourcesStep
<1>2. SUFFICES ASSUME NEW q \in Processes, NEW a \in Attempts, a \in flawed'[q]
               PROVE  FlawSeen(q, a)'
    BY DEF FlawInv, FlawSeen
<1>3. CASE flawed'[q] = flawed[q] /\ notes'[q] = notes[q] /\ pc'[q] = pc[q] /\ at'[q] = at[q]
    BY <1>0, <1>1, <1>2, <1>3 DEF FlawSeen
<1>4. CASE Interfere
    BY <1>3, <1>4, InterfereFrame DEF localVars
<1>5. ASSUME NEW p \in Processes, Execute(p) \/ Reconcile(p) \/ Die(p)
      PROVE  FlawSeen(q, a)'
    <2>1. CASE p # q
        BY <1>0, <1>3, <1>5, <2>1, PcStep, AtStep, NotesStep DEF Local
    <2>2. CASE p = q /\ Finish(p)
        BY <1>0, <1>2, <2>2 DEF Finish
    <2>3. CASE p = q /\ Execute(p) /\ ~Finish(p)
        BY <1>2, <2>3, OwnFlawStep
    <2>4. CASE p = q /\ Reconcile(p) /\ ~Finish(p)
        <3>1. notes' = notes /\ flawed' = flawed BY <2>4, NotesSettled
        <3>2. pc[p] \notin Attempting
            BY <2>4 DEF Reconcile, ReadManifest, Audit, ReadEvents, FinalAudit, Report, Attempting
        <3>3. notes[q][a].error \/ ~code
            BY <1>0, <1>2, <2>4, <3>1, <3>2 DEF FlawSeen, Attempting
        <3>. QED BY <1>1, <3>1, <3>3 DEF FlawSeen
    <2>. QED BY <1>5, <2>1, <2>2, <2>3, <2>4 DEF Die
<1>. QED BY <1>4, <1>5 DEF Next

-----------------------------------------------------------------------------
(* The theorems. *)

(* A campaign that has not begun satisfies the invariant. *)
LEMMA IInvInit == Init => IInv
<1>. SUFFICES ASSUME Init PROVE IInv OBVIOUS
<1>1. TypeInv
    <2>1. NoDirectory \in Directories /\ NoNote \in Notes /\ NoEvidence \in Evidence
        BY DEF NoDirectory, NoNote, NoEvidence, Directories, Notes, Evidence, Runs, Dispositions
    <2>. QED BY <2>1, AttemptsFacts DEF Init, TypeInv, Labels, Runs
<1>2. OneInv /\ OrderInv /\ PhaseInv /\ SeenInv /\ DispatchedOnce
    BY DEF Init, OneInv, OrderInv, PhaseInv, SeenInv, DispatchedOnce, Engaged, Attempting,
           Reconciling
<1>3. OwnerInv /\ FoundInv /\ CertifiedInv /\ FlawInv
    BY DEF Init, OwnerInv, FoundInv, CertifiedInv, FlawInv, NoDirectory, NoEvidence
<1>. QED BY <1>1, <1>2, <1>3 DEF IInv

(* Every step keeps the invariant. *)
LEMMA IInvStep == IInv /\ [Next]_vars => IInv'
<1>. SUFFICES ASSUME IInv, [Next]_vars PROVE IInv' OBVIOUS
<1>1. CASE Next
    <2>1. TypeInv BY DEF IInv
    <2>. QED
        BY <1>1, <2>1, TypeStep, OneStep, OrderStep, OwnerStep, PhaseStep, SeenStep, FoundStep,
           CertifiedStep, FlawStep
        DEF IInv
<1>2. CASE UNCHANGED vars
    BY <1>2 DEF vars, fileVars, localVars, historyVars, reconcileVars, IInv, TypeInv, OneInv,
                OrderInv, OwnerInv, PhaseInv, SeenInv, FoundInv, CertifiedInv, FlawInv,
                DispatchedOnce
<1>. QED BY <1>1, <1>2

(* The invariant holds in every behaviour. *)
LEMMA CampaignInvariant == Spec => []IInv
BY IInvInit, IInvStep, PTL DEF Spec

(* Type correctness of a campaign for every schedule and any number of     *)
(* processes that execute or judge it.                                     *)
THEOREM CampaignTypeCorrect == Spec => []TypeInv
<1>1. IInv => TypeInv BY DEF IInv
<1>. QED BY <1>1, CampaignInvariant, PTL

(* No attempt is dispatched twice, however many processes are started on   *)
(* the same state directory and wherever they stop.                        *)
THEOREM AttemptsOnce == Spec => []DispatchedOnce
<1>1. IInv => DispatchedOnce BY DEF IInv
<1>. QED BY <1>1, CampaignInvariant, PTL

(* No two reports give different terminal results for an attempt: what a   *)
(* report certifies stays the result of the run.                           *)
THEOREM ReportsConsistent == Spec => []ReportsAgree
<1>1. IInv => ReportsAgree BY DEF IInv, CertifiedInv, ReportsAgree
<1>. QED BY <1>1, CampaignInvariant, PTL

(* A report that passes was earned by every attempt, and not with a flaw   *)
(* the process knew of.                                                    *)
THEOREM PassesEarned == Spec => PassJustified
<1>. DEFINE Justified ==
        \A p \in Processes : Report(p) /\ Passed(p) => \A a \in Attempts :
            /\ dispatched[a] = 1
            /\ dir[a].run = "succeeded" /\ dir[a].owner = "campaign"
            /\ a \notin flawed[p]
<1>1. ASSUME IInv PROVE Justified
    <2>1. SUFFICES ASSUME NEW p \in Processes, Report(p), Passed(p), NEW a \in Attempts
                   PROVE  /\ dispatched[a] = 1
                          /\ dir[a].run = "succeeded" /\ dir[a].owner = "campaign"
                          /\ a \notin flawed[p]
        OBVIOUS
    <2>2. pc[p] = "report" /\ code /\ found[p][a].disposition = "expected"
        BY <2>1 DEF Report, Passed
    <2>3. dir[a].run = "succeeded" /\ dir[a].owner = "campaign" /\ ~notes[p][a].error
        BY <1>1, <2>2 DEF IInv, FoundInv
    <2>4. dispatched[a] \in Nat /\ dispatched[a] > 0 /\ dispatched[a] <= 1
        BY <1>1, <2>3 DEF IInv, OwnerInv, DispatchedOnce, TypeInv
    <2>5. a \notin flawed[p]
        BY <1>1, <2>2, <2>3 DEF IInv, FlawInv, Attempting
    <2>. QED BY <2>3, <2>4, <2>5
<1>2. Spec => []IInv BY CampaignInvariant
<1>3. IInv => [Justified]_vars BY <1>1
<1>. QED BY <1>2, <1>3, PTL DEF PassJustified

=============================================================================
