----------------------------- MODULE Quarantine -----------------------------
(***************************************************************************)
(* The resumable orphan-quarantine transaction (storage/quarantine.py).     *)
(* A maintainer that holds the exclusive lease moves every unreferenced    *)
(* file of the artifact store into a transaction's payload directory.      *)
(* Records explain the moves, and the ACTIVE marker keeps shared writers   *)
(* out from before the first move until the transaction is complete.       *)
(*                                                                         *)
(* MaintenanceLease shows that at most one process is past the exclusive   *)
(* lease, so the maintainer's own state is kept once, for the holder.  It  *)
(* may be killed or meet an I/O error at every step, and the host may lose *)
(* power: now is what processes see, disk what is sure to survive.         *)
(***************************************************************************)
EXTENDS Naturals, FiniteSets

CONSTANTS
    Files,        \* file identities (inodes) that may turn up in the store
    Unsupported,  \* those the audit reports as links or special files
    MaxLedger,    \* ledger commits of shared writers
    MaxFaults,    \* kills and I/O errors
    MaxLosses,    \* power losses
    None

ASSUME UnsupportedAssumption == Unsupported \subseteq Files
ASSUME BoundsAssumption == MaxLedger \in Nat /\ MaxFaults \in Nat /\ MaxLosses \in Nat

\* A plan binds the ledger snapshot and the candidates; its digest names the
\* transaction.
Plans == [ledger : 0..MaxLedger, files : SUBSET Files]
ASSUME NoneAssumption == None \notin Plans /\ None \notin Files

RecordNames == {"before", "plan", "after", "complete"}
Disks == [cas : SUBSET Files, payload : SUBSET (Plans \X Files),
          records : SUBSET (Plans \X RecordNames), receipts : SUBSET (Plans \X Files),
          active : Plans \cup {None}]

VARIABLES
    now,     \* entries that processes see
    disk,    \* entries that survive a power loss
    owned,   \* files the ledger refers to
    ledger,  \* the verified all-run snapshot
    pc,      \* the next step of the lease holder; idle when there is none
    txn,     \* the transaction it works on
    todo,    \* candidates it has not reconciled
    pending, \* candidates it found not moved yet
    item,    \* the candidate it is moving or repairing
    loop,    \* the loop it does so in: reconcile or move
    found,   \* the entries it found when it took the lease
    outcome, \* how the last call of quarantine_orphans ended
    faults, losses

vars == <<now, disk, owned, ledger, pc, txn, todo, pending, item, loop, found, outcome,
          faults, losses>>
writerVars == <<owned, ledger>>
localVars == <<txn, todo, pending, item, loop, found>>
boundVars == <<faults, losses>>

Preparing == {"enter", "read_active", "prepare", "records", "before", "sync_before", "plan",
              "sync_plan", "active", "sync_active"}
Resuming == {"load", "reconcile", "audit", "move", "sync_payload", "sync_source", "receipt",
             "sync_receipt", "final_audit", "after", "sync_after", "complete", "sync_complete",
             "unlink_active"}
Finishing == {"sync_unlink", "release"}
Outcomes == {"none", "no_op", "maintenance_denied", "denied", "incomplete", "unproven",
             "no_op_finalization", "completed_finalization", "completed", "killed"}

Init ==
    /\ now = [cas |-> {}, payload |-> {}, records |-> {}, receipts |-> {}, active |-> None]
    /\ disk = now
    /\ owned = {} /\ ledger = 0
    /\ pc = "idle" /\ txn = None /\ todo = {} /\ pending = {} /\ item = None
    /\ loop = "reconcile" /\ found = None /\ outcome = "none" /\ faults = 0 /\ losses = 0

Goto(label) == pc' = label

\* The call ends and the lease is released.
End(result) ==
    /\ pc' = "idle" /\ outcome' = result
    /\ txn' = None /\ todo' = {} /\ pending' = {} /\ item' = None /\ loop' = "reconcile"
    /\ found' = None

-----------------------------------------------------------------------------
(* Shared-lease writers.  Their lease excludes the maintainer's, and they   *)
(* are refused while ACTIVE is visible.                                    *)

\* Mutants: writers do not look at the marker; they let the lease go early.
UnfencedUnmarked == pc = "idle"
UnfencedUnleased == now.active = None \/ pc # "idle"
Unfenced == pc = "idle" /\ now.active = None

Born == now.cas \cup {e[2] : e \in now.payload}

\* A publisher dies and leaves a file without an owner.
Abandon(f) ==
    /\ Unfenced
    /\ f \notin Born
    /\ now' = [now EXCEPT !.cas = @ \cup {f}]
    /\ disk' = [disk EXCEPT !.cas = @ \cup {f}]
    /\ UNCHANGED <<writerVars, pc, localVars, outcome, boundVars>>

\* A runner publishes f, or deduplicates to it, and commits a reference.
Bind(f) ==
    /\ Unfenced
    /\ ledger < MaxLedger
    /\ f \notin Unsupported
    /\ f \in now.cas \/ f \notin Born
    /\ now' = [now EXCEPT !.cas = @ \cup {f}]
    /\ disk' = [disk EXCEPT !.cas = @ \cup {f}]
    /\ owned' = owned \cup {f}
    /\ ledger' = ledger + 1
    /\ UNCHANGED <<pc, localVars, outcome, boundVars>>

-----------------------------------------------------------------------------
(* A fresh plan. *)

\* MaintenanceLease.acquire_exclusive ignores the ACTIVE marker.
Acquire ==
    /\ pc = "idle"
    /\ Goto("enter")
    /\ found' = now
    /\ outcome' = "none"
    /\ UNCHANGED <<now, disk, writerVars, txn, todo, pending, item, loop, boundVars>>

\* It is refused while a shared writer holds the lease, or when the lock file
\* is not what it should be: QuarantineDeniedError(MAINTENANCE_DENIED).
Refuse ==
    /\ pc = "idle"
    /\ End("maintenance_denied")
    /\ UNCHANGED <<now, disk, writerVars, boundVars>>

\* The lease is entered and lends its verified descriptor.
Enter ==
    /\ pc = "enter"
    /\ Goto("read_active")
    /\ UNCHANGED <<now, disk, writerVars, localVars, outcome, boundVars>>

\* An existing ACTIVE is resumed, whoever published it.
ReadActive ==
    /\ pc = "read_active"
    /\ txn' = now.active
    /\ Goto(IF now.active = None THEN "prepare" ELSE "load")
    /\ UNCHANGED <<now, disk, writerVars, todo, pending, item, loop, found, outcome, boundVars>>

\* What the audit finds: entries of the store no ledger reference reaches.
Findings == now.cas \ owned

\* audit_storage, candidate hashing and the second audit: nobody else may
\* write meanwhile.
PrepareFreshPlan ==
    /\ pc = "prepare"
    /\ \/ /\ Findings = {}
          /\ Goto("release")
          /\ UNCHANGED <<localVars, outcome>>
       \/ /\ Findings \cap Unsupported # {}
          /\ End("denied")
       \/ /\ Findings # {} /\ Findings \cap Unsupported = {}
          /\ txn' = [ledger |-> ledger, files |-> Findings]
          /\ Goto("records")
          /\ UNCHANGED <<todo, pending, item, loop, found, outcome>>
    /\ UNCHANGED <<now, disk, writerVars, boundVars>>

\* A transaction directory left by an earlier call may hold nothing but the
\* two records that will be written again.
PrepareRecords ==
    /\ pc = "records"
    /\ IF /\ \A f \in Files : <<txn, f>> \notin now.payload \cup now.receipts
          /\ {<<txn, "after">>, <<txn, "complete">>} \cap now.records = {}
         THEN Goto("before") /\ UNCHANGED <<localVars, outcome>>
         ELSE End("denied")
    /\ UNCHANGED <<now, disk, writerVars, boundVars>>

\* _write_immutable_model, up to and including its no-replace rename; an
\* equal record that is already there is accepted.
PublishRecord(at, name, label) ==
    /\ pc = at
    /\ now' = [now EXCEPT !.records = @ \cup {<<txn, name>>}]
    /\ Goto(label)
    /\ UNCHANGED <<disk, writerVars, localVars, outcome, boundVars>>

OfTransaction(entries) == {e \in entries : e[1] = txn}

\* fsync of the transaction directory
SyncRecords(at, label) ==
    /\ pc = at
    /\ disk' = [disk EXCEPT !.records = @ \cup OfTransaction(now.records)]
    /\ Goto(label)
    /\ UNCHANGED <<now, writerVars, localVars, outcome, boundVars>>

WriteBefore == PublishRecord("before", "before", "sync_before")
SyncBefore == SyncRecords("sync_before", "plan")
WritePlan == PublishRecord("plan", "plan", "sync_plan")
SyncPlan == SyncRecords("sync_plan", "active")

PublishActive ==
    /\ pc = "active"
    /\ IF now.active = None
         THEN /\ now' = [now EXCEPT !.active = txn]
              /\ Goto("sync_active")
              /\ UNCHANGED <<localVars, outcome>>
         ELSE End("incomplete") /\ UNCHANGED now
    /\ UNCHANGED <<disk, writerVars, boundVars>>

\* fsync of quarantine/v1
SyncVersion(at, label) ==
    /\ pc = at
    /\ disk' = [disk EXCEPT !.active = now.active]
    /\ Goto(label)
    /\ UNCHANGED <<now, writerVars, localVars, outcome, boundVars>>

SyncActive == SyncVersion("sync_active", "load")

-----------------------------------------------------------------------------
(* _resume_transaction: from ACTIVE to the end, by its publisher or by a   *)
(* later maintainer.                                                       *)

LoadPlan ==
    /\ pc = "load"
    /\ IF {<<txn, "before">>, <<txn, "plan">>} \subseteq now.records
         THEN /\ todo' = txn.files /\ pending' = {}
              /\ Goto("reconcile")
              /\ UNCHANGED <<txn, item, loop, found, outcome>>
         ELSE End("incomplete")
    /\ UNCHANGED <<now, disk, writerVars, boundVars>>

AtSource(f) == f \in now.cas
AtDestination(f) == <<txn, f>> \in now.payload
HasReceipt(f) == <<txn, f>> \in now.receipts

\* Mutant: a move without a receipt counts as unexplained.
MovedWithReceipt(f) == AtDestination(f) /\ ~AtSource(f) /\ HasReceipt(f)
StillPending(f) == AtSource(f) /\ ~AtDestination(f) /\ ~HasReceipt(f)
Moved(f) == AtDestination(f) /\ ~AtSource(f)

\* _reconcile_candidates, one candidate at a time: pending, moved (its
\* durability is repaired and its receipt written), or ambiguous.
Reconcile ==
    /\ pc = "reconcile"
    /\ \/ /\ todo = {}
          /\ Goto("audit")
          /\ UNCHANGED <<localVars, outcome>>
       \/ \E f \in todo :
            \/ /\ StillPending(f)
               /\ todo' = todo \ {f} /\ pending' = pending \cup {f}
               /\ UNCHANGED <<pc, txn, item, loop, found, outcome>>
            \/ /\ Moved(f)
               /\ todo' = todo \ {f} /\ item' = f
               /\ Goto("sync_payload")
               /\ UNCHANGED <<txn, pending, loop, found, outcome>>
            \/ /\ ~StillPending(f) /\ ~Moved(f)
               /\ End("incomplete")
    /\ UNCHANGED <<now, disk, writerVars, boundVars>>

\* _require_current_report: the same ledger, and exactly the pending
\* candidates are left in the store.
AuditCurrent ==
    /\ pc = "audit"
    /\ IF ledger = txn.ledger /\ Findings = pending
         THEN /\ Goto("move") /\ loop' = "move"
              /\ UNCHANGED <<txn, todo, pending, item, found, outcome>>
         ELSE End("incomplete")
    /\ UNCHANGED <<now, disk, writerVars, boundVars>>

\* _move_candidate: revalidate, then rename without replacing.
Move ==
    /\ pc = "move"
    /\ \/ /\ pending = {}
          /\ Goto("final_audit")
          /\ UNCHANGED <<now, localVars, outcome>>
       \/ \E f \in pending :
            IF AtSource(f) /\ ~AtDestination(f)
              THEN /\ now' = [now EXCEPT !.cas = @ \ {f}, !.payload = @ \cup {<<txn, f>>}]
                   /\ pending' = pending \ {f} /\ item' = f
                   /\ Goto("sync_payload")
                   /\ UNCHANGED <<txn, todo, loop, found, outcome>>
              ELSE End("incomplete") /\ UNCHANGED now
    /\ UNCHANGED <<disk, writerVars, boundVars>>

SyncPayload ==
    /\ pc = "sync_payload"
    /\ disk' = [disk EXCEPT !.payload = @ \cup OfTransaction(now.payload)]
    /\ Goto("sync_source")
    /\ UNCHANGED <<now, writerVars, localVars, outcome, boundVars>>

\* Mutant: the directory the file left is not flushed before the receipt.
SyncSourceSkipped ==
    /\ pc = "sync_source"
    /\ Goto("receipt")
    /\ UNCHANGED <<now, disk, writerVars, localVars, outcome, boundVars>>
\* fsync of the source directory, then the source must be absent.
SyncSource ==
    /\ pc = "sync_source"
    /\ disk' = [disk EXCEPT !.cas = @ \ ({item} \ now.cas)]
    /\ IF AtSource(item) THEN End("incomplete")
                         ELSE Goto("receipt") /\ UNCHANGED <<localVars, outcome>>
    /\ UNCHANGED <<now, writerVars, boundVars>>

WriteReceipt ==
    /\ pc = "receipt"
    /\ now' = [now EXCEPT !.receipts = @ \cup {<<txn, item>>}]
    /\ Goto("sync_receipt")
    /\ UNCHANGED <<disk, writerVars, localVars, outcome, boundVars>>

\* Back to the loop that found the item.
SyncReceipt ==
    /\ pc = "sync_receipt"
    /\ disk' = [disk EXCEPT !.receipts = @ \cup OfTransaction(now.receipts)]
    /\ item' = None
    /\ Goto(loop)
    /\ UNCHANGED <<now, writerVars, txn, todo, pending, loop, found, outcome, boundVars>>

\* _require_final_report
FinalAudit ==
    /\ pc = "final_audit"
    /\ IF ledger = txn.ledger /\ Findings = {}
         THEN Goto("after") /\ UNCHANGED <<localVars, outcome>>
         ELSE End("incomplete")
    /\ UNCHANGED <<now, disk, writerVars, boundVars>>

WriteAfter == PublishRecord("after", "after", "sync_after")
SyncAfter == SyncRecords("sync_after", "complete")

\* Every receipt is read back before COMPLETE binds them.
WriteComplete ==
    /\ pc = "complete"
    /\ IF \A f \in txn.files : HasReceipt(f)
         THEN PublishRecord("complete", "complete", "sync_complete")
         ELSE End("incomplete") /\ UNCHANGED <<now, disk, writerVars, boundVars>>

\* fsync, the exact-entry checks of the namespaces, fsync again.
SyncComplete ==
    /\ pc = "sync_complete"
    /\ disk' = [disk EXCEPT !.records = @ \cup OfTransaction(now.records)]
    /\ IF /\ OfTransaction(now.payload) = {txn} \X txn.files
          /\ OfTransaction(now.receipts) = {txn} \X txn.files
         THEN Goto("unlink_active") /\ UNCHANGED <<localVars, outcome>>
         ELSE End("incomplete")
    /\ UNCHANGED <<now, writerVars, boundVars>>

\* _remove_active
UnlinkActive ==
    /\ pc = "unlink_active"
    /\ IF now.active = txn
         THEN /\ now' = [now EXCEPT !.active = None]
              /\ Goto("sync_unlink")
              /\ UNCHANGED <<localVars, outcome>>
         ELSE End("incomplete") /\ UNCHANGED now
    /\ UNCHANGED <<disk, writerVars, boundVars>>

SyncUnlink == SyncVersion("sync_unlink", "release")

\* The descriptor and the lease are given back, and the result is returned.
Release ==
    /\ pc = "release"
    /\ End(IF txn = None THEN "no_op" ELSE "completed")
    /\ UNCHANGED <<now, disk, writerVars, boundVars>>

-----------------------------------------------------------------------------
(* Faults. *)

\* Mutant: errors while ACTIVE is being published count as a denial.
FailureOutcomeDenied(unseen) ==
    CASE pc = "enter"     -> "maintenance_denied"
      [] pc \in Finishing -> IF txn = None THEN "no_op_finalization"
                                           ELSE "completed_finalization"
      [] pc \in Resuming  -> "incomplete"
      [] OTHER            -> "denied"
\* Which exception the caller gets for an I/O error at this step.  unseen: the
\* probe (_active_path_exists) fails as well, and counts as a marker that is
\* there; the caller gets the same QuarantineIncompleteError, here "unproven".
FailureOutcome(unseen) ==
    CASE pc = "enter"     -> "maintenance_denied"
      [] pc \in Finishing -> IF txn = None THEN "no_op_finalization"
                                           ELSE "completed_finalization"
      [] pc \in Resuming  -> "incomplete"
      [] pc = "prepare"   -> "denied"
      [] OTHER            -> IF unseen THEN "unproven"
                             ELSE IF now.active = None THEN "denied" ELSE "incomplete"

\* Mutant: clean-up removes the marker.
FailUnfences ==
    /\ pc # "idle"
    /\ faults < MaxFaults
    /\ faults' = faults + 1
    /\ now' = [now EXCEPT !.active = None]
    /\ \E unseen \in BOOLEAN : End(FailureOutcome(unseen))
    /\ UNCHANGED <<disk, writerVars, losses>>
Fail ==
    /\ pc # "idle"
    /\ faults < MaxFaults
    /\ faults' = faults + 1
    /\ \E unseen \in BOOLEAN : End(FailureOutcome(unseen))
    /\ UNCHANGED <<now, disk, writerVars, losses>>

\* SIGKILL: the kernel releases the lease.
Kill ==
    /\ pc # "idle"
    /\ faults < MaxFaults
    /\ faults' = faults + 1
    /\ End("killed")
    /\ UNCHANGED <<now, disk, writerVars, losses>>

\* What is not flushed may be lost.  Of a rename, the new name reaches the
\* disk no later than the removal of the old one.
Survivors ==
    {s \in [cas      : {now.cas \cup kept : kept \in SUBSET (disk.cas \ now.cas)},
            payload  : {disk.payload \cup kept : kept \in SUBSET (now.payload \ disk.payload)},
            records  : {disk.records \cup kept : kept \in SUBSET (now.records \ disk.records)},
            receipts : {disk.receipts \cup kept : kept \in SUBSET (now.receipts \ disk.receipts)},
            active   : {now.active, disk.active}] :
        \A f \in disk.cas \ s.cas : \E e \in s.payload : e[2] = f}

PowerLoss ==
    /\ losses < MaxLosses
    /\ losses' = losses + 1
    /\ \E s \in Survivors : now' = s /\ disk' = s
    /\ End("killed")
    /\ UNCHANGED <<writerVars, faults>>

-----------------------------------------------------------------------------

Maintain ==
    \/ Acquire \/ Enter \/ ReadActive \/ PrepareFreshPlan \/ PrepareRecords
    \/ WriteBefore \/ SyncBefore \/ WritePlan \/ SyncPlan \/ PublishActive \/ SyncActive
    \/ LoadPlan \/ Reconcile \/ AuditCurrent \/ Move
    \/ SyncPayload \/ SyncSource \/ WriteReceipt \/ SyncReceipt
    \/ FinalAudit \/ WriteAfter \/ SyncAfter \/ WriteComplete \/ SyncComplete
    \/ UnlinkActive \/ SyncUnlink \/ Release

Next ==
    \/ Maintain
    \/ \E f \in Files : Abandon(f) \/ Bind(f)
    \/ Refuse \/ Fail \/ Kill \/ PowerLoss

Spec == Init /\ [][Next]_vars

\* A maintainer that started goes on, and a call that did not complete is
\* repeated.
FairSpec == Spec /\ WF_vars(Maintain)

-----------------------------------------------------------------------------
(* Properties. *)

TypeOK ==
    /\ now \in Disks /\ disk \in Disks
    /\ now.cas \subseteq disk.cas /\ disk.payload \subseteq now.payload
    /\ disk.records \subseteq now.records /\ disk.receipts \subseteq now.receipts
    /\ owned \subseteq Files /\ ledger \in 0..MaxLedger
    /\ pc \in {"idle"} \cup Preparing \cup Resuming \cup Finishing
    /\ txn \in Plans \cup {None}
    /\ todo \subseteq Files /\ pending \subseteq Files
    /\ item \in Files \cup {None} /\ loop \in {"reconcile", "move"}
    /\ found \in Disks \cup {None} /\ outcome \in Outcomes
    /\ faults \in 0..MaxFaults /\ losses \in 0..MaxLosses

(* Evidence the ledger refers to stays at its place in the store, whatever *)
(* plans earlier calls left behind and whatever was bound since.           *)
ReachableNeverMoved == owned \subseteq now.cas

(* Whenever a transaction has moved a file and is not complete, its ACTIVE *)
(* marker is there, so that no shared writer gets in before a maintainer   *)
(* has finished, wherever earlier ones were killed or failed.              *)
FenceCoversMoves ==
    losses = 0 =>
        \A e \in now.payload :
            <<e[1], "complete">> \in now.records \/ now.active = e[1]

(* The same for the marker on disk: no source moves before the flush of    *)
(* the directory of ACTIVE has succeeded.                                  *)
FenceDurable ==
    \A e \in now.payload :
        <<e[1], "complete">> \in disk.records \/ disk.active = e[1]

(* No record claims what a power loss may still undo: a receipt is visible *)
(* only when its move is on disk, ACTIVE only with the records that        *)
(* explain it, and COMPLETE only with AFTER and all receipts.              *)
RecordsBacked ==
    /\ \A e \in now.receipts : e \in disk.payload /\ e[2] \notin disk.cas
    /\ now.active # None =>
          {<<now.active, "before">>, <<now.active, "plan">>} \subseteq disk.records
    /\ \A r \in now.records : r[2] = "complete" =>
          /\ <<r[1], "after">> \in disk.records
          /\ {r[1]} \X r[1].files \subseteq disk.receipts

\* The storage as the call that ends now met it, and whether that call has
\* moved a file or written a receipt.
Began == IF pc = "idle" THEN now ELSE found
MovedAny ==
    ~(now'.cas = Began.cas /\ now'.payload = Began.payload /\ now'.receipts = Began.receipts)

\* What each way to end a call says about the storage.
ToldTruly ==
    /\ outcome' = "maintenance_denied" => now' = Began
    /\ outcome' \in {"no_op", "no_op_finalization"} => now' = Began /\ now'.active = None
    /\ outcome' = "denied" => now'.active = None /\ ~MovedAny
    /\ outcome' = "incomplete" => now'.active # None
    /\ outcome' = "unproven" => ~MovedAny
    /\ outcome' \in {"completed_finalization", "completed"} =>
          now'.active = None /\ <<txn, "complete">> \in disk'.records
    /\ outcome' = "completed" => disk'.active = None

(* What a caller may conclude from the way its call ended, at whatever     *)
(* step an error met it and whatever earlier calls had left:               *)
(*   - a maintenance denial and a no-op, with or without a failing release, *)
(*     mean that the call changed nothing; after a no-op no fence stands,  *)
(*     after a maintenance denial one may;                                 *)
(*   - any other denial means that no fence stands and that the call moved *)
(*     no file and wrote no receipt;                                       *)
(*   - an incomplete transaction has its fence, unless the namespace could *)
(*     not be inspected: then too the call has moved no file;              *)
(*   - a completed result is backed by COMPLETE on disk and an absent      *)
(*     fence, which is durable when finalization did not fail.             *)
OutcomeTruthful == [][ToldTruly]_outcome

(* After kills and errors, not counting power losses, the next maintainer  *)
(* passes every check of _resume_transaction: the fence is never stuck.    *)
Resumable ==
    losses = 0 /\ pc = "idle" /\ now.active # None =>
        LET t == now.active IN
        /\ {<<t, "before">>, <<t, "plan">>} \subseteq now.records
        /\ ledger = t.ledger
        /\ Findings = {f \in t.files : <<t, f>> \notin now.payload}
        /\ \A f \in t.files : <<t, f>> \in now.receipts => <<t, f>> \in now.payload

(* A published fence is removed in the end, if calls that did not complete *)
(* are repeated and power is not lost.                                     *)
FenceRemoved == (now.active # None) ~> (now.active = None \/ losses > 0)

=============================================================================
