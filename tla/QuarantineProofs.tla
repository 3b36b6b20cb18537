-------------------------- MODULE QuarantineProofs --------------------------
(***************************************************************************)
(* Safety of the quarantine transaction for every set of files and every   *)
(* number of ledger commits, kills, I/O errors and power losses.           *)
(*                                                                         *)
(* The properties speak of the storage.  What makes them inductive is what *)
(* the holder of the lease knows at each of its steps: whether ACTIVE is   *)
(* published and for whom (HolderInv), which loop it is in (LoopInv), how  *)
(* far the item in its hands has been flushed (ItemInv), which records it  *)
(* has written and flushed (WrittenInv), which receipts it has still to    *)
(* flush (ReceiptInv), and that its plan is current while the marker is    *)
(* not yet published (PlanInv), and what it has changed of what it found   *)
(* (FoundInv).                                                             *)
(***************************************************************************)
EXTENDS Quarantine, TLAPS

\* The steps between the audit that made a plan and the marker that fences it.
Planned == {"records", "before", "sync_before", "plan", "sync_plan", "active"}
\* The steps with a moved file in hand.
AtItem == {"sync_payload", "sync_source", "receipt", "sync_receipt"}
\* The steps after the last move.
Closing == {"final_audit", "after", "sync_after", "complete", "sync_complete", "unlink_active"}

\* The steps at which an error makes the call probe for ACTIVE before it
\* chooses an exception.
Probing == Preparing \ {"enter", "prepare"}

HolderInv ==
    /\ pc \in {"idle", "enter", "read_active", "prepare"} => txn = None
    /\ pc = "prepare" => now.active = None
    /\ pc \in Planned => txn # None /\ now.active = None
    /\ pc \in {"sync_active"} \cup Resuming => txn # None /\ now.active = txn
    /\ pc = "sync_unlink" => txn # None
    /\ pc \in Finishing => now.active = None
    /\ pc = "release" /\ txn # None => disk.active = None

LoopInv ==
    /\ pc \in {"idle", "load", "reconcile", "audit"} \cup Preparing => loop = "reconcile"
    /\ pc \in {"move"} \cup Closing => loop = "move"
    /\ pc = "audit" => todo = {}
    /\ loop = "move" => todo = {} /\ pending \cap owned = {}

ItemInv ==
    /\ pc \in AtItem => item \in Files /\ <<txn, item>> \in now.payload
    /\ pc \in AtItem \ {"sync_payload"} => <<txn, item>> \in disk.payload
    /\ pc \in {"receipt", "sync_receipt"} => item \notin disk.cas

WrittenInv ==
    /\ pc = "sync_before" => <<txn, "before">> \in now.records
    /\ pc \in {"plan", "sync_plan", "active"} => <<txn, "before">> \in disk.records
    /\ pc = "sync_plan" => <<txn, "plan">> \in now.records
    /\ pc = "active" => <<txn, "plan">> \in disk.records
    /\ pc = "sync_after" => <<txn, "after">> \in now.records
    /\ pc = "complete" => <<txn, "after">> \in disk.records
    /\ pc = "sync_complete" => <<txn, "complete">> \in now.records
    /\ pc \in {"unlink_active", "sync_unlink"} => <<txn, "complete">> \in disk.records
    /\ pc = "release" /\ txn # None => <<txn, "complete">> \in disk.records

ReceiptInv ==
    pc \in Resuming \ {"load"} =>
        \A f \in txn.files :
            <<txn, f>> \in now.receipts =>
                <<txn, f>> \in disk.receipts \/ f \in todo \/ (pc \in AtItem /\ f = item)

PlanInv ==
    /\ pc \in Planned => ledger = txn.ledger /\ Findings = txn.files
    /\ pc \in Planned \ {"records"} => \A f \in Files : <<txn, f>> \notin now.payload

MarkerInv ==
    disk.active # None =>
        {<<disk.active, "before">>, <<disk.active, "plan">>} \subseteq disk.records

\* Resumable at every step of the holder.
ResumeInv ==
    losses = 0 /\ now.active # None =>
        /\ ledger = now.active.ledger
        /\ Findings = {f \in now.active.files : <<now.active, f>> \notin now.payload}

\* What the call has done so far to what it found.
FoundInv ==
    /\ pc \in {"enter", "read_active", "prepare"} \/ (pc = "release" /\ txn = None) =>
          now = found
    /\ pc \in Preparing =>
          now.cas = found.cas /\ now.payload = found.payload /\ now.receipts = found.receipts

IInv ==
    /\ TypeOK /\ HolderInv /\ LoopInv /\ ItemInv /\ WrittenInv /\ ReceiptInv /\ PlanInv
    /\ FoundInv /\ MarkerInv /\ ResumeInv
    /\ ReachableNeverMoved /\ FenceCoversMoves /\ RecordsBacked

-----------------------------------------------------------------------------
(* Types. *)

Labels == {"idle"} \cup Preparing \cup Resuming \cup Finishing

\* The three parts of TypeOK: what is stored, what the holder keeps, and what
\* is counted.
StorageType ==
    /\ now \in Disks /\ disk \in Disks
    /\ now.cas \subseteq disk.cas /\ disk.payload \subseteq now.payload
    /\ disk.records \subseteq now.records /\ disk.receipts \subseteq now.receipts
LocalType ==
    /\ pc \in Labels
    /\ txn \in Plans \cup {None}
    /\ todo \subseteq Files /\ pending \subseteq Files
    /\ item \in Files \cup {None} /\ loop \in {"reconcile", "move"}
    /\ found \in Disks \cup {None} /\ outcome \in Outcomes
CountType ==
    /\ owned \subseteq Files /\ ledger \in 0..MaxLedger
    /\ faults \in 0..MaxFaults /\ losses \in 0..MaxLosses

(* TypeOK is its three parts. *)
LEMMA TypeParts == TypeOK <=> StorageType /\ LocalType /\ CountType
BY DEF TypeOK, StorageType, LocalType, CountType, Labels

(* Every way a call may end leaves the holder's variables in their types. *)
LEMMA EndType == ASSUME NEW r \in Outcomes, End(r) PROVE LocalType'
BY DEF End, LocalType, Labels

(* The exception for an I/O error is one that a caller may be told. *)
LEMMA FailureOutcomeType == \A unseen \in BOOLEAN : FailureOutcome(unseen) \in Outcomes
BY DEF FailureOutcome, Outcomes

(* A plan of the audit's findings is a plan. *)
LEMMA PlanType == ASSUME TypeOK PROVE [ledger |-> ledger, files |-> Findings] \in Plans
BY DEF TypeOK, Plans, Findings, Disks

(* Every step leaves the holder's variables in their types. *)
LEMMA LocalStep == ASSUME TypeOK, Next PROVE LocalType'
<1>0. LocalType /\ now \in Disks BY DEF TypeOK, LocalType, Labels
<1>1. \A r \in Outcomes : End(r) => LocalType' BY EndType
<1>2. {"none", "no_op", "maintenance_denied", "denied", "incomplete", "completed", "killed"}
        \subseteq Outcomes
    BY DEF Outcomes
<1>3. CASE Refuse \/ Fail \/ Kill \/ PowerLoss \/ Release
    BY <1>1, <1>2, <1>3, FailureOutcomeType DEF Refuse, Fail, Kill, PowerLoss, Release
<1>4. CASE \E f \in Files : Abandon(f) \/ Bind(f)
    BY <1>0, <1>4 DEF Abandon, Bind, LocalType, localVars
<1>5. CASE \/ Acquire \/ Enter \/ ReadActive \/ WriteBefore \/ SyncBefore \/ WritePlan \/ SyncPlan
           \/ SyncActive \/ SyncPayload \/ WriteReceipt \/ SyncReceipt \/ WriteAfter
           \/ SyncAfter \/ SyncUnlink
    <2>1. Acquire => LocalType'
        BY <1>0 DEF Acquire, LocalType, Goto, Labels, localVars, Preparing, Outcomes
    <2>0. Enter => LocalType'
        BY <1>0 DEF Enter, LocalType, Goto, Labels, localVars, Preparing
    <2>2. ReadActive => LocalType'
        BY <1>0 DEF ReadActive, LocalType, Goto, Labels, Preparing, Resuming, Disks
    <2>3. WriteBefore \/ WritePlan \/ WriteAfter => LocalType'
        BY <1>0 DEF WriteBefore, WritePlan, WriteAfter, PublishRecord, LocalType, Goto, Labels,
                    localVars, Preparing, Resuming
    <2>4. SyncBefore \/ SyncPlan \/ SyncAfter => LocalType'
        BY <1>0 DEF SyncBefore, SyncPlan, SyncAfter, SyncRecords, LocalType, Goto, Labels,
                    localVars, Preparing, Resuming
    <2>5. SyncActive \/ SyncUnlink => LocalType'
        BY <1>0 DEF SyncActive, SyncUnlink, SyncVersion, LocalType, Goto, Labels,
                    localVars, Finishing, Resuming
    <2>6. SyncPayload \/ WriteReceipt \/ SyncReceipt => LocalType'
        BY <1>0 DEF SyncPayload, WriteReceipt, SyncReceipt, LocalType, Goto, Labels,
                    localVars, Resuming
    <2>. QED BY <1>5, <2>0, <2>1, <2>2, <2>3, <2>4, <2>5, <2>6
<1>6. CASE PrepareFreshPlan
    BY <1>0, <1>1, <1>2, <1>6, PlanType
    DEF PrepareFreshPlan, LocalType, Goto, Labels, Preparing, Finishing, localVars
<1>7. CASE PrepareRecords \/ PublishActive \/ LoadPlan \/ AuditCurrent
    <2>1. PrepareRecords => LocalType'
        BY <1>0, <1>1, <1>2 DEF PrepareRecords, LocalType, Goto, Labels, Preparing, localVars
    <2>2. PublishActive => LocalType'
        BY <1>0, <1>1, <1>2 DEF PublishActive, LocalType, Goto, Labels, Preparing, localVars
    <2>3. LoadPlan => LocalType'
        <3>1. SUFFICES ASSUME LoadPlan, {<<txn, "before">>, <<txn, "plan">>} \subseteq now.records
                       PROVE  LocalType'
            BY <1>1, <1>2 DEF LoadPlan
        <3>2. txn \in Plans
            BY <1>0, <3>1 DEF Disks
        <3>. QED BY <1>0, <3>1, <3>2 DEF LoadPlan, LocalType, Goto, Labels, Resuming, Plans
    <2>4. AuditCurrent => LocalType'
        BY <1>0, <1>1, <1>2 DEF AuditCurrent, LocalType, Goto, Labels, Resuming
    <2>. QED BY <1>7, <2>1, <2>2, <2>3, <2>4
<1>8. CASE Reconcile
    BY <1>0, <1>1, <1>2, <1>8 DEF Reconcile, LocalType, Goto, Labels, Resuming, localVars
<1>9. CASE Move
    BY <1>0, <1>1, <1>2, <1>9 DEF Move, LocalType, Goto, Labels, Resuming, localVars
<1>10. CASE SyncSource \/ FinalAudit \/ SyncComplete \/ UnlinkActive
    BY <1>0, <1>1, <1>2, <1>10
    DEF SyncSource, FinalAudit, SyncComplete, UnlinkActive, LocalType, Goto, Labels, Resuming,
        Finishing, localVars
<1>11. CASE WriteComplete
    BY <1>0, <1>1, <1>2, <1>11
    DEF WriteComplete, PublishRecord, LocalType, Goto, Labels, Resuming, localVars
<1>. QED
    BY <1>3, <1>4, <1>5, <1>6, <1>7, <1>8, <1>9, <1>10, <1>11 DEF Next, Maintain

(* Every step keeps the counters and what the ledger refers to in their    *)
(* types.                                                                  *)
LEMMA CountStep == ASSUME TypeOK, Next PROVE CountType'
<1>0. CountType BY DEF TypeOK, CountType
<1>1. CASE Maintain
    BY <1>0, <1>1
    DEF Maintain, CountType, writerVars, boundVars, Acquire, Enter, ReadActive, PrepareFreshPlan,
        PrepareRecords, WriteBefore, SyncBefore, WritePlan, SyncPlan, PublishActive, SyncActive,
        LoadPlan, Reconcile, AuditCurrent, Move, SyncPayload, SyncSource, WriteReceipt,
        SyncReceipt, FinalAudit, WriteAfter, SyncAfter, WriteComplete, SyncComplete,
        UnlinkActive, SyncUnlink, Release, PublishRecord, SyncRecords, SyncVersion
<1>2. CASE \E f \in Files : Abandon(f) \/ Bind(f)
    BY <1>0, <1>2, BoundsAssumption DEF Abandon, Bind, CountType, writerVars, boundVars
<1>3. CASE Refuse \/ Fail \/ Kill \/ PowerLoss
    BY <1>0, <1>3, BoundsAssumption
    DEF Refuse, Fail, Kill, PowerLoss, CountType, writerVars, boundVars
<1>. QED BY <1>1, <1>2, <1>3 DEF Next

(* What a power loss leaves lies between what is flushed and what is seen. *)
LEMMA SurvivorType ==
    ASSUME StorageType, NEW s \in Survivors
    PROVE  /\ s \in Disks
           /\ now.cas \subseteq s.cas /\ s.cas \subseteq disk.cas
           /\ disk.payload \subseteq s.payload /\ s.payload \subseteq now.payload
           /\ disk.records \subseteq s.records /\ s.records \subseteq now.records
           /\ disk.receipts \subseteq s.receipts /\ s.receipts \subseteq now.receipts
           /\ s.active = now.active \/ s.active = disk.active
<1>. DEFINE C == {now.cas \cup kept : kept \in SUBSET (disk.cas \ now.cas)}
            P == {disk.payload \cup kept : kept \in SUBSET (now.payload \ disk.payload)}
            R == {disk.records \cup kept : kept \in SUBSET (now.records \ disk.records)}
            Q == {disk.receipts \cup kept : kept \in SUBSET (now.receipts \ disk.receipts)}
<1>1. s \in [cas : C, payload : P, records : R, receipts : Q, active : {now.active, disk.active}]
    BY DEF Survivors
<1>2. /\ \A c \in C : now.cas \subseteq c /\ c \subseteq disk.cas
      /\ \A p \in P : disk.payload \subseteq p /\ p \subseteq now.payload
      /\ \A r \in R : disk.records \subseteq r /\ r \subseteq now.records
      /\ \A q \in Q : disk.receipts \subseteq q /\ q \subseteq now.receipts
    BY DEF StorageType
<1>. HIDE DEF C, P, R, Q
<1>3. /\ s.cas \in C /\ s.payload \in P /\ s.records \in R /\ s.receipts \in Q
      /\ s.active = now.active \/ s.active = disk.active
    BY <1>1
<1>4. s \in Disks
    <2>1. /\ s.cas \subseteq Files /\ s.payload \subseteq Plans \X Files
          /\ s.records \subseteq Plans \X RecordNames /\ s.receipts \subseteq Plans \X Files
          /\ s.active \in Plans \cup {None}
        BY <1>2, <1>3 DEF StorageType, Disks
    <2>2. s = [cas |-> s.cas, payload |-> s.payload, records |-> s.records,
               receipts |-> s.receipts, active |-> s.active]
        BY <1>1
    <2>. QED BY <2>1, <2>2 DEF Disks
<1>. QED BY <1>2, <1>3, <1>4

(* Every step keeps what processes see and what is flushed in step with    *)
(* each other: a file leaves the disk after it leaves the store, an entry  *)
(* reaches the disk after it is written.                                   *)
LEMMA StorageStep == ASSUME TypeOK, HolderInv, ItemInv, Next PROVE StorageType'
<1>0. StorageType /\ (txn \in Plans \cup {None}) /\ (item \in Files \cup {None})
    BY DEF TypeOK, StorageType
<1>1. CASE UNCHANGED <<now, disk>>
    BY <1>0, <1>1 DEF StorageType
<1>2. CASE \E f \in Files : Abandon(f) \/ Bind(f)
    BY <1>0, <1>2 DEF Abandon, Bind, StorageType, Disks
<1>3. ASSUME NEW at, NEW name \in RecordNames, NEW label, PublishRecord(at, name, label),
             txn \in Plans
      PROVE  StorageType'
    BY <1>0, <1>3 DEF PublishRecord, StorageType, Disks
<1>4. ASSUME NEW at, NEW label, SyncRecords(at, label)
      PROVE  StorageType'
    BY <1>0, <1>4 DEF SyncRecords, OfTransaction, StorageType, Disks
<1>5. ASSUME NEW at, NEW label, SyncVersion(at, label)
      PROVE  StorageType'
    BY <1>0, <1>5 DEF SyncVersion, StorageType, Disks
<1>6. pc \in Planned \cup Resuming => txn \in Plans
    BY <1>0 DEF HolderInv
<1>7. CASE WriteBefore \/ WritePlan \/ WriteAfter
    BY <1>3, <1>6, <1>7 DEF WriteBefore, WritePlan, WriteAfter, PublishRecord, RecordNames,
                            Planned, Resuming
<1>8. CASE SyncBefore \/ SyncPlan \/ SyncAfter
    BY <1>4, <1>8 DEF SyncBefore, SyncPlan, SyncAfter
<1>9. CASE SyncActive \/ SyncUnlink
    BY <1>5, <1>9 DEF SyncActive, SyncUnlink
<1>10. CASE PublishActive
    BY <1>0, <1>6, <1>10 DEF PublishActive, StorageType, Disks, Planned
<1>11. CASE Move
    <2>1. CASE UNCHANGED now BY <1>0, <1>11, <2>1 DEF Move, StorageType
    <2>2. CASE now' # now
        <3>1. PICK f \in pending : 
                now' = [now EXCEPT !.cas = @ \ {f}, !.payload = @ \cup {<<txn, f>>}]
            BY <1>11, <2>2 DEF Move
        <3>2. f \in Files /\ txn \in Plans BY <1>6, <1>11 DEF TypeOK, Move, Resuming
        <3>3. /\ now.cas \subseteq Files /\ now.payload \subseteq Plans \X Files
              /\ now.records \subseteq Plans \X RecordNames
              /\ now.receipts \subseteq Plans \X Files /\ now.active \in Plans \cup {None}
              /\ now = [cas |-> now.cas, payload |-> now.payload, records |-> now.records,
                        receipts |-> now.receipts, active |-> now.active]
            BY <1>0 DEF StorageType, Disks
        <3>4. now' = [cas |-> now.cas \ {f}, payload |-> now.payload \cup {<<txn, f>>},
                      records |-> now.records, receipts |-> now.receipts,
                      active |-> now.active]
            BY <3>1, <3>3
        <3>5. now' \in Disks BY <3>2, <3>3, <3>4 DEF Disks
        <3>6. disk' = disk BY <1>11 DEF Move
        <3>. QED BY <1>0, <3>4, <3>5, <3>6 DEF StorageType
    <2>. QED BY <2>1, <2>2
<1>12. CASE SyncPayload
    BY <1>0, <1>12 DEF SyncPayload, OfTransaction, StorageType, Disks
<1>13. CASE SyncSource
    BY <1>0, <1>13 DEF SyncSource, StorageType, Disks
<1>14. CASE WriteReceipt
    <2>1. txn \in Plans /\ item \in Files
        BY <1>6, <1>14 DEF WriteReceipt, Resuming, ItemInv, AtItem
    <2>. QED BY <1>0, <1>14, <2>1 DEF WriteReceipt, StorageType, Disks
<1>15. CASE SyncReceipt
    BY <1>0, <1>15 DEF SyncReceipt, OfTransaction, StorageType, Disks
<1>16. CASE WriteComplete
    BY <1>1, <1>3, <1>6, <1>16 DEF WriteComplete, PublishRecord, RecordNames, Resuming
<1>17. CASE SyncComplete
    BY <1>0, <1>17 DEF SyncComplete, OfTransaction, StorageType, Disks
<1>18. CASE UnlinkActive
    BY <1>0, <1>18 DEF UnlinkActive, StorageType, Disks
<1>19. CASE PowerLoss
    BY <1>0, <1>19, SurvivorType DEF PowerLoss, StorageType
<1>20. CASE \/ Acquire \/ Enter \/ ReadActive \/ PrepareFreshPlan \/ PrepareRecords \/ LoadPlan
            \/ Reconcile \/ AuditCurrent \/ FinalAudit \/ Release \/ Refuse \/ Fail \/ Kill
    BY <1>1, <1>20 DEF Acquire, Enter, ReadActive, PrepareFreshPlan, PrepareRecords, LoadPlan,
                       Reconcile, AuditCurrent, FinalAudit, Release, Refuse, Fail, Kill
<1>. QED
    BY <1>2, <1>7, <1>8, <1>9, <1>10, <1>11, <1>12, <1>13, <1>14, <1>15, <1>16, <1>17, <1>18,
       <1>19, <1>20
    DEF Next, Maintain

-----------------------------------------------------------------------------
(* What the holder knows. *)

(* The move step ends the loop, ends the call, or renames one pending file *)
(* and changes nothing else of the storage.                                *)
LEMMA MoveEffect ==
    ASSUME TypeOK, Move
    PROVE  \/ UNCHANGED <<now, disk, localVars, outcome>> /\ pending = {} /\ pc' = "final_audit"
           \/ UNCHANGED <<now, disk>> /\ End("incomplete")
           \/ \E f \in pending :
                 /\ AtSource(f) /\ ~AtDestination(f)
                 /\ now'.cas = now.cas \ {f} /\ now'.payload = now.payload \cup {<<txn, f>>}
                 /\ now'.records = now.records /\ now'.receipts = now.receipts
                 /\ now'.active = now.active
                 /\ pending' = pending \ {f} /\ item' = f /\ pc' = "sync_payload"
                 /\ UNCHANGED <<disk, txn, todo, loop, found, outcome>>
<1>1. CASE pending = {} /\ Goto("final_audit") /\ UNCHANGED <<now, localVars, outcome>>
    BY <1>1 DEF Move, Goto
<1>2. CASE End("incomplete") /\ UNCHANGED now
    BY <1>2 DEF Move
<1>3. ASSUME NEW f \in pending,
             /\ AtSource(f) /\ ~AtDestination(f)
             /\ now' = [now EXCEPT !.cas = @ \ {f}, !.payload = @ \cup {<<txn, f>>}]
             /\ pending' = pending \ {f} /\ item' = f /\ Goto("sync_payload")
             /\ UNCHANGED <<txn, todo, loop, found, outcome>>
      PROVE  /\ AtSource(f) /\ ~AtDestination(f)
             /\ now'.cas = now.cas \ {f} /\ now'.payload = now.payload \cup {<<txn, f>>}
             /\ now'.records = now.records /\ now'.receipts = now.receipts
             /\ now'.active = now.active
             /\ pending' = pending \ {f} /\ item' = f /\ pc' = "sync_payload"
             /\ UNCHANGED <<disk, txn, todo, loop, found, outcome>>
    <2>1. now = [cas |-> now.cas, payload |-> now.payload, records |-> now.records,
                 receipts |-> now.receipts, active |-> now.active]
        BY DEF TypeOK, Disks
    <2>2. /\ now'.cas = now.cas \ {f} /\ now'.payload = now.payload \cup {<<txn, f>>}
          /\ now'.records = now.records /\ now'.receipts = now.receipts
          /\ now'.active = now.active
        BY <1>3, <2>1
    <2>. QED BY <1>3, <2>2 DEF Move, Goto
<1>4. \/ pending = {} /\ Goto("final_audit") /\ UNCHANGED <<now, localVars, outcome>>
      \/ End("incomplete") /\ UNCHANGED now
      \/ \E f \in pending :
             /\ AtSource(f) /\ ~AtDestination(f)
             /\ now' = [now EXCEPT !.cas = @ \ {f}, !.payload = @ \cup {<<txn, f>>}]
             /\ pending' = pending \ {f} /\ item' = f /\ Goto("sync_payload")
             /\ UNCHANGED <<txn, todo, loop, found, outcome>>
    BY DEF Move
<1>. QED BY <1>1, <1>2, <1>3, <1>4

(* When a call ends the holder knows nothing. *)
LEMMA EndKnows ==
    ASSUME NEW r, End(r)
    PROVE  /\ HolderInv' /\ LoopInv' /\ ItemInv' /\ WrittenInv' /\ ReceiptInv' /\ PlanInv'
           /\ FoundInv'
BY DEF End, HolderInv, LoopInv, ItemInv, WrittenInv, ReceiptInv, PlanInv, FoundInv,
       Planned, AtItem, Closing, Preparing, Resuming, Finishing

(* Each step leaves ACTIVE as the next step expects it: absent up to its   *)
(* publication, the transaction's own while it is resumed, absent again    *)
(* after its removal and so on disk when the call completes.               *)
LEMMA HolderStep == ASSUME IInv, Next PROVE HolderInv'
<1>. USE DEF HolderInv, Goto, Planned, Preparing, Resuming, Finishing
<1>0. TypeOK /\ HolderInv /\ (now \in Disks) /\ (disk \in Disks) /\ (loop \in {"reconcile", "move"})
    BY DEF IInv, TypeOK
<1>1. \A r : End(r) => HolderInv' BY EndKnows
<1>2. CASE Refuse \/ Fail \/ Kill \/ PowerLoss \/ Release
    BY <1>1, <1>2 DEF Refuse, Fail, Kill, PowerLoss, Release
<1>3. CASE \E f \in Files : Abandon(f) \/ Bind(f)
    BY <1>0, <1>3 DEF Abandon, Bind, Unfenced, localVars, Disks
<1>4. CASE Acquire \/ Enter \/ ReadActive
    BY <1>0, <1>4 DEF Acquire, Enter, ReadActive, localVars
<1>5. CASE PrepareFreshPlan \/ PrepareRecords
    <2>1. [ledger |-> ledger, files |-> Findings] # None
        BY <1>0, PlanType, NoneAssumption
    <2>. QED BY <1>0, <1>1, <1>5, <2>1 DEF PrepareFreshPlan, PrepareRecords, localVars
<1>6. CASE WriteBefore \/ WritePlan \/ WriteAfter
    BY <1>0, <1>6 DEF WriteBefore, WritePlan, WriteAfter, PublishRecord, localVars, Disks
<1>7. CASE SyncBefore \/ SyncPlan \/ SyncAfter
    BY <1>0, <1>7 DEF SyncBefore, SyncPlan, SyncAfter, SyncRecords, localVars, Disks
<1>8. CASE PublishActive
    BY <1>0, <1>1, <1>8 DEF PublishActive, localVars, Disks
<1>9. CASE SyncActive \/ SyncUnlink
    BY <1>0, <1>9 DEF SyncActive, SyncUnlink, SyncVersion, localVars, Disks
<1>10. CASE LoadPlan \/ Reconcile \/ AuditCurrent \/ FinalAudit
    BY <1>0, <1>1, <1>10 DEF LoadPlan, Reconcile, AuditCurrent, FinalAudit, localVars
<1>11. CASE Move
    BY <1>0, <1>1, <1>11, MoveEffect DEF Move, localVars
<1>12. CASE SyncPayload \/ SyncSource \/ WriteReceipt \/ SyncReceipt
    BY <1>0, <1>1, <1>12 DEF SyncPayload, SyncSource, WriteReceipt, SyncReceipt, localVars, Disks
<1>13. CASE WriteComplete
    BY <1>0, <1>1, <1>13 DEF WriteComplete, PublishRecord, localVars, Disks
<1>14. CASE SyncComplete \/ UnlinkActive
    BY <1>0, <1>1, <1>14 DEF SyncComplete, UnlinkActive, localVars, Disks
<1>. QED
    BY <1>2, <1>3, <1>4, <1>5, <1>6, <1>7, <1>8, <1>9, <1>10, <1>11, <1>12, <1>13, <1>14
    DEF Next, Maintain

(* The holder moves only after it has reconciled every candidate and the   *)
(* audit has found no reference to those that are left.                    *)
LEMMA LoopStep == ASSUME IInv, Next PROVE LoopInv'
<1>. USE DEF LoopInv, Goto, Closing, Preparing, Resuming, Finishing
<1>0. TypeOK /\ LoopInv /\ (loop \in {"reconcile", "move"})
    BY DEF IInv, TypeOK
<1>1. \A r : End(r) => LoopInv' BY EndKnows
<1>2. CASE Refuse \/ Fail \/ Kill \/ PowerLoss \/ Release
    BY <1>1, <1>2 DEF Refuse, Fail, Kill, PowerLoss, Release
<1>3. CASE \E f \in Files : Abandon(f) \/ Bind(f)
    BY <1>0, <1>3 DEF Abandon, Bind, Unfenced, localVars, writerVars
<1>4. CASE Acquire \/ Enter \/ ReadActive \/ PrepareFreshPlan \/ PrepareRecords
    BY <1>0, <1>1, <1>4
    DEF Acquire, Enter, ReadActive, PrepareFreshPlan, PrepareRecords, localVars, writerVars
<1>5. CASE WriteBefore \/ WritePlan \/ WriteAfter
    BY <1>0, <1>5 DEF WriteBefore, WritePlan, WriteAfter, PublishRecord, localVars, writerVars
<1>6. CASE SyncBefore \/ SyncPlan \/ SyncAfter
    BY <1>0, <1>6 DEF SyncBefore, SyncPlan, SyncAfter, SyncRecords, localVars, writerVars
<1>7. CASE PublishActive \/ SyncActive \/ SyncUnlink
    BY <1>0, <1>1, <1>7
    DEF PublishActive, SyncActive, SyncUnlink, SyncVersion, localVars, writerVars
<1>8. CASE LoadPlan \/ Reconcile
    BY <1>0, <1>1, <1>8 DEF LoadPlan, Reconcile, localVars, writerVars
<1>9. CASE AuditCurrent \/ FinalAudit
    BY <1>0, <1>1, <1>9 DEF AuditCurrent, FinalAudit, Findings, localVars, writerVars
<1>10. CASE Move
    BY <1>0, <1>1, <1>10 DEF Move, localVars, writerVars
<1>11. CASE SyncPayload \/ SyncSource \/ WriteReceipt \/ SyncReceipt
    BY <1>0, <1>1, <1>11
    DEF SyncPayload, SyncSource, WriteReceipt, SyncReceipt, localVars, writerVars
<1>12. CASE WriteComplete \/ SyncComplete \/ UnlinkActive
    BY <1>0, <1>1, <1>12
    DEF WriteComplete, PublishRecord, SyncComplete, UnlinkActive, localVars, writerVars
<1>. QED
    BY <1>2, <1>3, <1>4, <1>5, <1>6, <1>7, <1>8, <1>9, <1>10, <1>11, <1>12 DEF Next, Maintain

(* The file in the holder's hands is in the payload, its new name is       *)
(* flushed before the directory it left, and both before its receipt.      *)
LEMMA ItemStep == ASSUME IInv, Next PROVE ItemInv'
<1>. USE DEF ItemInv, Goto, AtItem, Preparing, Resuming, Finishing
<1>0. /\ TypeOK /\ ItemInv /\ (loop \in {"reconcile", "move"})
      /\ (now \in Disks) /\ (disk \in Disks) /\ (todo \subseteq Files) /\ (pending \subseteq Files)
    BY DEF IInv, TypeOK
<1>1. \A r : End(r) => ItemInv' BY EndKnows
<1>2. CASE Refuse \/ Fail \/ Kill \/ PowerLoss \/ Release
    BY <1>1, <1>2 DEF Refuse, Fail, Kill, PowerLoss, Release
<1>3. CASE \E f \in Files : Abandon(f) \/ Bind(f)
    BY <1>0, <1>3 DEF Abandon, Bind, Unfenced, localVars
<1>4. CASE Acquire \/ Enter \/ ReadActive \/ PrepareFreshPlan \/ PrepareRecords
    BY <1>0, <1>1, <1>4 DEF Acquire, Enter, ReadActive, PrepareFreshPlan, PrepareRecords
<1>5. CASE \/ WriteBefore \/ SyncBefore \/ WritePlan \/ SyncPlan \/ WriteAfter \/ SyncAfter
           \/ SyncActive \/ SyncUnlink
    BY <1>5 DEF WriteBefore, WritePlan, WriteAfter, PublishRecord, SyncBefore, SyncPlan,
                SyncAfter, SyncRecords, SyncActive, SyncUnlink, SyncVersion
<1>6. CASE PublishActive \/ LoadPlan \/ AuditCurrent \/ FinalAudit
    BY <1>1, <1>6 DEF PublishActive, LoadPlan, AuditCurrent, FinalAudit
<1>7. CASE Reconcile
    BY <1>0, <1>1, <1>7 DEF Reconcile, Moved, AtDestination
<1>8. CASE Move
    BY <1>0, <1>1, <1>8, MoveEffect
<1>9. CASE SyncPayload
    BY <1>0, <1>9 DEF SyncPayload, OfTransaction, localVars, Disks
<1>10. CASE SyncSource
    BY <1>0, <1>1, <1>10 DEF SyncSource, AtSource, localVars, Disks
<1>11. CASE WriteReceipt \/ SyncReceipt
    BY <1>0, <1>11 DEF WriteReceipt, SyncReceipt, localVars, Disks
<1>12. CASE WriteComplete \/ SyncComplete \/ UnlinkActive
    BY <1>1, <1>12 DEF WriteComplete, PublishRecord, SyncComplete, UnlinkActive
<1>. QED
    BY <1>2, <1>3, <1>4, <1>5, <1>6, <1>7, <1>8, <1>9, <1>10, <1>11, <1>12 DEF Next, Maintain

(* Each record is flushed before the next one is written, and COMPLETE     *)
(* before ACTIVE is removed.                                               *)
LEMMA WrittenStep == ASSUME IInv, Next PROVE WrittenInv'
<1>. USE DEF WrittenInv, Goto, Preparing, Resuming, Finishing
<1>0. /\ TypeOK /\ WrittenInv /\ (loop \in {"reconcile", "move"})
      /\ (now \in Disks) /\ (disk \in Disks) /\ (pc = "prepare" => txn = None)
    BY DEF IInv, TypeOK, HolderInv
<1>1. \A r : End(r) => WrittenInv' BY EndKnows
<1>2. CASE Refuse \/ Fail \/ Kill \/ PowerLoss \/ Release
    BY <1>1, <1>2 DEF Refuse, Fail, Kill, PowerLoss, Release
<1>3. CASE \E f \in Files : Abandon(f) \/ Bind(f)
    BY <1>0, <1>3 DEF Abandon, Bind, Unfenced, localVars
<1>4. CASE Acquire \/ Enter \/ ReadActive \/ PrepareFreshPlan \/ PrepareRecords
    BY <1>0, <1>1, <1>4 DEF Acquire, Enter, ReadActive, PrepareFreshPlan, PrepareRecords,
                            localVars
<1>5. CASE WriteBefore \/ WritePlan \/ WriteAfter
    BY <1>0, <1>5 DEF WriteBefore, WritePlan, WriteAfter, PublishRecord, localVars, Disks
<1>6. CASE SyncBefore \/ SyncPlan \/ SyncAfter
    BY <1>0, <1>6 DEF SyncBefore, SyncPlan, SyncAfter, SyncRecords, OfTransaction, localVars, Disks
<1>7. CASE PublishActive \/ SyncActive \/ SyncUnlink
    BY <1>0, <1>1, <1>7 DEF PublishActive, SyncActive, SyncUnlink, SyncVersion, localVars, Disks
<1>8. CASE LoadPlan \/ Reconcile \/ AuditCurrent \/ FinalAudit \/ Move
    BY <1>1, <1>8 DEF LoadPlan, Reconcile, AuditCurrent, FinalAudit, Move
<1>9. CASE SyncPayload \/ SyncSource \/ WriteReceipt \/ SyncReceipt
    BY <1>0, <1>1, <1>9 DEF SyncPayload, SyncSource, WriteReceipt, SyncReceipt
<1>10. CASE WriteComplete
    BY <1>0, <1>1, <1>10 DEF WriteComplete, PublishRecord, localVars, Disks
<1>11. CASE SyncComplete \/ UnlinkActive
    BY <1>0, <1>1, <1>11 DEF SyncComplete, UnlinkActive, OfTransaction, localVars, Disks
<1>. QED
    BY <1>2, <1>3, <1>4, <1>5, <1>6, <1>7, <1>8, <1>9, <1>10, <1>11 DEF Next, Maintain

(* A receipt that is not flushed belongs to a candidate that is still to   *)
(* be reconciled or is in the holder's hands.                              *)
LEMMA ReceiptStep == ASSUME IInv, Next PROVE ReceiptInv'
<1>. USE DEF ReceiptInv, Goto, AtItem, Preparing, Resuming, Finishing
<1>0. /\ TypeOK /\ ReceiptInv /\ (loop \in {"reconcile", "move"})
      /\ (now \in Disks) /\ (disk \in Disks)
    BY DEF IInv, TypeOK
<1>1. \A r : End(r) => ReceiptInv' BY EndKnows
<1>2. CASE Refuse \/ Fail \/ Kill \/ PowerLoss \/ Release
    BY <1>1, <1>2 DEF Refuse, Fail, Kill, PowerLoss, Release
<1>3. CASE \E f \in Files : Abandon(f) \/ Bind(f)
    BY <1>0, <1>3 DEF Abandon, Bind, Unfenced, localVars
<1>4. CASE Acquire \/ Enter \/ ReadActive \/ PrepareFreshPlan \/ PrepareRecords
    BY <1>0, <1>1, <1>4 DEF Acquire, Enter, ReadActive, PrepareFreshPlan, PrepareRecords
<1>5. CASE WriteBefore \/ WritePlan \/ WriteAfter
    BY <1>0, <1>5 DEF WriteBefore, WritePlan, WriteAfter, PublishRecord, localVars, Disks
<1>6. CASE SyncBefore \/ SyncPlan \/ SyncAfter
    BY <1>0, <1>6 DEF SyncBefore, SyncPlan, SyncAfter, SyncRecords, localVars, Disks
<1>7. CASE PublishActive \/ SyncActive \/ SyncUnlink
    BY <1>1, <1>7 DEF PublishActive, SyncActive, SyncUnlink, SyncVersion
<1>8. CASE LoadPlan \/ AuditCurrent \/ FinalAudit
    BY <1>0, <1>1, <1>8 DEF LoadPlan, AuditCurrent, FinalAudit, localVars
<1>9. CASE Reconcile
    BY <1>0, <1>1, <1>9 DEF Reconcile, StillPending, HasReceipt, localVars
<1>10. CASE Move
    BY <1>0, <1>1, <1>10, MoveEffect DEF Move, localVars
<1>11. CASE SyncPayload \/ SyncSource
    BY <1>0, <1>1, <1>11 DEF SyncPayload, SyncSource, localVars, Disks
<1>12. CASE WriteReceipt
    BY <1>0, <1>12 DEF WriteReceipt, localVars, Disks
<1>13. CASE SyncReceipt
    BY <1>0, <1>13 DEF SyncReceipt, OfTransaction, localVars, Disks
<1>14. CASE WriteComplete
    BY <1>0, <1>1, <1>14 DEF WriteComplete, PublishRecord, localVars, Disks
<1>15. CASE SyncComplete \/ UnlinkActive
    BY <1>0, <1>1, <1>15 DEF SyncComplete, UnlinkActive, localVars, Disks
<1>. QED
    BY <1>2, <1>3, <1>4, <1>5, <1>6, <1>7, <1>8, <1>9, <1>10, <1>11, <1>12, <1>13, <1>14, <1>15
    DEF Next, Maintain

(* Nobody writes to the store between the audit that made the plan and the *)
(* marker, so the plan is still what an audit would find.                  *)
LEMMA PlanStep == ASSUME IInv, Next PROVE PlanInv'
<1>. USE DEF PlanInv, Goto, Planned, Preparing, Resuming, Finishing
<1>0. TypeOK /\ PlanInv /\ (loop \in {"reconcile", "move"}) /\ (now \in Disks) /\ (disk \in Disks)
    BY DEF IInv, TypeOK
<1>1. \A r : End(r) => PlanInv' BY EndKnows
<1>2. CASE Refuse \/ Fail \/ Kill \/ PowerLoss \/ Release
    BY <1>1, <1>2 DEF Refuse, Fail, Kill, PowerLoss, Release
<1>3. CASE \E f \in Files : Abandon(f) \/ Bind(f)
    BY <1>0, <1>3 DEF Abandon, Bind, Unfenced
<1>4. CASE Acquire \/ Enter \/ ReadActive
    BY <1>0, <1>4 DEF Acquire, Enter, ReadActive
<1>5. CASE PrepareFreshPlan \/ PrepareRecords
    BY <1>0, <1>1, <1>5 DEF PrepareFreshPlan, PrepareRecords, Findings, localVars, writerVars
<1>6. CASE WriteBefore \/ WritePlan \/ WriteAfter
    BY <1>0, <1>6 DEF WriteBefore, WritePlan, WriteAfter, PublishRecord, Findings, localVars,
                      writerVars, Disks
<1>7. CASE SyncBefore \/ SyncPlan \/ SyncAfter
    BY <1>0, <1>7 DEF SyncBefore, SyncPlan, SyncAfter, SyncRecords, Findings, localVars, writerVars
<1>8. CASE PublishActive \/ SyncActive \/ SyncUnlink
    BY <1>1, <1>8 DEF PublishActive, SyncActive, SyncUnlink, SyncVersion
<1>9. CASE LoadPlan \/ AuditCurrent \/ FinalAudit \/ Reconcile \/ Move
    BY <1>0, <1>1, <1>9 DEF LoadPlan, AuditCurrent, FinalAudit, Reconcile, Move
<1>10. CASE SyncPayload \/ SyncSource \/ WriteReceipt \/ SyncReceipt
    BY <1>0, <1>1, <1>10 DEF SyncPayload, SyncSource, WriteReceipt, SyncReceipt
<1>11. CASE WriteComplete \/ SyncComplete \/ UnlinkActive
    BY <1>1, <1>11 DEF WriteComplete, PublishRecord, SyncComplete, UnlinkActive
<1>. QED
    BY <1>2, <1>3, <1>4, <1>5, <1>6, <1>7, <1>8, <1>9, <1>10, <1>11 DEF Next, Maintain

(* Up to the publication of ACTIVE the call writes nothing but records,    *)
(* and up to its plan nothing at all.                                      *)
LEMMA FoundStep == ASSUME IInv, Next PROVE FoundInv'
<1>. USE DEF FoundInv, Goto, Preparing, Resuming, Finishing
<1>0. /\ FoundInv /\ (now \in Disks) /\ (disk \in Disks) /\ (loop \in {"reconcile", "move"})
      /\ (pc = "prepare" => txn = None) /\ (pc \in {"sync_unlink"} \cup Resuming => txn # None)
      /\ pc \in Labels
    BY DEF IInv, TypeOK, HolderInv, Labels
<1>1. \A r : End(r) => FoundInv' BY EndKnows
<1>2. CASE Refuse \/ Fail \/ Kill \/ PowerLoss \/ Release
    BY <1>1, <1>2 DEF Refuse, Fail, Kill, PowerLoss, Release
<1>3. CASE \E f \in Files : Abandon(f) \/ Bind(f)
    BY <1>0, <1>3 DEF Abandon, Bind, Unfenced
<1>4. CASE Acquire \/ Enter \/ ReadActive
    BY <1>0, <1>4 DEF Acquire, Enter, ReadActive, localVars
<1>5. CASE PrepareFreshPlan \/ PrepareRecords
    BY <1>0, <1>1, <1>5 DEF PrepareFreshPlan, PrepareRecords, localVars
<1>6. CASE WriteBefore \/ WritePlan \/ WriteAfter
    BY <1>0, <1>6 DEF WriteBefore, WritePlan, WriteAfter, PublishRecord, localVars, Disks
<1>7. CASE SyncBefore \/ SyncPlan \/ SyncAfter
    BY <1>0, <1>7 DEF SyncBefore, SyncPlan, SyncAfter, SyncRecords, localVars
<1>8. CASE PublishActive
    BY <1>0, <1>1, <1>8 DEF PublishActive, localVars, Disks
<1>9. CASE SyncActive \/ SyncUnlink
    BY <1>0, <1>9 DEF SyncActive, SyncUnlink, SyncVersion, localVars
<1>10. CASE LoadPlan \/ AuditCurrent \/ FinalAudit \/ Reconcile \/ Move
    BY <1>0, <1>1, <1>10 DEF LoadPlan, AuditCurrent, FinalAudit, Reconcile, Move
<1>11. CASE SyncPayload \/ SyncSource \/ WriteReceipt \/ SyncReceipt
    BY <1>0, <1>1, <1>11 DEF SyncPayload, SyncSource, WriteReceipt, SyncReceipt
<1>12. CASE WriteComplete \/ SyncComplete \/ UnlinkActive
    BY <1>0, <1>1, <1>12 DEF WriteComplete, PublishRecord, SyncComplete, UnlinkActive, localVars
<1>. QED
    BY <1>2, <1>3, <1>4, <1>5, <1>6, <1>7, <1>8, <1>9, <1>10, <1>11, <1>12 DEF Next, Maintain

-----------------------------------------------------------------------------
(* The storage. *)

(* The one step that takes a file out of the store takes one that the      *)
(* audit found unreferenced, and a power loss only brings files back.      *)
LEMMA ReachableStep == ASSUME IInv, Next PROVE ReachableNeverMoved'
<1>. USE DEF ReachableNeverMoved
<1>0. TypeOK /\ StorageType /\ ReachableNeverMoved /\ LoopInv /\ (now \in Disks)
    BY TypeParts DEF IInv, StorageType
<1>1. CASE UNCHANGED <<now, owned>>
    BY <1>0, <1>1
<1>2. CASE \E f \in Files : Abandon(f) \/ Bind(f)
    BY <1>0, <1>2 DEF Abandon, Bind, writerVars, Disks
<1>3. CASE PublishActive \/ UnlinkActive \/ WriteReceipt
    BY <1>0, <1>3 DEF PublishActive, UnlinkActive, WriteReceipt, writerVars, Disks
<1>4. CASE WriteBefore \/ WritePlan \/ WriteAfter \/ WriteComplete
    BY <1>0, <1>4 DEF WriteBefore, WritePlan, WriteAfter, WriteComplete, PublishRecord, writerVars,
                      Disks
<1>5. CASE Move
    BY <1>0, <1>5, MoveEffect DEF Move, LoopInv, writerVars
<1>6. CASE PowerLoss
    BY <1>0, <1>6, SurvivorType DEF PowerLoss, writerVars
<1>. QED
    BY <1>1, <1>2, <1>3, <1>4, <1>5, <1>6
    DEF Next, Maintain, writerVars, Acquire, Enter, ReadActive, PrepareFreshPlan, PrepareRecords,
        SyncBefore, SyncPlan, SyncActive, LoadPlan, Reconcile, AuditCurrent, SyncPayload,
        SyncSource, SyncReceipt, FinalAudit, SyncAfter, SyncComplete, SyncUnlink, Release, Refuse, Fail,
        Kill, SyncRecords, SyncVersion

(* A marker on disk is explained by records on disk: it gets there only by *)
(* a flush of a marker that is.                                            *)
LEMMA MarkerStep == ASSUME IInv, Next PROVE MarkerInv'
<1>. USE DEF MarkerInv
<1>0. /\ TypeOK /\ StorageType /\ MarkerInv /\ (now \in Disks) /\ (disk \in Disks)
      /\ now.active # None =>
            {<<now.active, "before">>, <<now.active, "plan">>} \subseteq disk.records
    BY TypeParts DEF IInv, StorageType, RecordsBacked
<1>1. CASE UNCHANGED disk
    BY <1>0, <1>1
<1>2. CASE \E f \in Files : Abandon(f) \/ Bind(f)
    BY <1>0, <1>2 DEF Abandon, Bind, Disks
<1>3. CASE SyncBefore \/ SyncPlan \/ SyncAfter \/ SyncComplete
    BY <1>0, <1>3 DEF SyncBefore, SyncPlan, SyncAfter, SyncComplete, SyncRecords, Disks
<1>4. CASE SyncActive \/ SyncUnlink
    BY <1>0, <1>4 DEF SyncActive, SyncUnlink, SyncVersion, Disks
<1>5. CASE SyncPayload \/ SyncSource \/ SyncReceipt
    BY <1>0, <1>5 DEF SyncPayload, SyncSource, SyncReceipt, Disks
<1>6. CASE PowerLoss
    <2>1. PICK s \in Survivors : now' = s /\ disk' = s BY <1>6 DEF PowerLoss
    <2>. QED BY <1>0, <2>1, SurvivorType
<1>. QED
    BY <1>1, <1>2, <1>3, <1>4, <1>5, <1>6
    DEF Next, Maintain, Acquire, Enter, ReadActive, PrepareFreshPlan, PrepareRecords, WriteBefore,
        WritePlan, PublishActive, LoadPlan, Reconcile, AuditCurrent, Move, WriteReceipt,
        FinalAudit, WriteAfter, WriteComplete, UnlinkActive, Release, Refuse, Fail, Kill, PublishRecord

\* The three parts of RecordsBacked.
ReceiptsBacked == \A e \in now.receipts : e \in disk.payload /\ e[2] \notin disk.cas
ActiveBacked ==
    now.active # None =>
        {<<now.active, "before">>, <<now.active, "plan">>} \subseteq disk.records
CompleteBacked ==
    \A r \in now.records : r[2] = "complete" =>
        /\ <<r[1], "after">> \in disk.records
        /\ {r[1]} \X r[1].files \subseteq disk.receipts

(* RecordsBacked is its three parts. *)
LEMMA BackedParts == RecordsBacked <=> ReceiptsBacked /\ ActiveBacked /\ CompleteBacked
BY DEF RecordsBacked, ReceiptsBacked, ActiveBacked, CompleteBacked

(* A receipt is written after both directories of its move are flushed,    *)
(* and no writer brings the file back.                                     *)
LEMMA ReceiptsBackedStep == ASSUME IInv, Next PROVE ReceiptsBacked'
<1>. USE DEF ReceiptsBacked
<1>0. /\ TypeOK /\ StorageType /\ ReceiptsBacked /\ ItemInv /\ (now \in Disks) /\ (disk \in Disks)
      /\ (disk.payload \subseteq now.payload) /\ (now.cas \subseteq disk.cas)
    BY TypeParts, BackedParts DEF IInv, StorageType
<1>1. CASE UNCHANGED <<now, disk>>
    BY <1>0, <1>1
<1>2. CASE \E f \in Files : Abandon(f) \/ Bind(f)
    <2>1. PICK f \in Files :
              /\ now' = [now EXCEPT !.cas = @ \cup {f}]
              /\ disk' = [disk EXCEPT !.cas = @ \cup {f}]
              /\ f \in now.cas \/ f \notin Born
        BY <1>2 DEF Abandon, Bind
    <2>2. /\ now'.receipts = now.receipts /\ disk'.payload = disk.payload
          /\ disk'.cas = disk.cas \cup {f}
        BY <1>0, <2>1 DEF Disks
    <2>3. \A e \in now.receipts : e[2] # f
        BY <1>0, <2>1 DEF Born
    <2>. QED BY <1>0, <2>2, <2>3
<1>3. CASE PublishActive \/ UnlinkActive
    BY <1>0, <1>3 DEF PublishActive, UnlinkActive, Disks
<1>4. CASE WriteBefore \/ WritePlan \/ WriteAfter \/ WriteComplete
    BY <1>0, <1>4 DEF WriteBefore, WritePlan, WriteAfter, WriteComplete, PublishRecord, Disks
<1>5. CASE SyncBefore \/ SyncPlan \/ SyncAfter \/ SyncComplete
    BY <1>0, <1>5 DEF SyncBefore, SyncPlan, SyncAfter, SyncComplete, SyncRecords, Disks
<1>6. CASE SyncActive \/ SyncUnlink
    BY <1>0, <1>6 DEF SyncActive, SyncUnlink, SyncVersion, Disks
<1>7. CASE Move
    BY <1>0, <1>7, MoveEffect
<1>8. CASE SyncPayload \/ SyncSource \/ SyncReceipt
    BY <1>0, <1>8 DEF SyncPayload, SyncSource, SyncReceipt, Disks
<1>9. CASE WriteReceipt
    BY <1>0, <1>9 DEF WriteReceipt, ItemInv, AtItem, Disks
<1>10. CASE PowerLoss
    <2>1. PICK s \in Survivors : now' = s /\ disk' = s BY <1>10 DEF PowerLoss
    <2>. QED BY <1>0, <2>1, SurvivorType
<1>. QED
    BY <1>1, <1>2, <1>3, <1>4, <1>5, <1>6, <1>7, <1>8, <1>9, <1>10
    DEF Next, Maintain, Acquire, Enter, ReadActive, PrepareFreshPlan, PrepareRecords, LoadPlan, Reconcile,
        AuditCurrent, FinalAudit, Release, Refuse, Fail, Kill

(* ACTIVE is published after the records that explain it are flushed.      *)
LEMMA ActiveBackedStep == ASSUME IInv, Next PROVE ActiveBacked'
<1>. USE DEF ActiveBacked
<1>0. /\ TypeOK /\ StorageType /\ ActiveBacked /\ MarkerInv /\ WrittenInv
      /\ (now \in Disks) /\ (disk \in Disks)
    BY TypeParts, BackedParts DEF IInv, StorageType
<1>1. CASE UNCHANGED <<now, disk>>
    BY <1>0, <1>1
<1>2. CASE \E f \in Files : Abandon(f) \/ Bind(f)
    BY <1>0, <1>2 DEF Abandon, Bind, Disks
<1>3. CASE PublishActive \/ UnlinkActive
    BY <1>0, <1>3 DEF PublishActive, UnlinkActive, WrittenInv, Disks
<1>4. CASE WriteBefore \/ WritePlan \/ WriteAfter \/ WriteComplete
    BY <1>0, <1>4 DEF WriteBefore, WritePlan, WriteAfter, WriteComplete, PublishRecord, Disks
<1>5. CASE SyncBefore \/ SyncPlan \/ SyncAfter \/ SyncComplete
    BY <1>0, <1>5 DEF SyncBefore, SyncPlan, SyncAfter, SyncComplete, SyncRecords, Disks
<1>6. CASE SyncActive \/ SyncUnlink
    BY <1>0, <1>6 DEF SyncActive, SyncUnlink, SyncVersion, Disks
<1>7. CASE Move
    BY <1>0, <1>7, MoveEffect
<1>8. CASE SyncPayload \/ SyncSource \/ WriteReceipt \/ SyncReceipt
    BY <1>0, <1>8 DEF SyncPayload, SyncSource, WriteReceipt, SyncReceipt, Disks
<1>9. CASE PowerLoss
    <2>1. PICK s \in Survivors : now' = s /\ disk' = s BY <1>9 DEF PowerLoss
    <2>. QED BY <1>0, <2>1, SurvivorType DEF MarkerInv
<1>. QED
    BY <1>1, <1>2, <1>3, <1>4, <1>5, <1>6, <1>7, <1>8, <1>9
    DEF Next, Maintain, Acquire, Enter, ReadActive, PrepareFreshPlan, PrepareRecords, LoadPlan, Reconcile,
        AuditCurrent, FinalAudit, Release, Refuse, Fail, Kill

(* COMPLETE is written after AFTER is flushed, and the receipts it binds   *)
(* were flushed by the loops that wrote or repaired them.                  *)
LEMMA CompleteBackedStep == ASSUME IInv, Next PROVE CompleteBacked'
<1>. USE DEF CompleteBacked
<1>0. /\ TypeOK /\ StorageType /\ CompleteBacked /\ WrittenInv /\ LoopInv /\ ReceiptInv
      /\ (now \in Disks) /\ (disk \in Disks)
    BY TypeParts, BackedParts DEF IInv, StorageType
<1>1. CASE now'.records \subseteq now.records /\ disk.records \subseteq disk'.records
           /\ disk.receipts \subseteq disk'.receipts
    BY <1>0, <1>1
<1>2. CASE \E f \in Files : Abandon(f) \/ Bind(f)
    BY <1>0, <1>1, <1>2 DEF Abandon, Bind, Disks
<1>3. CASE PublishActive \/ UnlinkActive
    BY <1>0, <1>1, <1>3 DEF PublishActive, UnlinkActive, Disks
<1>4. CASE WriteBefore \/ WritePlan \/ WriteAfter
    <2>1. PICK name \in {"before", "plan", "after"} :
              now' = [now EXCEPT !.records = @ \cup {<<txn, name>>}] /\ disk' = disk
        BY <1>4 DEF WriteBefore, WritePlan, WriteAfter, PublishRecord
    <2>. QED BY <1>0, <2>1 DEF Disks
<1>5. CASE SyncBefore \/ SyncPlan \/ SyncAfter \/ SyncComplete
    BY <1>0, <1>1, <1>5 DEF SyncBefore, SyncPlan, SyncAfter, SyncComplete, SyncRecords, Disks
<1>6. CASE SyncActive \/ SyncUnlink
    BY <1>0, <1>1, <1>6 DEF SyncActive, SyncUnlink, SyncVersion, Disks
<1>7. CASE Move
    BY <1>0, <1>1, <1>7, MoveEffect
<1>8. CASE SyncPayload \/ SyncSource \/ WriteReceipt \/ SyncReceipt
    BY <1>0, <1>1, <1>8 DEF SyncPayload, SyncSource, WriteReceipt, SyncReceipt, Disks
<1>9. CASE WriteComplete
    <2>1. CASE UNCHANGED <<now, disk>> BY <1>0, <2>1
    <2>2. CASE \A f \in txn.files : HasReceipt(f)
        <3>1. pc = "complete" /\ disk' = disk
              /\ now' = [now EXCEPT !.records = @ \cup {<<txn, "complete">>}]
            BY <1>9, <2>2 DEF WriteComplete, PublishRecord
        <3>2. now'.records = now.records \cup {<<txn, "complete">>}
            BY <1>0, <3>1 DEF Disks
        <3>3. <<txn, "after">> \in disk.records
            BY <1>0, <3>1 DEF WrittenInv
        <3>4. todo = {}
            BY <1>0, <3>1 DEF LoopInv, Closing
        <3>5. \A f \in txn.files : <<txn, f>> \in disk.receipts
            BY <1>0, <2>2, <3>1, <3>4 DEF ReceiptInv, HasReceipt, Resuming, AtItem
        <3>6. {txn} \X txn.files \subseteq disk.receipts
            BY <3>5
        <3>7. ASSUME NEW r \in now'.records, r[2] = "complete"
              PROVE  <<r[1], "after">> \in disk'.records /\ {r[1]} \X r[1].files \subseteq disk'.receipts
            <4>1. CASE r \in now.records BY <1>0, <3>1, <3>7, <4>1
            <4>2. CASE r = <<txn, "complete">> BY <3>1, <3>3, <3>6, <4>2
            <4>. QED BY <3>2, <4>1, <4>2
        <3>. QED BY <3>7
    <2>. QED BY <1>9, <2>1, <2>2 DEF WriteComplete
<1>10. CASE PowerLoss
    <2>1. PICK s \in Survivors : now' = s /\ disk' = s BY <1>10 DEF PowerLoss
    <2>. QED BY <1>0, <1>1, <2>1, SurvivorType
<1>11. CASE UNCHANGED <<now, disk>>
    BY <1>0, <1>11
<1>. QED
    BY <1>2, <1>3, <1>4, <1>5, <1>6, <1>7, <1>8, <1>9, <1>10, <1>11
    DEF Next, Maintain, Acquire, Enter, ReadActive, PrepareFreshPlan, PrepareRecords, LoadPlan, Reconcile,
        AuditCurrent, FinalAudit, Release, Refuse, Fail, Kill

(* Files are moved under the transaction's own marker, and the marker goes *)
(* after COMPLETE.                                                         *)
LEMMA FenceStep == ASSUME IInv, Next PROVE FenceCoversMoves'
<1>. USE DEF FenceCoversMoves
<1>0. /\ TypeOK /\ StorageType /\ FenceCoversMoves /\ HolderInv /\ WrittenInv
      /\ (now \in Disks) /\ (disk.records \subseteq now.records) /\ (losses \in Nat)
    BY TypeParts, BoundsAssumption DEF IInv, StorageType, CountType
<1>1. CASE /\ now'.payload = now.payload /\ now.records \subseteq now'.records
           /\ now'.active = now.active /\ losses' = losses
    BY <1>0, <1>1
<1>2. CASE \E f \in Files : Abandon(f) \/ Bind(f)
    BY <1>0, <1>1, <1>2 DEF Abandon, Bind, boundVars, Disks
<1>3. CASE PublishActive
    <2>1. CASE UNCHANGED now BY <1>0, <1>1, <1>3, <2>1 DEF PublishActive, boundVars
    <2>2. CASE now.active = None /\ now' = [now EXCEPT !.active = txn]
        <3>1. now'.payload = now.payload /\ now'.records = now.records /\ losses' = losses
            BY <1>0, <1>3, <2>2 DEF PublishActive, boundVars, Disks
        <3>2. \A e \in now.payload : e[1] # now.active
            BY <1>0, <2>2, NoneAssumption DEF Disks
        <3>. QED BY <1>0, <3>1, <3>2
    <2>. QED BY <1>3, <2>1, <2>2 DEF PublishActive
<1>4. CASE UnlinkActive
    <2>1. pc = "unlink_active" BY <1>4 DEF UnlinkActive
    <2>2. now.active = txn /\ <<txn, "complete">> \in now.records
        BY <1>0, <2>1 DEF HolderInv, WrittenInv, Resuming
    <2>. QED BY <1>0, <1>4, <2>2 DEF UnlinkActive, boundVars, Disks
<1>5. CASE WriteBefore \/ WritePlan \/ WriteAfter \/ WriteComplete
    <2>1. /\ losses' = losses
          /\ UNCHANGED now \/ \E name \in RecordNames :
                                  now' = [now EXCEPT !.records = @ \cup {<<txn, name>>}]
        BY <1>5 DEF WriteBefore, WritePlan, WriteAfter, WriteComplete, PublishRecord, boundVars,
                    RecordNames
    <2>. QED BY <1>0, <1>1, <2>1 DEF Disks
<1>6. CASE Move
    <2>1. pc = "move" /\ losses' = losses BY <1>6 DEF Move, boundVars
    <2>2. now.active = txn BY <1>0, <2>1 DEF HolderInv, Resuming
    <2>3. CASE UNCHANGED now BY <1>1, <2>1, <2>3
    <2>4. ASSUME NEW f \in pending, now'.payload = now.payload \cup {<<txn, f>>},
                 now'.records = now.records, now'.active = now.active
          PROVE  FenceCoversMoves'
        <3>1. SUFFICES ASSUME losses' = 0, NEW e \in now'.payload
                       PROVE  <<e[1], "complete">> \in now'.records \/ now'.active = e[1]
            OBVIOUS
        <3>2. CASE e \in now.payload BY <1>0, <2>1, <2>4, <3>1, <3>2
        <3>3. CASE e = <<txn, f>> BY <2>2, <2>4, <3>3
        <3>. QED BY <2>4, <3>1, <3>2, <3>3
    <2>. QED BY <1>0, <1>6, <2>3, <2>4, MoveEffect
<1>7. CASE WriteReceipt
    BY <1>0, <1>1, <1>7 DEF WriteReceipt, boundVars, Disks
<1>8. CASE PowerLoss
    <2>1. losses' # 0 BY <1>0, <1>8 DEF PowerLoss
    <2>. QED BY <2>1
<1>9. CASE UNCHANGED <<now, losses>>
    BY <1>1, <1>9
<1>. QED
    BY <1>2, <1>3, <1>4, <1>5, <1>6, <1>7, <1>8, <1>9
    DEF Next, Maintain, boundVars, Acquire, Enter, ReadActive, PrepareFreshPlan, PrepareRecords,
        SyncBefore, SyncPlan, SyncActive, LoadPlan, Reconcile, AuditCurrent, SyncPayload,
        SyncSource, SyncReceipt, FinalAudit, SyncAfter, SyncComplete, SyncUnlink, Release, Refuse, Fail,
        Kill, SyncRecords, SyncVersion

(* While a marker stands, what is left in the store without a reference is *)
(* what its plan has not moved.                                            *)
LEMMA ResumeStep == ASSUME IInv, Next PROVE ResumeInv'
<1>. USE DEF ResumeInv
<1>0. /\ TypeOK /\ StorageType /\ ResumeInv /\ HolderInv /\ PlanInv
      /\ (now \in Disks) /\ (losses \in Nat)
    BY TypeParts, BoundsAssumption DEF IInv, StorageType, CountType
<1>1. CASE /\ now'.cas = now.cas /\ now'.payload = now.payload /\ now'.active = now.active
           /\ UNCHANGED <<owned, ledger, losses>>
    BY <1>0, <1>1 DEF Findings
<1>2. CASE \E f \in Files : Abandon(f) \/ Bind(f)
    BY <1>0, <1>2 DEF Abandon, Bind, Unfenced, Disks
<1>3. CASE PublishActive
    <2>1. CASE UNCHANGED now BY <1>1, <1>3, <2>1 DEF PublishActive, writerVars, boundVars
    <2>2. CASE now' = [now EXCEPT !.active = txn]
        <3>1. pc = "active" /\ UNCHANGED <<owned, ledger>>
            BY <1>3 DEF PublishActive, writerVars
        <3>2. now'.active = txn /\ now'.cas = now.cas /\ now'.payload = now.payload
            BY <1>0, <2>2 DEF Disks
        <3>3. /\ ledger = txn.ledger /\ Findings = txn.files /\ Findings \subseteq Files
              /\ \A f \in Files : <<txn, f>> \notin now.payload
            BY <1>0, <3>1 DEF PlanInv, Planned, Findings, Disks
        <3>. QED BY <3>1, <3>2, <3>3 DEF Findings
    <2>. QED BY <1>3, <2>1, <2>2 DEF PublishActive
<1>4. CASE UnlinkActive
    BY <1>0, <1>1, <1>4 DEF UnlinkActive, writerVars, boundVars, Disks
<1>5. CASE WriteBefore \/ WritePlan \/ WriteAfter \/ WriteComplete
    BY <1>0, <1>1, <1>5
    DEF WriteBefore, WritePlan, WriteAfter, WriteComplete, PublishRecord, writerVars, boundVars,
        Disks
<1>6. CASE Move
    <2>1. pc = "move" /\ UNCHANGED <<owned, ledger, losses>> BY <1>6 DEF Move, writerVars, boundVars
    <2>2. now.active = txn BY <1>0, <2>1 DEF HolderInv, Resuming
    <2>3. CASE UNCHANGED now BY <1>1, <2>1, <2>3
    <2>4. ASSUME NEW f \in pending, now'.cas = now.cas \ {f}, now'.active = now.active,
                 now'.payload = now.payload \cup {<<txn, f>>}
          PROVE  ResumeInv'
        <3>1. Findings' = Findings \ {f} BY <2>1, <2>4 DEF Findings
        <3>2. {g \in txn.files : <<txn, g>> \notin now'.payload}
                = {g \in txn.files : <<txn, g>> \notin now.payload} \ {f}
            BY <2>4
        <3>. QED BY <1>0, <2>1, <2>2, <2>4, <3>1, <3>2
    <2>. QED BY <1>0, <1>6, <2>3, <2>4, MoveEffect
<1>7. CASE WriteReceipt
    BY <1>0, <1>1, <1>7 DEF WriteReceipt, writerVars, boundVars, Disks
<1>8. CASE PowerLoss
    <2>1. losses' # 0 BY <1>0, <1>8 DEF PowerLoss
    <2>. QED BY <2>1
<1>9. CASE UNCHANGED <<now, owned, ledger, losses>>
    BY <1>1, <1>9
<1>. QED
    BY <1>2, <1>3, <1>4, <1>5, <1>6, <1>7, <1>8, <1>9
    DEF Next, Maintain, writerVars, boundVars, Acquire, Enter, ReadActive, PrepareFreshPlan,
        PrepareRecords, SyncBefore, SyncPlan, SyncActive, LoadPlan, Reconcile, AuditCurrent,
        SyncPayload, SyncSource, SyncReceipt, FinalAudit, SyncAfter, SyncComplete, SyncUnlink,
        Release, Refuse, Fail, Kill, SyncRecords, SyncVersion

-----------------------------------------------------------------------------
(* The theorems. *)

(* The empty store satisfies the invariant. *)
LEMMA IInvInit == Init => IInv
<1>. SUFFICES ASSUME Init PROVE IInv OBVIOUS
<1>0. /\ now = [cas |-> {}, payload |-> {}, records |-> {}, receipts |-> {}, active |-> None]
      /\ disk = now
    BY DEF Init
<1>1. now \in Disks BY <1>0 DEF Disks
<1>2. TypeOK BY <1>0, <1>1, BoundsAssumption DEF Init, TypeOK, Outcomes
<1>3. HolderInv /\ LoopInv /\ ItemInv /\ WrittenInv /\ ReceiptInv /\ PlanInv /\ FoundInv
    BY DEF Init, HolderInv, LoopInv, ItemInv, WrittenInv, ReceiptInv, PlanInv, FoundInv, Planned,
           AtItem, Closing, Preparing, Resuming, Finishing
<1>4. MarkerInv /\ ResumeInv /\ ReachableNeverMoved /\ FenceCoversMoves /\ RecordsBacked
    BY <1>0 DEF Init, MarkerInv, ResumeInv, ReachableNeverMoved, FenceCoversMoves, RecordsBacked
<1>. QED BY <1>2, <1>3, <1>4 DEF IInv

(* Every step keeps the invariant. *)
LEMMA IInvStep == IInv /\ [Next]_vars => IInv'
<1>. SUFFICES ASSUME IInv, [Next]_vars PROVE IInv' OBVIOUS
<1>1. CASE Next
    <2>1. TypeOK /\ HolderInv /\ ItemInv BY DEF IInv
    <2>2. (TypeOK <=> StorageType /\ LocalType /\ CountType)'
        BY TypeParts, PTL
    <2>3. (RecordsBacked <=> ReceiptsBacked /\ ActiveBacked /\ CompleteBacked)'
        BY BackedParts, PTL
    <2>4. TypeOK' BY <1>1, <2>1, <2>2, StorageStep, LocalStep, CountStep
    <2>5. RecordsBacked'
        BY <1>1, <2>3, ReceiptsBackedStep, ActiveBackedStep, CompleteBackedStep
    <2>. QED
        BY <1>1, <2>4, <2>5, HolderStep, LoopStep, ItemStep, WrittenStep, ReceiptStep, PlanStep,
           FoundStep, MarkerStep, ResumeStep, ReachableStep, FenceStep
        DEF IInv
<1>2. CASE UNCHANGED vars
    BY <1>2 DEF vars, IInv, TypeOK, HolderInv, LoopInv, ItemInv, WrittenInv, ReceiptInv, PlanInv,
                FoundInv, MarkerInv, ResumeInv, ReachableNeverMoved, FenceCoversMoves,
                RecordsBacked, Findings
<1>. QED BY <1>1, <1>2

(* The invariant holds in every behaviour. *)
LEMMA QuarantineInvariant == Spec => []IInv
BY IInvInit, IInvStep, PTL DEF Spec

(* Type correctness of the transaction, and that what is flushed and what  *)
(* is seen stay in step, for every set of files and every bound.           *)
THEOREM QuarantineTypeCorrect == Spec => []TypeOK
<1>1. IInv => TypeOK BY DEF IInv
<1>. QED BY <1>1, QuarantineInvariant, PTL

(* Files the ledger refers to are never moved, whatever plans earlier      *)
(* calls left behind and whatever fails or loses power.                    *)
THEOREM EvidenceStays == Spec => []ReachableNeverMoved
<1>1. IInv => ReachableNeverMoved BY DEF IInv
<1>. QED BY <1>1, QuarantineInvariant, PTL

(* As long as no power is lost, an incomplete transaction that has moved a *)
(* file has its marker, so no shared writer gets in.                       *)
THEOREM FenceStands == Spec => []FenceCoversMoves
<1>1. IInv => FenceCoversMoves BY DEF IInv
<1>. QED BY <1>1, QuarantineInvariant, PTL

(* No record claims what a power loss may still undo: receipts have their  *)
(* moves on disk, ACTIVE its records, COMPLETE AFTER and every receipt.    *)
THEOREM RecordsTrue == Spec => []RecordsBacked
<1>1. IInv => RecordsBacked BY DEF IInv
<1>. QED BY <1>1, QuarantineInvariant, PTL

(* After any number of kills and errors the next maintainer finds the      *)
(* records, the ledger and the store as _resume_transaction demands them.  *)
THEOREM FenceNeverStuck == Spec => []Resumable
<1>1. IInv => Resumable
    <2>. SUFFICES ASSUME IInv, losses = 0, pc = "idle", now.active # None
                  PROVE  LET t == now.active IN
                         /\ {<<t, "before">>, <<t, "plan">>} \subseteq now.records
                         /\ ledger = t.ledger
                         /\ Findings = {f \in t.files : <<t, f>> \notin now.payload}
                         /\ \A f \in t.files : <<t, f>> \in now.receipts =>
                                               <<t, f>> \in now.payload
        BY DEF Resumable
    <2>1. disk.records \subseteq now.records /\ disk.payload \subseteq now.payload
        BY DEF IInv, TypeOK
    <2>2. {<<now.active, "before">>, <<now.active, "plan">>} \subseteq now.records
        BY <2>1 DEF IInv, RecordsBacked
    <2>3. \A e \in now.receipts : e \in now.payload
        BY <2>1 DEF IInv, RecordsBacked
    <2>4. /\ ledger = now.active.ledger
          /\ Findings = {f \in now.active.files : <<now.active, f>> \notin now.payload}
        BY DEF IInv, ResumeInv
    <2>. QED BY <2>2, <2>3, <2>4
<1>. QED BY <1>1, QuarantineInvariant, PTL

(* What a caller may conclude from the way its call ended, at whatever     *)
(* step an error met it: the steps that end a call know where the fence is *)
(* and what the call has changed since it took the lease.                  *)
THEOREM OutcomesTrue == Spec => OutcomeTruthful
<1>1. ASSUME IInv, [Next]_vars PROVE [ToldTruly]_outcome
    <2>. SUFFICES ASSUME Next, outcome' # outcome PROVE ToldTruly
        BY <1>1 DEF vars
    <2>0. /\ HolderInv /\ WrittenInv /\ FoundInv /\ (now \in Disks) /\ (disk \in Disks)
          /\ pc \in {"idle"} \cup Preparing \cup Resuming \cup Finishing
        BY <1>1 DEF IInv, TypeOK
    <2>. USE DEF Preparing, Resuming, Finishing, Planned, ToldTruly, Began, MovedAny
    <2>1. CASE Acquire \/ Refuse \/ Kill \/ PowerLoss
        BY <2>1 DEF Acquire, Refuse, Kill, PowerLoss, End
    <2>2. CASE PrepareFreshPlan \/ PrepareRecords
        BY <2>0, <2>2 DEF PrepareFreshPlan, PrepareRecords, End, HolderInv, FoundInv
    <2>3. CASE PublishActive
        BY <2>0, <2>3 DEF PublishActive, End
    <2>4. CASE \/ LoadPlan \/ Reconcile \/ AuditCurrent \/ FinalAudit
        BY <2>0, <2>4 DEF LoadPlan, Reconcile, AuditCurrent, FinalAudit, End, HolderInv
    <2>5. CASE Move \/ UnlinkActive
        BY <2>0, <2>5 DEF Move, UnlinkActive, End, HolderInv
    <2>6. CASE SyncSource \/ SyncComplete
        BY <2>0, <2>6 DEF SyncSource, SyncComplete, End, HolderInv
    <2>7. CASE WriteComplete
        BY <2>0, <2>7 DEF WriteComplete, PublishRecord, End, HolderInv
    <2>8. CASE Release
        BY <2>0, <2>8 DEF Release, End, HolderInv, WrittenInv, FoundInv
    <2>9. CASE Fail
        <3>1. PICK unseen \in BOOLEAN : outcome' = FailureOutcome(unseen)
            BY <2>9 DEF Fail, End
        <3>2. now' = now /\ disk' = disk /\ pc # "idle" BY <2>9 DEF Fail
        <3>3. CASE pc = "enter" \/ pc = "prepare"
            BY <2>0, <3>1, <3>2, <3>3 DEF FailureOutcome, HolderInv, FoundInv
        <3>4. CASE pc \in Finishing
            BY <2>0, <3>1, <3>2, <3>4 DEF FailureOutcome, HolderInv, WrittenInv, FoundInv
        <3>5. CASE pc \in Resuming
            BY <2>0, <3>1, <3>2, <3>5 DEF FailureOutcome, HolderInv
        <3>6. CASE pc \in Probing
            BY <2>0, <3>1, <3>2, <3>6 DEF FailureOutcome, FoundInv, Probing
        <3>. QED BY <2>0, <3>2, <3>3, <3>4, <3>5, <3>6 DEF Probing
    <2>. QED
        BY <2>1, <2>2, <2>3, <2>4, <2>5, <2>6, <2>7, <2>8, <2>9
        DEF Next, Maintain, Enter, ReadActive, WriteBefore, SyncBefore, WritePlan, SyncPlan,
            SyncActive, SyncPayload, WriteReceipt, SyncReceipt, WriteAfter, SyncAfter, SyncUnlink,
            PublishRecord, SyncRecords, SyncVersion, Abandon, Bind
<1>2. Spec => []IInv BY QuarantineInvariant
<1>. QED BY <1>1, <1>2, PTL DEF Spec, OutcomeTruthful

=============================================================================
