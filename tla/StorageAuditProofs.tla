------------------------- MODULE StorageAuditProofs -------------------------
(***************************************************************************)
(* Soundness and exactness of the storage audit for every set of digests,  *)
(* references, bindings and limits, whatever runners and others do while   *)
(* it reads.                                                               *)
(*                                                                         *)
(* Three arguments share one invariant of the walk.  What is reachable is  *)
(* reached, queued or excused by a finding (CoverInv), and what was        *)
(* verified was intact at some moment since the audit began (LostInv).     *)
(* Without damage, everything the audit may meet has been published, stays *)
(* where it is and is therefore read and listed (StoreInv, BlameInv).  And *)
(* while nothing changes, each finding and each missing finding is         *)
(* justified by what is on disk (QuietInv).                                *)
(***************************************************************************)
EXTENDS StorageAudit, TLAPS

Kinds == {"missing", "proper", "other", "corrupt"}
Entry == [kind : Kinds, inode : 0..MaxInodes]
Labels == {"idle", "missing", "database", "artifacts", "sidecar", "open", "store", "walk",
           "inspect", "recheck", "done"}
ReadOutcomes == {"unread", "missing_referenced", "special_file", "limit_exceeded",
                 "corrupt_referenced", "captured", "ok"}
OrphanKinds == {"valid_finalized_orphan", "corrupt_finalized_orphan"}
FindingKinds ==
    OrphanKinds \cup {"scan_error", "limit_exceeded", "missing_referenced", "special_file",
                      "corrupt_referenced", "temp_orphan", "noncanonical_entry"}
Strays == {"temp", "foreign"}
AllEntries == ({"blob", "temp"} \X Digests) \cup ({"stray"} \X Strays)
Findings == [kind : FindingKinds, digest : Digests \cup Strays \cup {".", "inventory"},
             owned : BOOLEAN]
Scans ==
    [snapshot : SUBSET Bindings, runs : BOOLEAN, pending : SUBSET (Roles \X Digests),
     nodes : 0..NodeLimit, used : 0..HashBudget, reads : [Digests -> ReadOutcomes],
     reached : SUBSET Digests, verified : SUBSET Digests, listing : SUBSET AllEntries,
     observed : SUBSET Digests, findings : SUBSET Findings]

DiskType ==
    /\ tree \in [Paths -> Entry]
    /\ blob \in [Digests -> {"none", "good", "bad", "odd"}]
    /\ temps \subseteq Digests /\ strays \subseteq Strays /\ published \subseteq Digests
    /\ ledger \subseteq Bindings /\ runs \in BOOLEAN
    /\ inodes \in 0..MaxInodes /\ damage \in Nat
AuditType ==
    /\ pc \in Labels /\ seen \in [Paths -> Entry] /\ scan \in Scans
    /\ report \in [state : States, verified : BOOLEAN, initialize : BOOLEAN]
    /\ faulty \in BOOLEAN /\ calm \in BOOLEAN

\* What is at the paths: an absent path has no identity, only a database can
\* be corrupt, and there is nothing in a store that is not a directory.
TreeInv ==
    /\ \A p \in Paths : Kind(p) = "missing" => tree[p] = Missing
    /\ \A p \in Paths \ {"database"} : Kind(p) # "corrupt"
    /\ Kind("artifacts") # "proper" =>
          temps = {} /\ strays = {} /\ \A d \in Digests : blob[d] = "none"
    /\ \A p \in Paths : seen[p].kind = "missing" => seen[p] = Missing
    /\ \A p \in Paths \ {"database"} : seen[p].kind # "corrupt"

\* The order of the audit's steps.
Looking == {"idle", "missing", "database", "artifacts", "sidecar", "open"}
Scanning == {"store", "walk", "inspect", "recheck"}
StepInv ==
    /\ pc \in Looking => scan = NoScan
    /\ pc = "idle" => seen = NothingSeen /\ lost = {} /\ calm
    /\ pc \in (Looking \ {"idle", "missing"}) \cup Scanning => seen["state"].kind = "proper"
    /\ pc = "missing" => seen["state"].kind = "missing"
    /\ pc \in {"store", "walk", "inspect"} => seen["artifacts"].kind = "proper"
    /\ pc \notin {"store", "walk"} => scan.pending = {}
    /\ pc # "inspect" => scan.listing = {}

\* A finding that keeps the gates closed.
Blocking(f) == f.owned \/ f.kind \in {"scan_error", "limit_exceeded"}
Blocked == \E f \in scan.findings : Blocking(f)

\* What the snapshot reaches is reached, queued or excused.
Covered(b) ==
    \/ b \in scan.pending
    \/ /\ b[2] \in scan.reached
       /\ b[1] = "structured" =>
             /\ Defect[b[2]] = "none"
             /\ \A c \in Children[b[2]] : c \in scan.reached \/ <<"plain", c>> \in scan.pending
CoverInv == Blocked \/ \A b \in scan.snapshot : Covered(b)

\* Nothing else is queued or reached.
WithinInv ==
    /\ \A b \in scan.pending :
          b \in scan.snapshot \/ (b[1] = "plain" /\ b[2] \in Closure(scan.snapshot))
    /\ scan.reached \subseteq Closure(scan.snapshot)
    /\ scan.verified \subseteq scan.reached

\* What was verified was intact since the audit began.
LostInv ==
    /\ \A d \in lost : blob[d] # "good" /\ d \in Digests
    /\ \A d \in Digests : scan.reads[d] \in {"ok", "captured"} => d \notin lost
    /\ scan.verified \cap lost = {}

\* Orphans are found when everything has been reached.
OrphanInv ==
    \A f \in scan.findings : f.kind \in OrphanKinds =>
        pc \in {"inspect", "recheck", "done"} /\ f.digest \notin scan.reached

\* A report that opens the gates was derived from a scan that does.
GateInv == pc = "done" /\ report.verified => ~Blocked /\ scan.verified = scan.reached

\* Without damage, what runs refer to is published and stays in place.
StoreInv ==
    damage = 0 =>
        /\ \A d \in Digests : blob[d] \in {"none", "good"}
        /\ \A d \in published : blob[d] = "good"
        /\ Closure(ledger) \subseteq published /\ Closure(scan.snapshot) \subseteq published
        /\ \A p \in Paths : Kind(p) # "other" /\ seen[p].kind # "other"
        /\ seen["artifacts"].kind = "missing" \/ seen["artifacts"] = tree["artifacts"]

\* Then nothing that is read or listed looks damaged.
Whole(bs) == \A b \in bs : b[1] = "structured" => Defect[b[2]] = "none"
Blameless == damage = 0 /\ ~faulty /\ ~LimitMet /\ Whole(scan.snapshot)
BlameInv ==
    Blameless /\ (seen["artifacts"].kind # "missing" \/ scan.snapshot = {}) =>
        /\ \A d \in Digests : scan.reads[d] \in {"unread", "ok", "captured"}
        /\ \A f \in scan.findings : ~f.owned
        /\ scan.verified = scan.reached
        /\ pc = "inspect" =>
              \A d \in scan.reached : d \in scan.observed \/ <<"blob", d>> \in scan.listing

\* While nothing changes, the audit has seen what there is.
SameInv ==
    calm =>
        /\ pc \notin {"idle", "done"} => Same("state")
        /\ pc \in {"artifacts", "sidecar", "open"} \cup Scanning => Same("database")
        /\ pc \in {"sidecar", "open"} \cup Scanning => Same("artifacts")
        /\ pc \in {"open"} \cup Scanning => Same("sidecar")
        /\ pc \in Scanning =>
              IF Regular(seen["database"])
              THEN /\ scan.snapshot = ledger /\ scan.runs = runs
                   /\ Kind("database") = "proper" /\ Kind("sidecar") # "other"
              ELSE scan.snapshot = {}

Intact(bs) == Whole(bs) /\ \A d \in Closure(bs) : blob[d] = "good"
Clean(bs) == Entries \subseteq {"blob"} \X Closure(bs)

\* And each finding, and each entry without one, is justified.
Quiet == calm /\ ~faulty /\ ~LimitMet /\ seen["artifacts"].kind # "other" /\ pc \in Scanning
QuietInv ==
    Quiet =>
        /\ \A d \in Digests :
              /\ scan.reads[d] \in {"ok", "captured"} => blob[d] = "good"
              /\ scan.reads[d] \notin {"unread", "ok", "captured"} => blob[d] # "good"
        /\ \A d \in scan.verified : blob[d] = "good"
        /\ \A d \in scan.reached \ scan.verified : blob[d] # "good"
        /\ \A f \in scan.findings : f.kind # "scan_error"
        /\ Intact(scan.snapshot) => \A f \in scan.findings : ~f.owned
        /\ Intact(scan.snapshot) /\ Clean(scan.snapshot) => scan.findings = {}
        /\ scan.listing \subseteq Entries
        /\ pc = "inspect" =>
              /\ \A d \in scan.reached :
                    blob[d] = "good" => d \in scan.observed \/ <<"blob", d>> \in scan.listing
        /\ pc \in {"inspect", "recheck"} =>
              \A e \in Entries :
                  \/ e \in scan.listing \/ scan.findings # {}
                  \/ e[1] = "blob" /\ e[2] \in scan.reached

IInv ==
    /\ DiskType /\ AuditType /\ TreeInv /\ StepInv /\ CoverInv /\ WithinInv /\ LostInv
    /\ OrphanInv /\ GateInv /\ StoreInv /\ BlameInv /\ SameInv /\ QuietInv
    /\ IntactNotBlamed /\ ExactWhenAlone

-----------------------------------------------------------------------------
(* The rest of the world. *)

(* Whatever the world does, the audit's variables stay, it is no longer    *)
(* calm once the audit has begun, and no digest gets lost.                 *)
LEMMA WorldFrame ==
    ASSUME World
    PROVE  /\ UNCHANGED auditVars /\ pc # "done" /\ calm' = (pc = "idle")
           /\ lost' \subseteq lost
<1>. USE DEF Elsewhere, Harm
<1>1. CASE CreateState \/ WriterOpens \/ WriterOpensLedger \/ CreateRun
    BY <1>1 DEF CreateState, WriterOpens, WriterOpensLedger, CreateRun
<1>2. CASE WriterCloses \/ WriterCrashes \/ AddStray
    BY <1>2 DEF WriterCloses, WriterCrashes, AddStray
<1>3. CASE \E d \in Digests :
          MakeTemp(d) \/ Publish(d) \/ \E to \in {"none", "bad", "odd"} : DamageBlob(d, to)
    BY <1>3 DEF MakeTemp, Publish, DamageBlob
<1>4. CASE \E b \in Bindings : Bind(b)
    BY <1>4 DEF Bind
<1>5. ASSUME NEW p, NEW kind, ReplacePath(p, kind)
      PROVE  UNCHANGED auditVars /\ pc # "done" /\ calm' = (pc = "idle") /\ lost' \subseteq lost
    BY <1>5 DEF ReplacePath
<1>. QED BY <1>1, <1>2, <1>3, <1>4, <1>5 DEF World

\* What the world's steps do to the disk: a path that was absent is made, a
\* sidecar is removed, or a path is replaced.
MakesPath ==
    \E p \in Paths : Kind(p) = "missing" /\ Make(p, "proper")
RemovesSidecar ==
    tree' = [tree EXCEPT !["sidecar"] = Missing] /\ UNCHANGED inodes

(* A path that is made. *)
LEMMA MakeEffect ==
    ASSUME DiskType, NEW p \in Paths, Make(p, "proper")
    PROVE  /\ tree' \in [Paths -> Entry] /\ inodes' \in 0..MaxInodes
           /\ tree'[p].kind = "proper" /\ \A q \in Paths \ {p} : tree'[q] = tree[q]
BY LimitTypes DEF DiskType, Make, Fresh, Entry, Kinds

(* Making a path, or removing the sidecar, leaves everything else in place. *)
LEMMA PathStep ==
    ASSUME DiskType, TreeInv, UNCHANGED <<storeVars, seen>>, UNCHANGED pathVars \/ MakesPath \/ RemovesSidecar
    PROVE  /\ tree' \in [Paths -> Entry] /\ inodes' \in 0..MaxInodes
           /\ TreeInv'
           /\ \A p \in Paths : Kind(p)' = "other" => Kind(p) = "other"
           /\ Kind("artifacts") # "missing" => tree'["artifacts"] = tree["artifacts"]
<1>0. /\ tree \in [Paths -> Entry] /\ inodes \in 0..MaxInodes /\ Missing \in Entry
      /\ {"artifacts", "sidecar"} \subseteq Paths
    BY LimitTypes DEF DiskType, Missing, Entry, Kinds, Paths
<1>1. CASE UNCHANGED pathVars
    BY <1>0, <1>1 DEF TreeInv, Kind, pathVars, storeVars
<1>2. CASE MakesPath
    <2>1. PICK p \in Paths : Kind(p) = "missing" /\ Make(p, "proper")
        BY <1>2 DEF MakesPath
    <2>2. /\ tree' \in [Paths -> Entry] /\ inodes' \in 0..MaxInodes
          /\ tree'[p].kind = "proper" /\ \A q \in Paths \ {p} : tree'[q] = tree[q]
        BY <2>1, MakeEffect
    <2>. QED BY <1>0, <2>1, <2>2 DEF TreeInv, Kind, storeVars
<1>3. CASE RemovesSidecar
    <2>1. /\ tree' \in [Paths -> Entry] /\ inodes' \in 0..MaxInodes
          /\ tree'["sidecar"] = Missing /\ \A q \in Paths \ {"sidecar"} : tree'[q] = tree[q]
        BY <1>0, <1>3 DEF RemovesSidecar
    <2>2. Missing.kind = "missing" BY DEF Missing
    <2>. QED BY <1>0, <2>1, <2>2 DEF TreeInv, Kind, storeVars
<1>. QED BY <1>1, <1>2, <1>3

DiskInv == DiskType /\ TreeInv /\ LostInv /\ StoreInv

(* The part of the invariant about the disk when only paths, runs and the  *)
(* writer's state change.                                                  *)
LEMMA PathsKeep ==
    ASSUME AuditType, DiskInv, UNCHANGED <<storeVars, seen, scan, ledger, damage>>, lost' \subseteq lost,
           runs' \in BOOLEAN, UNCHANGED pathVars \/ MakesPath \/ RemovesSidecar
    PROVE  DiskInv'
<1>1. /\ tree' \in [Paths -> Entry] /\ inodes' \in 0..MaxInodes
      /\ TreeInv'
      /\ \A p \in Paths : Kind(p)' = "other" => Kind(p) = "other"
      /\ Kind("artifacts") # "missing" => tree'["artifacts"] = tree["artifacts"]
    BY PathStep DEF DiskInv
<1>2. DiskType'
    BY <1>1 DEF DiskInv, DiskType, storeVars
<1>3. LostInv'
    BY DEF DiskInv, LostInv, storeVars
<1>4. StoreInv'
    BY <1>1 DEF DiskInv, StoreInv, storeVars, Closure, Kind
<1>. QED BY <1>1, <1>2, <1>3, <1>4 DEF DiskInv

(* Damage of an artifact, or of a path with what is below it. *)
LEMMA DamageKeep ==
    ASSUME AuditType, DiskInv, UNCHANGED <<seen, scan, published>>, UNCHANGED lost,
           damage' = damage + 1, DiskType', TreeInv',
           \A d \in Digests : blob'[d] = "good" => blob[d] = "good"
    PROVE  DiskInv'
<1>1. LostInv' BY DEF DiskInv, LostInv, DiskType
<1>2. damage' # 0 BY DEF DiskInv, DiskType
<1>3. StoreInv' BY <1>2 DEF StoreInv
<1>. QED BY <1>1, <1>3 DEF DiskInv

(* What refers to published artifacts after a reference has been bound. *)
LEMMA ClosureBind ==
    ASSUME NEW bs, NEW b, NEW S, Closure(bs) \subseteq S, {b[2]} \cup Children[b[2]] \subseteq S
    PROVE  Closure(bs \cup {b}) \subseteq S
BY DEF Closure

(* The disk's part of the invariant is kept by whatever the world does. *)
LEMMA WorldStep == ASSUME AuditType, DiskInv, World PROVE DiskInv'
<1>0. UNCHANGED <<seen, scan>> /\ lost' \subseteq lost
    BY WorldFrame DEF auditVars
<1>1. {"state", "artifacts", "sidecar", "database"} \subseteq Paths /\ DiskType /\ TreeInv
    BY DEF Paths, DiskInv
<1>2. CASE CreateState \/ WriterOpens \/ WriterOpensLedger \/ CreateRun \/ WriterCloses
    <2>1. UNCHANGED <<storeVars, ledger, damage>> /\ runs' \in BOOLEAN
        BY <1>1, <1>2 DEF CreateState, WriterOpens, WriterOpensLedger, CreateRun, WriterCloses,
                          ledgerVars, DiskType
    <2>2. UNCHANGED pathVars \/ MakesPath \/ RemovesSidecar
        <3>1. CASE CreateState BY <1>1, <3>1 DEF CreateState, MakesPath
        <3>2. CASE WriterOpens BY <1>1, <3>2 DEF WriterOpens, MakesPath
        <3>3. CASE WriterOpensLedger BY <1>1, <3>3 DEF WriterOpensLedger, MakesPath
        <3>4. CASE CreateRun BY <3>4 DEF CreateRun
        <3>5. CASE WriterCloses BY <3>5 DEF WriterCloses, RemovesSidecar
        <3>. QED BY <1>2, <3>1, <3>2, <3>3, <3>4, <3>5
    <2>. QED BY <1>0, <2>1, <2>2, PathsKeep
<1>3. CASE WriterCrashes \/ \E d \in Digests : MakeTemp(d)
    <2>1. /\ UNCHANGED <<tree, inodes, blob, ledger, runs, published, damage>>
          /\ temps' \subseteq Digests /\ strays' \subseteq Strays
          /\ Kind("artifacts") # "proper" => temps' = {} /\ strays' = {}
        BY <1>1, <1>3 DEF WriterCrashes, MakeTemp, pathVars, ledgerVars, DiskType, TreeInv, Strays
    <2>2. DiskType' BY <1>1, <2>1 DEF DiskType
    <2>3. TreeInv' BY <1>0, <1>1, <2>1 DEF TreeInv, Kind
    <2>4. LostInv' /\ StoreInv' BY <1>0, <2>1 DEF DiskInv, LostInv, StoreInv, Closure, Kind
    <2>. QED BY <2>2, <2>3, <2>4 DEF DiskInv
<1>4. ASSUME NEW d \in Digests, Publish(d) PROVE DiskInv'
    <2>1. /\ UNCHANGED <<tree, inodes, strays, ledger, runs, damage>>
          /\ d \in temps /\ temps' = {} /\ published' = published \cup {d}
          /\ lost' = lost \ {d}
          /\ blob' = [blob EXCEPT ![d] = "good"]
        BY <1>4 DEF Publish, pathVars, ledgerVars
    <2>2. DiskType' BY <1>1, <2>1 DEF DiskType
    <2>3. TreeInv' BY <1>0, <1>1, <2>1 DEF TreeInv, Kind
    <2>4. LostInv' BY <1>0, <1>1, <2>1 DEF DiskInv, LostInv, DiskType
    <2>5. StoreInv'
        BY <1>0, <1>1, <2>1 DEF DiskInv, StoreInv, DiskType, Closure, Kind
    <2>. QED BY <2>2, <2>3, <2>4, <2>5 DEF DiskInv
<1>5. ASSUME NEW b \in Bindings, Bind(b) PROVE DiskInv'
    <2>1. /\ UNCHANGED <<tree, inodes, blob, temps, strays, published, runs, damage>>
          /\ ledger' = ledger \cup {b} /\ {b[2]} \cup Children[b[2]] \subseteq published
        BY <1>5 DEF Bind, pathVars, storeVars
    <2>2. DiskType' BY <1>1, <2>1 DEF DiskType
    <2>3. TreeInv' BY <1>0, <1>1, <2>1 DEF TreeInv, Kind
    <2>4. LostInv' BY <1>0, <2>1 DEF DiskInv, LostInv
    <2>5. Closure(ledger) \subseteq published => Closure(ledger') \subseteq published
        BY <2>1, ClosureBind
    <2>6. Closure(ledger)' = Closure(ledger') /\ Closure(scan.snapshot)' = Closure(scan.snapshot)
        BY <1>0 DEF Closure
    <2>7. StoreInv' BY <1>0, <2>1, <2>5, <2>6 DEF DiskInv, StoreInv, Kind
    <2>. QED BY <2>2, <2>3, <2>4, <2>7 DEF DiskInv
<1>6. CASE AddStray \/ \E d \in Digests, to \in {"none", "bad", "odd"} : DamageBlob(d, to)
    <2>1. /\ UNCHANGED <<tree, inodes, temps, ledger, runs, published, lost>>
          /\ damage' = damage + 1 /\ strays' \subseteq Strays
          /\ Kind("artifacts") # "proper" => strays' = {} /\ blob' = blob
          /\ blob' \in [Digests -> {"none", "good", "bad", "odd"}]
          /\ \A d \in Digests : blob'[d] = "good" => blob[d] = "good"
        BY <1>1, <1>6 DEF AddStray, DamageBlob, Harm, pathVars, ledgerVars, DiskType, Strays, TreeInv
    <2>2. DiskType' BY <1>1, <2>1 DEF DiskType
    <2>3. TreeInv' BY <1>0, <1>1, <2>1 DEF TreeInv, Kind
    <2>. QED BY <1>0, <2>1, <2>2, <2>3, DamageKeep
<1>7. ASSUME NEW p \in Paths, NEW kind \in {"missing", "other", "corrupt"},
             kind = "corrupt" => p = "database", ReplacePath(p, kind)
      PROVE  DiskInv'
    <2>1. /\ tree' = [q \in Paths |-> IF q = p /\ kind # "missing" THEN Fresh(kind)
                                      ELSE IF q \in Below(p) THEN Missing ELSE tree[q]]
          /\ kind = "missing" \/ inodes < MaxInodes
          /\ inodes' = IF kind = "missing" THEN inodes ELSE inodes + 1
          /\ UNCHANGED <<published, lost>> /\ damage' = damage + 1
          /\ p \in {"state", "artifacts"} => blob' = [d \in Digests |-> "none"] /\ strays' = {}
          /\ p \notin {"state", "artifacts"} => blob' = blob /\ strays' = strays
          /\ p \in {"state", "database"} => ledger' = {} /\ runs' = FALSE
          /\ p \notin {"state", "database"} => ledger' = ledger /\ runs' = runs
          /\ temps' = {}
        BY <1>7 DEF ReplacePath, Harm, ledgerVars
    <2>2. /\ Missing \in Entry /\ Missing.kind = "missing"
          /\ kind # "missing" => Fresh(kind) \in Entry /\ Fresh(kind).kind = kind
        BY <1>1, <2>1, LimitTypes DEF Missing, Fresh, Entry, Kinds, DiskType
    <2>3. tree' \in [Paths -> Entry] /\ inodes' \in 0..MaxInodes
        BY <1>1, <2>1, <2>2, LimitTypes DEF DiskType
    <2>9. blob' \in [Digests -> {"none", "good", "bad", "odd"}] /\ strays' \subseteq Strays
        BY <1>1, <2>1 DEF DiskType
    <2>10. ledger' \subseteq Bindings /\ runs' \in BOOLEAN
        BY <1>1, <2>1, Zenon DEF DiskType
    <2>11. damage' \in Nat
        BY <1>1, <2>1 DEF DiskType
    <2>4. DiskType' BY <1>1, <2>1, <2>3, <2>9, <2>10, <2>11, Zenon DEF DiskType
    <2>5. \A q \in Paths : tree'[q] \in {tree[q], Missing} \/ (q = p /\ kind # "missing" /\ tree'[q].kind = kind)
        BY <2>1, <2>2
    <2>6. tree'["artifacts"] = tree["artifacts"] \/ p \in {"state", "artifacts"}
        BY <1>1, <2>1 DEF Below
    <2>7. TreeInv'
        BY <1>0, <1>1, <1>7, <2>1, <2>2, <2>5, <2>6 DEF TreeInv, Kind
    <2>8. \A d \in Digests : blob'[d] = "good" => blob[d] = "good" BY <2>1
    <2>. QED BY <1>0, <2>1, <2>4, <2>7, <2>8, DamageKeep
<1>. QED BY <1>1, <1>2, <1>3, <1>4, <1>5, <1>6, <1>7 DEF World

(* Acts of damage are only counted up. *)
LEMMA WorldDamage == ASSUME DiskType, World, damage' = 0 PROVE damage = 0
<1>1. damage' = damage \/ damage' = damage + 1
    BY DEF World, CreateState, WriterOpens, WriterOpensLedger, CreateRun, WriterCloses,
           WriterCrashes, AddStray, MakeTemp, Publish, DamageBlob, Bind, ReplacePath, Harm
<1>. QED BY <1>1 DEF DiskType

(* The world keeps the whole invariant: the audit has only read so far.    *)
LEMMA WorldInv == ASSUME IInv, World PROVE IInv'
<1>1. /\ UNCHANGED <<pc, seen, scan, report, faulty>> /\ pc # "done" /\ calm' = (pc = "idle")
      /\ lost' \subseteq lost
    BY WorldFrame DEF auditVars
<1>2. DiskInv'
    BY WorldStep DEF IInv, DiskInv
<1>3. damage' = 0 => damage = 0
    BY WorldDamage DEF IInv
<1>4. AuditType' /\ StepInv'
    BY <1>1 DEF IInv, AuditType, StepInv
<1>5. CoverInv' /\ WithinInv' /\ OrphanInv' /\ GateInv'
    BY <1>1 DEF IInv, CoverInv, WithinInv, OrphanInv, GateInv, Covered, Blocked, Blocking, Closure
<1>6. BlameInv'
    BY <1>1, <1>3 DEF IInv, BlameInv, Blameless, LimitMet, Whole
<1>7. SameInv' /\ QuietInv'
    BY <1>1 DEF SameInv, QuietInv, Quiet, Scanning
<1>8. IntactNotBlamed' /\ ExactWhenAlone'
    BY <1>1 DEF IntactNotBlamed, ExactWhenAlone
<1>. QED BY <1>2, <1>4, <1>5, <1>6, <1>7, <1>8 DEF IInv, DiskInv

-----------------------------------------------------------------------------
(* The audit's records. *)

(* An empty scan. *)
LEMMA NoScanType == NoScan \in Scans
<1>1. [d \in Digests |-> "unread"] \in [Digests -> ReadOutcomes]
    BY DEF ReadOutcomes
<1>. QED BY <1>1, LimitTypes DEF NoScan, Scans

(* Findings of both sorts. *)
LEMMA FindingType ==
    ASSUME NEW kind \in FindingKinds, NEW x \in Digests \cup Strays \cup {".", "inventory"}
    PROVE  /\ Finding(kind, x) \in Findings /\ Unowned(kind, x) \in Findings
           /\ Finding(kind, x).owned /\ ~Unowned(kind, x).owned
           /\ Finding(kind, x).kind = kind /\ Unowned(kind, x).kind = kind
           /\ Finding(kind, x).digest = x /\ Unowned(kind, x).digest = x
BY DEF Finding, Unowned, Findings

(* The finding that the scan itself failed. *)
LEMMA ScanErrorType ==
    ScanError \in Findings /\ ScanError.kind = "scan_error" /\ ~ScanError.owned /\ Blocking(ScanError)
BY FindingType DEF ScanError, FindingKinds, Blocking

\* What following one reference adds to the findings.
Found(b, got) ==
    LET read == got \in {"ok", "captured"}
        parsed == got = "captured" /\ b[1] = "structured" IN
    (IF ~read THEN {Finding(got, b[2])} ELSE {})
        \cup (IF b[1] = "structured" /\ read /\ (~parsed \/ Defect[b[2]] # "none")
              THEN {Finding("corrupt_referenced", b[2])} ELSE {})

(* What following a reference does to the scan, field by field. *)
LEMMA FollowEffect ==
    ASSUME scan \in Scans, NEW b \in Roles \X Digests, NEW got \in ReadOutcomes \ {"unread"},
           NEW used \in 0..HashBudget, scan.nodes < NodeLimit, Follow(b, got, used)
    PROVE  /\ scan' \in Scans
           /\ scan'.snapshot = scan.snapshot /\ scan'.runs = scan.runs
           /\ scan'.listing = scan.listing /\ scan'.observed = scan.observed
           /\ scan'.reads = [scan.reads EXCEPT ![b[2]] = got]
           /\ scan'.reached = scan.reached \cup {b[2]}
           /\ scan'.verified = scan.verified \cup (IF got \in {"ok", "captured"} THEN {b[2]} ELSE {})
           /\ scan'.findings = scan.findings \cup Found(b, got)
           /\ scan'.pending = (scan.pending \ {b}) \cup
                 (IF got = "captured" /\ b[1] = "structured" /\ Defect[b[2]] # "malformed"
                  THEN {"plain"} \X Children[b[2]] ELSE {})
<1>. DEFINE pending == (scan.pending \ {b}) \cup
                 (IF got = "captured" /\ b[1] = "structured" /\ Defect[b[2]] # "malformed"
                  THEN {"plain"} \X Children[b[2]] ELSE {})
            verified == scan.verified \cup (IF got \in {"ok", "captured"} THEN {b[2]} ELSE {})
            findings == scan.findings \cup Found(b, got)
            reads == [scan.reads EXCEPT ![b[2]] = got]
<1>0. b[2] \in Digests /\ b[1] \in Roles BY DEF Roles
<1>1. pending \subseteq Roles \X Digests
    BY <1>0, ReferenceTypes DEF Scans, Roles
<1>2. findings \subseteq Findings
    <2>1. got \notin {"ok", "captured"} => got \in FindingKinds
        BY DEF ReadOutcomes, FindingKinds
    <2>2. "corrupt_referenced" \in FindingKinds BY DEF FindingKinds
    <2>3. Found(b, got) \subseteq Findings BY <1>0, <2>1, <2>2, FindingType DEF Found
    <2>. QED BY <2>3 DEF Scans
<1>3. reads \in [Digests -> ReadOutcomes] /\ verified \subseteq Digests /\ scan.reached \cup {b[2]} \subseteq Digests
    BY <1>0 DEF Scans
<1>4. scan.nodes + 1 \in 0..NodeLimit BY LimitTypes DEF Scans
<1>5. scan' = [scan EXCEPT !.nodes = scan.nodes + 1, !.used = used, !.reads = reads,
                           !.reached = scan.reached \cup {b[2]}, !.verified = verified,
                           !.findings = findings, !.pending = pending]
    BY DEF Follow, Found, Scans
<1>. HIDE DEF pending, verified, findings, reads
<1>6. scan' = [snapshot |-> scan.snapshot, runs |-> scan.runs, pending |-> pending,
               nodes |-> scan.nodes + 1, used |-> used, reads |-> reads,
               reached |-> scan.reached \cup {b[2]}, verified |-> verified,
               listing |-> scan.listing, observed |-> scan.observed, findings |-> findings]
    BY <1>5 DEF Scans
<1>7. scan' \in Scans
    BY <1>1, <1>2, <1>3, <1>4, <1>6 DEF Scans
<1>. QED BY <1>6, <1>7 DEF pending, verified, findings, reads

\* The scan record with some fields replaced, as the other steps replace them.
(* Clearing the queue after a limit or an error. *)
LEMMA StopEffect ==
    ASSUME scan \in Scans, NEW S \in SUBSET Findings,
           scan' = [scan EXCEPT !.pending = {}, !.findings = S]
    PROVE  /\ scan' \in Scans
           /\ scan'.pending = {} /\ scan'.findings = S
           /\ scan'.snapshot = scan.snapshot /\ scan'.runs = scan.runs
           /\ scan'.reads = scan.reads /\ scan'.reached = scan.reached
           /\ scan'.verified = scan.verified /\ scan'.listing = scan.listing
           /\ scan'.observed = scan.observed
<1>1. scan' = [snapshot |-> scan.snapshot, runs |-> scan.runs, pending |-> {},
               nodes |-> scan.nodes, used |-> scan.used, reads |-> scan.reads,
               reached |-> scan.reached, verified |-> scan.verified,
               listing |-> scan.listing, observed |-> scan.observed, findings |-> S]
    BY DEF Scans
<1>2. scan' \in Scans BY <1>1 DEF Scans
<1>. QED BY <1>1, <1>2

(* The steps of the inventory. *)
LEMMA ListEffect ==
    ASSUME scan \in Scans, NEW L \in SUBSET AllEntries, NEW S \in SUBSET Findings,
           NEW O \in SUBSET Digests, NEW used \in 0..HashBudget,
           scan' = [scan EXCEPT !.listing = L, !.findings = S, !.observed = O, !.used = used]
    PROVE  /\ scan' \in Scans
           /\ scan'.listing = L /\ scan'.findings = S /\ scan'.observed = O
           /\ scan'.snapshot = scan.snapshot /\ scan'.runs = scan.runs
           /\ scan'.reads = scan.reads /\ scan'.reached = scan.reached
           /\ scan'.verified = scan.verified /\ scan'.pending = scan.pending
<1>1. scan' = [snapshot |-> scan.snapshot, runs |-> scan.runs, pending |-> scan.pending,
               nodes |-> scan.nodes, used |-> used, reads |-> scan.reads,
               reached |-> scan.reached, verified |-> scan.verified,
               listing |-> L, observed |-> O, findings |-> S]
    BY DEF Scans
<1>2. scan' \in Scans BY <1>1 DEF Scans
<1>. QED BY <1>1, <1>2

(* The end of the artifact audit. *)
LEMMA EndEffect ==
    ASSUME scan \in Scans, NEW S \in SUBSET Findings, NEW R \in SUBSET Digests,
           NEW V \in SUBSET Digests,
           scan' = [scan EXCEPT !.findings = S, !.reached = R, !.verified = V]
    PROVE  /\ scan' \in Scans
           /\ scan'.findings = S /\ scan'.reached = R /\ scan'.verified = V
           /\ scan'.snapshot = scan.snapshot /\ scan'.runs = scan.runs
           /\ scan'.reads = scan.reads /\ scan'.pending = scan.pending
           /\ scan'.listing = scan.listing /\ scan'.observed = scan.observed
<1>1. scan' = [snapshot |-> scan.snapshot, runs |-> scan.runs, pending |-> scan.pending,
               nodes |-> scan.nodes, used |-> scan.used, reads |-> scan.reads,
               reached |-> R, verified |-> V,
               listing |-> scan.listing, observed |-> scan.observed, findings |-> S]
    BY DEF Scans
<1>2. scan' \in Scans BY <1>1 DEF Scans
<1>. QED BY <1>1, <1>2

\* The scan a snapshot begins.
Unread == [d \in Digests |-> "unread"]
Begun(bs, some, R, S, Q) ==
    [snapshot |-> bs, runs |-> some, pending |-> Q, nodes |-> 0, used |-> 0, reads |-> Unread,
     reached |-> R, verified |-> {}, listing |-> {}, observed |-> {}, findings |-> S]

(* It is a scan. *)
LEMMA BegunType ==
    ASSUME NEW bs \in SUBSET Bindings, NEW some \in BOOLEAN, NEW R \in SUBSET Digests,
           NEW S \in SUBSET Findings, NEW Q \in SUBSET (Roles \X Digests)
    PROVE  Begun(bs, some, R, S, Q) \in Scans
<1>1. Unread \in [Digests -> ReadOutcomes] BY DEF ReadOutcomes, Unread
<1>. QED BY <1>1, LimitTypes DEF Scans, Begun

-----------------------------------------------------------------------------
(* The classification of a directory. *)

(* The cases of Truth. *)
LEMMA TruthCases ==
    ASSUME DiskType, TreeInv
    PROVE  /\ Kind("state") = "missing" => Truth = "uninitialized"
           /\ Kind("state") = "other" => Truth = "database_invalid"
           /\ Kind("state") = "proper" /\ Kind("database") = "missing" =>
                 Truth = IF Entries = {} /\ Kind("artifacts") # "other" /\ Kind("sidecar") = "missing"
                         THEN "uninitialized" ELSE "database_missing_with_artifacts"
           /\ Kind("state") = "proper" /\ Kind("database") # "missing" =>
                 Truth = IF Kind("database") # "proper" \/ Kind("sidecar") = "other"
                           THEN "database_invalid"
                         ELSE IF Kind("artifacts") = "other" THEN "audit_incomplete"
                         ELSE IF ~Intact(ledger) THEN "referenced_evidence_invalid"
                         ELSE IF Clean(ledger) THEN IF runs THEN "healthy" ELSE "initialized_empty"
                         ELSE IF runs THEN "healthy_with_unreferenced_findings"
                         ELSE "initialized_empty_with_unreferenced_findings"
BY DEF Truth, Intact, Whole, Clean

(* Reading changes nothing that is classified. *)
LEMMA TruthFrame == ASSUME UNCHANGED diskVars PROVE Truth' = Truth /\ Entries' = Entries
BY DEF diskVars, pathVars, storeVars, ledgerVars, Truth, Entries, Kind, Closure

(* Reading keeps the disk's part of the invariant, but for what it says of *)
(* the audit.                                                              *)
LEMMA ReadFrame ==
    ASSUME UNCHANGED diskVars, DiskType
    PROVE  /\ DiskType' /\ \A p \in Paths : tree'[p] = tree[p] /\ Kind(p)' = Kind(p)
           /\ blob' = blob /\ ledger' = ledger /\ runs' = runs /\ published' = published
           /\ temps' = temps /\ strays' = strays /\ damage' = damage /\ tree' = tree
BY DEF diskVars, pathVars, storeVars, ledgerVars, DiskType, Kind

(* A report that refuses. *)
LEMMA RefusedType ==
    ASSUME NEW s \in States
    PROVE  /\ Refused(s) \in [state : States, verified : BOOLEAN, initialize : BOOLEAN]
           /\ ~Refused(s).verified /\ Refused(s).state = s
BY DEF Refused, Report

(* An empty scan satisfies what the invariant says of scans. *)
LEMMA EmptyScan ==
    ASSUME scan' = NoScan
    PROVE  /\ scan'.snapshot = {} /\ scan'.pending = {} /\ scan'.listing = {}
           /\ scan'.findings = {} /\ scan'.reached = {} /\ scan'.verified = {}
           /\ \A d \in Digests : scan'.reads[d] = "unread"
           /\ CoverInv' /\ WithinInv' /\ OrphanInv'
<1>1. /\ scan'.snapshot = {} /\ scan'.pending = {} /\ scan'.listing = {}
      /\ scan'.findings = {} /\ scan'.reached = {} /\ scan'.verified = {}
      /\ scan'.reads = [d \in Digests |-> "unread"]
    BY DEF NoScan
<1>. QED BY <1>1 DEF CoverInv, WithinInv, OrphanInv

-----------------------------------------------------------------------------
(* The audit's steps outside the artifact audit. *)

(* What holds after every step that leaves an empty scan. *)
LEMMA EarlyStep ==
    ASSUME IInv, UNCHANGED diskVars, scan' = NoScan, pc' \notin Scanning,
           \A d \in lost' : d \in Digests /\ blob[d] # "good",
           \/ seen' = seen \/ seen' = NothingSeen
           \/ \E p \in Paths : seen' = [seen EXCEPT ![p] = tree[p]]
    PROVE  /\ seen' \in [Paths -> Entry]
           /\ DiskType' /\ TreeInv' /\ CoverInv' /\ WithinInv' /\ OrphanInv' /\ LostInv'
           /\ StoreInv' /\ BlameInv' /\ QuietInv'
<1>1. /\ scan'.snapshot = {} /\ scan'.pending = {} /\ scan'.listing = {}
      /\ scan'.findings = {} /\ scan'.reached = {} /\ scan'.verified = {}
      /\ \A d \in Digests : scan'.reads[d] = "unread"
      /\ CoverInv' /\ WithinInv' /\ OrphanInv'
    BY EmptyScan
<1>2. DiskType /\ DiskType' /\ TreeInv /\ StoreInv /\ AuditType
    BY ReadFrame DEF IInv
<1>3. /\ tree' = tree /\ blob' = blob /\ ledger' = ledger /\ published' = published
      /\ temps' = temps /\ strays' = strays /\ damage' = damage
    BY <1>2, ReadFrame
<1>4. /\ Missing \in Entry /\ Missing.kind = "missing" /\ "artifacts" \in Paths
      /\ \A p \in Paths : NothingSeen[p] = Missing
    BY LimitTypes DEF Missing, Entry, Kinds, Paths, NothingSeen
<1>5. \A p \in Paths : seen'[p] \in {seen[p], tree[p], Missing}
    BY <1>2, <1>4 DEF AuditType
<1>6. seen' \in [Paths -> Entry]
    <2>1. tree \in [Paths -> Entry] /\ seen \in [Paths -> Entry]
        BY <1>2 DEF DiskType, AuditType
    <2>2. NothingSeen \in [Paths -> Entry] BY <1>4 DEF NothingSeen
    <2>. QED BY <2>1, <2>2
<1>7. TreeInv'
    BY <1>2, <1>3, <1>4, <1>5 DEF TreeInv, Kind
<1>8. LostInv'
    BY <1>1, <1>3 DEF LostInv
<1>9. StoreInv'
    <2>1. Closure(scan.snapshot)' = {} BY <1>1 DEF Closure
    <2>2. Closure(ledger)' = Closure(ledger) BY <1>3 DEF Closure
    <2>. QED BY <1>2, <1>3, <1>4, <1>5, <2>1, <2>2 DEF StoreInv, Kind
<1>10. BlameInv' /\ QuietInv'
    BY <1>1 DEF BlameInv, QuietInv, Quiet, Scanning
<1>. QED BY <1>1, <1>2, <1>6, <1>7, <1>8, <1>9, <1>10

(* Begin. *)
LEMMA BeginStep == ASSUME IInv, Begin PROVE IInv'
<1>1. /\ pc = "idle" /\ seen' = [seen EXCEPT !["state"] = tree["state"]]
      /\ lost' = {d \in Digests : blob[d] # "good"}
      /\ UNCHANGED <<diskVars, scan, calm, faulty>>
      /\ "state" \in Paths /\ tree \in [Paths -> Entry] /\ seen \in [Paths -> Entry]
      /\ scan = NoScan
    BY DEF Begin, IInv, StepInv, Looking, Paths, DiskType, AuditType
<1>2. \/ Kind("state") = "missing" /\ pc' = "missing" /\ UNCHANGED report
      \/ Kind("state") = "proper" /\ pc' = "database" /\ UNCHANGED report
      \/ Kind("state") = "other" /\ pc' = "done" /\ report' = Refused("database_invalid")
    <2>1. Kind("state") \in {"missing", "proper", "other"}
        BY <1>1 DEF Kind, Entry, Kinds, IInv, TreeInv
    <2>. QED BY <2>1 DEF Begin, Goto, Answer
<1>3. /\ seen' \in [Paths -> Entry]
      /\ DiskType' /\ TreeInv' /\ CoverInv' /\ WithinInv' /\ OrphanInv' /\ LostInv'
      /\ StoreInv' /\ BlameInv' /\ QuietInv'
    BY <1>1, <1>2, EarlyStep DEF Scanning
<1>4. seen'["state"] = tree["state"] /\ tree' = tree
    BY <1>1 DEF diskVars, pathVars
<1>5. Refused("database_invalid") \in [state : States, verified : BOOLEAN, initialize : BOOLEAN]
      /\ ~Refused("database_invalid").verified /\ Refused("database_invalid").state = "database_invalid"
    BY RefusedType DEF States
<1>6. AuditType'
    BY <1>1, <1>2, <1>3, <1>5 DEF IInv, AuditType, Labels
<1>7. StepInv'
    BY <1>1, <1>2, <1>4 DEF IInv, StepInv, Looking, Scanning, Kind, NoScan
<1>8. SameInv'
    BY <1>2, <1>4 DEF SameInv, Same, Scanning
<1>9. GateInv' /\ IntactNotBlamed'
    BY <1>2, <1>5 DEF GateInv, IntactNotBlamed
<1>10. ExactWhenAlone'
    BY <1>1, <1>2, <1>5, TruthFrame, TruthCases DEF ExactWhenAlone, IInv
<1>. QED BY <1>3, <1>6, <1>7, <1>8, <1>9, <1>10 DEF IInv

(* StateMissing. *)
LEMMA StateMissingStep == ASSUME IInv, StateMissing PROVE IInv'
<1>1. /\ pc = "missing" /\ pc' = "done" /\ scan = NoScan
      /\ UNCHANGED <<diskVars, seen, scan, lost, calm, faulty>>
      /\ report' = Refused(IF Same("state") THEN "uninitialized" ELSE "database_invalid")
      /\ seen["state"].kind = "missing"
    BY DEF StateMissing, Answer, Reading, IInv, StepInv, Looking
<1>2. /\ seen' \in [Paths -> Entry]
      /\ DiskType' /\ TreeInv' /\ CoverInv' /\ WithinInv' /\ OrphanInv' /\ LostInv'
      /\ StoreInv' /\ BlameInv' /\ QuietInv'
    BY <1>1, EarlyStep DEF Scanning, IInv, LostInv
<1>3. /\ report' \in [state : States, verified : BOOLEAN, initialize : BOOLEAN]
      /\ ~report'.verified
      /\ report'.state = IF Same("state") THEN "uninitialized" ELSE "database_invalid"
    BY <1>1, RefusedType DEF States
<1>4. AuditType' /\ StepInv' /\ SameInv' /\ GateInv' /\ IntactNotBlamed'
    BY <1>1, <1>2, <1>3
    DEF IInv, AuditType, Labels, StepInv, Looking, Scanning, SameInv, GateInv, IntactNotBlamed
<1>5. ExactWhenAlone'
    <2>1. calm => Same("state") BY <1>1 DEF IInv, SameInv
    <2>2. Same("state") => Kind("state") = "missing" BY <1>1 DEF Same, Kind
    <2>. QED BY <1>1, <1>3, <2>1, <2>2, TruthFrame, TruthCases DEF ExactWhenAlone, IInv
<1>. QED BY <1>2, <1>4, <1>5 DEF IInv

(* The three observations of paths. *)
LEMMA ObserveStep == ASSUME IInv, ObservePaths PROVE IInv'
<1>1. PICK p \in {"database", "artifacts", "sidecar"}, next \in {"artifacts", "sidecar", "open"} :
          Observe(p, next) /\ <<p, next>> \in {<<"database", "artifacts">>, <<"artifacts", "sidecar">>,
                                               <<"sidecar", "open">>}
    BY DEF ObservePaths
<1>2. /\ pc = p /\ pc' = next /\ scan = NoScan
      /\ UNCHANGED <<diskVars, scan, report, lost, calm, faulty>>
      /\ seen' = [seen EXCEPT ![p] = tree[p]] /\ p \in Paths /\ "state" \in Paths
      /\ seen["state"].kind = "proper" /\ seen \in [Paths -> Entry]
    BY <1>1 DEF Observe, Goto, Reading, IInv, StepInv, Looking, Paths, AuditType
<1>3. /\ seen' \in [Paths -> Entry]
      /\ DiskType' /\ TreeInv' /\ CoverInv' /\ WithinInv' /\ OrphanInv' /\ LostInv'
      /\ StoreInv' /\ BlameInv' /\ QuietInv'
    BY <1>2, EarlyStep DEF Scanning, IInv, LostInv
<1>4. AuditType' /\ StepInv' /\ GateInv' /\ IntactNotBlamed' /\ ExactWhenAlone'
    BY <1>1, <1>2, <1>3
    DEF IInv, AuditType, Labels, StepInv, Looking, Scanning, GateInv, IntactNotBlamed,
        ExactWhenAlone, NoScan
<1>5. SameInv'
    <2>1. tree' = tree BY <1>2 DEF diskVars, pathVars
    <2>2. {"database", "artifacts", "sidecar"} \subseteq Paths BY DEF Paths
    <2>. QED BY <1>1, <1>2, <2>1, <2>2 DEF IInv, SameInv, Same, Scanning
<1>. QED BY <1>3, <1>4, <1>5 DEF IInv

(* Return. *)
LEMMA ReturnStep == ASSUME IInv, Return PROVE IInv'
<1>1. /\ pc = "done" /\ pc' = "idle" /\ seen' = NothingSeen /\ scan' = NoScan
      /\ report' = Refused("none") /\ lost' = {} /\ calm' = TRUE /\ faulty' = FALSE
      /\ UNCHANGED diskVars
    BY DEF Return
<1>2. /\ seen' \in [Paths -> Entry]
      /\ DiskType' /\ TreeInv' /\ CoverInv' /\ WithinInv' /\ OrphanInv' /\ LostInv'
      /\ StoreInv' /\ BlameInv' /\ QuietInv'
    BY <1>1, EarlyStep DEF Scanning
<1>3. scan' \in Scans /\ scan'.pending = {} /\ scan'.listing = {}
    BY <1>1, NoScanType, EmptyScan
<1>4. report' \in [state : States, verified : BOOLEAN, initialize : BOOLEAN]
    BY <1>1, RefusedType DEF States
<1>5. AuditType' /\ StepInv' /\ SameInv' /\ GateInv' /\ IntactNotBlamed' /\ ExactWhenAlone'
    BY <1>1, <1>2, <1>3, <1>4
    DEF AuditType, Labels, StepInv, Looking, Scanning, SameInv, GateInv, IntactNotBlamed,
        ExactWhenAlone
<1>. QED BY <1>2, <1>5 DEF IInv

(* What a snapshot reaches is known to the domain. *)
LEMMA ClosureType ==
    ASSUME NEW bs \in SUBSET Bindings
    PROVE  /\ Closure(bs) \subseteq Digests
           /\ \A b \in bs : b \in Roles \X Digests /\ b[2] \in Closure(bs) /\ b[2] \in Digests
                            /\ (b[1] = "structured" => Children[b[2]] \subseteq Closure(bs))
           /\ {b[2] : b \in bs} \subseteq Closure(bs)
<1>1. \A b \in bs : b \in Roles \X Digests /\ b[2] \in Digests
    BY ReferenceTypes
<1>2. \A d \in Digests : Children[d] \subseteq Digests
    BY ReferenceTypes
<1>3. {b[2] : b \in bs} \subseteq Closure(bs) BY DEF Closure
<1>4. \A b \in bs : b[1] = "structured" => Children[b[2]] \subseteq Closure(bs)
    BY DEF Closure
<1>5. Closure(bs) \subseteq Digests BY <1>1, <1>2 DEF Closure
<1>. QED BY <1>1, <1>3, <1>4, <1>5

(* The scan that begins with a snapshot of the ledger, or without one. *)
LEMMA StoreStep ==
    ASSUME IInv, NEW bs \in SUBSET Bindings, NEW some \in BOOLEAN, Store(bs, some),
           pc = "open", UNCHANGED <<diskVars, seen, lost, calm, faulty>>,
           Closure(bs) \subseteq Closure(ledger),
           calm => IF Regular(seen["database"])
                   THEN bs = ledger /\ some = runs /\ Kind("database") = "proper"
                        /\ Kind("sidecar") # "other"
                   ELSE bs = {}
    PROVE  IInv'
<1>. DEFINE direct == {b[2] : b \in bs}
            missing == {Finding("missing_referenced", d) : d \in direct}
            K == seen["artifacts"].kind
<1>0. DiskType /\ AuditType /\ TreeInv /\ StoreInv /\ LostInv /\ StepInv /\ SameInv
    BY DEF IInv
<1>1. /\ direct \subseteq Digests /\ direct \subseteq Closure(bs)
      /\ \A b \in bs : b \in Roles \X Digests /\ b[2] \in direct
    BY ClosureType
<1>2. /\ missing \subseteq Findings
      /\ \A f \in missing : f.owned /\ f.kind = "missing_referenced"
      /\ direct # {} => missing # {}
      /\ direct = {} => missing = {}
    <2>1. "missing_referenced" \in FindingKinds BY DEF FindingKinds
    <2>2. \A d \in direct : /\ Finding("missing_referenced", d) \in Findings
                            /\ Finding("missing_referenced", d).owned
                            /\ Finding("missing_referenced", d).kind = "missing_referenced"
        BY <1>1, <2>1, FindingType
    <2>. HIDE DEF direct
    <2>. QED BY <2>2
<1>3. K \in {"missing", "other", "proper"}
    BY <1>0 DEF TreeInv, AuditType, Entry, Kinds, Paths
<1>4. /\ K = "missing" => pc' = "recheck" /\ scan' = Begun(bs, some, direct, missing, {})
      /\ K = "other" => pc' = "recheck" /\ scan' = Begun(bs, some, {}, {ScanError}, {})
      /\ K = "proper" => pc' = "store" /\ scan' = Begun(bs, some, {}, {}, bs)
    <2>1. CASE K = "missing"
        <3>1. /\ pc' = "recheck"
              /\ scan' = [[NoScan EXCEPT !.snapshot = bs, !.runs = some]
                            EXCEPT !.reached = direct, !.findings = missing]
            BY <2>1 DEF Store, Goto
        <3>. HIDE DEF direct, missing
        <3>. QED BY <2>1, <3>1 DEF NoScan, Begun, Unread
    <2>2. CASE K = "other"
        <3>1. /\ pc' = "recheck"
              /\ scan' = [[NoScan EXCEPT !.snapshot = bs, !.runs = some]
                            EXCEPT !.findings = {ScanError}]
            BY <2>2 DEF Store, Goto
        <3>. QED BY <2>2, <3>1 DEF NoScan, Begun, Unread
    <2>3. CASE K = "proper"
        <3>1. /\ pc' = "store"
              /\ scan' = [[NoScan EXCEPT !.snapshot = bs, !.runs = some] EXCEPT !.pending = bs]
            BY <2>3 DEF Store, Goto
        <3>. QED BY <2>3, <3>1 DEF NoScan, Begun, Unread
    <2>. QED BY <1>3, <2>1, <2>2, <2>3
<1>5. /\ scan' \in Scans /\ scan'.snapshot = bs /\ scan'.runs = some
      /\ scan'.reads = Unread /\ scan'.verified = {}
      /\ scan'.listing = {} /\ scan'.observed = {}
      /\ \/ /\ K = "missing" /\ pc' = "recheck" /\ scan'.reached = direct
            /\ scan'.findings = missing /\ scan'.pending = {}
         \/ /\ K = "other" /\ pc' = "recheck" /\ scan'.reached = {}
            /\ scan'.findings = {ScanError} /\ scan'.pending = {}
         \/ /\ K = "proper" /\ pc' = "store" /\ scan'.reached = {}
            /\ scan'.findings = {} /\ scan'.pending = bs
    <2>1. {ScanError} \in SUBSET Findings /\ bs \in SUBSET (Roles \X Digests)
        BY <1>1, ScanErrorType
    <2>2. direct \in SUBSET Digests /\ missing \in SUBSET Findings BY <1>1, <1>2
    <2>6. {} \in SUBSET Digests /\ {} \in SUBSET Findings /\ {} \in SUBSET (Roles \X Digests)
        OBVIOUS
    <2>. HIDE DEF direct, missing
    <2>3. CASE K = "missing"
        <3>1. scan' = Begun(bs, some, direct, missing, {}) BY <1>4, <2>3
        <3>2. Begun(bs, some, direct, missing, {}) \in Scans BY <2>2, <2>6, BegunType, Zenon
        <3>3. /\ scan'.snapshot = bs /\ scan'.runs = some /\ scan'.reached = direct
              /\ scan'.findings = missing /\ scan'.pending = {} /\ scan'.reads = Unread
              /\ scan'.verified = {} /\ scan'.listing = {} /\ scan'.observed = {}
            BY <3>1 DEF Begun
        <3>. QED BY <1>4, <2>3, <3>1, <3>2, <3>3
    <2>4. CASE K = "other"
        <3>1. scan' = Begun(bs, some, {}, {ScanError}, {}) BY <1>4, <2>4
        <3>2. Begun(bs, some, {}, {ScanError}, {}) \in Scans BY <2>1, <2>6, BegunType, Zenon
        <3>3. /\ scan'.snapshot = bs /\ scan'.runs = some /\ scan'.reached = {}
              /\ scan'.findings = {ScanError} /\ scan'.pending = {} /\ scan'.reads = Unread
              /\ scan'.verified = {} /\ scan'.listing = {} /\ scan'.observed = {}
            BY <3>1 DEF Begun
        <3>. QED BY <1>4, <2>4, <3>1, <3>2, <3>3
    <2>5. CASE K = "proper"
        <3>1. scan' = Begun(bs, some, {}, {}, bs) BY <1>4, <2>5
        <3>2. Begun(bs, some, {}, {}, bs) \in Scans BY <2>1, <2>6, BegunType, Zenon
        <3>3. /\ scan'.snapshot = bs /\ scan'.runs = some /\ scan'.reached = {}
              /\ scan'.findings = {} /\ scan'.pending = bs /\ scan'.reads = Unread
              /\ scan'.verified = {} /\ scan'.listing = {} /\ scan'.observed = {}
            BY <3>1 DEF Begun
        <3>. QED BY <1>4, <2>5, <3>1, <3>2, <3>3
    <2>. QED BY <1>3, <2>3, <2>4, <2>5
<1>21. \A d \in Digests : scan'.reads[d] = "unread" BY <1>5 DEF Unread
<1>. HIDE DEF missing
<1>6. report' = report BY <1>3 DEF Store, Goto
<1>7. DiskType' /\ AuditType'
    BY <1>0, <1>5, <1>6, ReadFrame DEF AuditType, Labels
<1>8. /\ tree' = tree /\ blob' = blob /\ ledger' = ledger /\ published' = published /\ runs' = runs
      /\ temps' = temps /\ strays' = strays /\ damage' = damage /\ Entries' = Entries
    BY <1>0, ReadFrame, TruthFrame
<1>9. TreeInv' BY <1>0, <1>8 DEF TreeInv, Kind
<1>10. StepInv' BY <1>0, <1>5 DEF StepInv, Looking, Scanning
<1>11. CoverInv'
    BY <1>1, <1>2, <1>5, ScanErrorType DEF CoverInv, Covered, Blocked, Blocking
<1>12. Closure(scan.snapshot)' = Closure(bs) BY <1>5 DEF Closure
<1>13. WithinInv' BY <1>1, <1>5, <1>12 DEF WithinInv
<1>14. LostInv' BY <1>0, <1>5, <1>8, <1>21 DEF LostInv
<1>15. OrphanInv' /\ GateInv'
    BY <1>2, <1>5, ScanErrorType DEF OrphanInv, GateInv, OrphanKinds
<1>16. StoreInv'
    <2>1. Closure(ledger)' = Closure(ledger) BY <1>8 DEF Closure
    <2>. QED BY <1>0, <1>8, <1>12, <2>1 DEF StoreInv, Kind
<1>17. BlameInv'
    <2>1. bs = {} => direct = {} OBVIOUS
    <2>3. damage = 0 => K # "other" BY <1>0 DEF StoreInv, Paths
    <2>. HIDE DEF direct
    <2>. QED BY <1>2, <1>5, <1>8, <2>1, <1>21, <2>3 DEF BlameInv, Blameless
<1>18. SameInv'
    BY <1>0, <1>5, <1>8 DEF SameInv, Same, Scanning, Kind
<1>19. QuietInv'
    <2>. SUFFICES ASSUME Quiet' PROVE QuietInv' BY DEF QuietInv
    <2>1. calm /\ K # "other" BY DEF Quiet
    <2>3. K = "missing" => Entries = {} /\ \A d \in Digests : blob[d] = "none"
        <3>1. calm => Same("artifacts") BY <1>0 DEF SameInv
        <3>2. K = "missing" => Kind("artifacts") # "proper" BY <2>1, <3>1 DEF Same, Kind
        <3>. QED BY <1>0, <3>2 DEF TreeInv, Entries
    <2>4. Intact(scan.snapshot)' => direct = {} \/ K # "missing"
        BY <1>1, <1>8, <1>12, <2>3 DEF Intact
    <2>. HIDE DEF direct
    <2>5. Intact(scan.snapshot)' => scan'.findings = {}
        BY <1>2, <1>5, <2>1, <2>4
    <2>6. \A f \in scan'.findings : f.kind # "scan_error" BY <1>2, <1>5, <2>1
    <2>7. \A d \in scan'.reached : blob[d] # "good" BY <1>1, <1>5, <2>1, <2>3
    <2>8. pc' = "recheck" => Entries' = {} BY <1>5, <1>8, <2>1, <2>3
    <2>. QED BY <1>5, <1>8, <1>21, <2>5, <2>6, <2>7, <2>8 DEF QuietInv
<1>20. IntactNotBlamed' /\ ExactWhenAlone'
    BY <1>5 DEF IntactNotBlamed, ExactWhenAlone
<1>. QED BY <1>7, <1>9, <1>10, <1>11, <1>13, <1>14, <1>15, <1>16, <1>17, <1>18, <1>19, <1>20
         DEF IInv

(* The step that opens the database, with its two errors. *)
LEMMA OpenStep == ASSUME IInv, NoLedger \/ Snapshot \/ SnapshotFails PROVE IInv'
<1>0. Closure({}) = {} /\ ledger \in SUBSET Bindings /\ runs \in BOOLEAN
    BY DEF Closure, IInv, DiskType
<1>1. CASE NoLedger
    <2>1. /\ Store({}, FALSE) /\ pc = "open" /\ ~Regular(seen["database"])
          /\ UNCHANGED <<diskVars, seen, lost, calm, faulty>>
        BY <1>1 DEF NoLedger, Reading
    <2>. QED BY <1>0, <2>1, StoreStep
<1>2. CASE Snapshot /\ Readable
    <2>1. /\ Store(ledger, runs) /\ pc = "open" /\ Regular(seen["database"])
          /\ UNCHANGED <<diskVars, seen, lost, calm, faulty>>
          /\ Kind("database") = "proper" /\ Kind("sidecar") # "other"
        BY <1>2 DEF Snapshot, Readable, Reading
    <2>. QED BY <1>0, <2>1, StoreStep
<1>3. CASE (Snapshot /\ ~Readable) \/ SnapshotFails
    <2>1. /\ pc = "open" /\ pc' = "done" /\ Regular(seen["database"]) /\ scan = NoScan
          /\ UNCHANGED <<diskVars, seen, scan, lost, calm>> /\ report' = Refused("database_invalid")
          /\ (faulty' /\ SnapshotFails) \/ (faulty' = faulty /\ ~Readable)
        BY <1>3 DEF Snapshot, SnapshotFails, Answer, Reading, IInv, StepInv, Looking
    <2>2. /\ seen' \in [Paths -> Entry]
          /\ DiskType' /\ TreeInv' /\ CoverInv' /\ WithinInv' /\ OrphanInv' /\ LostInv'
          /\ StoreInv' /\ BlameInv' /\ QuietInv'
        BY <2>1, EarlyStep DEF Scanning, IInv, LostInv
    <2>3. /\ report' \in [state : States, verified : BOOLEAN, initialize : BOOLEAN]
          /\ ~report'.verified /\ report'.state = "database_invalid"
        BY <2>1, RefusedType DEF States
    <2>4. faulty' \in BOOLEAN BY <1>3 DEF Snapshot, SnapshotFails, IInv, AuditType
    <2>5. AuditType' /\ StepInv' /\ SameInv' /\ GateInv' /\ IntactNotBlamed'
        BY <2>1, <2>2, <2>3, <2>4
        DEF IInv, AuditType, Labels, StepInv, Looking, Scanning, SameInv, GateInv, IntactNotBlamed
    <2>6. ExactWhenAlone'
        <3>. SUFFICES ASSUME calm, ~Readable PROVE Truth = "database_invalid"
            BY <2>1, <2>3, TruthFrame DEF ExactWhenAlone
        <3>1. Same("state") /\ Same("database") /\ seen["state"].kind = "proper"
            BY <2>1 DEF IInv, SameInv, StepInv, Looking
        <3>2. Kind("state") = "proper" /\ Kind("database") # "missing"
            BY <2>1, <3>1 DEF Same, Kind, Regular
        <3>3. Kind("database") # "proper" \/ Kind("sidecar") = "other"
            BY <3>1 DEF Readable
        <3>. QED BY <3>2, <3>3, TruthCases DEF IInv
    <2>. QED BY <2>2, <2>5, <2>6 DEF IInv
<1>. QED BY <1>1, <1>2, <1>3

-----------------------------------------------------------------------------
(* The artifact audit. *)

(* What no step of the artifact audit disturbs. *)
LEMMA ScanFrame ==
    ASSUME IInv, pc \in {"store", "walk", "inspect"}, pc' \in Scanning, faulty' \in BOOLEAN,
           UNCHANGED <<diskVars, seen, report, lost, calm>>, scan' \in Scans,
           scan'.snapshot = scan.snapshot, scan'.runs = scan.runs
    PROVE  /\ DiskType' /\ AuditType' /\ TreeInv' /\ SameInv' /\ GateInv' /\ StoreInv'
           /\ IntactNotBlamed' /\ ExactWhenAlone'
<1>0. DiskType /\ AuditType /\ TreeInv /\ StoreInv /\ SameInv
    BY DEF IInv
<1>1. pc' \in Labels /\ pc' \notin {"idle", "done"} BY DEF Scanning, Labels
<1>2. DiskType' /\ AuditType' BY <1>0, <1>1, ReadFrame DEF AuditType
<1>3. /\ tree' = tree /\ blob' = blob /\ ledger' = ledger /\ published' = published /\ runs' = runs
      /\ temps' = temps /\ strays' = strays /\ damage' = damage
    BY <1>0, ReadFrame
<1>4. TreeInv' BY <1>0, <1>3 DEF TreeInv, Kind
<1>5. SameInv' BY <1>0, <1>3 DEF SameInv, Same, Kind, Scanning
<1>6. StoreInv'
    <2>1. Closure(ledger)' = Closure(ledger) /\ Closure(scan.snapshot)' = Closure(scan.snapshot)
        BY <1>3 DEF Closure
    <2>. QED BY <1>0, <1>3, <2>1 DEF StoreInv, Kind
<1>7. GateInv' /\ IntactNotBlamed' /\ ExactWhenAlone'
    BY <1>1 DEF GateInv, IntactNotBlamed, ExactWhenAlone
<1>. QED BY <1>2, <1>4, <1>5, <1>6, <1>7

(* While nobody damages or changes anything, the store the audit has seen  *)
(* is there.                                                               *)
LEMMA StoreThere ==
    ASSUME IInv, pc \in {"store", "walk", "inspect"}, calm \/ damage = 0
    PROVE  Kind("artifacts") = "proper" /\ Same("artifacts") /\ seen["artifacts"].kind = "proper"
<1>1. seen["artifacts"].kind = "proper" BY DEF IInv, StepInv
<1>2. Same("artifacts")
    BY <1>1 DEF IInv, SameInv, StoreInv, Same, Scanning
<1>. QED BY <1>1, <1>2 DEF Same, Kind

(* The store is opened. *)
LEMMA OpenStoreStep == ASSUME IInv, OpenStore PROVE IInv'
<1>0. /\ pc = "store" /\ UNCHANGED <<diskVars, seen, report, lost, calm, faulty>>
      /\ scan \in Scans /\ faulty \in BOOLEAN
    BY DEF OpenStore, Goto, Reading, IInv, AuditType
<1>1. CASE Kind("artifacts") = "proper"
    <2>1. pc' = "walk" /\ scan' = scan BY <1>1 DEF OpenStore, Goto
    <2>2. /\ DiskType' /\ AuditType' /\ TreeInv' /\ SameInv' /\ GateInv' /\ StoreInv'
          /\ IntactNotBlamed' /\ ExactWhenAlone'
        BY <1>0, <2>1, ScanFrame DEF Scanning
    <2>3. blob' = blob /\ Entries' = Entries /\ damage' = damage
        BY <1>0, ReadFrame, TruthFrame DEF IInv
    <2>4. StepInv' /\ CoverInv' /\ WithinInv' /\ LostInv' /\ OrphanInv'
        BY <1>0, <2>1, <2>3
        DEF IInv, StepInv, Looking, Scanning, CoverInv, Covered, Blocked, Blocking, WithinInv, Closure, LostInv,
            OrphanInv
    <2>5. BlameInv'
        BY <1>0, <2>1, <2>3 DEF IInv, BlameInv, Blameless, LimitMet, Whole
    <2>6. QuietInv'
        <3>1. Intact(scan.snapshot)' <=> Intact(scan.snapshot)
            BY <2>1, <2>3 DEF Intact, Whole, Closure
        <3>2. Clean(scan.snapshot)' <=> Clean(scan.snapshot)
            BY <2>1, <2>3 DEF Clean, Closure
        <3>. QED BY <1>0, <2>1, <2>3, <3>1, <3>2 DEF IInv, QuietInv, Quiet, LimitMet, Scanning
    <2>. QED BY <2>2, <2>4, <2>5, <2>6 DEF IInv
<1>2. CASE Kind("artifacts") # "proper"
    <2>1. pc' = "recheck" /\ scan' = [scan EXCEPT !.pending = {}, !.findings = {ScanError}]
        BY <1>0, <1>2 DEF OpenStore, Goto, Scans
    <2>2. /\ scan' \in Scans
          /\ scan'.pending = {} /\ scan'.findings = {ScanError}
          /\ scan'.snapshot = scan.snapshot /\ scan'.runs = scan.runs
          /\ scan'.reads = scan.reads /\ scan'.reached = scan.reached
          /\ scan'.verified = scan.verified /\ scan'.listing = scan.listing
        BY <1>0, <2>1, ScanErrorType, StopEffect
    <2>3. /\ DiskType' /\ AuditType' /\ TreeInv' /\ SameInv' /\ GateInv' /\ StoreInv'
          /\ IntactNotBlamed' /\ ExactWhenAlone'
        BY <1>0, <2>1, <2>2, ScanFrame DEF Scanning
    <2>4. blob' = blob /\ damage' = damage BY <1>0, ReadFrame DEF IInv
    <2>5. StepInv' BY <1>0, <2>1, <2>2 DEF IInv, StepInv, Looking, Scanning
    <2>6. CoverInv' /\ OrphanInv'
        BY <2>2, ScanErrorType DEF CoverInv, Blocked, OrphanInv, OrphanKinds
    <2>7. WithinInv' /\ LostInv'
        BY <1>0, <2>2, <2>4 DEF IInv, WithinInv, Closure, LostInv
    <2>8. BlameInv' /\ QuietInv'
        BY <1>0, <1>2, <2>4, StoreThere DEF BlameInv, Blameless, QuietInv, Quiet
    <2>. QED BY <2>3, <2>5, <2>6, <2>7, <2>8 DEF IInv
<1>. QED BY <1>1, <1>2

(* The findings of one reference. *)
LEMMA FoundFacts ==
    ASSUME NEW b \in Roles \X Digests, NEW got \in ReadOutcomes \ {"unread"}
    PROVE  /\ \A f \in Found(b, got) :
                 f.owned /\ f.kind \notin OrphanKinds /\ f.kind # "scan_error"
           /\ got = "limit_exceeded" => \E f \in Found(b, got) : f.kind = "limit_exceeded"
           /\ Found(b, got) = {} <=>
                 /\ got \in {"ok", "captured"}
                 /\ b[1] = "structured" => got = "captured" /\ Defect[b[2]] = "none"
<1>1. \A k : Finding(k, b[2]).owned /\ Finding(k, b[2]).kind = k
    BY DEF Finding
<1>2. got \notin {"ok", "captured"} => Finding(got, b[2]) \in Found(b, got)
    BY DEF Found
<1>3. \A f \in Found(b, got) : f = Finding("corrupt_referenced", b[2]) \/ f = Finding(got, b[2])
    BY DEF Found
<1>4. got \notin OrphanKinds /\ got # "scan_error" /\ "corrupt_referenced" \notin OrphanKinds
    BY DEF ReadOutcomes, OrphanKinds
<1>5. ASSUME got \in {"ok", "captured"}
      PROVE  Found(b, got) = {} <=> (b[1] = "structured" => got = "captured" /\ Defect[b[2]] = "none")
    BY <1>5 DEF Found
<1>. QED BY <1>1, <1>2, <1>3, <1>4, <1>5

(* What a read of a referenced artifact may yield. *)
LEMMA ReadFacts ==
    ASSUME DiskType, NEW d \in Digests, NEW capture
    PROVE  /\ ReadReference(d, capture) \in ReadOutcomes \ {"unread"}
           /\ ReadReference(d, capture) \in {"ok", "captured"} => blob[d] = "good"
           /\ ReadReference(d, capture) \notin {"ok", "captured", "limit_exceeded"} => blob[d] # "good"
           /\ capture => ReadReference(d, capture) # "ok"
<1>1. CASE blob[d] \in {"none", "odd"} \/ ~Fits BY <1>1 DEF ReadReference, ReadOutcomes
<1>2. CASE blob[d] \notin {"none", "odd"} /\ Fits /\ blob[d] = "bad"
    BY <1>2 DEF ReadReference, ReadOutcomes
<1>3. CASE blob[d] \notin {"none", "odd", "bad"} /\ Fits
    BY <1>3 DEF ReadReference, ReadOutcomes, DiskType
<1>. QED BY <1>1, <1>2, <1>3

(* One reference is followed, with an outcome that was read just now, was  *)
(* read before, or stands for an I/O error.                                *)
LEMMA FollowStep ==
    ASSUME IInv, pc = "walk", pc' = "walk", NEW b \in scan.pending,
           NEW got \in ReadOutcomes \ {"unread"}, NEW used \in 0..HashBudget,
           scan.nodes < NodeLimit, Follow(b, got, used), faulty' \in BOOLEAN,
           UNCHANGED <<diskVars, seen, report, lost, calm>>,
           \/ got = scan.reads[b[2]] /\ faulty' = faulty
           \/ got = ReadReference(b[2], b[1] = "structured") /\ faulty' = faulty
           \/ got = "corrupt_referenced" /\ faulty',
           ~faulty' /\ b[1] = "structured" => got # "ok"
    PROVE  IInv'
<1>. DEFINE d == b[2]
            read == got \in {"ok", "captured"}
            follow == got = "captured" /\ b[1] = "structured" /\ Defect[b[2]] # "malformed"
<1>0. /\ scan \in Scans /\ DiskType /\ StepInv /\ CoverInv /\ WithinInv /\ LostInv /\ OrphanInv
      /\ StoreInv /\ BlameInv /\ QuietInv
    BY DEF IInv, AuditType
<1>1. b \in Roles \X Digests /\ d \in Digests /\ b[1] \in Roles /\ scan.snapshot \in SUBSET Bindings
    BY <1>0 DEF Scans, Roles
<1>2. /\ scan' \in Scans
      /\ scan'.snapshot = scan.snapshot /\ scan'.runs = scan.runs
      /\ scan'.listing = scan.listing /\ scan'.observed = scan.observed
      /\ scan'.reads = [scan.reads EXCEPT ![d] = got]
      /\ scan'.reached = scan.reached \cup {d}
      /\ scan'.verified = scan.verified \cup (IF read THEN {d} ELSE {})
      /\ scan'.findings = scan.findings \cup Found(b, got)
      /\ scan'.pending = (scan.pending \ {b}) \cup (IF follow THEN {"plain"} \X Children[d] ELSE {})
    BY <1>0, <1>1, FollowEffect
<1>3. /\ \A f \in Found(b, got) : f.owned /\ f.kind \notin OrphanKinds /\ f.kind # "scan_error"
      /\ got = "limit_exceeded" => \E f \in Found(b, got) : f.kind = "limit_exceeded"
      /\ Found(b, got) = {} <=>
            read /\ (b[1] = "structured" => got = "captured" /\ Defect[d] = "none")
    BY <1>1, FoundFacts
<1>. HIDE DEF read, follow
<1>4. /\ DiskType' /\ AuditType' /\ TreeInv' /\ SameInv' /\ GateInv' /\ StoreInv'
      /\ IntactNotBlamed' /\ ExactWhenAlone'
    BY <1>2, ScanFrame DEF Scanning
<1>5. blob' = blob /\ Entries' = Entries /\ damage' = damage
    BY <1>0, ReadFrame, TruthFrame
<1>6. StepInv'
    BY <1>0, <1>2 DEF StepInv, Looking, Scanning
<1>7. /\ d \in Closure(scan.snapshot)
      /\ b[1] = "structured" => b \in scan.snapshot
      /\ b[1] = "structured" => Children[d] \subseteq Closure(scan.snapshot)
    BY <1>0, <1>1, ClosureType DEF WithinInv
<1>8. Closure(scan.snapshot)' = Closure(scan.snapshot) BY <1>2 DEF Closure
<1>9. WithinInv'
    <2>1. \A x \in {"plain"} \X Children[d] : x[1] = "plain" /\ x[2] \in Children[d]
        OBVIOUS
    <2>2. follow => Children[d] \subseteq Closure(scan.snapshot) BY <1>7 DEF follow
    <2>. QED BY <1>0, <1>2, <1>7, <1>8, <2>1, <2>2 DEF WithinInv
<1>10. CoverInv'
    <2>1. CASE Blocked \/ Found(b, got) # {}
        BY <1>2, <1>3, <2>1 DEF CoverInv, Blocked, Blocking
    <2>2. CASE ~Blocked /\ Found(b, got) = {}
        <3>1. read /\ (b[1] = "structured" => got = "captured" /\ Defect[d] = "none")
            BY <1>3, <2>2
        <3>2. b[1] = "structured" => \A c \in Children[d] : <<"plain", c>> \in scan'.pending
            BY <1>2, <3>1 DEF follow
        <3>3. Covered(b)'
            BY <1>2, <3>1, <3>2 DEF Covered
        <3>4. ASSUME NEW x \in scan.snapshot, x # b PROVE Covered(x)'
            <4>1. Covered(x) BY <1>0, <2>2, <3>4 DEF CoverInv
            <4>2. \A c : <<"plain", c>> \in scan.pending => c \in scan'.reached \/ <<"plain", c>> \in scan'.pending
                BY <1>2
            <4>. QED BY <1>2, <3>4, <4>1, <4>2 DEF Covered
        <3>. QED BY <1>2, <3>3, <3>4 DEF CoverInv
    <2>. QED BY <2>1, <2>2
<1>11. LostInv'
    <2>1. read => d \notin lost
        BY <1>0, <1>1, ReadFacts DEF LostInv, read
    <2>. QED BY <1>0, <1>1, <1>2, <1>5, <2>1 DEF LostInv, read, Scans
<1>12. OrphanInv'
    BY <1>0, <1>2, <1>3 DEF OrphanInv
<1>13. ASSUME ~LimitMet' PROVE ~LimitMet /\ got # "limit_exceeded"
    BY <1>2, <1>3, <1>13 DEF LimitMet
<1>14. BlameInv'
    <2>. SUFFICES ASSUME Blameless' PROVE
            /\ \A e \in Digests : scan'.reads[e] \in {"unread", "ok", "captured"}
            /\ \A f \in scan'.findings : ~f.owned
            /\ scan'.verified = scan'.reached
        BY DEF BlameInv
    <2>1. /\ damage = 0 /\ ~faulty' /\ ~LimitMet' /\ Whole(scan.snapshot)
        BY <1>2, <1>5 DEF Blameless, Whole
    <2>2. ~faulty /\ ~LimitMet /\ got # "limit_exceeded"
        BY <1>13, <2>1
    <2>3. /\ \A e \in Digests : scan.reads[e] \in {"unread", "ok", "captured"}
          /\ \A f \in scan.findings : ~f.owned
          /\ scan.verified = scan.reached
        BY <1>0, <2>1, <2>2, StoreThere DEF BlameInv, Blameless
    <2>4. blob[d] = "good" BY <1>0, <1>7, <2>1 DEF StoreInv
    <2>5. read BY <1>0, <1>1, <2>1, <2>2, <2>3, <2>4, ReadFacts DEF read
    <2>6. b[1] = "structured" => got = "captured" /\ Defect[d] = "none"
        BY <1>7, <2>1, <2>5 DEF read, Whole
    <2>7. Found(b, got) = {} BY <1>3, <2>5, <2>6
    <2>8. scan'.verified = scan'.reached /\ \A f \in scan'.findings : ~f.owned
        BY <1>2, <2>3, <2>5, <2>7
    <2>9. \A e \in Digests : scan'.reads[e] \in {"unread", "ok", "captured"}
        BY <1>0, <1>1, <1>2, <2>3, <2>5 DEF Scans, read
    <2>. QED BY <2>8, <2>9
<1>15. QuietInv'
    <2>. SUFFICES ASSUME Quiet' PROVE QuietInv' BY DEF QuietInv
    <2>1. calm /\ ~faulty' /\ ~LimitMet' BY DEF Quiet
    <2>2. ~faulty /\ ~LimitMet /\ got # "limit_exceeded" BY <1>13, <2>1
    <2>3. Quiet BY <2>1, <2>2, StoreThere DEF Quiet, Scanning
    <2>4. read <=> blob[d] = "good"
        <3>1. CASE got = scan.reads[d]
            BY <1>0, <1>1, <2>3, <3>1 DEF QuietInv, read
        <3>2. CASE got = ReadReference(d, b[1] = "structured")
            BY <1>0, <1>1, <2>2, <3>2, ReadFacts DEF read
        <3>. QED BY <2>1, <3>1, <3>2
    <2>5. Intact(scan.snapshot)' <=> Intact(scan.snapshot)
        BY <1>2, <1>5, <1>8 DEF Intact, Whole
    <2>6. Clean(scan.snapshot)' <=> Clean(scan.snapshot)
        BY <1>5, <1>8 DEF Clean
    <2>7. Intact(scan.snapshot) => Found(b, got) = {}
        BY <1>3, <1>7, <2>1, <2>4 DEF Intact, Whole, read
    <2>8. \A e \in Digests : e # d => scan'.reads[e] = scan.reads[e]
        BY <1>0, <1>2 DEF Scans
    <2>9. scan'.reads[d] = got BY <1>0, <1>1, <1>2 DEF Scans
    <2>10. \A e \in Digests :
              /\ scan'.reads[e] \in {"ok", "captured"} => blob[e] = "good"
              /\ scan'.reads[e] \notin {"unread", "ok", "captured"} => blob[e] # "good"
        BY <1>0, <2>3, <2>4, <2>8, <2>9 DEF QuietInv, read
    <2>11. /\ \A e \in scan'.verified : blob[e] = "good"
           /\ \A e \in scan'.reached \ scan'.verified : blob[e] # "good"
        BY <1>0, <1>2, <2>3, <2>4 DEF QuietInv
    <2>12. /\ \A f \in scan'.findings : f.kind # "scan_error"
           /\ Intact(scan.snapshot) => \A f \in scan'.findings : ~f.owned
           /\ Intact(scan.snapshot) /\ Clean(scan.snapshot) => scan'.findings = {}
        BY <1>0, <1>2, <1>3, <2>3, <2>7 DEF QuietInv
    <2>13. scan'.listing = {} BY <1>0, <1>2 DEF StepInv
    <2>. QED BY <1>5, <2>5, <2>6, <2>10, <2>11, <2>12, <2>13 DEF QuietInv
<1>. QED BY <1>4, <1>6, <1>9, <1>10, <1>11, <1>12, <1>14, <1>15 DEF IInv

(* The walk: a limit, an outcome of a read, or an I/O error. *)
LEMMA WalkStep ==
    ASSUME IInv, NEW b \in scan.pending, Walk(b) \/ WalkFails(b)
    PROVE  IInv'
<1>0. /\ scan \in Scans /\ DiskType /\ StepInv /\ CoverInv /\ WithinInv /\ LostInv /\ OrphanInv
      /\ faulty \in BOOLEAN
    BY DEF IInv, AuditType
<1>1. /\ b \in Roles \X Digests /\ b[2] \in Digests /\ scan.nodes \in 0..NodeLimit
      /\ scan.used \in 0..HashBudget /\ scan.reads[b[2]] \in ReadOutcomes
      /\ NodeLimit \in Nat /\ HashBudget \in Nat
    BY <1>0, LimitTypes DEF Scans, Roles
<1>2. /\ pc = "walk" /\ pc' = "walk" /\ UNCHANGED <<diskVars, seen, report, lost, calm>>
    BY DEF Walk, WalkFails, Goto, Reading
<1>3. CASE Walk(b) /\ scan.nodes = NodeLimit
    <2>. DEFINE limit == Unowned("limit_exceeded", ".")
                S == scan.findings \cup {limit}
    <2>1. limit \in Findings /\ limit.kind = "limit_exceeded"
        BY FindingType DEF FindingKinds
    <2>2. S \in SUBSET Findings BY <1>0, <2>1 DEF Scans
    <2>3. scan' = [scan EXCEPT !.pending = {}, !.findings = S] /\ faulty' = faulty
        BY <1>3 DEF Walk
    <2>. HIDE DEF limit, S
    <2>4. /\ scan' \in Scans
          /\ scan'.pending = {} /\ scan'.findings = S
          /\ scan'.snapshot = scan.snapshot /\ scan'.runs = scan.runs
          /\ scan'.reads = scan.reads /\ scan'.reached = scan.reached
          /\ scan'.verified = scan.verified /\ scan'.listing = scan.listing
        BY <1>0, <2>2, <2>3, StopEffect
    <2>5. /\ DiskType' /\ AuditType' /\ TreeInv' /\ SameInv' /\ GateInv' /\ StoreInv'
          /\ IntactNotBlamed' /\ ExactWhenAlone'
        BY <1>0, <1>2, <2>3, <2>4, ScanFrame DEF Scanning
    <2>6. LimitMet' /\ Blocked' BY <2>1, <2>4 DEF LimitMet, Blocked, Blocking, S
    <2>7. CoverInv' /\ BlameInv' /\ QuietInv'
        BY <2>6 DEF CoverInv, BlameInv, Blameless, QuietInv, Quiet
    <2>8. StepInv' BY <1>0, <1>2, <2>4 DEF StepInv, Looking, Scanning
    <2>9. OrphanInv'
        BY <1>0, <1>2, <2>1, <2>4 DEF OrphanInv, OrphanKinds, S
    <2>10. blob' = blob BY <1>0, <1>2, ReadFrame
    <2>11. WithinInv' /\ LostInv'
        BY <1>0, <1>2, <2>4, <2>10 DEF WithinInv, Closure, LostInv
    <2>. QED BY <2>5, <2>7, <2>8, <2>9, <2>11 DEF IInv
<1>4. CASE Walk(b) /\ scan.nodes # NodeLimit
    <2>1. scan.nodes < NodeLimit /\ faulty' = faulty BY <1>1, <1>4 DEF Walk
    <2>2. CASE NeedsRead(b[2], b[1] = "structured")
        <3>. DEFINE got == ReadReference(b[2], b[1] = "structured")
                    used == scan.used + IF Hashed(b[2]) THEN 1 ELSE 0
        <3>1. Follow(b, got, used) BY <1>4, <2>2 DEF Walk
        <3>2. used \in 0..HashBudget BY <1>1 DEF Hashed, Fits
        <3>3. got \in ReadOutcomes \ {"unread"} /\ (b[1] = "structured" => got # "ok")
            BY <1>0, <1>1, ReadFacts
        <3>4. got = ReadReference(b[2], b[1] = "structured") OBVIOUS
        <3>. HIDE DEF got, used
        <3>. QED BY <1>0, <1>2, <2>1, <3>1, <3>2, <3>3, <3>4, FollowStep
    <2>3. CASE ~NeedsRead(b[2], b[1] = "structured")
        <3>. DEFINE got == scan.reads[b[2]]
        <3>1. Follow(b, got, scan.used) BY <1>4, <2>3 DEF Walk
        <3>2. got \in ReadOutcomes \ {"unread"} /\ (b[1] = "structured" => got # "ok")
            BY <1>1, <2>3 DEF NeedsRead
        <3>3. got = scan.reads[b[2]] OBVIOUS
        <3>. HIDE DEF got
        <3>. QED BY <1>0, <1>1, <1>2, <2>1, <3>1, <3>2, <3>3, FollowStep
    <2>. QED BY <2>2, <2>3
<1>5. CASE WalkFails(b)
    <2>1. scan.nodes < NodeLimit /\ faulty' = TRUE /\ Follow(b, "corrupt_referenced", scan.used)
        BY <1>5 DEF WalkFails
    <2>2. "corrupt_referenced" \in ReadOutcomes \ {"unread"} BY DEF ReadOutcomes
    <2>. QED BY <1>1, <1>2, <2>1, <2>2, FollowStep
<1>. QED BY <1>3, <1>4, <1>5

(* The entries of the store. *)
LEMMA EntriesType == ASSUME DiskType PROVE Entries \subseteq AllEntries
BY DEF DiskType, Entries, AllEntries

(* When the queue is empty and nothing excuses it, everything is reached. *)
LEMMA CoverClosure ==
    ASSUME CoverInv, ~Blocked, scan.pending = {}
    PROVE  Closure(scan.snapshot) \subseteq scan.reached /\ Whole(scan.snapshot)
<1>1. \A b \in scan.snapshot :
          /\ b[2] \in scan.reached
          /\ b[1] = "structured" => Defect[b[2]] = "none" /\ Children[b[2]] \subseteq scan.reached
    BY DEF CoverInv, Covered
<1>2. Closure(scan.snapshot) \subseteq scan.reached BY <1>1 DEF Closure
<1>. QED BY <1>1, <1>2 DEF Whole

(* The listing of the store, or why there is none. *)
LEMMA InventoryStep == ASSUME IInv, Inventory \/ InventoryFails PROVE IInv'
<1>0. /\ scan \in Scans /\ DiskType /\ StepInv /\ CoverInv /\ WithinInv /\ LostInv /\ OrphanInv
      /\ StoreInv /\ BlameInv /\ QuietInv /\ faulty \in BOOLEAN
    BY DEF IInv, AuditType
<1>. DEFINE limit == Unowned("limit_exceeded", "inventory")
<1>1. /\ limit \in Findings /\ limit.kind = "limit_exceeded" /\ ScanError \in Findings
      /\ ScanError.kind = "scan_error"
    BY FindingType, ScanErrorType DEF FindingKinds
<1>. HIDE DEF limit
<1>2. PICK L, S :
          /\ List(L, S)
          /\ \/ L = {} /\ S = {ScanError} /\ (Kind("artifacts") # "proper" \/ faulty')
             \/ L = {} /\ S = {limit}
             \/ L = Entries /\ S = {} /\ faulty' = faulty
          /\ UNCHANGED <<diskVars, seen, lost, calm>> /\ faulty' \in BOOLEAN
    BY <1>0 DEF Inventory, InventoryFails, Reading, limit
<1>. DEFINE F == scan.findings \cup S
<1>3. L \in SUBSET AllEntries /\ F \in SUBSET Findings
    BY <1>0, <1>1, <1>2, EntriesType DEF Scans
<1>4. /\ pc = "walk" /\ scan.pending = {} /\ pc' = "inspect" /\ report' = report
      /\ scan' = [scan EXCEPT !.listing = L, !.findings = F]
    BY <1>2 DEF List, Goto
<1>. HIDE DEF F
<1>5. scan' = [scan EXCEPT !.listing = L, !.findings = F, !.observed = scan.observed,
                           !.used = scan.used]
    BY <1>0, <1>4 DEF Scans
<1>6. /\ scan' \in Scans
      /\ scan'.listing = L /\ scan'.findings = F
      /\ scan'.snapshot = scan.snapshot /\ scan'.runs = scan.runs
      /\ scan'.reads = scan.reads /\ scan'.reached = scan.reached
      /\ scan'.verified = scan.verified /\ scan'.pending = scan.pending
    <2>1. scan.observed \in SUBSET Digests /\ scan.used \in 0..HashBudget BY <1>0 DEF Scans
    <2>. QED BY <1>0, <1>3, <1>5, <2>1, ListEffect
<1>7. /\ DiskType' /\ AuditType' /\ TreeInv' /\ SameInv' /\ GateInv' /\ StoreInv'
      /\ IntactNotBlamed' /\ ExactWhenAlone'
    BY <1>2, <1>4, <1>6, ScanFrame DEF Scanning
<1>8. blob' = blob /\ Entries' = Entries /\ damage' = damage
    BY <1>0, <1>2, ReadFrame, TruthFrame
<1>9. StepInv' BY <1>0, <1>2, <1>4, <1>6 DEF StepInv, Looking, Scanning
<1>10. CoverInv'
    BY <1>0, <1>6 DEF CoverInv, Covered, Blocked, Blocking, F
<1>11. WithinInv' /\ LostInv'
    BY <1>0, <1>2, <1>6, <1>8 DEF WithinInv, Closure, LostInv
<1>12. OrphanInv'
    BY <1>0, <1>1, <1>2, <1>4, <1>6 DEF OrphanInv, OrphanKinds, F
<1>13. CASE S = {ScanError}
    <2>1. Kind("artifacts") # "proper" \/ faulty' BY <1>1, <1>2, <1>13
    <2>2. BlameInv' /\ QuietInv'
        BY <1>2, <1>4, <1>8, <2>1, StoreThere DEF BlameInv, Blameless, QuietInv, Quiet
    <2>. QED BY <1>7, <1>9, <1>10, <1>11, <1>12, <2>2 DEF IInv
<1>14. CASE S = {limit}
    <2>1. LimitMet' BY <1>1, <1>6, <1>14 DEF LimitMet, F
    <2>2. BlameInv' /\ QuietInv' BY <2>1 DEF BlameInv, Blameless, QuietInv, Quiet
    <2>. QED BY <1>7, <1>9, <1>10, <1>11, <1>12, <2>2 DEF IInv
<1>15. CASE L = Entries /\ S = {} /\ faulty' = faulty
    <2>1. F = scan.findings /\ (LimitMet' <=> LimitMet)
        BY <1>6, <1>15 DEF F, LimitMet
    <2>2. \A d \in scan.reached : d \in Digests /\ (blob[d] = "good" => <<"blob", d>> \in Entries)
        BY <1>0 DEF Scans, Entries
    <2>3. BlameInv'
        <3>1. damage = 0 => \A d \in scan.reached : blob[d] = "good"
            BY <1>0 DEF WithinInv, StoreInv
        <3>2. Blameless' => Blameless BY <1>6, <1>8, <1>15, <2>1 DEF Blameless, Whole
        <3>3. Blameless => damage = 0 BY DEF Blameless
        <3>. QED BY <1>0, <1>2, <1>6, <1>15, <2>1, <2>2, <3>1, <3>2, <3>3 DEF BlameInv
    <2>4. QuietInv'
        <3>1. Intact(scan.snapshot)' <=> Intact(scan.snapshot)
            BY <1>6, <1>8 DEF Intact, Whole, Closure
        <3>2. Clean(scan.snapshot)' <=> Clean(scan.snapshot)
            BY <1>6, <1>8 DEF Clean, Closure
        <3>3. Quiet' => Quiet BY <1>2, <1>4, <1>15, <2>1 DEF Quiet, Scanning
        <3>. QED BY <1>0, <1>4, <1>6, <1>8, <1>15, <2>1, <2>2, <3>1, <3>2, <3>3 DEF QuietInv
    <2>. QED BY <1>7, <1>9, <1>10, <1>11, <1>12, <2>3, <2>4 DEF IInv
<1>. QED BY <1>2, <1>13, <1>14, <1>15

(* What one entry of the store adds to the findings. *)
LEMMA ClassifyFacts ==
    ASSUME DiskType, scan \in Scans, NEW entry \in AllEntries
    PROVE  /\ Classify(entry) \subseteq Findings
           /\ \A f \in Classify(entry) :
                 /\ f.kind \in OrphanKinds => f.digest \notin scan.reached
                 /\ f.owned => entry[1] = "blob" /\ blob[entry[2]] = "odd" /\ entry[2] \in scan.reached
                 /\ entry \in Entries => f.kind # "scan_error"
           /\ entry \in Entries =>
                 (Classify(entry) = {} => entry[1] = "blob" /\ entry[2] \in scan.reached)
           /\ entry \in Entries /\ entry[1] = "blob" /\ entry[2] \in scan.reached
                 /\ blob[entry[2]] = "good" => Classify(entry) = {}
<1>. DEFINE d == entry[2]
<1>1. /\ entry[1] \in {"blob", "temp", "stray"} /\ d \in Digests \cup Strays
      /\ entry[1] = "blob" => entry # <<"stray", "temp">>
    BY DEF AllEntries, Strays
<1>2. {"scan_error", "limit_exceeded", "special_file", "temp_orphan", "noncanonical_entry",
       "valid_finalized_orphan", "corrupt_finalized_orphan"} \subseteq FindingKinds
    BY DEF FindingKinds, OrphanKinds
<1>3. \A k \in FindingKinds :
          /\ Finding(k, d) \in Findings /\ Unowned(k, d) \in Findings
          /\ Finding(k, d).owned /\ ~Unowned(k, d).owned
          /\ Finding(k, d).kind = k /\ Unowned(k, d).kind = k
          /\ Finding(k, d).digest = d /\ Unowned(k, d).digest = d
    BY <1>1, FindingType
<1>4. {"scan_error", "limit_exceeded", "special_file", "temp_orphan", "noncanonical_entry"}
          \cap OrphanKinds = {}
    BY DEF OrphanKinds
<1>5. CASE entry \notin Entries
    <2>1. Classify(entry) = {Unowned("scan_error", d)} BY <1>5 DEF Classify
    <2>. QED BY <1>2, <1>3, <1>4, <1>5, <2>1
<1>6. CASE entry \in Entries /\ entry[1] # "blob"
    <2>1. Classify(entry) \in {{Unowned("temp_orphan", d)}, {Unowned("noncanonical_entry", d)}}
        BY <1>1, <1>6 DEF Classify
    <2>. QED BY <1>2, <1>3, <1>4, <1>6, <2>1
<1>7. CASE entry \in Entries /\ entry[1] = "blob" /\ blob[d] = "odd"
    <2>1. Classify(entry) = {IF d \in scan.reached THEN Finding("special_file", d)
                             ELSE Unowned("special_file", d)}
        BY <1>1, <1>7 DEF Classify
    <2>. QED BY <1>2, <1>3, <1>4, <1>7, <2>1
<1>8. CASE entry \in Entries /\ entry[1] = "blob" /\ blob[d] # "odd" /\ d \in scan.reached
    <2>1. Classify(entry) = {} BY <1>1, <1>8 DEF Classify
    <2>. QED BY <1>8, <2>1
<1>9. CASE entry \in Entries /\ entry[1] = "blob" /\ blob[d] # "odd" /\ d \notin scan.reached
    <2>1. Classify(entry) \in {{Unowned("limit_exceeded", d)}, {Unowned("valid_finalized_orphan", d)},
                               {Unowned("corrupt_finalized_orphan", d)}}
        BY <1>1, <1>9 DEF Classify
    <2>. QED BY <1>2, <1>3, <1>4, <1>9, <2>1
<1>. QED BY <1>5, <1>6, <1>7, <1>8, <1>9

(* One entry is inspected. *)
LEMMA InspectStep == ASSUME IInv, NEW entry \in scan.listing, Inspect(entry) PROVE IInv'
<1>. DEFINE d == entry[2]
            seenHere == entry[1] = "blob" /\ d \in scan.reached /\ entry \in Entries /\ blob[d] # "odd"
            L == scan.listing \ {entry}
            F == scan.findings \cup Classify(entry)
            O == scan.observed \cup (IF seenHere THEN {d} ELSE {})
            used == scan.used + (IF entry[1] = "blob" /\ ~(entry[1] = "blob" /\ d \in scan.reached)
                                    /\ entry \in Entries /\ Hashed(d)
                                 THEN 1 ELSE 0)
<1>0. /\ scan \in Scans /\ DiskType /\ StepInv /\ CoverInv /\ WithinInv /\ LostInv /\ OrphanInv
      /\ StoreInv /\ BlameInv /\ QuietInv /\ faulty \in BOOLEAN
    BY DEF IInv, AuditType
<1>1. /\ pc = "inspect" /\ pc' = "inspect" /\ UNCHANGED <<diskVars, seen, report, lost, calm, faulty>>
      /\ scan' = [scan EXCEPT !.listing = L, !.findings = F, !.observed = O, !.used = used]
    <2>1. /\ pc = "inspect" /\ pc' = "inspect"
          /\ UNCHANGED <<diskVars, seen, report, lost, calm, faulty>>
        BY DEF Inspect, Goto, Reading
    <2>2. scan' = [scan EXCEPT !.listing = L, !.findings = F, !.observed = O, !.used = used]
        BY <1>0 DEF Inspect, Scans
    <2>. QED BY <2>1, <2>2
<1>2. entry \in AllEntries BY <1>0 DEF Scans
<1>3. /\ Classify(entry) \subseteq Findings
      /\ \A f \in Classify(entry) :
            /\ f.kind \in OrphanKinds => f.digest \notin scan.reached
            /\ f.owned => entry[1] = "blob" /\ blob[d] = "odd" /\ d \in scan.reached
            /\ entry \in Entries => f.kind # "scan_error"
      /\ entry \in Entries => (Classify(entry) = {} => entry[1] = "blob" /\ d \in scan.reached)
      /\ entry \in Entries /\ entry[1] = "blob" /\ d \in scan.reached /\ blob[d] = "good"
            => Classify(entry) = {}
    BY <1>0, <1>2, ClassifyFacts
<1>4. L \in SUBSET AllEntries /\ F \in SUBSET Findings /\ O \in SUBSET Digests
    BY <1>0, <1>3 DEF Scans
<1>5. used \in 0..HashBudget
    BY <1>0, LimitTypes DEF Scans, Hashed, Fits
<1>. HIDE DEF L, F, O, used, seenHere
<1>6. /\ scan' \in Scans
      /\ scan'.listing = L /\ scan'.findings = F /\ scan'.observed = O
      /\ scan'.snapshot = scan.snapshot /\ scan'.runs = scan.runs
      /\ scan'.reads = scan.reads /\ scan'.reached = scan.reached
      /\ scan'.verified = scan.verified /\ scan'.pending = scan.pending
    BY <1>0, <1>1, <1>4, <1>5, ListEffect
<1>7. /\ DiskType' /\ AuditType' /\ TreeInv' /\ SameInv' /\ GateInv' /\ StoreInv'
      /\ IntactNotBlamed' /\ ExactWhenAlone'
    BY <1>0, <1>1, <1>6, ScanFrame DEF Scanning
<1>8. blob' = blob /\ Entries' = Entries /\ damage' = damage
    BY <1>0, <1>1, ReadFrame, TruthFrame
<1>9. StepInv' BY <1>0, <1>1, <1>6 DEF StepInv, Looking, Scanning
<1>10. CoverInv'
    BY <1>0, <1>6 DEF CoverInv, Covered, Blocked, Blocking, F
<1>11. WithinInv' /\ LostInv'
    BY <1>0, <1>1, <1>6, <1>8 DEF WithinInv, Closure, LostInv
<1>12. OrphanInv'
    BY <1>0, <1>1, <1>3, <1>6 DEF OrphanInv, F
<1>13. ~LimitMet' => ~LimitMet BY <1>6 DEF LimitMet, F
<1>14. \A x \in scan.reached : x \in Digests /\ (blob[x] = "good" => <<"blob", x>> \in Entries)
    BY <1>0 DEF Scans, Entries
<1>15. ASSUME NEW x \in scan.reached, blob[x] = "good",
              x \in scan.observed \/ <<"blob", x>> \in scan.listing
       PROVE  x \in O \/ <<"blob", x>> \in L
    BY <1>14, <1>15 DEF O, L, seenHere
<1>16. BlameInv'
    <2>. SUFFICES ASSUME Blameless' PROVE
            /\ \A e \in Digests : scan'.reads[e] \in {"unread", "ok", "captured"}
            /\ \A f \in scan'.findings : ~f.owned
            /\ scan'.verified = scan'.reached
            /\ \A e \in scan'.reached : e \in scan'.observed \/ <<"blob", e>> \in scan'.listing
        BY DEF BlameInv
    <2>1. Blameless /\ damage = 0
        BY <1>1, <1>6, <1>8, <1>13 DEF Blameless, Whole
    <2>2. /\ \A e \in Digests : scan.reads[e] \in {"unread", "ok", "captured"}
          /\ \A f \in scan.findings : ~f.owned
          /\ scan.verified = scan.reached
          /\ \A e \in scan.reached : e \in scan.observed \/ <<"blob", e>> \in scan.listing
        BY <1>0, <1>1, <2>1, StoreThere DEF BlameInv
    <2>3. \A e \in scan.reached : blob[e] = "good"
        BY <1>0, <2>1 DEF WithinInv, StoreInv
    <2>4. \A f \in Classify(entry) : ~f.owned BY <1>3, <2>3
    <2>5. \A f \in F : ~f.owned BY <2>2, <2>4 DEF F
    <2>6. \A e \in scan.reached : e \in O \/ <<"blob", e>> \in L BY <1>15, <2>2, <2>3
    <2>. QED BY <1>6, <2>2, <2>5, <2>6
<1>17. QuietInv'
    <2>. SUFFICES ASSUME Quiet' PROVE QuietInv' BY DEF QuietInv
    <2>1. Quiet BY <1>1, <1>13, StoreThere DEF Quiet, Scanning
    <2>2. Intact(scan.snapshot)' <=> Intact(scan.snapshot)
        BY <1>6, <1>8 DEF Intact, Whole, Closure
    <2>3. Clean(scan.snapshot)' <=> Clean(scan.snapshot)
        BY <1>6, <1>8 DEF Clean, Closure
    <2>4. entry \in Entries BY <1>0, <2>1 DEF QuietInv
    <2>5. Intact(scan.snapshot) => \A x \in scan.reached : blob[x] = "good"
        BY <1>0 DEF WithinInv, Intact
    <2>6. Intact(scan.snapshot) => \A f \in F : ~f.owned
        BY <1>0, <1>3, <2>1, <2>5 DEF QuietInv, F
    <2>7. ASSUME Intact(scan.snapshot), Clean(scan.snapshot) PROVE F = {}
        <3>1. scan.findings = {} BY <1>0, <2>1, <2>7 DEF QuietInv
        <3>2. Closure(scan.snapshot) \subseteq scan.reached
            BY <1>0, <1>1, <3>1, CoverClosure DEF Blocked, StepInv
        <3>3. entry[1] = "blob" /\ d \in Closure(scan.snapshot) BY <2>4, <2>7 DEF Clean
        <3>4. blob[d] = "good" BY <2>7, <3>3 DEF Intact
        <3>. QED BY <1>3, <2>4, <3>1, <3>2, <3>3, <3>4 DEF F
    <2>8. /\ \A f \in F : f.kind # "scan_error"
          /\ L \subseteq Entries
        BY <1>0, <1>3, <2>1, <2>4 DEF QuietInv, F, L
    <2>9. \A x \in scan.reached : blob[x] = "good" => x \in O \/ <<"blob", x>> \in L
        BY <1>0, <1>1, <1>15, <2>1 DEF QuietInv
    <2>10. \A e \in Entries : e \in L \/ F # {} \/ (e[1] = "blob" /\ e[2] \in scan.reached)
        BY <1>0, <1>1, <1>3, <2>1, <2>4 DEF QuietInv, L, F
    <2>11. /\ \A x \in Digests :
                 /\ scan.reads[x] \in {"ok", "captured"} => blob[x] = "good"
                 /\ scan.reads[x] \notin {"unread", "ok", "captured"} => blob[x] # "good"
           /\ \A x \in scan.verified : blob[x] = "good"
           /\ \A x \in scan.reached \ scan.verified : blob[x] # "good"
        BY <1>0, <2>1 DEF QuietInv
    <2>. QED BY <1>1, <1>6, <1>8, <2>2, <2>3, <2>6, <2>7, <2>8, <2>9, <2>10, <2>11 DEF QuietInv
<1>. QED BY <1>7, <1>9, <1>10, <1>11, <1>12, <1>16, <1>17 DEF IInv

(* The artifact audit ends: what is reachable and was not listed is a      *)
(* finding, and a store that was replaced meanwhile is not judged.         *)
LEMMA AuditedStep == ASSUME IInv, Audited PROVE IInv'
<1>0. /\ scan \in Scans /\ DiskType /\ StepInv /\ CoverInv /\ WithinInv /\ LostInv /\ OrphanInv
      /\ StoreInv /\ BlameInv /\ QuietInv /\ faulty \in BOOLEAN
    BY DEF IInv, AuditType
<1>1. /\ pc = "inspect" /\ pc' = "recheck" /\ scan.listing = {}
      /\ UNCHANGED <<diskVars, seen, report, lost, calm, faulty>>
    BY DEF Audited, Goto, Reading
<1>2. blob' = blob /\ Entries' = Entries /\ damage' = damage
    BY <1>0, <1>1, ReadFrame, TruthFrame
<1>3. CASE Same("artifacts")
    <2>. DEFINE unlisted == {Finding("corrupt_referenced", x) : x \in scan.reached \ scan.observed}
                F == scan.findings \cup unlisted
    <2>1. /\ unlisted \subseteq Findings
          /\ \A f \in unlisted : f.owned /\ f.kind = "corrupt_referenced"
          /\ scan.reached \subseteq scan.observed => unlisted = {}
        <3>1. "corrupt_referenced" \in FindingKinds BY DEF FindingKinds
        <3>2. \A x \in scan.reached : /\ Finding("corrupt_referenced", x) \in Findings
                                      /\ Finding("corrupt_referenced", x).owned
                                      /\ Finding("corrupt_referenced", x).kind = "corrupt_referenced"
            BY <1>0, <3>1, FindingType DEF Scans
        <3>. QED BY <3>2
    <2>2. scan' = [scan EXCEPT !.findings = F] BY <1>3 DEF Audited
    <2>3. F \in SUBSET Findings BY <1>0, <2>1 DEF Scans
    <2>. HIDE DEF unlisted, F
    <2>4. scan' = [scan EXCEPT !.findings = F, !.reached = scan.reached, !.verified = scan.verified]
        BY <1>0, <2>2 DEF Scans
    <2>5. /\ scan' \in Scans
          /\ scan'.findings = F /\ scan'.reached = scan.reached /\ scan'.verified = scan.verified
          /\ scan'.snapshot = scan.snapshot /\ scan'.runs = scan.runs
          /\ scan'.reads = scan.reads /\ scan'.pending = scan.pending
          /\ scan'.listing = scan.listing /\ scan'.observed = scan.observed
        <3>1. scan.reached \in SUBSET Digests /\ scan.verified \in SUBSET Digests
            BY <1>0 DEF Scans
        <3>. QED BY <1>0, <2>3, <2>4, <3>1, EndEffect
    <2>6. /\ DiskType' /\ AuditType' /\ TreeInv' /\ SameInv' /\ GateInv' /\ StoreInv'
          /\ IntactNotBlamed' /\ ExactWhenAlone'
        BY <1>0, <1>1, <2>5, ScanFrame DEF Scanning
    <2>7. StepInv' BY <1>0, <1>1, <2>5 DEF StepInv, Looking, Scanning
    <2>8. CoverInv' BY <1>0, <2>5 DEF CoverInv, Covered, Blocked, Blocking, F
    <2>9. WithinInv' /\ LostInv'
        BY <1>0, <1>1, <1>2, <2>5 DEF WithinInv, Closure, LostInv
    <2>10. OrphanInv' BY <1>0, <1>1, <2>1, <2>5 DEF OrphanInv, OrphanKinds, F
    <2>11. ~LimitMet' => ~LimitMet BY <2>5 DEF LimitMet, F
    <2>12. BlameInv'
        <3>1. Blameless' => Blameless BY <1>1, <1>2, <2>5, <2>11 DEF Blameless, Whole
        <3>2. Blameless => scan.reached \subseteq scan.observed
            BY <1>0, <1>1, StoreThere DEF BlameInv, Blameless
        <3>. QED BY <1>0, <1>1, <2>1, <2>5, <3>1, <3>2 DEF BlameInv, F
    <2>13. QuietInv'
        <3>. SUFFICES ASSUME Quiet' PROVE QuietInv' BY DEF QuietInv
        <3>1. Quiet BY <1>1, <2>11 DEF Quiet, Scanning
        <3>2. Intact(scan.snapshot)' <=> Intact(scan.snapshot)
            BY <1>2, <2>5 DEF Intact, Whole, Closure
        <3>3. Clean(scan.snapshot)' <=> Clean(scan.snapshot)
            BY <1>2, <2>5 DEF Clean, Closure
        <3>4. \A x \in scan.reached : blob[x] = "good" => x \in scan.observed
            BY <1>0, <1>1, <3>1 DEF QuietInv
        <3>5. Intact(scan.snapshot) => F = scan.findings
            BY <1>0, <2>1, <3>4 DEF WithinInv, Intact, F
        <3>6. \A f \in F : f.kind # "scan_error"
            BY <1>0, <2>1, <3>1 DEF QuietInv, F
        <3>7. \A e \in Entries : F # {} \/ (e[1] = "blob" /\ e[2] \in scan.reached)
            BY <1>0, <1>1, <3>1 DEF QuietInv, F
        <3>. QED BY <1>0, <1>1, <1>2, <2>5, <3>1, <3>2, <3>3, <3>5, <3>6, <3>7 DEF QuietInv
    <2>. QED BY <2>6, <2>7, <2>8, <2>9, <2>10, <2>12, <2>13 DEF IInv
<1>4. CASE ~Same("artifacts")
    <2>1. scan' = [scan EXCEPT !.findings = {ScanError}, !.reached = {}, !.verified = {}]
        BY <1>4 DEF Audited
    <2>2. {ScanError} \in SUBSET Findings /\ {} \in SUBSET Digests BY ScanErrorType
    <2>3. /\ scan' \in Scans
          /\ scan'.findings = {ScanError} /\ scan'.reached = {} /\ scan'.verified = {}
          /\ scan'.snapshot = scan.snapshot /\ scan'.runs = scan.runs
          /\ scan'.reads = scan.reads /\ scan'.pending = scan.pending
          /\ scan'.listing = scan.listing
        BY <1>0, <2>1, <2>2, EndEffect
    <2>4. /\ DiskType' /\ AuditType' /\ TreeInv' /\ SameInv' /\ GateInv' /\ StoreInv'
          /\ IntactNotBlamed' /\ ExactWhenAlone'
        BY <1>0, <1>1, <2>3, ScanFrame DEF Scanning
    <2>5. StepInv' BY <1>0, <1>1, <2>3 DEF StepInv, Looking, Scanning
    <2>6. CoverInv' /\ OrphanInv'
        BY <2>3, ScanErrorType DEF CoverInv, Blocked, OrphanInv, OrphanKinds
    <2>7. WithinInv' /\ LostInv'
        BY <1>0, <1>1, <1>2, <2>3 DEF WithinInv, Closure, LostInv
    <2>8. BlameInv' /\ QuietInv'
        BY <1>1, <1>2, <1>4, StoreThere DEF BlameInv, Blameless, QuietInv, Quiet
    <2>. QED BY <2>4, <2>5, <2>6, <2>7, <2>8 DEF IInv
<1>. QED BY <1>3, <1>4

-----------------------------------------------------------------------------
(* The report. *)

(* While nothing changes, the findings say what is on disk. *)
LEMMA QuietVerdict ==
    ASSUME IInv, pc = "recheck", Quiet
    PROVE  /\ ReferencedFailure <=> ~Intact(scan.snapshot)
           /\ Complete
           /\ Intact(scan.snapshot) => (scan.findings = {} <=> Clean(scan.snapshot))
<1>0. DiskType /\ StepInv /\ CoverInv /\ WithinInv /\ QuietInv
    BY DEF IInv
<1>1. Complete BY <1>0 DEF Complete, QuietInv, Quiet, LimitMet
<1>2. ASSUME Intact(scan.snapshot) PROVE ~ReferencedFailure
    <2>1. \A f \in scan.findings : ~f.owned BY <1>0, <1>2 DEF QuietInv
    <2>2. \A d \in scan.reached : d \in scan.verified
        BY <1>0, <1>2 DEF QuietInv, WithinInv, Intact
    <2>3. scan.verified = scan.reached BY <1>0, <2>2 DEF WithinInv
    <2>. QED BY <2>1, <2>3 DEF ReferencedFailure
<1>3. ASSUME ~ReferencedFailure PROVE Intact(scan.snapshot)
    <2>1. ~Blocked /\ scan.verified = scan.reached
        BY <1>1, <1>3 DEF ReferencedFailure, Blocked, Blocking, Complete
    <2>2. Closure(scan.snapshot) \subseteq scan.reached /\ Whole(scan.snapshot)
        BY <1>0, <2>1, CoverClosure DEF StepInv
    <2>3. \A d \in scan.verified : blob[d] = "good" BY <1>0 DEF QuietInv
    <2>. QED BY <2>1, <2>2, <2>3 DEF Intact
<1>4. ASSUME Intact(scan.snapshot), scan.findings = {} PROVE Clean(scan.snapshot)
    <2>1. \A e \in Entries : e[1] = "blob" /\ e[2] \in Closure(scan.snapshot)
        BY <1>0, <1>4 DEF QuietInv, StepInv, WithinInv
    <2>2. \A e \in Entries : e = <<e[1], e[2]>> BY <1>0, EntriesType DEF AllEntries
    <2>. QED BY <2>1, <2>2 DEF Clean
<1>5. Intact(scan.snapshot) /\ Clean(scan.snapshot) => scan.findings = {}
    BY <1>0 DEF QuietInv
<1>. QED BY <1>1, <1>2, <1>3, <1>4, <1>5

(* The reports an audit may derive. *)
LEMMA DerivedTypes ==
    LET Reports == [state : States, verified : BOOLEAN, initialize : BOOLEAN] IN
    /\ Derived \in Reports /\ DerivedWithoutDatabase \in Reports /\ Unstable \in Reports
    /\ ~DerivedWithoutDatabase.verified /\ ~Unstable.verified
    /\ DerivedWithoutDatabase.state # "referenced_evidence_invalid"
    /\ Unstable.state # "referenced_evidence_invalid"
    /\ Derived.verified => ~ReferencedFailure /\ Complete
    /\ Derived.state = "referenced_evidence_invalid" =>
          ReferencedFailure /\ seen["artifacts"].kind # "other"
<1>1. \A s \in States, v \in BOOLEAN :
          /\ Report(s, v) \in [state : States, verified : BOOLEAN, initialize : BOOLEAN]
          /\ Report(s, v).verified = v /\ Report(s, v).state = s
    BY DEF Report
<1>2. {"audit_incomplete", "referenced_evidence_invalid", "healthy_with_unreferenced_findings",
       "initialized_empty_with_unreferenced_findings", "healthy", "initialized_empty",
       "database_invalid", "database_missing_with_artifacts", "uninitialized"} \subseteq States
    BY DEF States
<1>3. DerivedWithoutDatabase \in {Report("database_invalid", FALSE), Report("uninitialized", FALSE),
                                  Report("database_missing_with_artifacts", FALSE)}
    BY DEF DerivedWithoutDatabase, Refused
<1>4. Unstable \in {Report("database_invalid", FALSE), Report("database_missing_with_artifacts", FALSE)}
    BY DEF Unstable, Refused
<1>5. \/ Derived = Report("audit_incomplete", FALSE)
      \/ Derived = Report("referenced_evidence_invalid", FALSE) /\ ReferencedFailure
         /\ seen["artifacts"].kind # "other"
      \/ /\ ~ReferencedFailure /\ Complete
         /\ \E s \in {"healthy_with_unreferenced_findings", "healthy", "initialized_empty",
                      "initialized_empty_with_unreferenced_findings"} : Derived = Report(s, TRUE)
    BY DEF Derived, Refused
<1>6. /\ DerivedWithoutDatabase \in [state : States, verified : BOOLEAN, initialize : BOOLEAN]
      /\ Unstable \in [state : States, verified : BOOLEAN, initialize : BOOLEAN]
      /\ ~DerivedWithoutDatabase.verified /\ ~Unstable.verified
      /\ DerivedWithoutDatabase.state # "referenced_evidence_invalid"
      /\ Unstable.state # "referenced_evidence_invalid"
    <2>1. ASSUME NEW r, NEW s \in {"database_invalid", "database_missing_with_artifacts",
                                    "uninitialized"}, r = Report(s, FALSE)
          PROVE  /\ r \in [state : States, verified : BOOLEAN, initialize : BOOLEAN]
                 /\ ~r.verified /\ r.state # "referenced_evidence_invalid"
        <3>1. s \in States BY <1>2
        <3>2. s # "referenced_evidence_invalid" OBVIOUS
        <3>. QED BY <1>1, <2>1, <3>1, <3>2
    <2>2. \E s \in {"database_invalid", "database_missing_with_artifacts", "uninitialized"} :
              DerivedWithoutDatabase = Report(s, FALSE)
        BY <1>3
    <2>3. \E s \in {"database_invalid", "database_missing_with_artifacts", "uninitialized"} :
              Unstable = Report(s, FALSE)
        BY <1>4
    <2>. QED BY <2>1, <2>2, <2>3
<1>7. /\ Derived \in [state : States, verified : BOOLEAN, initialize : BOOLEAN]
      /\ Derived.verified => ~ReferencedFailure /\ Complete
      /\ Derived.state = "referenced_evidence_invalid" =>
            ReferencedFailure /\ seen["artifacts"].kind # "other"
    <2>1. CASE Derived = Report("audit_incomplete", FALSE)
        <3>1. "audit_incomplete" \in States BY <1>2
        <3>2. /\ Derived \in [state : States, verified : BOOLEAN, initialize : BOOLEAN]
              /\ Derived.verified = FALSE /\ Derived.state = "audit_incomplete"
            BY <1>1, <2>1, <3>1
        <3>. QED BY <3>2
    <2>2. CASE Derived = Report("referenced_evidence_invalid", FALSE) /\ ReferencedFailure
               /\ seen["artifacts"].kind # "other"
        <3>1. "referenced_evidence_invalid" \in States BY <1>2
        <3>2. /\ Derived \in [state : States, verified : BOOLEAN, initialize : BOOLEAN]
              /\ Derived.verified = FALSE
            BY <1>1, <2>2, <3>1
        <3>. QED BY <2>2, <3>2
    <2>3. ASSUME NEW s \in {"healthy_with_unreferenced_findings", "healthy", "initialized_empty",
                            "initialized_empty_with_unreferenced_findings"},
                 Derived = Report(s, TRUE), ~ReferencedFailure, Complete
          PROVE  /\ Derived \in [state : States, verified : BOOLEAN, initialize : BOOLEAN]
                 /\ Derived.verified => ~ReferencedFailure /\ Complete
                 /\ Derived.state = "referenced_evidence_invalid" =>
                       ReferencedFailure /\ seen["artifacts"].kind # "other"
        <3>1. s \in States BY <1>2
        <3>2. s # "referenced_evidence_invalid" OBVIOUS
        <3>3. /\ Derived \in [state : States, verified : BOOLEAN, initialize : BOOLEAN]
              /\ Derived.state = s
            BY <1>1, <2>3, <3>1
        <3>. QED BY <2>3, <3>2, <3>3
    <2>. QED BY <1>5, <2>1, <2>2, <2>3
<1>. QED BY <1>6, <1>7

(* The last look, and the report. *)
LEMMA RecheckStep == ASSUME IInv, Recheck PROVE IInv'
<1>0. /\ scan \in Scans /\ DiskType /\ AuditType /\ TreeInv /\ StepInv /\ CoverInv /\ WithinInv
      /\ LostInv /\ OrphanInv /\ StoreInv /\ BlameInv /\ SameInv
    BY DEF IInv, AuditType
<1>1. /\ pc = "recheck" /\ pc' = "done" /\ UNCHANGED <<diskVars, seen, scan, lost, calm, faulty>>
      /\ report' = IF Regular(seen["database"])
                   THEN IF Unchanged THEN Derived ELSE Refused("database_invalid")
                   ELSE IF Unchanged THEN DerivedWithoutDatabase ELSE Unstable
    BY DEF Recheck, Answer, Reading
<1>2. /\ tree' = tree /\ blob' = blob /\ ledger' = ledger /\ published' = published
      /\ temps' = temps /\ strays' = strays /\ damage' = damage /\ DiskType'
      /\ Truth' = Truth
    BY <1>0, <1>1, ReadFrame, TruthFrame
<1>3. /\ Derived \in [state : States, verified : BOOLEAN, initialize : BOOLEAN]
      /\ DerivedWithoutDatabase \in [state : States, verified : BOOLEAN, initialize : BOOLEAN]
      /\ Unstable \in [state : States, verified : BOOLEAN, initialize : BOOLEAN]
      /\ Refused("database_invalid") \in [state : States, verified : BOOLEAN, initialize : BOOLEAN]
      /\ ~DerivedWithoutDatabase.verified /\ ~Unstable.verified
      /\ DerivedWithoutDatabase.state # "referenced_evidence_invalid"
      /\ Unstable.state # "referenced_evidence_invalid"
      /\ ~Refused("database_invalid").verified
      /\ Refused("database_invalid").state = "database_invalid"
    BY DerivedTypes, RefusedType DEF States
<1>4. AuditType'
    BY <1>0, <1>1, <1>3 DEF AuditType, Labels
<1>5. TreeInv' /\ StepInv' /\ SameInv'
    BY <1>0, <1>1, <1>2 DEF TreeInv, Kind, StepInv, Looking, Scanning, SameInv
<1>6. CoverInv' /\ WithinInv' /\ LostInv' /\ OrphanInv'
    BY <1>0, <1>1, <1>2
    DEF CoverInv, Covered, Blocked, Blocking, WithinInv, Closure, LostInv, OrphanInv
<1>7. StoreInv'
    BY <1>0, <1>1, <1>2 DEF StoreInv, Closure, Kind
<1>8. BlameInv' /\ QuietInv'
    BY <1>0, <1>1, <1>2 DEF BlameInv, Blameless, LimitMet, Whole, QuietInv, Quiet, Scanning
<1>9. GateInv'
    <2>. SUFFICES ASSUME report'.verified PROVE ~Blocked' /\ scan'.verified = scan'.reached
        BY DEF GateInv
    <2>1. report' = Derived BY <1>1, <1>3
    <2>2. ~ReferencedFailure /\ Complete BY <2>1, DerivedTypes
    <2>. QED BY <1>1, <2>2 DEF ReferencedFailure, Complete, Blocked, Blocking
<1>10. IntactNotBlamed'
    <2>. SUFFICES ASSUME damage = 0, ~faulty, ~LimitMet, Whole(scan.snapshot),
                         report'.state = "referenced_evidence_invalid"
                  PROVE  FALSE
        BY <1>1, <1>2 DEF IntactNotBlamed, LimitMet, Whole
    <2>1. report' = Derived /\ Unchanged BY <1>1, <1>3
    <2>2. ReferencedFailure BY <2>1, DerivedTypes
    <2>3. Same("artifacts") BY <2>1 DEF Unchanged, Paths
    <2>4. CASE seen["artifacts"].kind = "missing"
        <3>1. Kind("artifacts") # "proper" BY <2>3, <2>4 DEF Same, Kind
        <3>2. \A d \in Digests : blob[d] = "none" BY <1>0, <3>1 DEF TreeInv
        <3>3. published = {} BY <1>0, <3>2 DEF StoreInv, DiskType
        <3>4. scan.snapshot \in SUBSET Bindings BY <1>0 DEF Scans
        <3>5. scan.snapshot = {} BY <1>0, <3>3, <3>4, ClosureType DEF StoreInv
        <3>. QED BY <1>0, <2>2, <3>5 DEF BlameInv, Blameless, ReferencedFailure
    <2>5. CASE seen["artifacts"].kind # "missing"
        BY <1>0, <2>2, <2>5 DEF BlameInv, Blameless, ReferencedFailure
    <2>. QED BY <2>4, <2>5
<1>11. ExactWhenAlone'
    <2>. SUFFICES ASSUME calm, ~faulty, ~LimitMet PROVE report'.state = Truth
        BY <1>1, <1>2 DEF ExactWhenAlone, LimitMet
    <2>1. Same("state") /\ Same("database") /\ Same("artifacts") /\ Same("sidecar") /\ Unchanged
        BY <1>0, <1>1 DEF SameInv, Scanning, Unchanged, Paths
    <2>2. Kind("state") = "proper" /\ seen["state"].kind = "proper"
        BY <1>0, <1>1, <2>1 DEF StepInv, Scanning, Same, Kind
    <2>3. /\ seen["database"].kind = Kind("database") /\ seen["artifacts"].kind = Kind("artifacts")
          /\ seen["sidecar"] = tree["sidecar"]
        BY <2>1 DEF Same, Kind
    <2>4. ASSUME Kind("artifacts") # "other"
          PROVE  /\ ReferencedFailure <=> ~Intact(scan.snapshot)
                 /\ Complete
                 /\ Intact(scan.snapshot) => (scan.findings = {} <=> Clean(scan.snapshot))
        <3>1. Quiet BY <1>1, <2>3, <2>4 DEF Quiet, Scanning
        <3>. QED BY <1>1, <3>1, QuietVerdict
    <2>5. CASE Regular(seen["database"])
        <3>1. /\ scan.snapshot = ledger /\ scan.runs = runs
              /\ Kind("database") = "proper" /\ Kind("sidecar") # "other"
            BY <1>0, <1>1, <2>5 DEF SameInv, Scanning
        <3>2. report' = Derived BY <1>1, <2>1, <2>5
        <3>3. Truth = IF Kind("artifacts") = "other" THEN "audit_incomplete"
                      ELSE IF ~Intact(ledger) THEN "referenced_evidence_invalid"
                      ELSE IF Clean(ledger) THEN IF runs THEN "healthy" ELSE "initialized_empty"
                      ELSE IF runs THEN "healthy_with_unreferenced_findings"
                      ELSE "initialized_empty_with_unreferenced_findings"
            BY <1>0, <2>2, <3>1, TruthCases
        <3>4. \A s, v : Report(s, v).state = s BY DEF Report
        <3>5. CASE Kind("artifacts") = "other"
            BY <2>3, <3>2, <3>3, <3>4, <3>5 DEF Derived, Refused
        <3>6. CASE Kind("artifacts") # "other" /\ ~Intact(ledger)
            BY <2>3, <2>4, <3>1, <3>2, <3>3, <3>4, <3>6 DEF Derived, Refused
        <3>7. CASE Kind("artifacts") # "other" /\ Intact(ledger)
            <4>1. ~ReferencedFailure /\ Complete /\ (scan.findings = {} <=> Clean(ledger))
                BY <2>4, <3>1, <3>7
            <4>2. Derived = IF scan.findings # {}
                            THEN Report(IF runs THEN "healthy_with_unreferenced_findings"
                                        ELSE "initialized_empty_with_unreferenced_findings", TRUE)
                            ELSE Report(IF runs THEN "healthy" ELSE "initialized_empty", TRUE)
                BY <2>3, <3>1, <3>7, <4>1 DEF Derived
            <4>. QED BY <3>2, <3>3, <3>4, <3>7, <4>1, <4>2
        <3>. QED BY <3>5, <3>6, <3>7
    <2>6. CASE ~Regular(seen["database"])
        <3>1. scan.snapshot = {} BY <1>0, <1>1, <2>6 DEF SameInv, Scanning
        <3>2. report' = DerivedWithoutDatabase BY <1>1, <2>1, <2>6
        <3>3. Kind("database") \in {"missing", "other"}
            BY <1>0, <2>3, <2>6 DEF Regular, DiskType, Entry, Kinds, Paths, Kind
        <3>4. \A s : Refused(s).state = s BY DEF Report, Refused
        <3>5. CASE Kind("database") = "other"
            BY <1>0, <2>2, <2>3, <3>2, <3>4, <3>5, TruthCases DEF DerivedWithoutDatabase
        <3>6. CASE Kind("database") = "missing"
            <4>1. Truth = IF Entries = {} /\ Kind("artifacts") # "other" /\ Kind("sidecar") = "missing"
                          THEN "uninitialized" ELSE "database_missing_with_artifacts"
                BY <1>0, <2>2, <3>6, TruthCases
            <4>2. seen["sidecar"] = Missing <=> Kind("sidecar") = "missing"
                BY <1>0, <2>3 DEF TreeInv, Kind, Missing, Paths
            <4>3. Intact(scan.snapshot) /\ (Clean(scan.snapshot) <=> Entries = {})
                BY <3>1 DEF Intact, Whole, Clean, Closure
            <4>4. Kind("artifacts") # "other" => (scan.findings = {} <=> Entries = {})
                BY <2>4, <4>3
            <4>5. DerivedWithoutDatabase =
                    IF scan.findings # {} \/ Kind("artifacts") = "other" \/ Kind("sidecar") # "missing"
                    THEN Refused("database_missing_with_artifacts") ELSE Refused("uninitialized")
                BY <2>3, <3>6, <4>2 DEF DerivedWithoutDatabase
            <4>. QED BY <3>2, <3>4, <4>1, <4>4, <4>5
        <3>. QED BY <3>3, <3>5, <3>6
    <2>. QED BY <2>5, <2>6
<1>. QED BY <1>2, <1>4, <1>5, <1>6, <1>7, <1>8, <1>9, <1>10, <1>11 DEF IInv

-----------------------------------------------------------------------------
(* Theorems. *)

(* The invariant holds at first. *)
LEMMA IInvInit == Init => IInv
<1>. SUFFICES ASSUME Init PROVE IInv OBVIOUS
<1>1. /\ Missing \in Entry /\ Missing.kind = "missing" /\ "artifacts" \in Paths
      /\ \A p \in Paths : NothingSeen[p] = Missing
    BY LimitTypes DEF Missing, Entry, Kinds, Paths, NothingSeen
<1>2. NothingSeen \in [Paths -> Entry] BY <1>1 DEF NothingSeen
<1>3. /\ scan.snapshot = {} /\ scan.pending = {} /\ scan.listing = {} /\ scan.findings = {}
      /\ scan.reached = {} /\ scan.verified = {} /\ scan.reads = [d \in Digests |-> "unread"]
    BY DEF Init, NoScan
<1>4. scan \in Scans BY NoScanType DEF Init
<1>5. report \in [state : States, verified : BOOLEAN, initialize : BOOLEAN]
    BY RefusedType DEF Init, States
<1>6. DiskType
    <2>1. tree \in [Paths -> Entry] BY <1>2 DEF Init
    <2>2. blob \in [Digests -> {"none", "good", "bad", "odd"}] BY DEF Init
    <2>3. inodes \in 0..MaxInodes /\ damage \in Nat BY LimitTypes DEF Init
    <2>4. /\ temps \subseteq Digests /\ strays \subseteq Strays /\ published \subseteq Digests
          /\ ledger \subseteq Bindings /\ runs \in BOOLEAN
        BY DEF Init
    <2>. QED BY <2>1, <2>2, <2>3, <2>4 DEF DiskType
<1>7. AuditType BY <1>2, <1>4, <1>5 DEF Init, AuditType, Labels
<1>8. TreeInv BY <1>1 DEF Init, TreeInv, Kind
<1>9. StepInv BY <1>3 DEF Init, StepInv, Looking, Scanning
<1>10. CoverInv /\ WithinInv /\ OrphanInv BY <1>3 DEF CoverInv, WithinInv, OrphanInv
<1>11. LostInv BY <1>3 DEF Init, LostInv
<1>12. StoreInv BY <1>1, <1>3 DEF Init, StoreInv, Closure, Kind
<1>13. BlameInv BY <1>3 DEF Init, BlameInv
<1>14. GateInv /\ SameInv /\ QuietInv /\ IntactNotBlamed /\ ExactWhenAlone
    BY DEF Init, GateInv, SameInv, QuietInv, Quiet, Scanning, IntactNotBlamed, ExactWhenAlone
<1>. QED BY <1>6, <1>7, <1>8, <1>9, <1>10, <1>11, <1>12, <1>13, <1>14 DEF IInv

(* Every step keeps it. *)
LEMMA IInvStep == IInv /\ [Next]_vars => IInv'
<1>. SUFFICES ASSUME IInv, [Next]_vars PROVE IInv' OBVIOUS
<1>1. CASE World BY <1>1, WorldInv
<1>2. CASE Audit
    BY <1>2, BeginStep, StateMissingStep, ObserveStep, OpenStep, OpenStoreStep, InventoryStep,
       AuditedStep, RecheckStep, ReturnStep, WalkStep, InspectStep
    DEF Audit
<1>3. CASE UNCHANGED vars
    <2>1. UNCHANGED <<tree, blob, temps, strays, ledger, runs, published, inodes, damage, pc, seen,
                      scan, report, lost, calm, faulty>>
        BY <1>3 DEF vars, diskVars, auditVars, pathVars, storeVars, ledgerVars
    <2>2. DiskType' /\ AuditType' /\ TreeInv' /\ StepInv'
        BY <2>1 DEF IInv, DiskType, AuditType, TreeInv, Kind, StepInv
    <2>3. CoverInv' /\ WithinInv' /\ LostInv' /\ OrphanInv' /\ GateInv'
        BY <2>1 DEF IInv, CoverInv, Covered, Blocked, Blocking, WithinInv, Closure, LostInv,
                    OrphanInv, GateInv
    <2>4. StoreInv' /\ BlameInv'
        BY <2>1 DEF IInv, StoreInv, Closure, Kind, BlameInv, Blameless, LimitMet, Whole
    <2>5. SameInv' BY <2>1 DEF IInv, SameInv, Same, Kind
    <2>6. QuietInv'
        <3>1. Quiet' <=> Quiet BY <2>1 DEF Quiet, LimitMet
        <3>2. Entries' = Entries BY <2>1 DEF Entries
        <3>3. Closure(scan.snapshot)' = Closure(scan.snapshot) BY <2>1 DEF Closure
        <3>4. Intact(scan.snapshot)' <=> Intact(scan.snapshot) BY <2>1, <3>3 DEF Intact, Whole
        <3>5. Clean(scan.snapshot)' <=> Clean(scan.snapshot) BY <3>2, <3>3 DEF Clean
        <3>6. QuietInv BY DEF IInv
        <3>. QED BY <2>1, <3>1, <3>2, <3>4, <3>5, <3>6 DEF QuietInv
    <2>7. IntactNotBlamed' BY <2>1 DEF IInv, IntactNotBlamed, LimitMet
    <2>8. ExactWhenAlone'
        <3>1. Truth' = Truth
            BY <1>3, TruthFrame DEF vars
        <3>. QED BY <2>1, <3>1 DEF IInv, ExactWhenAlone, LimitMet
    <2>. QED BY <2>2, <2>3, <2>4, <2>5, <2>6, <2>7, <2>8 DEF IInv
<1>. QED BY <1>1, <1>2, <1>3 DEF Next

(* The invariant holds in every behaviour. *)
LEMMA AuditInvariant == Spec => []IInv
BY IInvInit, IInvStep, PTL DEF Spec

(* Type correctness of the audit and of the state directory. *)
THEOREM AuditTypeCorrect == Spec => []TypeOK
<1>1. IInv => TypeOK
    BY DEF IInv, DiskType, AuditType, WithinInv, Entry, Kinds, Scans, TypeOK
<1>. QED BY <1>1, AuditInvariant, PTL

(* A report that opens the gates is sound for its ledger snapshot: what is *)
(* reachable has been intact since the audit began, and is not offered for *)
(* quarantine (references_verified, quarantine_allowed).                   *)
THEOREM GatesSound == Spec => []AuditSound
<1>1. ASSUME IInv PROVE AuditSound
    <2>. SUFFICES ASSUME pc = "done", report.verified
                  PROVE  Closure(scan.snapshot) \cap (lost \cup Orphans) = {}
        BY DEF AuditSound
    <2>1. ~Blocked /\ scan.verified = scan.reached BY <1>1 DEF IInv, GateInv
    <2>2. Closure(scan.snapshot) \subseteq scan.reached
        BY <1>1, <2>1, CoverClosure DEF IInv, StepInv
    <2>3. scan.reached \cap lost = {} BY <1>1, <2>1 DEF IInv, LostInv
    <2>4. scan.reached \cap Orphans = {} BY <1>1 DEF IInv, OrphanInv, OrphanKinds, Orphans
    <2>. QED BY <2>2, <2>3, <2>4
<1>2. IInv => AuditSound BY <1>1
<1>. QED BY <1>2, AuditInvariant, PTL

(* Runners that publish and commit during an audit do not pass for damage. *)
THEOREM WritersNotBlamed == Spec => []IntactNotBlamed
<1>1. IInv => IntactNotBlamed BY DEF IInv
<1>. QED BY <1>1, AuditInvariant, PTL

(* An audit in a quiet window classifies the state directory as it is.     *)
THEOREM AuditExact == Spec => []ExactWhenAlone
<1>1. IInv => ExactWhenAlone BY DEF IInv
<1>. QED BY <1>1, AuditInvariant, PTL

=============================================================================
