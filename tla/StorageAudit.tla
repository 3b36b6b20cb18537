---------------------------- MODULE StorageAudit ----------------------------
(***************************************************************************)
(* audit_storage (storage/coordinator.py) and audit_artifact_store         *)
(* (storage/integrity.py): one reader that looks at the paths of a state   *)
(* directory, takes a snapshot of the ledger, reads every artifact that is *)
(* reachable from it, lists the store, looks at the paths again and        *)
(* derives a state and the gates of later operations.  Runners go on       *)
(* publishing and committing meanwhile (recovery audits under a shared     *)
(* lease, the campaign under none), and others may damage files or         *)
(* replace paths.                                                          *)
(*                                                                         *)
(* The ledger is the set of references that runs bind.  The entries of all *)
(* shards are one directory, and the three sidecars one path.  Damaged     *)
(* bytes have their old length.                                            *)
(***************************************************************************)
EXTENDS Naturals, FiniteSets

CONSTANTS
    Digests,     \* content digests; a digest stands for its bytes
    Children,    \* the references inside a task spec or an evaluation
    Defect,      \* what is wrong with it: none, mismatched or malformed
    Bindings,    \* the references that runs may bind: a role and a digest
    HashBudget,  \* files the audit may hash, _MAX_TOTAL_HASHED_BYTES
    NodeLimit,   \* references it may follow, _MAX_REACHABLE_REFERENCES
    EntryLimit,  \* entries it may list, _MAX_INVENTORY_ENTRIES
    MaxInodes,   \* bound: paths that are created
    MaxDamage    \* bound: acts of damage

Roles == {"plain", "structured"}
ASSUME ReferenceTypes ==
    /\ Children \in [Digests -> SUBSET Digests]
    /\ Defect \in [Digests -> {"none", "mismatched", "malformed"}]
    /\ Bindings \subseteq Roles \X Digests
ASSUME LimitTypes == {HashBudget, NodeLimit, EntryLimit, MaxInodes, MaxDamage} \subseteq Nat

VARIABLES
    tree,       \* what lstat shows at each path
    blob,       \* file at a canonical name: none, good, bad or odd (a link, a special file)
    temps,      \* temporaries of the live writer
    strays,     \* entries nobody owns: left temporaries, foreign names
    ledger,     \* references bound by the runs
    runs,       \* whether there is a run
    writer,     \* what the runner has open: idle, store or ledger
    published,  \* digests whose reference was returned
    inodes,     \* inode numbers given out
    damage,     \* acts of damage so far
    pc,         \* the next step of the audit
    seen,       \* its first observation of each path
    scan,       \* its locals
    report,     \* its report
    lost,       \* history: digests that were not intact when it began
    calm,       \* history: nothing has changed since it began
    faulty      \* history: it met an I/O error

pathVars == <<tree, inodes>>
storeVars == <<blob, temps, strays, published>>
ledgerVars == <<ledger, runs>>
diskVars == <<pathVars, storeVars, ledgerVars, writer, damage>>
auditVars == <<pc, seen, scan, report, faulty>>
vars == <<diskVars, auditVars, lost, calm>>

Paths == {"state", "database", "artifacts", "sidecar"}
Missing == [kind |-> "missing", inode |-> 0]
NothingSeen == [p \in Paths |-> Missing]
Kind(p) == tree[p].kind
Fresh(kind) == [kind |-> kind, inode |-> inodes + 1]

Report(state, verified) ==
    [state |-> state, verified |-> verified, initialize |-> state = "uninitialized"]
Refused(state) == Report(state, FALSE)

NoScan ==
    [snapshot |-> {}, runs |-> FALSE, pending |-> {}, nodes |-> 0, used |-> 0,
     reads |-> [d \in Digests |-> "unread"], reached |-> {}, verified |-> {},
     listing |-> {}, observed |-> {}, findings |-> {}]

Init ==
    /\ tree = NothingSeen
    /\ blob = [d \in Digests |-> "none"]
    /\ temps = {} /\ strays = {} /\ ledger = {} /\ runs = FALSE
    /\ writer = "idle" /\ published = {} /\ inodes = 0 /\ damage = 0
    /\ pc = "idle" /\ seen = NothingSeen /\ scan = NoScan /\ report = Refused("none")
    /\ lost = {} /\ calm = TRUE /\ faulty = FALSE

-----------------------------------------------------------------------------
(* The runners and the rest of the world.  *)

\* Nothing happens between the end of an audit and the use of its report.
Elsewhere == pc # "done" /\ calm' = (pc = "idle") /\ UNCHANGED auditVars
Make(p, kind) ==
    /\ inodes < MaxInodes
    /\ tree' = [tree EXCEPT ![p] = Fresh(kind)]
    /\ inodes' = inodes + 1

CreateState ==
    /\ Kind("state") = "missing" /\ Make("state", "proper")
    /\ Elsewhere
    /\ UNCHANGED <<storeVars, ledgerVars, writer, damage, lost>>

\* FixtureRunner opens the store, publishes, and only then opens the ledger.
WriterOpens ==
    /\ writer = "idle" /\ Kind("state") = "proper"
    /\ \/ Kind("artifacts") = "missing" /\ Make("artifacts", "proper")
       \/ Kind("artifacts") = "proper" /\ UNCHANGED pathVars
    /\ writer' = "store"
    /\ Elsewhere
    /\ UNCHANGED <<storeVars, ledgerVars, damage, lost>>

MakeTemp(d) ==
    /\ writer # "idle" /\ Kind("artifacts") = "proper" /\ temps = {}
    /\ temps' = {d}
    /\ Elsewhere
    /\ UNCHANGED <<pathVars, blob, strays, ledgerVars, writer, published, damage, lost>>
Publish(d) ==
    /\ d \in temps /\ blob[d] \in {"none", "good"}
    /\ temps' = {}
    /\ blob' = [blob EXCEPT ![d] = "good"]
    /\ published' = published \cup {d}
    /\ lost' = lost \ {d}
    /\ Elsewhere
    /\ UNCHANGED <<pathVars, strays, ledgerVars, writer, damage>>

\* EventStore: the database and its sidecars are made if need be.
WriterOpensLedger ==
    /\ writer = "store" /\ Kind("state") = "proper"
    /\ {Kind("database"), Kind("sidecar")} \subseteq {"missing", "proper"}
    /\ \/ Kind("database") = "missing" /\ Make("database", "proper") /\ UNCHANGED writer
       \/ Kind("database") = "proper" /\ Kind("sidecar") = "missing" /\ Make("sidecar", "proper")
          /\ writer' = "ledger"
       \/ Kind("database") = "proper" /\ Kind("sidecar") = "proper" /\ writer' = "ledger"
          /\ UNCHANGED pathVars
    /\ Elsewhere
    /\ UNCHANGED <<storeVars, ledgerVars, damage, lost>>
CreateRun ==
    /\ writer = "ledger" /\ ~runs
    /\ runs' = TRUE
    /\ Elsewhere
    /\ UNCHANGED <<pathVars, storeVars, ledger, writer, damage, lost>>
\* Mutant: references are bound while their artifacts are being published.
BindEarly(b) ==
    /\ writer = "ledger" /\ runs /\ b \notin ledger
    /\ ledger' = ledger \cup {b}
    /\ Elsewhere
    /\ UNCHANGED <<pathVars, storeVars, runs, writer, damage, lost>>
Bind(b) ==
    /\ writer = "ledger" /\ runs
    /\ b \notin ledger /\ {b[2]} \cup Children[b[2]] \subseteq published
    /\ ledger' = ledger \cup {b}
    /\ Elsewhere
    /\ UNCHANGED <<pathVars, storeVars, runs, writer, damage, lost>>

\* The last close of the database removes its sidecars; a crash leaves them,
\* and a temporary.
WriterCloses ==
    /\ writer = "ledger" /\ temps = {}
    /\ tree' = [tree EXCEPT !["sidecar"] = Missing]
    /\ writer' = "idle"
    /\ Elsewhere
    /\ UNCHANGED <<storeVars, ledgerVars, inodes, damage, lost>>
WriterCrashes ==
    /\ writer # "idle"
    /\ writer' = "idle" /\ temps' = {}
    /\ strays' = strays \cup (IF temps = {} THEN {} ELSE {"temp"})
    /\ Elsewhere
    /\ UNCHANGED <<pathVars, blob, ledgerVars, published, damage, lost>>

Harm == damage < MaxDamage /\ damage' = damage + 1 /\ Elsewhere
DamageBlob(d, to) ==
    /\ blob[d] # "none"
    /\ blob' = [blob EXCEPT ![d] = to]
    /\ Harm
    /\ UNCHANGED <<pathVars, temps, strays, ledgerVars, writer, published, lost>>
AddStray ==
    /\ Kind("artifacts") = "proper"
    /\ strays' = strays \cup {"foreign"}
    /\ Harm
    /\ UNCHANGED <<pathVars, blob, temps, ledgerVars, writer, published, lost>>

\* A path is removed or replaced, with what is below it.
Below(p) == IF p = "state" THEN Paths ELSE {p}
ReplacePath(p, kind) ==
    /\ Kind(p) # "missing" /\ (kind = "missing" \/ inodes < MaxInodes)
    /\ tree' = [q \in Paths |-> IF q = p /\ kind # "missing" THEN Fresh(kind)
                                ELSE IF q \in Below(p) THEN Missing ELSE tree[q]]
    /\ inodes' = IF kind = "missing" THEN inodes ELSE inodes + 1
    /\ IF p \in {"state", "artifacts"}
         THEN blob' = [d \in Digests |-> "none"] /\ strays' = {}
         ELSE UNCHANGED <<blob, strays>>
    /\ IF p \in {"state", "database"}
         THEN ledger' = {} /\ runs' = FALSE
         ELSE UNCHANGED ledgerVars
    /\ temps' = {} /\ writer' = "idle"
    /\ Harm
    /\ UNCHANGED <<published, lost>>

World ==
    \/ CreateState \/ WriterOpens \/ WriterOpensLedger \/ CreateRun
    \/ WriterCloses \/ WriterCrashes \/ AddStray
    \/ \E d \in Digests :
          MakeTemp(d) \/ Publish(d) \/ \E to \in {"none", "bad", "odd"} : DamageBlob(d, to)
    \/ \E b \in Bindings : Bind(b)
    \/ \E p \in Paths, kind \in {"missing", "other"} : ReplacePath(p, kind)
    \/ ReplacePath("database", "corrupt")

-----------------------------------------------------------------------------
(* The audit: the paths and the snapshot.  *)

Reading == UNCHANGED <<diskVars, lost, calm>>
Goto(label) == pc' = label /\ UNCHANGED report
Answer(r) == pc' = "done" /\ report' = r

\* What lstat tells apart: a corrupt database is a regular file.
Same(p) == tree[p] = seen[p]
Regular(entry) == entry.kind \in {"proper", "corrupt"}

Begin ==
    /\ pc = "idle"
    /\ seen' = [seen EXCEPT !["state"] = tree["state"]]
    /\ lost' = {d \in Digests : blob[d] # "good"}
    /\ CASE Kind("state") = "missing" -> Goto("missing")
         [] Kind("state") = "proper" -> Goto("database")
         [] OTHER -> Answer(Refused("database_invalid"))
    /\ UNCHANGED <<diskVars, scan, calm, faulty>>

StateMissing ==
    /\ pc = "missing"
    /\ Answer(Refused(IF Same("state") THEN "uninitialized" ELSE "database_invalid"))
    /\ UNCHANGED <<seen, scan, faulty>> /\ Reading

Observe(p, next) ==
    /\ pc = p
    /\ seen' = [seen EXCEPT ![p] = tree[p]]
    /\ Goto(next)
    /\ UNCHANGED <<scan, faulty>> /\ Reading
ObservePaths ==
    \/ Observe("database", "artifacts") \/ Observe("artifacts", "sidecar")
    \/ Observe("sidecar", "open")

Finding(kind, d) == [kind |-> kind, digest |-> d, owned |-> TRUE]
Unowned(kind, x) == [kind |-> kind, digest |-> x, owned |-> FALSE]
ScanError == Unowned("scan_error", ".")

\* _audit_without_database and the cases of _audit_for_snapshot, for the
\* store as it was observed: absent, not a directory, or to be walked.
Store(snapshot, some) ==
    LET direct == {b[2] : b \in snapshot}
        start == [NoScan EXCEPT !.snapshot = snapshot, !.runs = some] IN
    CASE seen["artifacts"].kind = "missing" ->
            /\ scan' = [start EXCEPT !.reached = direct,
                                     !.findings = {Finding("missing_referenced", d) : d \in direct}]
            /\ Goto("recheck")
      [] seen["artifacts"].kind = "other" ->
            scan' = [start EXCEPT !.findings = {ScanError}] /\ Goto("recheck")
      [] OTHER -> scan' = [start EXCEPT !.pending = snapshot] /\ Goto("store")

NoLedger ==
    /\ pc = "open" /\ ~Regular(seen["database"])
    /\ Store({}, FALSE)
    /\ UNCHANGED <<seen, faulty>> /\ Reading

\* open_existing_read_only, verified_snapshot and the first comparison of
\* the paths: one consistent read, or an error.
Readable ==
    Same("state") /\ Same("database") /\ Kind("database") = "proper" /\ Kind("sidecar") # "other"
Snapshot ==
    /\ pc = "open" /\ Regular(seen["database"])
    /\ IF Readable THEN Store(ledger, runs)
                   ELSE Answer(Refused("database_invalid")) /\ UNCHANGED scan
    /\ UNCHANGED <<seen, faulty>> /\ Reading
SnapshotFails ==
    /\ pc = "open" /\ Regular(seen["database"]) /\ ~faulty
    /\ faulty' = TRUE
    /\ Answer(Refused("database_invalid"))
    /\ UNCHANGED <<seen, scan>> /\ Reading

\* FileArtifactStore.open_existing_read_only, verify_root_identity and
\* _validate_store_root.
OpenStore ==
    /\ pc = "store"
    /\ IF Kind("artifacts") = "proper"
         THEN Goto("walk") /\ UNCHANGED scan
         ELSE /\ scan' = [scan EXCEPT !.findings = {ScanError}, !.pending = {}]
              /\ Goto("recheck")
    /\ UNCHANGED <<seen, faulty>> /\ Reading

-----------------------------------------------------------------------------
(* The audit: reachable references.  *)

Fits == scan.used < HashBudget
Hashed(d) == blob[d] \in {"good", "bad"} /\ Fits

\* _read_reference
ReadReference(d, capture) ==
    IF blob[d] = "none" THEN "missing_referenced"
    ELSE IF blob[d] = "odd" THEN "special_file"
    ELSE IF ~Fits THEN "limit_exceeded"
    ELSE IF blob[d] = "bad" THEN "corrupt_referenced"
    ELSE IF capture THEN "captured" ELSE "ok"

\* Mutant: a structured artifact that was read before is not read again.
NeedsReadOnce(d, capture) == scan.reads[d] = "unread"
NeedsRead(d, capture) ==
    scan.reads[d] = "unread" \/ (capture /\ scan.reads[d] = "ok")

\* One reference of the queue with the outcome of its read: what could not
\* be read is a finding of its owner; a structured artifact is parsed,
\* compared with its run, and its references join the queue.
Follow(b, got, used) ==
    LET d == b[2]
        read == got \in {"ok", "captured"}
        parsed == got = "captured" /\ b[1] = "structured" IN
    scan' = [scan EXCEPT
        !.nodes = @ + 1,
        !.used = used,
        !.reads = [@ EXCEPT ![d] = got],
        !.reached = @ \cup {d},
        !.verified = @ \cup (IF read THEN {d} ELSE {}),
        !.findings = @ \cup (IF ~read THEN {Finding(got, d)} ELSE {})
                       \cup (IF b[1] = "structured" /\ read /\ (~parsed \/ Defect[d] # "none")
                             THEN {Finding("corrupt_referenced", d)} ELSE {}),
        !.pending = (@ \ {b}) \cup
            (IF parsed /\ Defect[d] # "malformed" THEN {"plain"} \X Children[d] ELSE {})]

Walk(b) ==
    LET d == b[2]
        capture == b[1] = "structured" IN
    /\ pc = "walk" /\ b \in scan.pending
    /\ IF scan.nodes = NodeLimit
         THEN scan' = [scan EXCEPT !.pending = {},
                                   !.findings = @ \cup {Unowned("limit_exceeded", ".")}]
       ELSE IF NeedsRead(d, capture)
         THEN Follow(b, ReadReference(d, capture), scan.used + IF Hashed(d) THEN 1 ELSE 0)
         ELSE Follow(b, scan.reads[d], scan.used)
    /\ Goto("walk")
    /\ UNCHANGED <<seen, faulty>> /\ Reading
WalkFails(b) ==
    /\ pc = "walk" /\ b \in scan.pending /\ ~faulty
    /\ scan.nodes < NodeLimit /\ NeedsRead(b[2], b[1] = "structured")
    /\ faulty' = TRUE
    /\ Follow(b, "corrupt_referenced", scan.used)
    /\ Goto("walk")
    /\ UNCHANGED seen /\ Reading

-----------------------------------------------------------------------------
(* The audit: the inventory.  *)

Entries ==
    ({"blob"} \X {d \in Digests : blob[d] # "none"}) \cup ({"temp"} \X temps)
        \cup ({"stray"} \X strays)

List(entries, findings) ==
    /\ pc = "walk" /\ scan.pending = {}
    /\ scan' = [scan EXCEPT !.listing = entries, !.findings = @ \cup findings]
    /\ Goto("inspect")

\* _scan_directory
Inventory ==
    /\ IF Kind("artifacts") # "proper" THEN List({}, {ScanError})
       ELSE IF Cardinality(Entries) > EntryLimit
         THEN List({}, {Unowned("limit_exceeded", "inventory")})
         ELSE List(Entries, {})
    /\ UNCHANGED <<seen, faulty>> /\ Reading
InventoryFails ==
    /\ ~faulty /\ faulty' = TRUE
    /\ List({}, {ScanError})
    /\ UNCHANGED seen /\ Reading

\* _inventory_shard: an entry that is not a reachable artifact is a finding.
Classify(entry) ==
    LET d == entry[2] IN
    IF entry \notin Entries THEN {Unowned("scan_error", d)}
    ELSE IF entry[1] = "temp" \/ entry = <<"stray", "temp">> THEN {Unowned("temp_orphan", d)}
    ELSE IF entry[1] = "stray" THEN {Unowned("noncanonical_entry", d)}
    ELSE IF blob[d] = "odd"
      THEN {IF d \in scan.reached THEN Finding("special_file", d) ELSE Unowned("special_file", d)}
    ELSE IF d \in scan.reached THEN {}
    ELSE IF ~Fits THEN {Unowned("limit_exceeded", d)}
    ELSE {Unowned(IF blob[d] = "good" THEN "valid_finalized_orphan"
                                      ELSE "corrupt_finalized_orphan", d)}

Inspect(entry) ==
    LET reachable == entry[1] = "blob" /\ entry[2] \in scan.reached
        there == entry \in Entries IN
    /\ pc = "inspect" /\ entry \in scan.listing
    /\ scan' = [scan EXCEPT
          !.listing = @ \ {entry},
          !.findings = @ \cup Classify(entry),
          !.observed = @ \cup (IF reachable /\ there /\ blob[entry[2]] # "odd" THEN {entry[2]} ELSE {}),
          !.used = @ + (IF entry[1] = "blob" /\ ~reachable /\ there /\ Hashed(entry[2])
                        THEN 1 ELSE 0)]
    /\ Goto("inspect")
    /\ UNCHANGED <<seen, faulty>> /\ Reading

\* The rest of audit_artifact_store, and the look at the store's root.
Audited ==
    /\ pc = "inspect" /\ scan.listing = {}
    /\ scan' = IF Same("artifacts")
               THEN [scan EXCEPT !.findings = @ \cup
                        {Finding("corrupt_referenced", d) : d \in scan.reached \ scan.observed}]
               ELSE [scan EXCEPT !.findings = {ScanError}, !.reached = {}, !.verified = {}]
    /\ Goto("recheck")
    /\ UNCHANGED <<seen, faulty>> /\ Reading

-----------------------------------------------------------------------------
(* The report.  *)

\* Mutant: limits that were met do not make an audit incomplete.
CompleteWithinLimits == \A f \in scan.findings : f.kind # "scan_error"
Complete == \A f \in scan.findings : f.kind \notin {"scan_error", "limit_exceeded"}
ReferencedFailure == (\E f \in scan.findings : f.owned) \/ scan.verified # scan.reached

\* _derive_report over a database that has been read.
Derived ==
    IF seen["artifacts"].kind = "other" THEN Refused("audit_incomplete")
    ELSE IF ReferencedFailure THEN Refused("referenced_evidence_invalid")
    ELSE IF ~Complete THEN Refused("audit_incomplete")
    ELSE IF scan.findings # {}
      THEN Report(IF scan.runs THEN "healthy_with_unreferenced_findings"
                  ELSE "initialized_empty_with_unreferenced_findings", TRUE)
    ELSE Report(IF scan.runs THEN "healthy" ELSE "initialized_empty", TRUE)

\* _derive_report without one.
DerivedWithoutDatabase ==
    IF seen["database"].kind = "other" THEN Refused("database_invalid")
    ELSE IF scan.findings # {} \/ seen["artifacts"].kind = "other" \/ seen["sidecar"] # Missing
      THEN Refused("database_missing_with_artifacts") ELSE Refused("uninitialized")

\* _unstable_report
Unstable ==
    IF Kind("state") = "proper" /\ Kind("database") = "missing"
    THEN Refused("database_missing_with_artifacts") ELSE Refused("database_invalid")

\* _require_same_path, _paths_are_unchanged
Unchanged == \A p \in Paths : Same(p)

Return ==
    /\ pc = "done"
    /\ pc' = "idle" /\ seen' = NothingSeen /\ scan' = NoScan /\ report' = Refused("none")
    /\ lost' = {} /\ calm' = TRUE /\ faulty' = FALSE
    /\ UNCHANGED diskVars

\* The last look at the paths, one after the other in the code, is one step.
Recheck ==
    /\ pc = "recheck"
    /\ Answer(IF Regular(seen["database"])
              THEN IF Unchanged THEN Derived ELSE Refused("database_invalid")
              ELSE IF Unchanged THEN DerivedWithoutDatabase ELSE Unstable)
    /\ UNCHANGED <<seen, scan, faulty>> /\ Reading

Audit ==
    \/ Begin \/ StateMissing \/ ObservePaths \/ NoLedger \/ Snapshot \/ SnapshotFails
    \/ OpenStore \/ Inventory \/ InventoryFails \/ Audited \/ Recheck \/ Return
    \/ \E b \in scan.pending : Walk(b) \/ WalkFails(b)
    \/ \E entry \in scan.listing : Inspect(entry)

Next == World \/ Audit
Spec == Init /\ [][Next]_vars

-----------------------------------------------------------------------------
(* Properties. *)

States == {"none", "uninitialized", "database_missing_with_artifacts", "database_invalid",
           "initialized_empty", "initialized_empty_with_unreferenced_findings",
           "audit_incomplete", "referenced_evidence_invalid",
           "healthy_with_unreferenced_findings", "healthy"}

TypeOK ==
    /\ tree \in [Paths -> [kind : {"missing", "proper", "other", "corrupt"}, inode : 0..MaxInodes]]
    /\ blob \in [Digests -> {"none", "good", "bad", "odd"}]
    /\ ledger \subseteq Bindings /\ runs \in BOOLEAN
    /\ scan.snapshot \subseteq Bindings /\ scan.verified \subseteq scan.reached
    /\ scan.reached \subseteq Digests /\ scan.nodes <= NodeLimit /\ scan.used <= HashBudget
    /\ report \in [state : States, verified : BOOLEAN, initialize : BOOLEAN]

\* Everything that is reachable from a set of references.
Closure(bs) ==
    {b[2] : b \in bs} \cup UNION {Children[b[2]] : b \in {x \in bs : x[1] = "structured"}}

LimitMet == \E f \in scan.findings : f.kind = "limit_exceeded"
Orphans ==
    {f.digest : f \in {g \in scan.findings :
                          g.kind \in {"valid_finalized_orphan", "corrupt_finalized_orphan"}}}

(* A report that opens the gates is sound for the ledger snapshot it binds, *)
(* whatever was published, committed or damaged while it was made: every   *)
(* reachable artifact that was not intact when the audit began has been    *)
(* published since, and no reachable artifact is listed as an orphan for   *)
(* quarantine, also when a limit was met (references_verified,             *)
(* quarantine_allowed).                                                    *)
AuditSound ==
    pc = "done" /\ report.verified =>
        Closure(scan.snapshot) \cap (lost \cup Orphans) = {}

(* Runners that come, publish, commit and go during an audit are never     *)
(* taken for damage: without damage, I/O errors, limits or defective       *)
(* records, no audit says that referenced evidence is invalid.             *)
IntactNotBlamed ==
    pc = "done" /\ damage = 0 /\ ~faulty /\ ~LimitMet
        /\ (\A b \in scan.snapshot : b[1] = "structured" => Defect[b[2]] = "none")
        => report.state # "referenced_evidence_invalid"

\* The classification of a state directory, by definition.
Truth ==
    LET whole == \A b \in ledger : b[1] = "structured" => Defect[b[2]] = "none"
        intact == whole /\ \A d \in Closure(ledger) : blob[d] = "good"
        clean == Entries \subseteq {"blob"} \X Closure(ledger) IN
    CASE Kind("state") = "missing" -> "uninitialized"
      [] Kind("state") = "other" -> "database_invalid"
      [] Kind("state") = "proper" /\ Kind("database") = "missing" ->
            IF Entries = {} /\ Kind("artifacts") # "other" /\ Kind("sidecar") = "missing"
            THEN "uninitialized" ELSE "database_missing_with_artifacts"
      [] OTHER ->
            IF Kind("database") # "proper" \/ Kind("sidecar") = "other" THEN "database_invalid"
            ELSE IF Kind("artifacts") = "other" THEN "audit_incomplete"
            ELSE IF ~intact THEN "referenced_evidence_invalid"
            ELSE IF clean THEN IF runs THEN "healthy" ELSE "initialized_empty"
            ELSE IF runs THEN "healthy_with_unreferenced_findings"
            ELSE "initialized_empty_with_unreferenced_findings"

(* An audit in a quiet window classifies the state directory as it is:     *)
(* step by step it computes what Truth says in one step, which is what     *)
(* recovery and quarantine rely on under an exclusive lease.               *)
ExactWhenAlone ==
    pc = "done" /\ calm /\ ~faulty /\ ~LimitMet => report.state = Truth

=============================================================================
