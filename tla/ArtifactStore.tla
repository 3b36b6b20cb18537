--------------------------- MODULE ArtifactStore ---------------------------
(***************************************************************************)
(* Publication in the content-addressed store (storage/artifacts.py).  Many *)
(* processes publish blobs below artifacts/sha256/<prefix>/<digest>.  Each *)
(* writes, flushes and verifies a temporary file, renames it to an absent  *)
(* canonical name, flushes the directory, verifies the name and only then  *)
(* returns a reference.                                                    *)
(*                                                                         *)
(* A process may be killed between any two steps, and the host may lose    *)
(* power: then an entry whose directory was not flushed may be gone, and a *)
(* file that was not flushed may be torn.  Verification of a file is one   *)
(* step: it compares the file's identity before and after reading it.      *)
(***************************************************************************)
EXTENDS Naturals

CONSTANTS
    Publishers,  \* processes with an open store
    Digests,     \* content digests; a digest stands for its bytes
    Shards,      \* the two-digit prefix directories
    Shard        \* the shard of each digest

ASSUME ShardType == Shard \in [Digests -> Shards]
ASSUME ShardNames == Shards \cap {"artifacts", "sha256"} = {}

VARIABLES
    pc,        \* the next step of each publisher
    digest,    \* the digest it publishes
    temp,      \* its temporary file: none, partial, unsynced or good
    raising,   \* publishers with an exception on its way out through finally
    dirs,      \* directories that exist
    syncedDirs,\* directories whose entry in their parent is on disk
    blob,      \* file at the canonical name: none, unsynced, good or bad
    durable,   \* the canonical entry on disk
    contender, \* a verified temporary nobody owns any more: none, left, durable
    returned,  \* history: digests whose reference was returned
    denied,    \* history: digests refused because of an invalid canonical file
    damaged    \* history: digests whose canonical name was tampered with

vars == <<pc, digest, temp, raising, dirs, syncedDirs, blob, durable, contender,
          returned, denied, damaged>>
diskVars == <<dirs, syncedDirs, blob, durable>>
historyVars == <<returned, denied, damaged>>

Directories == {"artifacts", "sha256"} \cup Shards
Path(d) == {"artifacts", "sha256", Shard[d]}

InPut == {"mkdir_root", "sync_root", "mkdir_shard", "sync_sha256", "mktemp", "write", "fsync",
          "rename", "dedupe", "unlink", "sync_shard", "verify"}
Steps == {"closed", "mkdir_artifacts", "sync_base", "ready"} \cup InPut

Init ==
    /\ pc = [p \in Publishers |-> "closed"]
    /\ digest \in [Publishers -> Digests]
    /\ temp = [p \in Publishers |-> "none"]
    /\ raising = {}
    /\ dirs = {} /\ syncedDirs = {}
    /\ blob = [d \in Digests |-> "none"]
    /\ durable = [d \in Digests |-> "none"]
    /\ contender = [d \in Digests |-> "none"]
    /\ returned = {} /\ denied = {} /\ damaged = {}

Goto(p, label) == pc' = [pc EXCEPT ![p] = label]

-----------------------------------------------------------------------------
(* Directories: mkdir, or accept an existing one, then flush the parent.   *)

\* mkdir or an existing directory, then step label.
Mkdir(p, at, name, label) ==
    /\ pc[p] = at
    /\ dirs' = dirs \cup {name}
    /\ Goto(p, label)
    /\ UNCHANGED <<digest, temp, raising, syncedDirs, blob, durable, contender, historyVars>>

\* fsync of the parent of names, also for entries that already existed.
SyncParent(p, at, names, label) ==
    /\ pc[p] = at
    /\ syncedDirs' = syncedDirs \cup (dirs \cap names)
    /\ Goto(p, label)
    /\ UNCHANGED <<digest, temp, raising, dirs, blob, durable, contender, historyVars>>

\* FileArtifactStore.__init__ creates and flushes the root.
Open(p) ==
    /\ pc[p] = "closed"
    /\ Goto(p, "mkdir_artifacts")
    /\ UNCHANGED <<digest, temp, raising, diskVars, contender, historyVars>>
MakeRoot(p) == Mkdir(p, "mkdir_artifacts", "artifacts", "sync_base")
SyncBase(p) == SyncParent(p, "sync_base", {"artifacts"}, "ready")

\* put_bytes creates and flushes the two directories below the root.
Put(p, d) ==
    /\ pc[p] = "ready"
    /\ Goto(p, "mkdir_root")
    /\ digest' = [digest EXCEPT ![p] = d]
    /\ UNCHANGED <<temp, raising, diskVars, contender, historyVars>>
MakeSha256(p) == Mkdir(p, "mkdir_root", "sha256", "sync_root")
SyncRoot(p) == SyncParent(p, "sync_root", {"sha256"}, "mkdir_shard")
MakeShard(p) == Mkdir(p, "mkdir_shard", Shard[digest[p]], "sync_sha256")
SyncSha256(p) == SyncParent(p, "sync_sha256", Shards, "mktemp")

-----------------------------------------------------------------------------
(* _write_atomic *)

Write(p, at, content, label) ==
    /\ pc[p] = at
    /\ temp' = [temp EXCEPT ![p] = content]
    /\ Goto(p, label)
    /\ UNCHANGED <<digest, raising, diskVars, contender, historyVars>>

MakeTemp(p) == Write(p, "mktemp", "partial", "write")
WriteTemp(p) == Write(p, "write", "unsynced", "fsync")
SyncTemp(p) == Write(p, "fsync", "good", "rename")

\* Mutant: rename replaces an existing canonical file.
RenameReplaces(p) ==
    /\ pc[p] = "rename"
    /\ blob' = [blob EXCEPT ![digest[p]] = temp[p]]
    /\ temp' = [temp EXCEPT ![p] = "none"]
    /\ Goto(p, "unlink")
    /\ UNCHANGED <<digest, raising, dirs, syncedDirs, durable, contender, historyVars>>
\* _rename_noreplace: the publisher wins if the canonical name is absent.
Rename(p) ==
    /\ pc[p] = "rename"
    /\ IF blob[digest[p]] = "none"
         THEN /\ blob' = [blob EXCEPT ![digest[p]] = temp[p]]
              /\ temp' = [temp EXCEPT ![p] = "none"]
              /\ Goto(p, "unlink")
         ELSE /\ UNCHANGED <<blob, temp>>
              /\ Goto(p, "dedupe")
    /\ UNCHANGED <<digest, raising, dirs, syncedDirs, durable, contender, historyVars>>

\* _verify_path of the canonical name.
Valid(d) == blob[d] \in {"unsynced", "good"}

\* The loser accepts a valid winner; an invalid one is refused, and the
\* loser's temporary is preserved.
Dedupe(p) ==
    /\ pc[p] = "dedupe"
    /\ IF Valid(digest[p])
         THEN Goto(p, "unlink") /\ UNCHANGED raising
         ELSE Goto(p, "sync_shard") /\ raising' = raising \cup {p}
    /\ UNCHANGED <<digest, temp, diskVars, contender, historyVars>>

\* finally: unlink(missing_ok=True)
Unlink(p) == Write(p, "unlink", "none", "sync_shard")

\* A temporary that p has verified survives p.
Leave(p) ==
    IF temp[p] = "good" /\ contender[digest[p]] = "none"
    THEN [contender EXCEPT ![digest[p]] = "left"] ELSE contender

InShard(d, p) == Shard[d] = Shard[digest[p]]

\* finally: fsync of the shard, for whatever entries it has by now.  With an
\* exception on its way, publication ends here.
\* Mutants: the shard is not flushed; an entry preserved as evidence is not.
SyncShardSkipped(p) ==
    /\ pc[p] = "sync_shard" /\ p \notin raising
    /\ Goto(p, "verify")
    /\ UNCHANGED <<digest, temp, raising, diskVars, contender, historyVars>>
SyncShardEarly(p) ==
    /\ pc[p] = "sync_shard"
    /\ durable' = [d \in Digests |-> IF InShard(d, p) THEN blob[d] ELSE durable[d]]
    /\ contender' = Leave(p)
    /\ denied' = IF temp[p] = "none" THEN denied ELSE denied \cup {digest[p]}
    /\ temp' = [temp EXCEPT ![p] = "none"]
    /\ raising' = raising \ {p}
    /\ Goto(p, IF p \in raising THEN "ready" ELSE "verify")
    /\ UNCHANGED <<digest, dirs, syncedDirs, blob, returned, damaged>>
SyncShard(p) ==
    /\ pc[p] = "sync_shard"
    /\ durable' = [d \in Digests |-> IF InShard(d, p) THEN blob[d] ELSE durable[d]]
    /\ contender' = [d \in Digests |->
                        IF InShard(d, p) /\ Leave(p)[d] # "none" THEN "durable" ELSE contender[d]]
    /\ denied' = IF temp[p] = "none" THEN denied ELSE denied \cup {digest[p]}
    /\ temp' = [temp EXCEPT ![p] = "none"]
    /\ raising' = raising \ {p}
    /\ Goto(p, IF p \in raising THEN "ready" ELSE "verify")
    /\ UNCHANGED <<digest, dirs, syncedDirs, blob, returned, damaged>>

\* The last _verify_path, and the reference is returned or it raises.
Verify(p) ==
    /\ pc[p] = "verify"
    /\ returned' = IF Valid(digest[p]) THEN returned \cup {digest[p]} ELSE returned
    /\ Goto(p, "ready")
    /\ UNCHANGED <<digest, temp, raising, diskVars, contender, denied, damaged>>

\* An OSError: in the try block it passes through finally, elsewhere it ends
\* the operation at once, and a temporary that is still there stays.
Fail(p) ==
    /\ pc[p] \notin {"closed", "ready"}
    /\ IF pc[p] \in {"write", "fsync", "rename", "dedupe"}
         THEN /\ Goto(p, "unlink")
              /\ raising' = raising \cup {p}
              /\ UNCHANGED <<temp, contender>>
         ELSE /\ Goto(p, IF pc[p] \in InPut THEN "ready" ELSE "closed")
              /\ raising' = raising \ {p}
              /\ temp' = [temp EXCEPT ![p] = "none"]
              /\ contender' = Leave(p)
    /\ UNCHANGED <<digest, diskVars, historyVars>>

-----------------------------------------------------------------------------
(* The environment. *)

\* SIGKILL
Kill(p) ==
    /\ pc[p] # "closed"
    /\ Goto(p, "closed")
    /\ raising' = raising \ {p}
    /\ temp' = [temp EXCEPT ![p] = "none"]
    /\ contender' = Leave(p)
    /\ UNCHANGED <<digest, diskVars, historyVars>>

\* After a power loss a directory exists only below an existing one.
Reachable(ds) ==
    {x \in ds : x = "artifacts" \/ ("artifacts" \in ds /\ (x = "sha256" \/ "sha256" \in ds))}

\* What may be left of a file that was visible as now and on disk as disk.
AfterLoss(now, disk) ==
    {disk, now} \cup (IF now = "unsynced" THEN {"bad"} ELSE {})
                \cup (IF disk = "unsynced" THEN {"bad"} ELSE {})

PowerLoss ==
    \E kept \in SUBSET dirs :
        /\ syncedDirs \subseteq kept
        /\ dirs' = Reachable(kept) /\ syncedDirs' = Reachable(kept)
        /\ blob' \in [Digests -> {"none", "unsynced", "good", "bad"}]
        /\ \A d \in Digests :
              IF Path(d) \subseteq dirs' THEN blob'[d] \in AfterLoss(blob[d], durable[d])
                                         ELSE blob'[d] = "none"
        /\ durable' = blob'
        /\ contender' = [d \in Digests |->
               IF contender[d] = "durable" /\ Path(d) \subseteq dirs' THEN "durable" ELSE "none"]
        /\ pc' = [p \in Publishers |-> "closed"]
        /\ temp' = [p \in Publishers |-> "none"]
        /\ raising' = {}
        /\ UNCHANGED <<digest, historyVars>>

\* Something outside the protocol puts other bytes at a canonical name, for
\* good.
Damage(d) ==
    /\ Path(d) \subseteq syncedDirs
    /\ blob' = [blob EXCEPT ![d] = "bad"]
    /\ durable' = [durable EXCEPT ![d] = "bad"]
    /\ damaged' = damaged \cup {d}
    /\ UNCHANGED <<pc, digest, temp, raising, dirs, syncedDirs, contender, returned, denied>>

-----------------------------------------------------------------------------

Publish(p) ==
    \/ Open(p) \/ MakeRoot(p) \/ SyncBase(p)
    \/ \E d \in Digests : Put(p, d)
    \/ MakeSha256(p) \/ SyncRoot(p) \/ MakeShard(p) \/ SyncSha256(p)
    \/ MakeTemp(p) \/ WriteTemp(p) \/ SyncTemp(p) \/ Rename(p) \/ Dedupe(p)
    \/ Unlink(p) \/ SyncShard(p) \/ Verify(p) \/ Fail(p)

Next ==
    \/ \E p \in Publishers : Publish(p) \/ Kill(p)
    \/ \E d \in Digests : Damage(d)
    \/ PowerLoss

Spec == Init /\ [][Next]_vars

-----------------------------------------------------------------------------
(* Properties. *)

TypeOK ==
    /\ pc \in [Publishers -> Steps]
    /\ digest \in [Publishers -> Digests]
    /\ temp \in [Publishers -> {"none", "partial", "unsynced", "good"}]
    /\ raising \subseteq Publishers
    /\ dirs \subseteq Directories /\ syncedDirs \subseteq dirs
    /\ blob \in [Digests -> {"none", "unsynced", "good", "bad"}]
    /\ durable \in [Digests -> {"none", "unsynced", "good", "bad"}]
    /\ contender \in [Digests -> {"none", "left", "durable"}]
    /\ returned \subseteq Digests /\ denied \subseteq Digests /\ damaged \subseteq Digests

(* A returned reference names bytes that are on disk, with every directory *)
(* on the way: no kill and no power loss, of whichever publisher won the   *)
(* rename or created the directories, takes them away.                     *)
ReferenceDurable ==
    \A d \in returned \ damaged :
        blob[d] = "good" /\ durable[d] = "good" /\ Path(d) \subseteq syncedDirs

(* A canonical name never shows a torn file, wherever publication is cut   *)
(* off.                                                                    *)
CanonicalWhole == \A d \in Digests \ damaged : blob[d] \in {"none", "good"}

(* Publication never replaces what is at a canonical name: damaged bytes   *)
(* stay as evidence.                                                       *)
NeverReplaced ==
    [][\A d \in Digests : blob[d] = "bad" => blob'[d] = "bad"]_vars

(* When publication is refused because of an invalid canonical file, the   *)
(* verified contender is kept, and its entry is on disk.                   *)
ContenderPreserved == \A d \in denied : contender[d] = "durable"

=============================================================================
