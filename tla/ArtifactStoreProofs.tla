------------------------ MODULE ArtifactStoreProofs ------------------------
(***************************************************************************)
(* ReferenceDurable, CanonicalWhole, ContenderPreserved and NeverReplaced  *)
(* for any number of publishers, digests and shards.                       *)
(*                                                                         *)
(* A reference is returned long after the steps that make it durable, and  *)
(* some of them may have been another publisher's.  The invariant carries  *)
(* what each step has established up to the return: which directories are  *)
(* on disk, what the temporary holds, and that a canonical name only ever  *)
(* appears in a durable shard and with flushed content.                    *)
(***************************************************************************)
EXTENDS ArtifactStore, TLAPS

BelowRoot == InPut \ {"mkdir_root", "sync_root"}
BelowShard == BelowRoot \ {"mkdir_shard", "sync_sha256"}

\* Directories a publisher has passed exist, flushed ones are on disk.
DirectoryInv ==
    \A p \in Publishers :
        /\ pc[p] = "sync_base" => "artifacts" \in dirs
        /\ pc[p] \in InPut \cup {"ready"} => "artifacts" \in syncedDirs
        /\ pc[p] = "sync_root" => "sha256" \in dirs
        /\ pc[p] \in BelowRoot => "sha256" \in syncedDirs
        /\ pc[p] = "sync_sha256" => Shard[digest[p]] \in dirs
        /\ pc[p] \in BelowShard => Shard[digest[p]] \in syncedDirs

\* What the temporary holds at each step, and who is raising.
TempInv ==
    \A p \in Publishers :
        /\ pc[p] \in {"rename", "dedupe"} => temp[p] = "good"
        /\ p \in raising => pc[p] \in {"unlink", "sync_shard"}
        /\ pc[p] = "sync_shard" /\ temp[p] # "none" => temp[p] = "good" /\ p \in raising

\* The canonical name a publisher relies on exists, and is on disk once the
\* shard has been flushed.
NameInv ==
    \A p \in Publishers :
        /\ pc[p] \in {"dedupe", "unlink", "sync_shard"} /\ p \notin raising => blob[digest[p]] # "none"
        /\ pc[p] = "verify" => durable[digest[p]] # "none"

\* Canonical names live in durable shards; an undamaged one has flushed
\* content, and what is on disk is what is seen.
DiskInv ==
    \A d \in Digests :
        /\ blob[d] # "none" => Path(d) \subseteq syncedDirs
        /\ durable[d] # "none" => durable[d] = blob[d]
        /\ d \in damaged => blob[d] = "bad" /\ durable[d] = "bad"
        /\ d \notin damaged => blob[d] \in {"none", "good"}
        /\ d \in returned => durable[d] # "none"

ContenderInv ==
    /\ \A d \in Digests : contender[d] = "durable" => Path(d) \subseteq syncedDirs
    /\ ContenderPreserved

IInv == TypeOK /\ DirectoryInv /\ TempInv /\ NameInv /\ DiskInv /\ ContenderInv

-----------------------------------------------------------------------------

(* Initially nothing exists and nobody publishes.                          *)
LEMMA InitInv == Init => IInv
  BY DEF Init, IInv, TypeOK, DirectoryInv, TempInv, NameInv, DiskInv, ContenderInv,
         ContenderPreserved, Steps, InPut, BelowRoot, BelowShard, Directories

(* Creating and flushing directories: what a publisher has passed.         *)
LEMMA DirectoryStep ==
    ASSUME IInv, NEW p \in Publishers,
           \/ MakeRoot(p) \/ SyncBase(p) \/ MakeSha256(p) \/ SyncRoot(p)
           \/ MakeShard(p) \/ SyncSha256(p)
    PROVE  IInv'
<1> USE ShardType, ShardNames DEF IInv, Directories, Path, Goto
<1>1. TypeOK'
  <2>1. pc' \in [Publishers -> Steps]
    BY DEF TypeOK, Steps, Mkdir, SyncParent, InPut,
       MakeRoot, SyncBase, MakeSha256, SyncRoot, MakeShard, SyncSha256
  <2>2. dirs' \subseteq Directories /\ syncedDirs' \subseteq dirs'
    <3>1. Shard[digest[p]] \in Shards  BY DEF TypeOK
    <3>2. CASE MakeRoot(p) \/ MakeSha256(p) \/ MakeShard(p)
      BY <3>1, <3>2 DEF TypeOK, Mkdir, MakeRoot, MakeSha256, MakeShard
    <3>3. CASE SyncBase(p) \/ SyncRoot(p) \/ SyncSha256(p)
      BY <3>3 DEF TypeOK, SyncParent, SyncBase, SyncRoot, SyncSha256
    <3>4. QED  BY <3>2, <3>3
  <2>3. UNCHANGED <<digest, temp, raising, blob, durable, contender, historyVars>>
    BY DEF Mkdir, SyncParent, MakeRoot, SyncBase, MakeSha256, SyncRoot, MakeShard, SyncSha256
  <2>4. QED  BY <2>1, <2>2, <2>3 DEF TypeOK, historyVars, Steps, InPut
<1>2. DirectoryInv'
  BY DEF TypeOK, DirectoryInv, Steps, InPut, BelowRoot, BelowShard,
     Mkdir, SyncParent, MakeRoot, SyncBase, MakeSha256, SyncRoot, MakeShard, SyncSha256
<1>3. TempInv' /\ NameInv'
  BY DEF TypeOK, TempInv, NameInv, Mkdir, SyncParent, historyVars,
     MakeRoot, SyncBase, MakeSha256, SyncRoot, MakeShard, SyncSha256
<1>4. DiskInv' /\ ContenderInv'
  BY DEF DiskInv, ContenderInv, ContenderPreserved, Mkdir, SyncParent, historyVars,
     MakeRoot, SyncBase, MakeSha256, SyncRoot, MakeShard, SyncSha256
<1>5. QED  BY <1>1, <1>2, <1>3, <1>4

(* Opening the store, and beginning a put.                                 *)
LEMMA BeginStep ==
    ASSUME IInv, NEW p \in Publishers, Open(p) \/ \E d \in Digests : Put(p, d)
    PROVE  IInv'
<1> USE ShardType, ShardNames DEF IInv, Directories, Path, Goto, Open, Put, diskVars, historyVars
<1>1. TypeOK'  BY DEF TypeOK, Steps, InPut
<1>2. DirectoryInv'  BY DEF TypeOK, DirectoryInv, InPut, BelowRoot, BelowShard
<1>3. TempInv' /\ NameInv'  BY DEF TypeOK, TempInv, NameInv
<1>4. DiskInv' /\ ContenderInv'
  BY DEF DiskInv, ContenderInv, ContenderPreserved
<1>5. QED  BY <1>1, <1>2, <1>3, <1>4

(* Making, writing, flushing and unlinking the temporary.                  *)
LEMMA TempStep ==
    ASSUME IInv, NEW p \in Publishers,
           MakeTemp(p) \/ WriteTemp(p) \/ SyncTemp(p) \/ Unlink(p)
    PROVE  IInv'
<1> USE ShardType, ShardNames DEF IInv, Directories, Path, Goto, MakeTemp, WriteTemp, SyncTemp,
             Unlink, Write, diskVars, historyVars
<1>1. TypeOK'  BY DEF TypeOK, Steps, InPut
<1>2. DirectoryInv' /\ TempInv' /\ NameInv'
  BY DEF TypeOK, DirectoryInv, TempInv, NameInv, InPut, BelowRoot, BelowShard
<1>3. DiskInv' /\ ContenderInv'
  BY DEF DiskInv, ContenderInv, ContenderPreserved
<1>4. QED  BY <1>1, <1>2, <1>3

(* The winner's temporary becomes the canonical file of a durable shard.   *)
LEMMA RenameStep ==
    ASSUME IInv, NEW p \in Publishers, Rename(p)
    PROVE  IInv'
<1> USE ShardType, ShardNames DEF IInv, Directories, Path, Goto, Rename, historyVars
<1>1. TypeOK'  BY DEF TypeOK, Steps, InPut, TempInv
<1>2. DirectoryInv' /\ TempInv'
  BY DEF TypeOK, DirectoryInv, TempInv, InPut, BelowRoot, BelowShard
<1>3. NameInv'
  BY DEF TypeOK, NameInv, TempInv
<1>4. DiskInv'
  <2>1. Path(digest[p]) \subseteq syncedDirs
    BY DEF DirectoryInv, InPut, BelowRoot, BelowShard
  <2>2. temp[p] = "good"  BY DEF TempInv
  <2>3. QED  BY <2>1, <2>2 DEF TypeOK, DiskInv, Path
<1>5. ContenderInv'  BY DEF ContenderInv, ContenderPreserved
<1>6. QED  BY <1>1, <1>2, <1>3, <1>4, <1>5

(* The loser accepts the canonical file or keeps its temporary.            *)
LEMMA DedupeStep ==
    ASSUME IInv, NEW p \in Publishers, Dedupe(p)
    PROVE  IInv'
<1> USE ShardType, ShardNames DEF IInv, Directories, Path, Goto, Dedupe, diskVars, historyVars
<1>1. TypeOK'  BY DEF TypeOK, Steps, InPut
<1>2. DirectoryInv' /\ TempInv' /\ NameInv'
  BY DEF TypeOK, DirectoryInv, TempInv, NameInv, InPut, BelowRoot, BelowShard, Valid
<1>3. DiskInv' /\ ContenderInv'
  BY DEF DiskInv, ContenderInv, ContenderPreserved
<1>4. QED  BY <1>1, <1>2, <1>3

(* Flushing the shard puts its names and left temporaries on disk.         *)
LEMMA SyncShardStep ==
    ASSUME IInv, NEW p \in Publishers, SyncShard(p)
    PROVE  IInv'
<1> USE ShardType, ShardNames DEF IInv, Directories, Path, Goto, SyncShard
<1>0. Path(digest[p]) \subseteq syncedDirs
  BY DEF DirectoryInv, InPut, BelowRoot, BelowShard
<1>1. TypeOK'  BY DEF TypeOK, Steps, InPut
<1>2. DirectoryInv'
  BY DEF TypeOK, DirectoryInv, InPut, BelowRoot, BelowShard
<1>3. TempInv' /\ NameInv'
  BY DEF TypeOK, TempInv, NameInv, DiskInv, InShard
<1>4. DiskInv'  BY DEF TypeOK, DiskInv, InShard
<1>5. ContenderInv'
  <2>1. \A d \in Digests : InShard(d, p) => Path(d) \subseteq syncedDirs
    BY <1>0 DEF InShard, Path
  <2>2. temp[p] # "none" => Leave(p)[digest[p]] # "none"
    BY DEF Leave, TempInv, TypeOK
  <2>3. \A d \in Digests : contender[d] # "none" => Leave(p)[d] # "none"
    BY DEF Leave, TypeOK
  <2>4. \A d \in Digests : contender[d] = "durable" => contender'[d] = "durable"
    BY <2>3
  <2>5. temp[p] # "none" => contender'[digest[p]] = "durable"
    BY <2>2 DEF InShard, TypeOK
  <2>6. \A d \in Digests : contender'[d] = "durable" => Path(d) \subseteq syncedDirs
    BY <2>1 DEF ContenderInv
  <2>7. QED  BY <2>4, <2>5, <2>6 DEF ContenderInv, ContenderPreserved, TypeOK
<1>6. QED  BY <1>1, <1>2, <1>3, <1>4, <1>5

(* A reference is returned for a name that is on disk.                     *)
LEMMA VerifyStep ==
    ASSUME IInv, NEW p \in Publishers, Verify(p)
    PROVE  IInv'
<1> USE ShardType, ShardNames DEF IInv, Directories, Path, Goto, Verify, diskVars
<1>1. TypeOK'  BY DEF TypeOK, Steps, InPut
<1>2. DirectoryInv' /\ TempInv' /\ NameInv'
  BY DEF TypeOK, DirectoryInv, TempInv, NameInv, InPut, BelowRoot, BelowShard
<1>3. DiskInv' /\ ContenderInv'
  BY DEF TypeOK, NameInv, DiskInv, ContenderInv, ContenderPreserved
<1>4. QED  BY <1>1, <1>2, <1>3

(* An exception or a kill leaves the disk as it is.                        *)
LEMMA FailStep ==
    ASSUME IInv, NEW p \in Publishers, Fail(p) \/ Kill(p)
    PROVE  IInv'
<1> USE ShardType, ShardNames DEF IInv, Directories, Path, Goto, Fail, Kill, diskVars, historyVars
<1>0. Leave(p) \in [Digests -> {"none", "left", "durable"}]
      /\ \A d \in Digests : Leave(p)[d] = "durable" <=> contender[d] = "durable"
  BY DEF Leave, TypeOK
<1>1. TypeOK'
  <2>1. pc' \in [Publishers -> Steps]  BY DEF TypeOK, Steps, InPut
  <2>2. temp' \in [Publishers -> {"none", "partial", "unsynced", "good"}]  BY DEF TypeOK
  <2>3. raising' \subseteq Publishers  BY DEF TypeOK
  <2>4. contender' \in [Digests -> {"none", "left", "durable"}]  BY <1>0 DEF TypeOK
  <2>5. QED  BY <2>1, <2>2, <2>3, <2>4 DEF TypeOK, Steps, InPut
<1>2. DirectoryInv' /\ TempInv' /\ NameInv'
  BY DEF TypeOK, DirectoryInv, TempInv, NameInv, InPut, BelowRoot, BelowShard
<1>3. DiskInv'  BY DEF DiskInv, Path
<1>4. ContenderInv'  BY <1>0 DEF ContenderInv, ContenderPreserved, TypeOK
<1>5. QED  BY <1>1, <1>2, <1>3, <1>4

(* Tampering touches one name of a durable shard.                          *)
LEMMA DamageStep ==
    ASSUME IInv, NEW d \in Digests, Damage(d)
    PROVE  IInv'
<1> USE ShardType, ShardNames DEF IInv, Directories, Path, Damage
<1>1. TypeOK'  BY DEF TypeOK
<1>2. DirectoryInv' /\ TempInv' /\ NameInv'
  BY DEF TypeOK, DirectoryInv, TempInv, NameInv
<1>3. DiskInv'  BY DEF TypeOK, DiskInv, Path
<1>4. ContenderInv'  BY DEF ContenderInv, ContenderPreserved
<1>5. QED  BY <1>1, <1>2, <1>3, <1>4

(* What is in a durable shard survives a power loss, and a name that does  *)
(* survive has flushed content.                                            *)
LEMMA PowerLossStep ==
    ASSUME IInv, PowerLoss
    PROVE  /\ IInv'
           /\ \A d \in Digests : durable[d] # "none" => blob'[d] = blob[d]
<1> USE ShardType, ShardNames DEF IInv, Directories, Path
<1>1. \A d \in Digests : Path(d) \subseteq syncedDirs => Path(d) \subseteq dirs'
  BY DEF PowerLoss, Reachable, Path
<1>2. syncedDirs' = dirs' /\ dirs' \subseteq dirs
  BY DEF PowerLoss, Reachable
<1>3. \A d \in Digests : durable[d] # "none" => blob'[d] = blob[d]
  BY <1>1 DEF PowerLoss, DiskInv, AfterLoss, TypeOK
<1>4. \A d \in Digests : d \notin damaged => blob'[d] \in {"none", "good"}
  BY DEF PowerLoss, DiskInv, AfterLoss, TypeOK
<1>5. TypeOK'
  <2>1. pc' \in [Publishers -> Steps]  BY DEF PowerLoss, Steps
  <2>2. temp' \in [Publishers -> {"none", "partial", "unsynced", "good"}]  BY DEF PowerLoss
  <2>3. contender' \in [Digests -> {"none", "left", "durable"}]  BY DEF PowerLoss
  <2>4. blob' \in [Digests -> {"none", "unsynced", "good", "bad"}] /\ durable' = blob'
    BY DEF PowerLoss
  <2>5. raising' = {} /\ UNCHANGED <<digest, historyVars>>  BY DEF PowerLoss
  <2>6. QED  BY <1>2, <2>1, <2>2, <2>3, <2>4, <2>5 DEF TypeOK, Steps, InPut, historyVars
<1>6. DirectoryInv' /\ TempInv' /\ NameInv'
  BY DEF PowerLoss, DirectoryInv, TempInv, NameInv, InPut, BelowRoot, BelowShard
<1>7. DiskInv'
  <2>1. \A d \in Digests : blob'[d] # "none" => Path(d) \subseteq dirs'
    BY DEF PowerLoss
  <2>2. durable' = blob' /\ damaged' = damaged /\ returned' = returned
    BY DEF PowerLoss, historyVars
  <2>3. QED  BY <1>2, <1>3, <1>4, <2>1, <2>2 DEF DiskInv, Path
<1>8. ContenderInv'
  BY <1>1, <1>2 DEF PowerLoss, ContenderInv, ContenderPreserved, historyVars, TypeOK
<1>9. QED  BY <1>3, <1>5, <1>6, <1>7, <1>8

(* The invariant is inductive.                                             *)
LEMMA StepInv == IInv /\ [Next]_vars => IInv'
<1> SUFFICES ASSUME IInv, [Next]_vars PROVE IInv'  OBVIOUS
<1>1. CASE UNCHANGED vars
  BY <1>1 DEF vars, IInv, TypeOK, DirectoryInv, TempInv, NameInv, DiskInv, ContenderInv,
     ContenderPreserved
<1>2. ASSUME NEW p \in Publishers, Publish(p) \/ Kill(p) PROVE IInv'
  BY <1>2, DirectoryStep, BeginStep, TempStep, RenameStep, DedupeStep, SyncShardStep,
     VerifyStep, FailStep DEF Publish
<1>3. ASSUME NEW d \in Digests, Damage(d) PROVE IInv'  BY <1>3, DamageStep
<1>4. CASE PowerLoss  BY <1>4, PowerLossStep
<1>5. QED  BY <1>1, <1>2, <1>3, <1>4 DEF Next

(* The invariant holds in every reachable state.                           *)
LEMMA Invariant == Spec => []IInv
  BY InitInv, StepInv, PTL DEF Spec

(* put_bytes keeps its state within the declared types.                    *)
THEOREM StoreTypeCorrect == Spec => []TypeOK
  BY Invariant, PTL DEF IInv

(* A reference returned by put_bytes is durable, and no canonical name is  *)
(* ever torn, for any number of racing, killed and restarted publishers.   *)
THEOREM PublicationDurable == Spec => [](ReferenceDurable /\ CanonicalWhole)
<1>1. IInv => ReferenceDurable /\ CanonicalWhole
  BY DEF IInv, DiskInv, ReferenceDurable, CanonicalWhole, TypeOK
<1>2. QED  BY <1>1, Invariant, PTL

(* When _write_atomic refuses to publish beside an invalid canonical file, *)
(* the verified contender is kept and its entry is on disk.                *)
THEOREM ContenderKept == Spec => []ContenderPreserved
<1>1. IInv => ContenderPreserved
  BY DEF IInv, ContenderInv
<1>2. QED  BY <1>1, Invariant, PTL

(* _write_atomic never replaces a damaged canonical entry: what was found  *)
(* damaged stays to be examined.                                           *)
THEOREM EvidenceKept == Spec => NeverReplaced
<1>1. IInv /\ [Next]_vars => [\A d \in Digests : blob[d] = "bad" => blob'[d] = "bad"]_vars
  <2> SUFFICES ASSUME IInv, Next, NEW d \in Digests, blob[d] = "bad"
               PROVE  blob'[d] = "bad"
    OBVIOUS
  <2>1. durable[d] # "none" /\ d \in damaged
    BY DEF IInv, DiskInv
  <2>2. CASE PowerLoss  BY <2>1, <2>2, PowerLossStep
  <2>3. ASSUME NEW c \in Digests, Damage(c) PROVE blob'[d] = "bad"
    BY <2>3 DEF Damage, IInv, TypeOK
  <2>4. ASSUME NEW p \in Publishers, Rename(p) PROVE blob'[d] = "bad"
    BY <2>4 DEF Rename, IInv, TypeOK
  <2>5. ASSUME NEW p \in Publishers, Publish(p) \/ Kill(p), ~Rename(p) PROVE blob' = blob
    BY <2>5 DEF Publish, Open, Put, MakeRoot, SyncBase, MakeSha256, SyncRoot, MakeShard,
       SyncSha256, Mkdir, SyncParent, MakeTemp, WriteTemp, SyncTemp, Write, Dedupe, Unlink,
       SyncShard, Verify, Fail, Kill, diskVars
  <2>6. QED  BY <2>2, <2>3, <2>4, <2>5 DEF Next
<1>2. QED  BY <1>1, Invariant, PTL DEF Spec, NeverReplaced

=============================================================================
