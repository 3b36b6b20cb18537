----------------------- MODULE MaintenanceLeaseProofs -----------------------
(***************************************************************************)
(* Proofs that the lease of MaintenanceLease excludes, for any number of   *)
(* processes, lease objects and lock files.  The argument is about the     *)
(* kernel: a lock is only granted on an inode where it is compatible, the  *)
(* lock of a registry entry stays in place as long as the entry, and a     *)
(* process never opens a second description while its first is locked.     *)
(***************************************************************************)
EXTENDS MaintenanceLease, FiniteSetTheorems, TLAPS

\* A descriptor is held by a live process; a copy, by a child still resetting.
CopiesResetting ==
    \A q \in Procs : \A c \in ofdRefs[q] :
        /\ proc[c] \in {"running", "resetting"}
        /\ c # q => proc[c] = "resetting"

\* An acquisition has the only descriptor of its description, and either no
\* lock or the lock it asked for.
AcquiringAlone ==
    \A p \in Procs : acquiring[p] # "none" =>
        /\ proc[p] = "running" /\ mode[p] = "none"
        /\ ofdRefs[p] = {p} /\ ofdInode[p] # 0
        /\ ofdLock[p] \in {"none", acquiring[p]}

\* Registry entries belong to running processes and record a real inode;
\* every inode in use has been created.
HeldByRunning ==
    \A p \in Procs :
        /\ Holds(p) => proc[p] = "running" /\ heldInode[p] # 0
        /\ ofdLock[p] # "none" => ofdInode[p] # 0
        /\ ofdInode[p] <= inodes
PathCreated == lockPath <= inodes /\ (lockPath = 0 => inodes = 0)

\* What flock guarantees: locks on one inode are all shared.
KernelExclusion ==
    \A p, q \in Procs :
        (p # q /\ ofdLock[p] # "none" /\ ofdLock[q] # "none" /\ ofdInode[p] = ofdInode[q])
            => (ofdLock[p] = "shared" /\ ofdLock[q] = "shared")

\* The inductive invariant.
KernelInv ==
    /\ CopiesResetting
    /\ AcquiringAlone
    /\ HeldByRunning
    /\ PathCreated
    /\ RegistryBacked
    /\ NoLeakedLock
    /\ KernelExclusion
    /\ FenceRespected
IInv == TypeOK /\ RegistryCounted /\ KernelInv

-----------------------------------------------------------------------------
(* The reference count. *)

\* Sizes of a set of lease objects that gains or loses one.
LEMMA HandleCount ==
    ASSUME NEW S \in SUBSET Handles, NEW h \in Handles
    PROVE  /\ Cardinality({h}) = 1
           /\ h \notin S => Cardinality(S \cup {h}) = Cardinality(S) + 1
           /\ h \in S => /\ Cardinality(S \ {h}) = Cardinality(S) - 1
                         /\ Cardinality(S) - 1 \in Nat
                         /\ Cardinality(S) = 1 <=> S \ {h} = {}
<1>1. IsFiniteSet(S) /\ IsFiniteSet(S \ {h})
  BY HandlesFinite, FS_Subset
<1>2. Cardinality({h}) = 1
  BY FS_Singleton
<1>3. h \notin S => Cardinality(S \cup {h}) = Cardinality(S) + 1
  BY <1>1, FS_AddElement
<1>4. h \in S => Cardinality(S \ {h}) = Cardinality(S) - 1
  BY <1>1, FS_RemoveElement
<1>5. Cardinality(S) \in Nat /\ Cardinality(S \ {h}) \in Nat
  BY <1>1, FS_CardinalityType
<1>6. Cardinality(S \ {h}) = 0 <=> S \ {h} = {}
  BY <1>1, FS_EmptySet
<1>7. QED BY <1>2, <1>3, <1>4, <1>5, <1>6

\* Only one process's count and lease objects change in a step.
LEMMA CountElsewhere ==
    ASSUME NEW p \in Procs,
           \A q \in Procs : references[q] = Cardinality(open[q]),
           \A q \in Procs \ {p} : references'[q] = references[q] /\ open'[q] = open[q],
           references'[p] = Cardinality(open'[p])
    PROVE  \A q \in Procs : references'[q] = Cardinality(open'[q])
<1>1. SUFFICES ASSUME NEW q \in Procs, q # p PROVE references'[q] = Cardinality(open'[q])
  OBVIOUS
<1>2. references'[q] = references[q] /\ open'[q] = open[q] /\ references[q] = Cardinality(open[q])
  BY <1>1
<1>3. QED BY <1>2, Zenon

LEMMA RegisterCount ==
    ASSUME TypeOK, RegistryCounted, NEW p \in Procs, NEW h \in Handles, Register(p, h)
    PROVE  \A q \in Procs : references'[q] = Cardinality(open'[q])
<1>1. /\ open'[p] = {h} /\ references'[p] = 1
      /\ \A q \in Procs \ {p} : references'[q] = references[q] /\ open'[q] = open[q]
  BY DEF Register, TypeOK
<1>2. Cardinality({h}) = 1 BY FS_Singleton
<1>3. references'[p] = Cardinality(open'[p]) BY <1>1, <1>2, Zenon
<1>4. QED BY <1>1, <1>3, CountElsewhere DEF RegistryCounted

LEMMA NestedCount ==
    ASSUME TypeOK, RegistryCounted, NEW p \in Procs, NEW h \in Handles, AcquireNested(p, h)
    PROVE  \A q \in Procs : references'[q] = Cardinality(open'[q])
<1>1. /\ open'[p] = open[p] \cup {h} /\ references'[p] = references[p] + 1
      /\ open[p] \in SUBSET Handles /\ h \notin open[p]
      /\ \A q \in Procs \ {p} : references'[q] = references[q] /\ open'[q] = open[q]
  BY DEF AcquireNested, FreeHandle, TypeOK
<1>2. Cardinality(open[p] \cup {h}) = Cardinality(open[p]) + 1
  BY <1>1, HandleCount
<1>3. references[p] = Cardinality(open[p]) BY DEF RegistryCounted
<1>4. references'[p] = Cardinality(open'[p]) BY <1>1, <1>2, <1>3, Zenon
<1>5. QED BY <1>1, <1>4, CountElsewhere DEF RegistryCounted

LEMMA CloseCount ==
    ASSUME TypeOK, RegistryCounted, NEW p \in Procs, NEW h \in Handles, Close(p, h)
    PROVE  /\ \A q \in Procs : references'[q] = Cardinality(open'[q])
           /\ references[p] - 1 \in Nat
           /\ references[p] = 1 <=> open[p] \ {h} = {}
<1>1. /\ open'[p] = open[p] \ {h} /\ references'[p] = references[p] - 1
      /\ open[p] \in SUBSET Handles /\ h \in open[p]
      /\ \A q \in Procs \ {p} : references'[q] = references[q] /\ open'[q] = open[q]
  BY DEF Close, TypeOK
<1>2. /\ Cardinality(open[p] \ {h}) = Cardinality(open[p]) - 1
      /\ Cardinality(open[p]) - 1 \in Nat
      /\ Cardinality(open[p]) = 1 <=> open[p] \ {h} = {}
  BY <1>1, HandleCount
<1>3. references[p] = Cardinality(open[p]) BY DEF RegistryCounted
<1>4. references'[p] = Cardinality(open'[p]) BY <1>1, <1>2, <1>3, Zenon
<1>5. QED BY <1>1, <1>2, <1>3, <1>4, CountElsewhere DEF RegistryCounted

LEMMA CountStep == TypeOK /\ RegistryCounted /\ AcquiringAlone /\ [Next]_vars
                        => TypeOK' /\ RegistryCounted'
<1>0. SUFFICES ASSUME TypeOK, RegistryCounted, AcquiringAlone, [Next]_vars
               PROVE  TypeOK' /\ RegistryCounted'
  OBVIOUS
<1> DEFINE Counted == \A q \in Procs : references[q] = Cardinality(open[q])
           Entries == \A q \in Procs : (Holds(q) <=> open[q] # {}) /\ borrowed[q] \subseteq open[q]
<1>1. Counted /\ Entries BY <1>0 DEF RegistryCounted
<1>2. SUFFICES TypeOK' /\ Counted' /\ Entries' BY DEF RegistryCounted, Holds
<1> USE DEF procVars, leaseVars, kernelVars, fileVars, Holds, Modes, ModesOrNone
<1> HIDE DEF Counted
<1>3. ASSUME NEW p \in Procs, NEW m \in Modes, OpenLock(p, m) PROVE TypeOK' /\ Counted' /\ Entries'
  <2>1. TypeOK' /\ Entries' BY <1>0, <1>1, <1>3 DEF OpenLock, TypeOK
  <2>2. Counted' BY <1>1, <1>3 DEF OpenLock, Counted
  <2>3. QED BY <2>1, <2>2
<1>4. ASSUME NEW p \in Procs, Flock(p) \/ FlockBusy(p) \/ AbandonAcquire(p)
      PROVE  TypeOK' /\ Counted' /\ Entries'
  <2> USE DEF Flock, FlockBusy, AbandonAcquire, CloseDescriptors, UnlockAndClose
  <2>1. TypeOK' /\ Entries' BY <1>0, <1>1, <1>4 DEF TypeOK
  <2>2. Counted' BY <1>1, <1>4 DEF Counted
  <2>3. QED BY <2>1, <2>2
<1>5. ASSUME NEW p \in Procs, NEW h \in Handles, Register(p, h) PROVE TypeOK' /\ Counted' /\ Entries'
  <2>1. TypeOK' /\ Entries' BY <1>0, <1>1, <1>5 DEF Register, TypeOK, AcquiringAlone, Locked
  <2>2. Counted' BY <1>0, <1>5, RegisterCount DEF Counted
  <2>3. QED BY <2>1, <2>2
<1>6. ASSUME NEW p \in Procs, NEW h \in Handles, AcquireNested(p, h) PROVE TypeOK' /\ Counted' /\ Entries'
  <2>1. TypeOK' /\ Entries' BY <1>0, <1>1, <1>6 DEF AcquireNested, TypeOK
  <2>2. Counted' BY <1>0, <1>6, NestedCount DEF Counted
  <2>3. QED BY <2>1, <2>2
<1>7. ASSUME NEW p \in Procs, NEW h \in Handles,
             Borrow(p, h) \/ GiveBack(p, h) \/ CloseInherited(p, h)
      PROVE  TypeOK' /\ Counted' /\ Entries'
  <2> USE DEF Borrow, GiveBack, CloseInherited
  <2>1. TypeOK' /\ Entries' BY <1>0, <1>1, <1>7 DEF TypeOK
  <2>2. Counted' BY <1>1, <1>7 DEF Counted
  <2>3. QED BY <2>1, <2>2
<1>8. ASSUME NEW p \in Procs, NEW h \in Handles, Close(p, h) PROVE TypeOK' /\ Counted' /\ Entries'
  <2>1. Counted' /\ references[p] - 1 \in Nat /\ (references[p] = 1 <=> open[p] \ {h} = {})
    BY <1>0, <1>8, CloseCount DEF Counted
  <2>2. TypeOK' BY <1>0, <1>8, <2>1 DEF Close, UnlockAndClose, TypeOK
  <2>3. Entries' BY <1>0, <1>1, <1>8, <2>1 DEF Close, TypeOK
  <2>4. QED BY <2>1, <2>2, <2>3
<1>9. ASSUME NEW p \in Procs, Die(p) PROVE TypeOK' /\ Counted' /\ Entries'
  <2>1. TypeOK' /\ Entries' BY <1>0, <1>1, <1>9 DEF Die, CloseDescriptors, TypeOK
  <2>2. /\ open'[p] = {} /\ references'[p] = 0
        /\ \A q \in Procs \ {p} : references'[q] = references[q] /\ open'[q] = open[q]
    BY <1>0, <1>9 DEF Die, TypeOK
  <2>3. references'[p] = Cardinality(open'[p]) BY <2>2, FS_EmptySet, Zenon
  <2>4. Counted' BY <1>1, <2>2, <2>3, CountElsewhere DEF Counted
  <2>5. QED BY <2>1, <2>4
<1>10. ASSUME NEW p \in Procs, NEW c \in Procs,
              Spawn(p) \/ Reap(p) \/ ResetInChild(p) \/ Fork(p, c)
       PROVE  TypeOK' /\ Counted' /\ Entries'
  <2> USE DEF Spawn, Reap, ResetInChild, Fork, CloseDescriptors
  <2>1. TypeOK' /\ Entries' BY <1>0, <1>1, <1>10 DEF TypeOK
  <2>2. Counted' BY <1>1, <1>10 DEF Counted
  <2>3. QED BY <2>1, <2>2
<1>11. ASSUME NEW p \in Procs, NEW h \in Handles, NEW m \in {"absent", "present"},
              SetMarker(p, h, m)
       PROVE  TypeOK' /\ Counted' /\ Entries'
  <2> USE DEF SetMarker
  <2>1. TypeOK' /\ Entries' BY <1>0, <1>1, <1>11 DEF TypeOK
  <2>2. Counted' BY <1>1, <1>11 DEF Counted
  <2>3. QED BY <2>1, <2>2
<1>12. CASE ReplaceLockFile \/ UNCHANGED vars
  <2> USE DEF ReplaceLockFile, vars
  <2>1. TypeOK' /\ Entries' BY <1>0, <1>1, <1>12 DEF TypeOK
  <2>2. Counted' BY <1>1, <1>12 DEF Counted
  <2>3. QED BY <2>1, <2>2
<1>13. QED
  BY <1>0, <1>3, <1>4, <1>5, <1>6, <1>7, <1>8, <1>9, <1>10, <1>11, <1>12 DEF Next, ProcNext

-----------------------------------------------------------------------------
(* The kernel locks and the marker. *)

\* Every inode in use being created, all locks are on one inode as long as
\* only one lock file has existed.
LEMMA OneInode ==
    ASSUME TypeOK, HeldByRunning, inodes <= 1, NEW p \in Procs, NEW q \in Procs,
           ofdLock[p] # "none", ofdLock[q] # "none"
    PROVE  ofdInode[p] = ofdInode[q]
BY DEF TypeOK, HeldByRunning

LEMMA InitIInv == Init => IInv
<1>1. Cardinality({}) = 0 BY FS_EmptySet
<1>2. QED
  BY <1>1 DEF Init, IInv, KernelInv, TypeOK, CopiesResetting, AcquiringAlone, HeldByRunning,
     PathCreated, RegistryCounted, RegistryBacked, NoLeakedLock, KernelExclusion,
     FenceRespected, Holds, ModesOrNone, Modes

LEMMA KernelStep == TypeOK /\ RegistryCounted /\ KernelInv /\ [Next]_vars => KernelInv'
<1> SUFFICES ASSUME TypeOK, RegistryCounted, KernelInv, [Next]_vars PROVE KernelInv'
  OBVIOUS
<1>0. \A p \in Procs : mode[p] = "none" <=> open[p] = {}
  BY DEF RegistryCounted, Holds
<1> USE <1>0 DEF TypeOK, KernelInv, CopiesResetting, AcquiringAlone, HeldByRunning,
        PathCreated, RegistryBacked, NoLeakedLock, KernelExclusion, FenceRespected,
        Holds, ModesOrNone, Modes, procVars, leaseVars, kernelVars, fileVars, Locked
<1>1. ASSUME NEW p \in Procs, NEW m \in Modes, OpenLock(p, m) PROVE KernelInv'
  BY <1>1 DEF OpenLock, Idle
<1>2. ASSUME NEW p \in Procs, Flock(p) PROVE KernelInv'
  BY <1>2 DEF Flock, Opened, FlockGranted
<1>3. ASSUME NEW p \in Procs, FlockBusy(p) PROVE KernelInv'
  BY <1>3 DEF FlockBusy, Opened, CloseDescriptors
<1>4. ASSUME NEW p \in Procs, AbandonAcquire(p) PROVE KernelInv'
  BY <1>4 DEF AbandonAcquire, UnlockAndClose
<1>5. ASSUME NEW p \in Procs, NEW h \in Handles, Register(p, h) PROVE KernelInv'
  BY <1>5 DEF Register, AcquisitionValid
<1>6. ASSUME NEW p \in Procs, NEW h \in Handles,
             AcquireNested(p, h) \/ Borrow(p, h) \/ GiveBack(p, h) \/ CloseInherited(p, h)
      PROVE  KernelInv'
  BY <1>6 DEF AcquireNested, Borrow, GiveBack, CloseInherited
<1>7. ASSUME NEW p \in Procs, NEW h \in Handles, Close(p, h) PROVE KernelInv'
  <2>1. CASE references[p] = 1
    <3>1. CopiesResetting' BY <1>7, <2>1 DEF Close, UnlockAndClose
    <3>2. AcquiringAlone' BY <1>7, <2>1 DEF Close, UnlockAndClose, Idle
    <3>3. HeldByRunning' BY <1>7, <2>1 DEF Close, UnlockAndClose
    <3>4. PathCreated' BY <1>7, <2>1 DEF Close, UnlockAndClose
    <3>5. RegistryBacked' /\ NoLeakedLock'
      BY <1>7, <2>1 DEF Close, UnlockAndClose, Idle
    <3>6. KernelExclusion' /\ FenceRespected'
      BY <1>7, <2>1 DEF Close, UnlockAndClose
    <3>7. QED BY <3>1, <3>2, <3>3, <3>4, <3>5, <3>6
  <2>2. CASE references[p] # 1
    BY <1>7, <2>2 DEF Close
  <2>3. QED BY <2>1, <2>2
<1>8. ASSUME NEW p \in Procs, NEW h \in Handles, NEW m \in {"absent", "present"},
             SetMarker(p, h, m)
      PROVE  KernelInv'
  <2>1. ASSUME inodes <= 1, NEW q \in Procs, mode[q] = "shared" PROVE FALSE
    <3>1. ofdLock[p] = "exclusive" /\ ofdLock[q] = "shared" /\ p # q
      BY <1>8, <2>1 DEF SetMarker
    <3>2. ofdInode[p] = ofdInode[q] BY <2>1, <3>1, OneInode
    <3>3. QED BY <3>1, <3>2
  <2>2. FenceRespected' BY <1>8, <2>1 DEF SetMarker
  <2>3. QED BY <1>8, <2>2 DEF SetMarker
<1>9. ASSUME NEW p \in Procs, Spawn(p) \/ Reap(p) PROVE KernelInv'
  BY <1>9 DEF Spawn, Reap
<1>10. ASSUME NEW p \in Procs, NEW c \in Procs, Fork(p, c) PROVE KernelInv'
  BY <1>10 DEF Fork, Idle
<1>11. ASSUME NEW p \in Procs, ResetInChild(p) PROVE KernelInv'
  BY <1>11 DEF ResetInChild, CloseDescriptors
<1>12. ASSUME NEW p \in Procs, Die(p) PROVE KernelInv'
  <2>1. CopiesResetting' BY <1>12 DEF Die, CloseDescriptors
  <2>2. AcquiringAlone' BY <1>12 DEF Die, CloseDescriptors
  <2>3. HeldByRunning' BY <1>12 DEF Die, CloseDescriptors
  <2>4. PathCreated' BY <1>12 DEF Die, CloseDescriptors
  <2>5. RegistryBacked' BY <1>12 DEF Die, CloseDescriptors
  <2>6. NoLeakedLock' BY <1>12 DEF Die, CloseDescriptors
  <2>7. KernelExclusion' /\ FenceRespected' BY <1>12 DEF Die, CloseDescriptors
  <2>8. QED BY <2>1, <2>2, <2>3, <2>4, <2>5, <2>6, <2>7
<1>13. CASE ReplaceLockFile
  BY <1>13 DEF ReplaceLockFile
<1>14. CASE UNCHANGED vars
  BY <1>14 DEF vars
<1>15. QED
  BY <1>1, <1>2, <1>3, <1>4, <1>5, <1>6, <1>7, <1>8, <1>9, <1>10, <1>11, <1>12,
     <1>13, <1>14 DEF Next, ProcNext

LEMMA NextIInv == IInv /\ [Next]_vars => IInv'
BY CountStep, KernelStep DEF IInv, KernelInv

LEMMA SpecIInv == Spec => []IInv
BY InitIInv, NextIInv, PTL DEF Spec

-----------------------------------------------------------------------------
(* Results. *)

\* Two leases that both verify, or that exist before the lock file is
\* replaced, are backed by locks on one inode.
LEMMA IInvExcludes == IInv => VerifiedExclusion /\ LeaseExclusion
<1> SUFFICES ASSUME IInv, NEW p \in Procs, NEW q \in Procs, Conflict(p, q),
                    inodes <= 1 \/ (VerifyHeldLease(p) /\ VerifyHeldLease(q))
             PROVE  FALSE
  BY DEF VerifiedExclusion, LeaseExclusion
<1>1. /\ p # q /\ ofdLock[p] = mode[p] /\ ofdLock[q] = mode[q]
      /\ mode[p] # "none" /\ mode[q] # "none"
      /\ mode[p] # "shared" \/ mode[q] # "shared"
  BY DEF Conflict, IInv, KernelInv, RegistryBacked, Holds, TypeOK, ModesOrNone, Modes
<1>2. ofdInode[p] = ofdInode[q]
  <2>1. CASE inodes <= 1 BY <1>1, <2>1, OneInode DEF IInv, KernelInv
  <2>2. CASE VerifyHeldLease(p) /\ VerifyHeldLease(q)
    BY <1>1, <2>2 DEF VerifyHeldLease, IInv, KernelInv, RegistryBacked, Holds
  <2>3. QED BY <2>1, <2>2
<1>3. QED BY <1>1, <1>2 DEF IInv, KernelInv, KernelExclusion

(* Every state the lease protocol reaches is well typed. *)
THEOREM TypeCorrect == Spec => []TypeOK
<1>1. IInv => TypeOK BY DEF IInv
<1>2. QED BY <1>1, SpecIInv, PTL

(* Conflicting leases never both pass _verify_held_lease, and none coexist *)
(* before the lock file is replaced, for any number of processes.          *)
THEOREM Exclusion == Spec => [](VerifiedExclusion /\ LeaseExclusion)
BY SpecIInv, IInvExcludes, PTL

(* The ACTIVE marker of the quarantine transaction fences shared leases:   *)
(* neither is there while the other is, until the lock file is replaced.   *)
THEOREM Fence == Spec => []FenceRespected
<1>1. IInv => FenceRespected BY DEF IInv, KernelInv
<1>2. QED BY <1>1, SpecIInv, PTL

(* The registry entry of maintenance.py counts its lease objects and is    *)
(* backed by the kernel lock for as long as it lives.                      *)
THEOREM Backing == Spec => [](RegistryCounted /\ RegistryBacked)
<1>1. IInv => RegistryCounted /\ RegistryBacked BY DEF IInv, KernelInv
<1>2. QED BY <1>1, SpecIInv, PTL

(* No kernel lock of maintenance.py outlives the leases and the            *)
(* acquisitions that use it.                                               *)
THEOREM Unleaked == Spec => []NoLeakedLock
<1>1. IInv => NoLeakedLock BY DEF IInv, KernelInv
<1>2. QED BY <1>1, SpecIInv, PTL

=============================================================================
