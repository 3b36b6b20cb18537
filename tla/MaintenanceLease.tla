-------------------------- MODULE MaintenanceLease --------------------------
(***************************************************************************)
(* The cooperative state-wide lease of src/guildmind/storage/maintenance.py *)
(* for one state directory.                                                *)
(*                                                                         *)
(* A process acquires a shared (publisher, mutator) or an exclusive        *)
(* (maintenance) lease without blocking.  The lease is backed by flock on  *)
(* one persistent lock file; inside a process a registry entry counts the  *)
(* lease objects that share one kernel lock.  The marker quarantine/v1/    *)
(* ACTIVE fences shared leases off, also after its writer has died.        *)
(*                                                                         *)
(* flock belongs to an open file description, which fork shares with the   *)
(* child until the child's at-fork hook closes its copies.  A process has  *)
(* at most one description of its own on the lock file (the registry lock  *)
(* serialises acquisition), so descriptions are named by their opener.     *)
(***************************************************************************)
EXTENDS Naturals, FiniteSets

CONSTANTS
    Procs,      \* process identities; a dead one may be reused after reaping
    Handles,    \* lease objects a process can hold at the same time
    MaxInodes   \* bound on the lock files ever created at the lock path

ASSUME HandlesFinite == IsFiniteSet(Handles)
ASSUME MaxInodesNat == MaxInodes \in Nat

VARIABLES
    proc,        \* process life: absent, resetting (forked), running, dead
    acquiring,   \* mode of the _acquire in progress, "none" without one
    mode,        \* mode of the registry entry, "none" without one
    heldInode,   \* lock identity recorded in the registry entry, 0 without one
    references,  \* reference count of the registry entry
    open,        \* unreleased lease objects this process acquired
    inherited,   \* unreleased lease objects copied from a parent by fork
    borrowed,    \* lease objects lending their state descriptor
    ofdInode,    \* inode a process's lock description was opened on, 0 if closed
    ofdLock,     \* flock mode of that description
    ofdRefs,     \* processes that hold a descriptor of that description
    lockPath,    \* inode the lock path names, 0 when there is none
    inodes,      \* lock files created so far
    marker       \* the quarantine ACTIVE marker

procVars == <<proc, acquiring, mode, heldInode, references>>
leaseVars == <<open, inherited, borrowed>>
kernelVars == <<ofdInode, ofdLock, ofdRefs>>
fileVars == <<lockPath, inodes, marker>>
vars == <<procVars, leaseVars, kernelVars, fileVars>>

Modes == {"shared", "exclusive"}
ModesOrNone == Modes \cup {"none"}

TypeOK ==
    /\ proc \in [Procs -> {"absent", "resetting", "running", "dead"}]
    /\ acquiring \in [Procs -> ModesOrNone]
    /\ mode \in [Procs -> ModesOrNone]
    /\ heldInode \in [Procs -> Nat]
    /\ references \in [Procs -> Nat]
    /\ open \in [Procs -> SUBSET Handles]
    /\ inherited \in [Procs -> SUBSET Handles]
    /\ borrowed \in [Procs -> SUBSET Handles]
    /\ ofdInode \in [Procs -> Nat]
    /\ ofdLock \in [Procs -> ModesOrNone]
    /\ ofdRefs \in [Procs -> SUBSET Procs]
    /\ lockPath \in Nat
    /\ inodes \in Nat
    /\ marker \in {"absent", "present"}

Init ==
    /\ proc = [p \in Procs |-> "absent"]
    /\ acquiring = [p \in Procs |-> "none"]
    /\ mode = [p \in Procs |-> "none"]
    /\ heldInode = [p \in Procs |-> 0]
    /\ references = [p \in Procs |-> 0]
    /\ open = [p \in Procs |-> {}]
    /\ inherited = [p \in Procs |-> {}]
    /\ borrowed = [p \in Procs |-> {}]
    /\ ofdInode = [p \in Procs |-> 0]
    /\ ofdLock = [p \in Procs |-> "none"]
    /\ ofdRefs = [p \in Procs |-> {}]
    /\ lockPath = 0
    /\ inodes = 0
    /\ marker = "absent"

-----------------------------------------------------------------------------
(* Predicates of the code. *)

\* Mutant: the lock path is not compared with the locked inode.
VerifyHeldLeaseNoPath(p) == mode[p] # "none"

\* _verify_held_lease: the lock path still names the locked inode.
VerifyHeldLease(p) == heldInode[p] = lockPath

\* No acquisition is in progress: the process's registry lock is free.
Idle(p) == proc[p] = "running" /\ acquiring[p] = "none"

\* The acquisition in progress has opened the lock file, resp. locked it.
Opened(p) == acquiring[p] # "none" /\ ofdLock[p] = "none"
Locked(p) == acquiring[p] # "none" /\ ofdLock[p] # "none"

\* A lease object that is neither in use nor waiting to be released.
FreeHandle(p, h) == h \notin open[p] \cup inherited[p]

\* flock(LOCK_SH | LOCK_NB) or flock(LOCK_EX | LOCK_NB) succeeds.
FlockGranted(p, m) ==
    \A q \in Procs \ {p} :
        (ofdInode[q] = ofdInode[p] /\ ofdLock[q] # "none")
            => (m = "shared" /\ ofdLock[q] = "shared")

\* Close process x's descriptors of the descriptions in ds: the last close of
\* a description drops its lock.
CloseDescriptors(x, ds) ==
    LET last(q) == q \in ds /\ ofdRefs[q] \subseteq {x} IN
    /\ ofdRefs' = [q \in Procs |-> IF q \in ds THEN ofdRefs[q] \ {x} ELSE ofdRefs[q]]
    /\ ofdLock' = [q \in Procs |-> IF last(q) THEN "none" ELSE ofdLock[q]]
    /\ ofdInode' = [q \in Procs |-> IF last(q) THEN 0 ELSE ofdInode[q]]

\* flock(LOCK_UN), for every process that shares the description, and close.
\* A copy a forked child has still to close no longer matters.
UnlockAndClose(p) ==
    /\ ofdLock' = [ofdLock EXCEPT ![p] = "none"]
    /\ ofdRefs' = [ofdRefs EXCEPT ![p] = {}]
    /\ ofdInode' = [ofdInode EXCEPT ![p] = 0]

-----------------------------------------------------------------------------
(* _acquire without a registry entry: open the lock file, flock it, verify. *)

\* _open_or_create_lock, the first step of _acquire.  The registry lock is
\* held from here until the acquisition has succeeded or failed.
OpenLock(p, m) ==
    /\ Idle(p) /\ mode[p] = "none"
    /\ \E h \in Handles : FreeHandle(p, h)
    /\ IF lockPath = 0
         THEN /\ inodes < MaxInodes
              /\ lockPath' = inodes + 1
              /\ inodes' = inodes + 1
         ELSE UNCHANGED <<lockPath, inodes>>
    /\ acquiring' = [acquiring EXCEPT ![p] = m]
    /\ ofdInode' = [ofdInode EXCEPT ![p] = lockPath']
    /\ ofdRefs' = [ofdRefs EXCEPT ![p] = {p}]
    /\ UNCHANGED <<proc, mode, heldInode, references, leaseVars, ofdLock, marker>>

\* The nonblocking flock succeeds.
Flock(p) ==
    /\ Opened(p)
    /\ FlockGranted(p, acquiring[p])
    /\ ofdLock' = [ofdLock EXCEPT ![p] = acquiring[p]]
    /\ UNCHANGED <<procVars, leaseVars, ofdInode, ofdRefs, fileVars>>

\* The nonblocking flock fails: MaintenanceBusyError(LEASE_HELD), descriptor closed.
FlockBusy(p) ==
    /\ Opened(p)
    /\ ~FlockGranted(p, acquiring[p])
    /\ acquiring' = [acquiring EXCEPT ![p] = "none"]
    /\ CloseDescriptors(p, {p})
    /\ UNCHANGED <<proc, mode, heldInode, references, leaseVars, fileVars>>

\* Mutant: the ACTIVE marker is not looked for.
AcquisitionValidNoMarker(p) == ofdInode[p] = lockPath

\* The lock path still names the inode that was locked, and a shared lease
\* finds no ACTIVE marker.
AcquisitionValid(p) ==
    /\ ofdInode[p] = lockPath
    /\ acquiring[p] = "shared" => marker = "absent"

\* The verified acquisition enters the registry with one reference.
Register(p, h) ==
    /\ Locked(p)
    /\ FreeHandle(p, h)
    /\ AcquisitionValid(p)
    /\ acquiring' = [acquiring EXCEPT ![p] = "none"]
    /\ mode' = [mode EXCEPT ![p] = acquiring[p]]
    /\ heldInode' = [heldInode EXCEPT ![p] = ofdInode[p]]
    /\ references' = [references EXCEPT ![p] = 1]
    /\ open' = [open EXCEPT ![p] = {h}]
    /\ UNCHANGED <<proc, inherited, borrowed, kernelVars, fileVars>>

\* Mutant: a failed acquisition forgets its descriptor without unlocking it.
AbandonAcquireLeak(p) ==
    /\ Locked(p)
    /\ acquiring' = [acquiring EXCEPT ![p] = "none"]
    /\ UNCHANGED <<proc, mode, heldInode, references, leaseVars, kernelVars, fileVars>>

\* Verification failed (LOCK_CHANGED), the state is fenced
\* (QUARANTINE_ACTIVE), or anything else is raised: unlock and close.
AbandonAcquire(p) ==
    /\ Locked(p)
    /\ acquiring' = [acquiring EXCEPT ![p] = "none"]
    /\ UnlockAndClose(p)
    /\ UNCHANGED <<proc, mode, heldInode, references, leaseVars, fileVars>>

\* _acquire with a registry entry: only shared nests in shared, after the
\* held lease and the marker have been checked again.
AcquireNested(p, h) ==
    /\ Idle(p) /\ mode[p] = "shared"
    /\ FreeHandle(p, h)
    /\ VerifyHeldLease(p)
    /\ marker = "absent"
    /\ references' = [references EXCEPT ![p] = @ + 1]
    /\ open' = [open EXCEPT ![p] = @ \cup {h}]
    /\ UNCHANGED <<proc, acquiring, mode, heldInode, inherited, borrowed,
                   kernelVars, fileVars>>

-----------------------------------------------------------------------------
(* Using and releasing a lease. *)

\* verified_state_descriptor, entry: the lease is verified again before it
\* lends a duplicate of its state descriptor (one loan per lease object).
Borrow(p, h) ==
    /\ Idle(p)
    /\ h \in open[p] \ borrowed[p]
    /\ VerifyHeldLease(p)
    /\ mode[p] = "shared" => marker = "absent"
    /\ borrowed' = [borrowed EXCEPT ![p] = @ \cup {h}]
    /\ UNCHANGED <<procVars, open, inherited, kernelVars, fileVars>>

\* verified_state_descriptor, exit.
GiveBack(p, h) ==
    /\ Idle(p)
    /\ h \in borrowed[p]
    /\ borrowed' = [borrowed EXCEPT ![p] = @ \ {h}]
    /\ UNCHANGED <<procVars, open, inherited, kernelVars, fileVars>>


\* close, also at the end of a failed __enter__: refused while the descriptor
\* is lent; otherwise the reference goes, and with the last one the registry
\* entry, the flock and the descriptors, whether or not the lease still
\* verifies (a failure is raised afterwards).
Close(p, h) ==
    /\ Idle(p)
    /\ h \in open[p] \ borrowed[p]
    /\ open' = [open EXCEPT ![p] = @ \ {h}]
    /\ references' = [references EXCEPT ![p] = @ - 1]
    /\ IF references[p] = 1
         THEN /\ mode' = [mode EXCEPT ![p] = "none"]
              /\ heldInode' = [heldInode EXCEPT ![p] = 0]
              /\ UnlockAndClose(p)
         ELSE UNCHANGED <<mode, heldInode, kernelVars>>
    /\ UNCHANGED <<proc, acquiring, inherited, borrowed, fileVars>>

\* close of a lease object copied by fork: PROCESS_CHANGED is raised and
\* nothing but the object's own flag changes.
CloseInherited(p, h) ==
    /\ Idle(p)
    /\ h \in inherited[p]
    /\ inherited' = [inherited EXCEPT ![p] = @ \ {h}]
    /\ UNCHANGED <<procVars, open, borrowed, kernelVars, fileVars>>

\* External (the quarantine transaction): the exclusive holder publishes or
\* removes ACTIVE through a borrowed state descriptor.
SetMarker(p, h, m) ==
    /\ Idle(p)
    /\ mode[p] = "exclusive" /\ h \in borrowed[p]
    /\ marker # m
    /\ marker' = m
    /\ UNCHANGED <<procVars, leaseVars, kernelVars, lockPath, inodes>>

-----------------------------------------------------------------------------
(* Process life. *)

\* A new process starts with an empty registry.
Spawn(p) ==
    /\ proc[p] = "absent"
    /\ proc' = [proc EXCEPT ![p] = "running"]
    /\ UNCHANGED <<acquiring, mode, heldInode, references, leaseVars,
                   kernelVars, fileVars>>

\* fork: the child shares every descriptor of its parent and copies its
\* lease objects.  The before-fork hook takes the registry lock, so no
\* acquisition is in progress.
Fork(p, c) ==
    /\ Idle(p) /\ proc[c] = "absent"
    /\ proc' = [proc EXCEPT ![c] = "resetting"]
    /\ inherited' = [inherited EXCEPT ![c] = open[p] \cup inherited[p]]
    /\ ofdRefs' = [q \in Procs |->
                    IF p \in ofdRefs[q] THEN ofdRefs[q] \cup {c} ELSE ofdRefs[q]]
    /\ UNCHANGED <<acquiring, mode, heldInode, references, open, borrowed,
                   ofdInode, ofdLock, fileVars>>

\* Mutant: the child unlocks every description it inherited before closing it.
ResetInChildUnlocks(c) ==
    LET copies == {q \in Procs : c \in ofdRefs[q]} IN
    /\ proc[c] = "resetting"
    /\ proc' = [proc EXCEPT ![c] = "running"]
    /\ ofdRefs' = [q \in Procs |-> ofdRefs[q] \ {c}]
    /\ ofdLock' = [q \in Procs |-> IF q \in copies THEN "none" ELSE ofdLock[q]]
    /\ UNCHANGED <<acquiring, mode, heldInode, references, leaseVars, ofdInode, fileVars>>

\* Mutant: the child keeps its copies of the inherited descriptors open.
ResetInChildKeeps(c) ==
    /\ proc[c] = "resetting"
    /\ proc' = [proc EXCEPT ![c] = "running"]
    /\ UNCHANGED <<acquiring, mode, heldInode, references, leaseVars,
                   kernelVars, fileVars>>

\* _reset_registry_in_child: close the inherited descriptors, never LOCK_UN.
ResetInChild(c) ==
    /\ proc[c] = "resetting"
    /\ proc' = [proc EXCEPT ![c] = "running"]
    /\ CloseDescriptors(c, Procs)
    /\ UNCHANGED <<acquiring, mode, heldInode, references, leaseVars, fileVars>>

\* SIGKILL or exit: the kernel closes the descriptors of the process.
Die(p) ==
    /\ proc[p] \in {"running", "resetting"}
    /\ proc' = [proc EXCEPT ![p] = "dead"]
    /\ acquiring' = [acquiring EXCEPT ![p] = "none"]
    /\ mode' = [mode EXCEPT ![p] = "none"]
    /\ heldInode' = [heldInode EXCEPT ![p] = 0]
    /\ references' = [references EXCEPT ![p] = 0]
    /\ open' = [open EXCEPT ![p] = {}]
    /\ inherited' = [inherited EXCEPT ![p] = {}]
    /\ borrowed' = [borrowed EXCEPT ![p] = {}]
    /\ CloseDescriptors(p, Procs)
    /\ UNCHANGED fileVars

\* The identity of a dead process is reused once its description is gone.
Reap(p) ==
    /\ proc[p] = "dead" /\ ofdRefs[p] = {}
    /\ proc' = [proc EXCEPT ![p] = "absent"]
    /\ UNCHANGED <<acquiring, mode, heldInode, references, leaseVars,
                   kernelVars, fileVars>>

\* External: something outside the protocol puts another file at the lock path.
ReplaceLockFile ==
    /\ lockPath # 0 /\ inodes < MaxInodes
    /\ lockPath' = inodes + 1
    /\ inodes' = inodes + 1
    /\ UNCHANGED <<procVars, leaseVars, kernelVars, marker>>

-----------------------------------------------------------------------------

ProcNext(p) ==
    \/ \E m \in Modes : OpenLock(p, m)
    \/ Flock(p) \/ FlockBusy(p) \/ AbandonAcquire(p)
    \/ \E h \in Handles :
        \/ Register(p, h) \/ AcquireNested(p, h)
        \/ Borrow(p, h) \/ GiveBack(p, h)
        \/ Close(p, h) \/ CloseInherited(p, h)
        \/ \E m \in {"absent", "present"} : SetMarker(p, h, m)
    \/ Spawn(p) \/ ResetInChild(p) \/ Die(p) \/ Reap(p)
    \/ \E c \in Procs : Fork(p, c)

Next == (\E p \in Procs : ProcNext(p)) \/ ReplaceLockFile

Spec == Init /\ [][Next]_vars

\* A forked child runs its at-fork hook before anything else, and the hook
\* cannot block; nothing else is promised to happen.
FairSpec == Spec /\ \A p \in Procs : WF_vars(ResetInChild(p))

-----------------------------------------------------------------------------
(* Properties. *)

\* Process p has a lease it may use: an entry in its registry.
Holds(p) == mode[p] # "none"

Conflict(p, q) == p # q /\ Holds(p) /\ Holds(q) /\ "exclusive" \in {mode[p], mode[q]}

(* Two conflicting leases never both pass _verify_held_lease, even if the  *)
(* lock file has been replaced: whoever holds the file that left the lock  *)
(* path is denied at its next use or told so when it closes.               *)
VerifiedExclusion ==
    \A p, q \in Procs : Conflict(p, q) => ~(VerifyHeldLease(p) /\ VerifyHeldLease(q))

(* As long as the lock file is the one first created, an exclusive lease   *)
(* excludes every other lease, across crashes, forks and reused processes. *)
LeaseExclusion == inodes <= 1 => \A p, q \in Procs : ~Conflict(p, q)

(* As long as the lock file is the one first created, ACTIVE is never      *)
(* present while a shared lease is held: close, enter and                  *)
(* verified_state_descriptor of a shared lease never find it.              *)
FenceRespected ==
    (inodes <= 1 /\ marker = "present") => \A p \in Procs : mode[p] # "shared"

(* A registry entry lives exactly as long as the lease objects it counts,  *)
(* and a lease object cannot go while it lends its state descriptor.       *)
RegistryCounted ==
    \A p \in Procs :
        /\ references[p] = Cardinality(open[p])
        /\ Holds(p) <=> open[p] # {}
        /\ borrowed[p] \subseteq open[p]

(* A registry entry is backed by the kernel lock of its mode on the inode  *)
(* it recorded: neither a nested release, a forked child nor another       *)
(* process's death takes it away early.                                    *)
RegistryBacked ==
    \A p \in Procs : Holds(p) =>
        p \in ofdRefs[p] /\ ofdLock[p] = mode[p] /\ ofdInode[p] = heldInode[p]

(* No lock outlives its users: a locked description belongs to a process   *)
(* that holds or is acquiring the lease, or its opener has died and it is  *)
(* only kept by forked children that have not run their at-fork hook yet.  *)
NoLeakedLock ==
    \A q \in Procs : ofdLock[q] # "none" =>
        \/ Holds(q) \/ Locked(q)
        \/ /\ proc[q] = "dead" /\ ofdRefs[q] # {}
           /\ \A p \in ofdRefs[q] : proc[p] = "resetting"

(* The kernel lock of a dead holder is released: forked children that      *)
(* still share its description close their copies.                         *)
DeadHolderReleases ==
    \A p \in Procs :
        (proc[p] = "dead" /\ ofdLock[p] # "none") ~> ofdLock[p] = "none"

=============================================================================
