---------------------------- MODULE BtrfsRollback ----------------------------
(***************************************************************************)
(* Replacing the main root subvolume by a copy of the booted snapshot.     *)
(*                                                                         *)
(* Invocations of `limine-manager rollback` plan what they will do from    *)
(* the booted root and the list of subvolumes, take rollback.lock, mount   *)
(* the top level of the file system, and then work in phases: snapshot the *)
(* snapshot, move the main root aside, move the copy in its place, look at *)
(* the result, sync, unmount.  A phase that fails starts a compensation    *)
(* whose own moves may fail silently.  Processes may be killed, and the    *)
(* machine may lose power and boot another root.                           *)
(*                                                                         *)
(* A subvolume is known by its path; what matters of its content is which  *)
(* tree it is: the original root, the snapshot, or the writable copy that  *)
(* some invocation made of the snapshot.                                   *)
(***************************************************************************)
EXTENDS Integers, FiniteSets

CONSTANTS
  Procs,       \* invocations of rollback, each with its own transaction id
  MaxFaults,   \* bound: operations of one invocation that fail
  MaxCrashes   \* bound: kills and power losses

ASSUME RollbackAssumption == MaxFaults \in Nat /\ MaxCrashes \in Nat

Nobody == <<"nobody">>
ASSUME NobodyAssumption == Nobody \notin Procs

(* Paths below the top level. *)
Target == <<"@">>
Snapshot == <<"@snapshots", "snapshot">>
Failed == <<"@", "failed-replacement">>
Preserved(p) == <<"@", "rollback", p>>
Replacement(p) == <<"@", "new", p>>
Paths == {Target, Snapshot, Failed}
           \cup {Preserved(p) : p \in Procs} \cup {Replacement(p) : p \in Procs}

(* Trees, and the absence of one. *)
None == <<>>
MainRoot == <<"main">>
Frozen == <<"frozen">>
CopyBy(p) == <<"copy", p>>
Trees == {MainRoot, Frozen} \cup {CopyBy(p) : p \in Procs}

Topologies == [Paths -> Trees \cup {None}]

(* Program points: the forward phases, each named for what is done, and    *)
(* the compensation, which begins at "caught".                             *)
Forward == {"locked", "mounted", "copied", "preserved", "switched", "verified", "synced"}
Compensating == {"caught", "putback", "resync", "detach"}
Ended == {"ineligible", "busy", "failed", "done", "dead"}
Points == {"start", "planned"} \cup Forward \cup Compensating \cup Ended

VARIABLES
  tree,      \* tree[path]: the tree that is there
  durable,   \* the topologies a power loss may leave
  booted,    \* the path of the root that is running
  lock,      \* the holder of rollback.lock
  pc,        \* pc[p]: where p is
  phase,     \* phase[p]: how far the forward phases of p got, 0 to 3
  mounts,    \* how often the top level is mounted
  rootBefore,  \* history: rootBefore[p] is the main root when p took the lock
  faults,    \* faults[p]: how many operations of p have failed
  crashes

fs == <<tree, durable>>
counters == <<faults, crashes>>
vars == <<fs, booted, lock, pc, phase, mounts, rootBefore, counters>>

Init ==
  /\ tree = [q \in Paths |-> IF q = Target THEN MainRoot
                             ELSE IF q = Snapshot THEN Frozen ELSE None]
  /\ durable = {tree}
  /\ booted \in {Target, Snapshot}
  /\ lock = Nobody
  /\ pc = [p \in Procs |-> "start"]
  /\ phase = [p \in Procs |-> 0]
  /\ mounts = 0
  /\ rootBefore = [p \in Procs |-> None]
  /\ faults = [p \in Procs |-> 0]
  /\ crashes = 0

Go(p, from, to) == pc[p] = from /\ pc' = [pc EXCEPT ![p] = to]
Exists(q) == tree[q] # None

(* rename of a subvolume: the source is there and the destination is not. *)
Movable(a, b) == Exists(a) /\ ~Exists(b)
(* Faulty: copied to the destination and not removed from the source. *)
Moved_Copied(a, b) == [tree EXCEPT ![b] = tree[a]]

Moved(a, b) == [tree EXCEPT ![b] = tree[a], ![a] = None]

(* Changes reach the disk in their order, at the latest with a sync. *)
Change(t) == tree' = t /\ durable' = durable \cup {t}
Synced == durable' = {tree} /\ UNCHANGED tree

-----------------------------------------------------------------------------
(* RollbackPlanner::build.                                                 *)

(* Faulty: the boot mode is not looked at. *)
Eligible_AnyBoot(p) ==
  /\ Exists(Target) /\ Exists(Snapshot)
  /\ ~Exists(Preserved(p)) /\ ~Exists(Replacement(p))

(* Booted from a managed snapshot, not from the main root; both are there, *)
(* and the names this invocation will use are free.                        *)
Eligible(p) ==
  /\ booted = Snapshot
  /\ Exists(Target) /\ Exists(Snapshot)
  /\ ~Exists(Preserved(p)) /\ ~Exists(Replacement(p))

BuildPlan(p) ==
  /\ Go(p, "start", IF Eligible(p) THEN "planned" ELSE "ineligible")
  /\ UNCHANGED <<fs, booted, lock, phase, mounts, rootBefore, counters>>

-----------------------------------------------------------------------------
(* RollbackService::execute.                                               *)

TakeLock(p) ==
  /\ Go(p, "planned", IF lock = Nobody THEN "locked" ELSE "busy")
  /\ lock' = IF lock = Nobody THEN p ELSE lock
  /\ rootBefore' = IF lock = Nobody THEN [rootBefore EXCEPT ![p] = tree[Target]]
                   ELSE rootBefore
  /\ UNCHANGED <<fs, booted, phase, mounts, counters>>

Mount(p) ==
  /\ Go(p, "locked", "mounted")
  /\ mounts' = mounts + 1
  /\ UNCHANGED <<fs, booted, lock, phase, rootBefore, counters>>

(* A phase that changes the topology; if it cannot, it throws. *)
Phase(p, from, to, n, possible, result) ==
  /\ Go(p, from, IF possible THEN to ELSE "caught")
  /\ IF possible THEN Change(result) /\ phase' = [phase EXCEPT ![p] = n]
                 ELSE UNCHANGED <<fs, phase>>
  /\ UNCHANGED <<booted, lock, mounts, rootBefore, counters>>

CreateReplacement(p) ==
  Phase(p, "mounted", "copied", 1, Exists(Snapshot) /\ ~Exists(Replacement(p)),
        [tree EXCEPT ![Replacement(p)] = CopyBy(p)])

PreserveTarget(p) ==
  Phase(p, "copied", "preserved", 2, Movable(Target, Preserved(p)),
        Moved(Target, Preserved(p)))

SwitchTarget(p) ==
  Phase(p, "preserved", "switched", 3, Movable(Replacement(p), Target),
        Moved(Replacement(p), Target))

(* The list of subvolumes shows the main root and the preserved one. *)
VerifyTopology(p) ==
  /\ Go(p, "switched", IF Exists(Target) /\ Exists(Preserved(p)) THEN "verified" ELSE "caught")
  /\ UNCHANGED <<fs, booted, lock, phase, mounts, rootBefore, counters>>

(* Faulty: nothing is synced before success is reported. *)
Sync_Skipped(p) ==
  /\ Go(p, "verified", "synced")
  /\ UNCHANGED <<fs, booted, lock, phase, mounts, rootBefore, counters>>

Sync(p) ==
  /\ Go(p, "verified", "synced")
  /\ Synced
  /\ UNCHANGED <<booted, lock, phase, mounts, rootBefore, counters>>

Unmount(p) ==
  /\ Go(p, "synced", "done")
  /\ mounts' = mounts - 1
  /\ lock' = Nobody
  /\ UNCHANGED <<fs, booted, phase, rootBefore, counters>>

-----------------------------------------------------------------------------
(* The catch block.  try_move swallows every error.                        *)

TryMove(p, a, b) ==
  /\ IF Movable(a, b) THEN Change(Moved(a, b)) ELSE UNCHANGED fs
  /\ UNCHANGED <<booted, lock, phase, mounts, rootBefore, counters>>

(* The copy leaves the place it has reached. *)
DiscardReplacement(p) ==
  \/ Go(p, "caught", "putback") /\ phase[p] = 3 /\ TryMove(p, Target, Failed)
  \/ Go(p, "caught", "putback") /\ phase[p] \in {1, 2} /\ TryMove(p, Replacement(p), Failed)

NothingToDiscard(p) ==
  /\ phase[p] = 0
  /\ Go(p, "caught", "putback")
  /\ UNCHANGED <<fs, booted, lock, phase, mounts, rootBefore, counters>>

(* Faulty: the new root is put back, not the preserved one. *)
PutTargetBack_Replacement(p) ==
  /\ phase[p] \in {2, 3}
  /\ Go(p, "putback", "resync")
  /\ TryMove(p, Replacement(p), Target)

PutTargetBack(p) ==
  /\ phase[p] \in {2, 3}
  /\ Go(p, "putback", "resync")
  /\ TryMove(p, Preserved(p), Target)

NothingToPutBack(p) ==
  /\ phase[p] \in {0, 1}
  /\ Go(p, "putback", "resync")
  /\ UNCHANGED <<fs, booted, lock, phase, mounts, rootBefore, counters>>

Resync(p) ==
  /\ Go(p, "resync", "detach")
  /\ Synced
  /\ UNCHANGED <<booted, lock, phase, mounts, rootBefore, counters>>

Detach(p) ==
  /\ Go(p, "detach", "failed")
  /\ mounts' = mounts - 1
  /\ lock' = Nobody
  /\ UNCHANGED <<fs, booted, phase, rootBefore, counters>>

-----------------------------------------------------------------------------
(* What goes wrong.                                                        *)

(* Faulty: a mount that failed is taken for one that has to be undone. *)
OnError_Unmounted == [planned |-> "failed", locked |-> "caught", mounted |-> "caught",
            copied |-> "caught", preserved |-> "caught", switched |-> "caught",
            verified |-> "caught", synced |-> "caught", caught |-> "putback",
            putback |-> "resync", resync |-> "detach", detach |-> "failed"]

(* Where an operation that fails at each point leads: thrown before the    *)
(* mount, to the catch block, or swallowed by it.                          *)
OnError == [planned |-> "failed", locked |-> "failed", mounted |-> "caught",
            copied |-> "caught", preserved |-> "caught", switched |-> "caught",
            verified |-> "caught", synced |-> "caught", caught |-> "putback",
            putback |-> "resync", resync |-> "detach", detach |-> "failed"]

Fault(p) ==
  /\ faults[p] < MaxFaults
  /\ faults' = [faults EXCEPT ![p] = @ + 1]
  /\ pc[p] \in DOMAIN OnError
  /\ pc' = [pc EXCEPT ![p] = OnError[pc[p]]]
  /\ lock' = IF lock = p /\ OnError[pc[p]] = "failed" THEN Nobody ELSE lock
  /\ UNCHANGED <<fs, booted, phase, mounts, rootBefore, crashes>>

Kill(p) ==
  /\ crashes < MaxCrashes
  /\ crashes' = crashes + 1
  /\ pc[p] \notin Ended
  /\ pc' = [pc EXCEPT ![p] = "dead"]
  /\ lock' = IF lock = p THEN Nobody ELSE lock
  /\ UNCHANGED <<fs, booted, phase, mounts, rootBefore, faults>>

(* The machine stops and, if it can, boots the main root or the snapshot. *)
Boot(q) ==
  /\ crashes < MaxCrashes
  /\ crashes' = crashes + 1
  /\ tree' \in durable
  /\ durable' = {tree'}
  /\ tree'[q] # None
  /\ booted' = q
  /\ lock' = Nobody
  /\ pc' = [p \in Procs |-> IF pc[p] \in Ended \cup {"start"} THEN pc[p] ELSE "dead"]
  /\ mounts' = 0
  /\ UNCHANGED <<phase, rootBefore, faults>>

-----------------------------------------------------------------------------
Execute(p) ==
  \/ TakeLock(p) \/ Mount(p) \/ CreateReplacement(p) \/ PreserveTarget(p)
  \/ SwitchTarget(p) \/ VerifyTopology(p) \/ Sync(p) \/ Unmount(p)

Compensate(p) ==
  \/ DiscardReplacement(p) \/ NothingToDiscard(p)
  \/ PutTargetBack(p) \/ NothingToPutBack(p) \/ Resync(p) \/ Detach(p)

Step(p) == BuildPlan(p) \/ Execute(p) \/ Compensate(p) \/ Fault(p) \/ Kill(p)

Next == (\E p \in Procs : Step(p)) \/ (\E q \in {Target, Snapshot} : Boot(q))

Spec == Init /\ [][Next]_vars

-----------------------------------------------------------------------------
(* Properties.                                                             *)

(***************************************************************************)
(* The variables have their types; in particular nothing is unmounted that *)
(* was not mounted.                                                        *)
(***************************************************************************)
TypeOK ==
  /\ tree \in Topologies
  /\ durable \subseteq Topologies
  /\ booted \in {Target, Snapshot}
  /\ lock \in Procs \cup {Nobody}
  /\ pc \in [Procs -> Points]
  /\ phase \in [Procs -> 0..3]
  /\ mounts \in Nat
  /\ rootBefore \in [Procs -> Trees \cup {None}]
  /\ faults \in [Procs -> Nat]
  /\ crashes \in Nat

(***************************************************************************)
(* Every root there has ever been is kept: the original one and the        *)
(* snapshot are at exactly one path, now and after a power loss, whatever  *)
(* phases and compensations have run.                                      *)
(***************************************************************************)
RootsKept ==
  \A t \in durable \cup {tree} : \A root \in {MainRoot, Frozen} :
    Cardinality({q \in Paths : t[q] = root}) = 1

(***************************************************************************)
(* A rollback that reports success has replaced the main root by its own   *)
(* copy of the snapshot and kept the previous one under its own name, on   *)
(* the disk too.                                                           *)
(***************************************************************************)
SuccessMeansReplaced ==
  [][\A p \in Procs : pc'[p] # pc[p] /\ pc'[p] = "done" =>
       \A t \in durable' \cup {tree'} :
         t[Target] = CopyBy(p) /\ t[Preserved(p)] = rootBefore[p]]_vars

(***************************************************************************)
(* A rollback that fails leaves the main root it found where it found it,  *)
(* unless a second operation of the same rollback failed as well, which    *)
(* the compensation cannot do anything about, or something else has the    *)
(* name that it gives to a replacement that failed.                        *)
(***************************************************************************)
FirstFailureUndone ==
  [][\A p \in Procs : pc'[p] # pc[p] /\ pc'[p] = "failed" /\ rootBefore[p] # None =>
       \/ faults'[p] >= 2
       \/ tree'[Target] = rootBefore[p]
       \/ Exists(Failed) /\ tree[Failed] # CopyBy(p)]_vars

(***************************************************************************)
(* A rollback that fails recovers at least in part, as is claimed for      *)
(* failures in general: the main root it found is in place, or its         *)
(* replacement has been set aside.  A second failing operation is excused. *)
(***************************************************************************)
PartlyRecovered ==
  [][\A p \in Procs : pc'[p] # pc[p] /\ pc'[p] = "failed" /\ rootBefore[p] # None =>
       \/ faults'[p] >= 2
       \/ tree'[Target] = rootBefore[p]
       \/ tree'[Failed] = CopyBy(p)]_vars

(***************************************************************************)
(* The normal entry can be booted: there is a main root, except between    *)
(* the two moves of a rollback, after a crash there, or once two           *)
(* operations of one rollback have failed.                                 *)
(***************************************************************************)
TargetPresent ==
  \/ Exists(Target)
  \/ \E p \in Procs : lock = p /\ phase[p] \in {2, 3}
  \/ crashes > 0
  \/ \E p \in Procs : faults[p] >= 2

(***************************************************************************)
(* No rollback moves the root that is running.                             *)
(***************************************************************************)
RunningRootStays == [][crashes' = crashes => tree'[booted] = tree[booted]]_vars

=============================================================================
