------------------------- MODULE BtrfsRollbackProofs -------------------------
(***************************************************************************)
(* Theorems about BtrfsRollback: what holds of every number of invocations,*)
(* faults and crashes.  All of them rest on one inductive invariant, Inv:  *)
(* the lock is held by whoever is inside the transaction, the roots are at *)
(* one path each, nobody plans on the main root, and the topology an       *)
(* invocation finds at each of its program points is the one it left       *)
(* there (Course).                                                         *)
(***************************************************************************)
EXTENDS BtrfsRollback, FiniteSetTheorems, TLAPS

Inside == Forward \cup Compensating
Mounted == Inside \ {"locked"}

(* rollback.lock is held by the invocation that is inside, and the mount   *)
(* it will undo has been made.                                             *)
LockInv == \A p \in Procs : pc[p] \in Inside <=> lock = p
MountInv == \A p \in Procs : pc[p] \in Mounted => mounts >= 1

(* A tree is at one path and no other. *)
OnlyAt(t, root, q) == \A r \in Paths : t[r] = root <=> r = q
Unique(t, root) == \E q \in Paths : OnlyAt(t, root, q)
RootsInv == \A t \in durable \cup {tree} : \A root \in {MainRoot, Frozen} : Unique(t, root)

(* Whoever has a plan made it on the snapshot, which still runs. *)
BootedInv == \A p \in Procs : pc[p] \in Inside \cup {"planned"} => booted = Snapshot

-----------------------------------------------------------------------------
(* Paths and trees. *)

(* The names an invocation uses are its own, and nobody else's. *)
LEMMA PathsDiffer ==
  /\ Target # Snapshot /\ Target # Failed /\ Snapshot # Failed
  /\ {Target, Snapshot, Failed} \subseteq Paths
  /\ \A p \in Procs :
       /\ {Preserved(p), Replacement(p)} \subseteq Paths
       /\ Preserved(p) \notin {Target, Snapshot, Failed}
       /\ Replacement(p) \notin {Target, Snapshot, Failed}
       /\ \A r \in Procs : /\ Preserved(p) # Replacement(r)
                           /\ Preserved(p) = Preserved(r) => p = r
                           /\ Replacement(p) = Replacement(r) => p = r
  BY DEF Target, Snapshot, Failed, Preserved, Replacement, Paths

(* The roots, the copies and nothing are told apart. *)
LEMMA TreesDiffer ==
  /\ MainRoot # Frozen /\ MainRoot # None /\ Frozen # None
  /\ {MainRoot, Frozen} \subseteq Trees
  /\ \A p \in Procs :
       /\ CopyBy(p) \in Trees /\ CopyBy(p) \notin {MainRoot, Frozen, None}
       /\ \A r \in Procs : CopyBy(p) = CopyBy(r) => p = r
  BY DEF MainRoot, Frozen, None, CopyBy, Trees

(* A move leaves a topology, the source empty and the tree at its          *)
(* destination.                                                            *)
LEMMA MovedTree ==
  ASSUME tree \in Topologies, NEW a \in Paths, NEW b \in Paths, a # b
  PROVE  /\ Moved(a, b) \in Topologies
         /\ Moved(a, b)[a] = None
         /\ Moved(a, b)[b] = tree[a]
         /\ \A q \in Paths \ {a, b} : Moved(a, b)[q] = tree[q]
  BY DEF Moved, Topologies

(* A move to a free path keeps a root at one path. *)
LEMMA MovedUnique ==
  ASSUME tree \in Topologies, NEW a \in Paths, NEW b \in Paths, a # b, tree[b] = None,
         NEW root, root # None, Unique(tree, root)
  PROVE  Unique(Moved(a, b), root)
  <1>1. PICK q \in Paths : OnlyAt(tree, root, q)
    BY DEF Unique
  <1>2. CASE q = a
    <2>1. OnlyAt(Moved(a, b), root, b)
      BY <1>1, <1>2, MovedTree DEF OnlyAt
    <2>. QED  BY <2>1 DEF Unique
  <1>3. CASE q # a
    <2>1. q # b
      BY <1>1 DEF OnlyAt
    <2>2. OnlyAt(Moved(a, b), root, q)
      BY <1>1, <1>3, <2>1, MovedTree DEF OnlyAt
    <2>. QED  BY <2>2 DEF Unique
  <1>. QED  BY <1>2, <1>3

-----------------------------------------------------------------------------
(* Types and the lock. *)

(* Where a failed operation leads. *)
LEMMA OnErrorLeads ==
  /\ DOMAIN OnError = {"planned"} \cup Inside
  /\ OnError["planned"] = "failed" /\ OnError["locked"] = "failed"
  /\ \A x \in {"mounted", "copied", "preserved", "switched", "verified", "synced"} :
       OnError[x] = "caught"
  /\ OnError["caught"] = "putback" /\ OnError["putback"] = "resync"
  /\ OnError["resync"] = "detach" /\ OnError["detach"] = "failed"
  BY DEF OnError, Inside, Forward, Compensating

LEMMA OnErrorType == \A x \in DOMAIN OnError : OnError[x] \in Points
  BY OnErrorLeads DEF Inside, Points, Forward, Compensating, Ended

(* Every program point, for the steps that ask which. *)
LEMMA PointsAre ==
  /\ Inside \subseteq Points
  /\ Inside \cap Ended = {}
  /\ "start" \notin Inside \cup Ended /\ "planned" \notin Inside \cup Ended
  /\ Points = {"start", "planned"} \cup Inside \cup Ended
  BY DEF Inside, Points, Forward, Compensating, Ended

(* What a step does to the topologies keeps their types. *)
LEMMA ChangeType ==
  ASSUME TypeOK, NEW t \in Topologies, Change(t)
  PROVE  tree' \in Topologies /\ durable' \subseteq Topologies
  BY DEF TypeOK, Change

LEMMA MovedType ==
  ASSUME TypeOK, NEW a \in Paths, NEW b \in Paths
  PROVE  Moved(a, b) \in Topologies
  BY DEF TypeOK, Moved, Topologies

LEMMA CopyType ==
  ASSUME TypeOK, NEW p \in Procs
  PROVE  [tree EXCEPT ![Replacement(p)] = CopyBy(p)] \in Topologies
  BY PathsDiffer, TreesDiffer DEF TypeOK, Topologies

LEMMA TryMoveType ==
  ASSUME TypeOK, NEW p \in Procs, NEW a \in Paths, NEW b \in Paths, TryMove(p, a, b)
  PROVE  /\ tree' \in Topologies /\ durable' \subseteq Topologies
         /\ UNCHANGED <<booted, lock, phase, mounts, rootBefore, faults, crashes>>
  BY MovedType, ChangeType DEF TryMove, TypeOK, fs, counters

LEMMA TypeInit == Init => TypeOK /\ LockInv /\ MountInv
  <1> SUFFICES ASSUME Init PROVE TypeOK /\ LockInv /\ MountInv
    OBVIOUS
  <1>1. tree \in Topologies
    BY TreesDiffer DEF Init, Topologies
  <1>2. TypeOK
    BY <1>1 DEF Init, TypeOK, Points
  <1>3. LockInv /\ MountInv
    BY NobodyAssumption, PointsAre DEF Init, LockInv, MountInv, Mounted
  <1>. QED  BY <1>2, <1>3

LEMMA TypeStep == TypeOK /\ LockInv /\ MountInv /\ [Next]_vars => TypeOK'
  <1> SUFFICES ASSUME TypeOK, LockInv, MountInv, [Next]_vars PROVE TypeOK'
    OBVIOUS
  <1> USE DEF TypeOK
  <1>1. ASSUME NEW p \in Procs, BuildPlan(p) PROVE TypeOK'
    BY <1>1 DEF BuildPlan, Go, fs, counters, Points, Ended
  <1>2. ASSUME NEW p \in Procs, TakeLock(p) PROVE TypeOK'
    BY <1>2, PathsDiffer DEF TakeLock, Go, fs, counters, Points, Ended, Forward, Topologies
  <1>3. ASSUME NEW p \in Procs, Mount(p) PROVE TypeOK'
    BY <1>3 DEF Mount, Go, fs, counters, Points, Forward
  <1>4. ASSUME NEW p \in Procs, CreateReplacement(p) PROVE TypeOK'
    <2>1. tree' \in Topologies /\ durable' \subseteq Topologies
      BY <1>4, CopyType, ChangeType DEF CreateReplacement, Phase, fs
    <2>. QED
      BY <1>4, <2>1 DEF CreateReplacement, Phase, Go, counters, Points, Forward, Compensating
  <1>5. ASSUME NEW p \in Procs, PreserveTarget(p) PROVE TypeOK'
    <2>1. tree' \in Topologies /\ durable' \subseteq Topologies
      BY <1>5, MovedType, PathsDiffer, ChangeType DEF PreserveTarget, Phase, fs
    <2>. QED
      BY <1>5, <2>1 DEF PreserveTarget, Phase, Go, counters, Points, Forward, Compensating
  <1>6. ASSUME NEW p \in Procs, SwitchTarget(p) PROVE TypeOK'
    <2>1. tree' \in Topologies /\ durable' \subseteq Topologies
      BY <1>6, MovedType, PathsDiffer, ChangeType DEF SwitchTarget, Phase, fs
    <2>. QED
      BY <1>6, <2>1 DEF SwitchTarget, Phase, Go, counters, Points, Forward, Compensating
  <1>7. ASSUME NEW p \in Procs, VerifyTopology(p) PROVE TypeOK'
    BY <1>7 DEF VerifyTopology, Go, fs, counters, Points, Forward, Compensating
  <1>8. ASSUME NEW p \in Procs, Sync(p) PROVE TypeOK'
    BY <1>8 DEF Sync, Synced, Go, fs, counters, Points, Forward
  <1>9. ASSUME NEW p \in Procs, Unmount(p) \/ Detach(p) PROVE TypeOK'
    <2>1. pc[p] \in Mounted
      BY <1>9 DEF Unmount, Detach, Go, Mounted, Inside, Forward, Compensating
    <2>2. mounts - 1 \in Nat
      BY <2>1 DEF MountInv
    <2>. QED  BY <1>9, <2>2 DEF Unmount, Detach, Go, fs, counters, Points, Ended
  <1>10. ASSUME NEW p \in Procs, DiscardReplacement(p) \/ NothingToDiscard(p) PROVE TypeOK'
    <2>1. Go(p, "caught", "putback")
      BY <1>10 DEF DiscardReplacement, NothingToDiscard
    <2>2. /\ tree' \in Topologies /\ durable' \subseteq Topologies
          /\ UNCHANGED <<booted, lock, phase, mounts, rootBefore, faults, crashes>>
      BY <1>10, TryMoveType, PathsDiffer
         DEF DiscardReplacement, NothingToDiscard, fs, counters
    <2>. QED  BY <2>1, <2>2 DEF Go, Points, Compensating
  <1>11. ASSUME NEW p \in Procs, PutTargetBack(p) \/ NothingToPutBack(p) PROVE TypeOK'
    <2>1. Go(p, "putback", "resync")
      BY <1>11 DEF PutTargetBack, NothingToPutBack
    <2>2. /\ tree' \in Topologies /\ durable' \subseteq Topologies
          /\ UNCHANGED <<booted, lock, phase, mounts, rootBefore, faults, crashes>>
      BY <1>11, TryMoveType, PathsDiffer DEF PutTargetBack, NothingToPutBack, fs, counters
    <2>. QED  BY <2>1, <2>2 DEF Go, Points, Compensating
  <1>12. ASSUME NEW p \in Procs, Resync(p) PROVE TypeOK'
    BY <1>12 DEF Resync, Synced, Go, fs, counters, Points, Compensating
  <1>13. ASSUME NEW p \in Procs, Fault(p) PROVE TypeOK'
    BY <1>13, OnErrorType DEF Fault, fs, counters
  <1>14. ASSUME NEW p \in Procs, Kill(p) PROVE TypeOK'
    BY <1>14 DEF Kill, fs, counters, Points, Ended
  <1>15. ASSUME NEW q \in {Target, Snapshot}, Boot(q) PROVE TypeOK'
    <2>1. pc' \in [Procs -> Points]
      BY <1>15 DEF Boot, Points, Ended
    <2>. QED  BY <1>15, <2>1 DEF Boot, fs, counters
  <1>16. CASE UNCHANGED vars
    BY <1>16 DEF vars, fs, counters
  <1>. QED
    BY <1>1, <1>2, <1>3, <1>4, <1>5, <1>6, <1>7, <1>8, <1>9, <1>10, <1>11, <1>12, <1>13,
       <1>14, <1>15, <1>16
       DEF Next, Step, Execute, Compensate

(* A step of one invocation leaves the others' program points, phases,     *)
(* faults and histories alone, and the root that runs.                     *)
LEMMA StepShape ==
  ASSUME TypeOK, NEW p \in Procs, Step(p)
  PROVE  /\ \A r \in Procs \ {p} :
              /\ pc'[r] = pc[r] /\ phase'[r] = phase[r]
              /\ faults'[r] = faults[r] /\ rootBefore'[r] = rootBefore[r]
         /\ pc' = [pc EXCEPT ![p] = pc'[p]]
         /\ booted' = booted
  <1>1. CASE BuildPlan(p)
    BY <1>1 DEF BuildPlan, TypeOK, Go, counters
  <1>2. CASE Execute(p)
    BY <1>2 DEF Execute, TakeLock, Mount, CreateReplacement, PreserveTarget, SwitchTarget,
                VerifyTopology, Sync, Unmount, Phase, TypeOK, Go, counters
  <1>3. CASE Compensate(p)
    BY <1>3 DEF Compensate, DiscardReplacement, NothingToDiscard, PutTargetBack,
                NothingToPutBack, Resync, Detach, TryMove, TypeOK, Go, counters
  <1>4. CASE Fault(p)
    BY <1>4 DEF Fault, TypeOK
  <1>5. CASE Kill(p)
    BY <1>5 DEF Kill, TypeOK
  <1>. QED  BY <1>1, <1>2, <1>3, <1>4, <1>5 DEF Step

(* How the lock moves: taken when it is free, kept inside, released when   *)
(* its holder leaves.                                                      *)
LEMMA LockMoves ==
  ASSUME TypeOK, LockInv, NEW p \in Procs, Step(p)
  PROVE  \/ /\ lock = p /\ lock' = p /\ pc[p] \in Inside /\ pc'[p] \in Inside
         \/ /\ lock = p /\ lock' = Nobody /\ pc[p] \in Inside /\ pc'[p] \notin Inside
         \/ /\ lock = Nobody /\ lock' = p /\ pc[p] = "planned" /\ pc'[p] = "locked"
         \/ /\ lock # p /\ lock' = lock /\ pc[p] \notin Inside /\ pc'[p] \notin Inside
  <1> USE DEF TypeOK, Go
  <1>1. CASE BuildPlan(p)
    BY <1>1 DEF BuildPlan, LockInv, Inside, Forward, Compensating
  <1>2. CASE TakeLock(p)
    BY <1>2 DEF TakeLock, LockInv, Inside, Forward, Compensating
  <1>3. CASE Mount(p) \/ CreateReplacement(p) \/ PreserveTarget(p) \/ SwitchTarget(p)
             \/ VerifyTopology(p) \/ Sync(p)
    BY <1>3 DEF Mount, CreateReplacement, PreserveTarget, SwitchTarget, VerifyTopology, Sync,
                Phase, LockInv, Inside, Forward, Compensating
  <1>4. CASE Unmount(p) \/ Detach(p)
    BY <1>4 DEF Unmount, Detach, LockInv, Inside, Forward, Compensating
  <1>5. CASE DiscardReplacement(p) \/ NothingToDiscard(p) \/ PutTargetBack(p)
             \/ NothingToPutBack(p) \/ Resync(p)
    BY <1>5 DEF DiscardReplacement, NothingToDiscard, PutTargetBack, NothingToPutBack, Resync,
                TryMove, LockInv, Inside, Forward, Compensating
  <1>6. CASE Fault(p)
    <2>1. pc'[p] = OnError[pc[p]] /\ pc[p] \in {"planned"} \cup Inside
      BY <1>6, OnErrorLeads DEF Fault
    <2>2. CASE pc[p] = "planned"
      BY <1>6, <2>1, <2>2, OnErrorLeads, PointsAre
         DEF Fault, LockInv, Inside, Forward, Compensating
    <2>3. CASE pc[p] \in {"locked", "detach"}
      BY <1>6, <2>1, <2>3, OnErrorLeads DEF Fault, LockInv, Inside, Forward, Compensating
    <2>4. CASE pc[p] \in {"mounted", "copied", "preserved", "switched", "verified", "synced",
                          "caught", "putback", "resync"}
      BY <1>6, <2>1, <2>4, OnErrorLeads DEF Fault, LockInv, Inside, Forward, Compensating
    <2>. QED  BY <2>1, <2>2, <2>3, <2>4 DEF Inside, Forward, Compensating
  <1>7. CASE Kill(p)
    BY <1>7, PointsAre DEF Kill, LockInv, Inside, Forward, Compensating
  <1>. QED  BY <1>1, <1>2, <1>3, <1>4, <1>5, <1>6, <1>7 DEF Step, Execute, Compensate

LEMMA LockStep == TypeOK /\ LockInv /\ [Next]_vars => LockInv'
  <1> SUFFICES ASSUME TypeOK, LockInv, [Next]_vars PROVE LockInv'
    OBVIOUS
  <1>1. ASSUME NEW p \in Procs, Step(p) PROVE LockInv'
    BY <1>1, StepShape, LockMoves, NobodyAssumption, PointsAre
       DEF LockInv, Inside, Forward, Compensating
  <1>2. ASSUME NEW q \in {Target, Snapshot}, Boot(q) PROVE LockInv'
    BY <1>2, NobodyAssumption, PointsAre
       DEF Boot, LockInv, Inside, Forward, Compensating, Ended, TypeOK
  <1>3. CASE UNCHANGED vars
    BY <1>3 DEF vars, LockInv
  <1>. QED  BY <1>1, <1>2, <1>3 DEF Next

LEMMA MountStep == TypeOK /\ LockInv /\ MountInv /\ [Next]_vars => MountInv'
  <1> SUFFICES ASSUME TypeOK, LockInv, MountInv, [Next]_vars PROVE MountInv'
    OBVIOUS
  <1>1. ASSUME NEW p \in Procs, Step(p) PROVE MountInv'
    <2>1. CASE mounts' = mounts /\ (pc'[p] \in Mounted => pc[p] \in Mounted)
      BY <1>1, <2>1, StepShape DEF MountInv
    <2>2. CASE Mount(p)
      BY <2>2 DEF Mount, MountInv, TypeOK
    <2>3. CASE lock = p /\ pc'[p] \notin Mounted
      BY <1>1, <2>3, StepShape, NobodyAssumption DEF MountInv, LockInv, Mounted
    <2>4. CASE BuildPlan(p) \/ TakeLock(p) \/ Kill(p)
      <3>1. pc'[p] \notin Mounted /\ mounts' = mounts
        BY <2>4 DEF BuildPlan, TakeLock, Kill, Go, TypeOK, Mounted, Inside, Forward, Compensating
      <3>. QED  BY <3>1, <2>1
    <2>5. CASE CreateReplacement(p) \/ PreserveTarget(p) \/ SwitchTarget(p)
               \/ VerifyTopology(p) \/ Sync(p)
      <3>1. pc[p] \in Mounted /\ mounts' = mounts
        BY <2>5 DEF CreateReplacement, PreserveTarget, SwitchTarget, VerifyTopology, Sync, Phase,
                    Go, Mounted, Inside, Forward, Compensating
      <3>. QED  BY <3>1, <2>1
    <2>6. CASE Unmount(p) \/ Detach(p)
      <3>1. pc[p] \in Inside /\ pc'[p] \notin Mounted
        BY <2>6 DEF Unmount, Detach, Go, TypeOK, Mounted, Inside, Forward, Compensating
      <3>. QED  BY <3>1, <2>3 DEF LockInv
    <2>7. CASE DiscardReplacement(p) \/ NothingToDiscard(p) \/ PutTargetBack(p)
               \/ NothingToPutBack(p) \/ Resync(p)
      <3>1. pc[p] \in Mounted /\ mounts' = mounts
        BY <2>7 DEF DiscardReplacement, NothingToDiscard, PutTargetBack, NothingToPutBack,
                    Resync, TryMove, Go, Mounted, Inside, Forward, Compensating
      <3>. QED  BY <3>1, <2>1
    <2>8. CASE Fault(p)
      <3>1. pc[p] \in {"planned", "locked"} \cup Mounted
        BY <2>8, OnErrorLeads DEF Fault, Mounted
      <3>2. pc[p] \in {"planned", "locked"} => pc'[p] = "failed"
        BY <2>8, OnErrorLeads DEF Fault, TypeOK
      <3>. QED  BY <2>1, <2>8, <3>1, <3>2 DEF Fault, Mounted, Inside, Forward, Compensating
    <2>. QED
      BY <1>1, <2>2, <2>4, <2>5, <2>6, <2>7, <2>8 DEF Step, Execute, Compensate
  <1>2. ASSUME NEW q \in {Target, Snapshot}, Boot(q) PROVE MountInv'
    BY <1>2 DEF Boot, MountInv, Mounted, Inside, Forward, Compensating, Ended, TypeOK
  <1>3. CASE UNCHANGED vars
    BY <1>3 DEF vars, MountInv
  <1>. QED  BY <1>1, <1>2, <1>3 DEF Next

(* Nothing is unmounted that was not mounted, and the types hold.          *)
THEOREM TypeCorrect == Spec => []TypeOK
  <1>1. TypeOK /\ LockInv /\ MountInv /\ [Next]_vars => (TypeOK /\ LockInv /\ MountInv)'
    BY TypeStep, LockStep, MountStep
  <1>. QED  BY <1>1, TypeInit, PTL DEF Spec

-----------------------------------------------------------------------------
(* The roots. *)

(* The paths that an invocation moves trees between. *)
Own(p) == {Target, Failed, Preserved(p), Replacement(p)}

(* What a step does to the file system: nothing, a sync, a copy to a free  *)
(* path, or a move between paths of its own; and only inside the lock.     *)
LEMMA FsMoves ==
  ASSUME TypeOK, NEW p \in Procs, Step(p)
  PROVE  \/ UNCHANGED fs
         \/ /\ pc[p] \in Inside
            /\ \/ Synced
               \/ /\ Change([tree EXCEPT ![Replacement(p)] = CopyBy(p)])
                  /\ ~Exists(Replacement(p))
               \/ \E a, b \in Own(p) : a # b /\ Movable(a, b) /\ Change(Moved(a, b))
  <1> USE DEF Go
  <1>1. CASE BuildPlan(p) \/ TakeLock(p) \/ Mount(p) \/ VerifyTopology(p) \/ Unmount(p)
             \/ NothingToDiscard(p) \/ NothingToPutBack(p) \/ Detach(p) \/ Fault(p) \/ Kill(p)
    BY <1>1 DEF BuildPlan, TakeLock, Mount, VerifyTopology, Unmount, NothingToDiscard,
                NothingToPutBack, Detach, Fault, Kill
  <1>2. CASE Sync(p) \/ Resync(p)
    BY <1>2 DEF Sync, Resync, Inside, Forward, Compensating
  <1>3. CASE CreateReplacement(p)
    BY <1>3 DEF CreateReplacement, Phase, Inside, Forward
  <1>4. CASE PreserveTarget(p)
    BY <1>4, PathsDiffer DEF PreserveTarget, Phase, Inside, Forward, Own
  <1>5. CASE SwitchTarget(p)
    BY <1>5, PathsDiffer DEF SwitchTarget, Phase, Inside, Forward, Own
  <1>6. CASE DiscardReplacement(p)
    BY <1>6, PathsDiffer DEF DiscardReplacement, TryMove, Inside, Compensating, Own
  <1>7. CASE PutTargetBack(p)
    BY <1>7, PathsDiffer DEF PutTargetBack, TryMove, Inside, Compensating, Own
  <1>. QED
    BY <1>1, <1>2, <1>3, <1>4, <1>5, <1>6, <1>7 DEF Step, Execute, Compensate

LEMMA OwnPaths ==
  ASSUME NEW p \in Procs
  PROVE  Own(p) \subseteq Paths /\ Snapshot \notin Own(p)
  BY PathsDiffer DEF Own

(* A copy to a free path leaves the roots where they are. *)
LEMMA CopyUnique ==
  ASSUME TypeOK, NEW p \in Procs, tree[Replacement(p)] = None,
         NEW root \in {MainRoot, Frozen}, Unique(tree, root)
  PROVE  Unique([tree EXCEPT ![Replacement(p)] = CopyBy(p)], root)
  <1>1. PICK q \in Paths : OnlyAt(tree, root, q)
    BY DEF Unique
  <1>2. OnlyAt([tree EXCEPT ![Replacement(p)] = CopyBy(p)], root, q)
    BY <1>1, PathsDiffer, TreesDiffer DEF OnlyAt, TypeOK, Topologies
  <1>. QED  BY <1>2 DEF Unique

LEMMA RootsInit == Init => RootsInv
  <1> SUFFICES ASSUME Init PROVE RootsInv
    OBVIOUS
  <1>1. OnlyAt(tree, MainRoot, Target) /\ OnlyAt(tree, Frozen, Snapshot)
    BY PathsDiffer, TreesDiffer DEF Init, OnlyAt
  <1>2. durable \cup {tree} = {tree}
    BY DEF Init
  <1>. QED  BY <1>1, <1>2, PathsDiffer DEF RootsInv, Unique

LEMMA RootsStep == TypeOK /\ RootsInv /\ [Next]_vars => RootsInv'
  <1> SUFFICES ASSUME TypeOK, RootsInv, [Next]_vars,
                      NEW root \in {MainRoot, Frozen}, NEW t \in durable' \cup {tree'}
               PROVE  Unique(t, root)
    BY DEF RootsInv, Unique, OnlyAt
  <1>1. Unique(tree, root) /\ \A u \in durable : Unique(u, root)
    BY DEF RootsInv
  <1>2. ASSUME NEW p \in Procs, Step(p) PROVE Unique(t, root)
    <2>1. CASE UNCHANGED fs
      BY <1>1, <2>1 DEF fs
    <2>2. CASE Synced
      BY <1>1, <2>2 DEF Synced
    <2>3. CASE Change([tree EXCEPT ![Replacement(p)] = CopyBy(p)]) /\ ~Exists(Replacement(p))
      BY <1>1, <2>3, CopyUnique DEF Change, Exists
    <2>4. ASSUME NEW a \in Own(p), NEW b \in Own(p), a # b, Movable(a, b), Change(Moved(a, b))
          PROVE  Unique(t, root)
      <3>1. Unique(Moved(a, b), root)
        BY <1>1, <2>4, MovedUnique, OwnPaths, TreesDiffer DEF TypeOK, Movable, Exists
      <3>. QED  BY <1>1, <2>4, <3>1 DEF Change
    <2>. QED  BY <1>2, <2>1, <2>2, <2>3, <2>4, FsMoves
  <1>3. ASSUME NEW q \in {Target, Snapshot}, Boot(q) PROVE Unique(t, root)
    BY <1>1, <1>3 DEF Boot
  <1>4. CASE UNCHANGED vars
    BY <1>1, <1>4 DEF vars, fs
  <1>. QED  BY <1>2, <1>3, <1>4 DEF Next

(* RollbackService, its compensation and the boots after a power loss:     *)
(* whatever is moved where, the original main root and the snapshot are    *)
(* each at exactly one path, in the topology and in every one that a power *)
(* loss may leave.                                                         *)
THEOREM RootsNeverLost == Spec => []RootsKept
  <1>1. RootsInv => RootsKept
    <2> SUFFICES ASSUME NEW t, NEW root, Unique(t, root)
                 PROVE  Cardinality({q \in Paths : t[q] = root}) = 1
      BY DEF RootsInv, RootsKept
    <2>1. PICK q \in Paths : OnlyAt(t, root, q)
      BY DEF Unique
    <2>2. {r \in Paths : t[r] = root} = {q}
      BY <2>1 DEF OnlyAt
    <2>. QED  BY <2>2, FS_Singleton
  <1>. QED  BY <1>1, RootsInit, RootsStep, TypeCorrect, PTL DEF Spec

-----------------------------------------------------------------------------
(* The root that runs. *)

LEMMA BootedInit == Init => BootedInv
  BY PointsAre DEF Init, BootedInv

LEMMA BootedStep == TypeOK /\ LockInv /\ BootedInv /\ [Next]_vars => BootedInv'
  <1> SUFFICES ASSUME TypeOK, LockInv, BootedInv, [Next]_vars PROVE BootedInv'
    OBVIOUS
  <1>1. ASSUME NEW p \in Procs, Step(p) PROVE BootedInv'
    <2>1. pc'[p] \in Inside \cup {"planned"} => booted = Snapshot
      <3>1. CASE BuildPlan(p)
        BY <3>1 DEF BuildPlan, Go, TypeOK, Eligible, Inside, Forward, Compensating
      <3>2. CASE pc[p] \in Inside \cup {"planned"}
        BY <3>2 DEF BootedInv
      <3>3. CASE pc[p] \notin Inside \cup {"planned"} /\ ~BuildPlan(p)
        BY <1>1, <3>3, LockMoves, PointsAre
           DEF Step, Execute, Compensate, TakeLock, Mount, CreateReplacement, PreserveTarget,
               SwitchTarget, VerifyTopology, Sync, Unmount, Phase, DiscardReplacement,
               NothingToDiscard, PutTargetBack, NothingToPutBack, Resync, Detach, Fault, Kill,
               OnError, Go, TypeOK, Inside, Forward, Compensating, Ended
      <3>. QED  BY <3>1, <3>2, <3>3
    <2>. QED  BY <1>1, <2>1, StepShape DEF BootedInv
  <1>2. ASSUME NEW q \in {Target, Snapshot}, Boot(q) PROVE BootedInv'
    <2>1. \A p \in Procs : pc'[p] \in Ended \cup {"start"}
      BY <1>2 DEF Boot, Ended
    <2>. QED  BY <2>1, PointsAre DEF BootedInv
  <1>3. CASE UNCHANGED vars
    BY <1>3 DEF vars, BootedInv
  <1>. QED  BY <1>1, <1>2, <1>3 DEF Next

(* RollbackPlanner and RollbackService: no step of a rollback moves the    *)
(* root that the machine runs on.                                          *)
THEOREM NothingMovesRunningRoot == Spec => RunningRootStays
  <1>1. ASSUME TypeOK, BootedInv, [Next]_vars PROVE [crashes' = crashes => tree'[booted] = tree[booted]]_vars
    <2> SUFFICES ASSUME crashes' = crashes PROVE tree'[booted] = tree[booted]
      OBVIOUS
    <2> USE <1>1
    <2>1. ASSUME NEW p \in Procs, Step(p) PROVE tree'[booted] = tree[booted]
      <3>1. CASE UNCHANGED fs \/ Synced
        BY <3>1 DEF fs, Synced
      <3>2. CASE /\ pc[p] \in Inside
                 /\ Change([tree EXCEPT ![Replacement(p)] = CopyBy(p)])
        BY <3>2, PathsDiffer DEF BootedInv, Change, TypeOK, Topologies
      <3>3. ASSUME pc[p] \in Inside, NEW a \in Own(p), NEW b \in Own(p), a # b,
                   Change(Moved(a, b))
            PROVE  tree'[booted] = tree[booted]
        BY <3>3, MovedTree, OwnPaths, PathsDiffer DEF BootedInv, Change, TypeOK
      <3>. QED  BY <2>1, <3>1, <3>2, <3>3, FsMoves
    <2>2. ASSUME NEW q \in {Target, Snapshot}, Boot(q) PROVE FALSE
      BY <2>2 DEF Boot, TypeOK
    <2>3. CASE UNCHANGED vars
      BY <2>3 DEF vars, fs
    <2>. QED  BY <2>1, <2>2, <2>3 DEF Next
  <1>2. TypeOK /\ LockInv /\ MountInv /\ BootedInv /\ [Next]_vars
          => (TypeOK /\ LockInv /\ MountInv /\ BootedInv)'
    BY TypeStep, LockStep, MountStep, BootedStep
  <1>. QED  BY <1>1, <1>2, TypeInit, BootedInit, PTL DEF Spec, RunningRootStays

-----------------------------------------------------------------------------
(* The course of a rollback. *)

NoCopy(t, p) == \A q \in Paths : t[q] # CopyBy(p)

(* The copy could not leave the main root's place: what it is renamed to   *)
(* when a rollback fails is taken, by something else.                      *)
Blocked(p) == tree[Target] = CopyBy(p) /\ Exists(Failed) /\ tree[Failed] # CopyBy(p)

(* What an invocation finds at each of its program points.  The forward    *)
(* phases: *)
CourseStart(p) ==
  pc[p] \in {"start", "planned"} =>
    rootBefore[p] = None /\ phase[p] = 0 /\ \A t \in durable \cup {tree} : NoCopy(t, p)

CourseForward(p) ==
  /\ pc[p] \in {"locked", "mounted"} =>
       tree[Target] = rootBefore[p] /\ phase[p] = 0 /\ NoCopy(tree, p)
  /\ pc[p] = "copied" =>
       /\ tree[Target] = rootBefore[p] /\ phase[p] = 1
       /\ OnlyAt(tree, CopyBy(p), Replacement(p))
  /\ pc[p] = "preserved" =>
       /\ tree[Target] = None /\ tree[Preserved(p)] = rootBefore[p] /\ rootBefore[p] # None
       /\ phase[p] = 2 /\ OnlyAt(tree, CopyBy(p), Replacement(p))
  /\ pc[p] \in {"switched", "verified", "synced"} =>
       /\ tree[Preserved(p)] = rootBefore[p] /\ rootBefore[p] # None
       /\ phase[p] = 3 /\ OnlyAt(tree, CopyBy(p), Target)
  /\ pc[p] = "synced" => durable = {tree}

(* The compensation; the second operation that fails is what it cannot     *)
(* mend.                                                                   *)
CourseBack(p) ==
  /\ pc[p] \in {"caught", "putback"} /\ phase[p] \in {0, 1} => tree[Target] = rootBefore[p]
  /\ pc[p] = "caught" /\ phase[p] \in {2, 3} =>
       /\ faults[p] >= 1
       /\ tree[Preserved(p)] = rootBefore[p] /\ rootBefore[p] # None
       /\ phase[p] = 2 => tree[Target] = None
       /\ phase[p] = 3 => OnlyAt(tree, CopyBy(p), Target)
  /\ pc[p] = "putback" /\ phase[p] \in {2, 3} =>
       /\ faults[p] >= 1
       /\ \/ faults[p] >= 2
          \/ /\ tree[Target] = None
             /\ tree[Preserved(p)] = rootBefore[p] /\ rootBefore[p] # None
          \/ Blocked(p)
  /\ pc[p] \in {"resync", "detach"} =>
       faults[p] >= 2 \/ tree[Target] = rootBefore[p] \/ Blocked(p)

Course(p) == CourseStart(p) /\ CourseForward(p) /\ CourseBack(p)
CourseInv == \A p \in Procs : Course(p)

(* Nobody has crashed, and no rollback had two operations fail: the main   *)
(* root is there when nobody is inside, and was there when somebody came.  *)
Quiet == crashes = 0 /\ \A p \in Procs : faults[p] < 2
PresentInv ==
  Quiet => /\ lock = Nobody => Exists(Target)
           /\ \A p \in Procs : pc[p] \in Inside => rootBefore[p] # None

(* Where a copy is after a move. *)
LEMMA MovedCopy ==
  ASSUME tree \in Topologies, NEW a \in Paths, NEW b \in Paths, a # b, tree[b] = None,
         NEW p \in Procs
  PROVE  /\ NoCopy(tree, p) => NoCopy(Moved(a, b), p)
         /\ OnlyAt(tree, CopyBy(p), a) => OnlyAt(Moved(a, b), CopyBy(p), b)
         /\ \A q \in Paths \ {a} :
              OnlyAt(tree, CopyBy(p), q) => OnlyAt(Moved(a, b), CopyBy(p), q)
  BY MovedTree, TreesDiffer DEF NoCopy, OnlyAt

LEMMA MadeCopy ==
  ASSUME TypeOK, NEW p \in Procs
  PROVE  LET t == [tree EXCEPT ![Replacement(p)] = CopyBy(p)]
         IN  /\ NoCopy(tree, p) => OnlyAt(t, CopyBy(p), Replacement(p))
             /\ \A r \in Procs \ {p} : NoCopy(tree, r) => NoCopy(t, r)
             /\ \A q \in Paths \ {Replacement(p)} : t[q] = tree[q]
  BY PathsDiffer, TreesDiffer DEF NoCopy, OnlyAt, TypeOK, Topologies

LEMMA CourseInit == Init => CourseInv
  <1> SUFFICES ASSUME Init, NEW p \in Procs PROVE Course(p)
    BY DEF CourseInv
  <1>1. NoCopy(tree, p)
    BY PathsDiffer, TreesDiffer DEF Init, NoCopy
  <1>2. pc[p] = "start" /\ durable = {tree} /\ rootBefore[p] = None /\ phase[p] = 0
    BY DEF Init
  <1>. QED  BY <1>1, <1>2 DEF Course, CourseStart, CourseForward, CourseBack

(* Course(r) looks at nothing but the file system and what r keeps.        *)
LEMMA CourseSame ==
  ASSUME NEW r \in Procs, Course(r), UNCHANGED fs, pc'[r] = pc[r], phase'[r] = phase[r],
         faults'[r] = faults[r], rootBefore'[r] = rootBefore[r]
  PROVE  Course(r)'
  <1>1. UNCHANGED <<tree, durable, pc[r], phase[r], faults[r], rootBefore[r]>>
    BY DEF fs
  <1>. QED
    BY <1>1 DEF Course, CourseStart, CourseForward, CourseBack, Blocked, Exists, NoCopy, OnlyAt

(* A step of p does not disturb r: either r is inside, and p cannot touch  *)
(* the file system, or r has not begun, and nobody else makes its copy.    *)
LEMMA CourseOther ==
  ASSUME TypeOK, LockInv, NEW p \in Procs, Step(p), NEW r \in Procs, r # p, Course(r)
  PROVE  Course(r)'
  <1>1. /\ pc'[r] = pc[r] /\ phase'[r] = phase[r]
        /\ faults'[r] = faults[r] /\ rootBefore'[r] = rootBefore[r]
    BY StepShape
  <1>2. CASE UNCHANGED fs
    BY <1>1, <1>2, CourseSame
  <1>3. CASE pc[r] \in Inside
    <2>1. UNCHANGED fs
      BY <1>3, FsMoves DEF LockInv
    <2>. QED  BY <2>1, <1>2
  <1>4. CASE pc[r] \in {"start", "planned"}
    <2>1. rootBefore[r] = None /\ phase[r] = 0 /\ \A t \in durable \cup {tree} : NoCopy(t, r)
      BY <1>4 DEF Course, CourseStart
    <2>2. \A t \in durable' \cup {tree'} : NoCopy(t, r)
      <3>1. CASE Synced
        BY <2>1, <3>1 DEF Synced
      <3>2. CASE Change([tree EXCEPT ![Replacement(p)] = CopyBy(p)])
        BY <2>1, <3>2, MadeCopy DEF Change
      <3>3. ASSUME NEW a \in Own(p), NEW b \in Own(p), a # b, Movable(a, b), Change(Moved(a, b))
            PROVE  \A t \in durable' \cup {tree'} : NoCopy(t, r)
        <4>1. NoCopy(Moved(a, b), r)
          BY <2>1, <3>3, MovedCopy, OwnPaths DEF TypeOK, Movable, Exists
        <4>. QED  BY <2>1, <3>3, <4>1 DEF Change
      <3>4. CASE UNCHANGED fs
        BY <2>1, <3>4 DEF fs
      <3>. QED  BY <3>1, <3>2, <3>3, <3>4, FsMoves
    <2>3. CourseStart(r)'
      BY <1>1, <2>1, <2>2 DEF CourseStart, NoCopy
    <2>. QED  BY <1>1, <1>4, <2>3 DEF Course, CourseForward, CourseBack
  <1>5. CASE pc[r] \in Ended
    BY <1>1, <1>5, PointsAre
       DEF Course, CourseStart, CourseForward, CourseBack, Ended
  <1>. QED  BY <1>2, <1>3, <1>4, <1>5, PointsAre DEF TypeOK

(* The forward phases of p. *)
LEMMA CourseForwardStep ==
  ASSUME TypeOK, NEW p \in Procs, Course(p), BuildPlan(p) \/ Execute(p)
  PROVE  Course(p)'
  <1> USE DEF TypeOK, Go, Course
  <1>1. CASE BuildPlan(p)
    <2>1. pc[p] = "start" /\ pc'[p] \in {"planned", "ineligible"}
      BY <1>1 DEF BuildPlan
    <2>2. UNCHANGED <<tree, durable, phase, rootBefore, faults>>
      BY <1>1 DEF BuildPlan, fs, counters
    <2>. QED  BY <2>1, <2>2 DEF CourseStart, CourseForward, CourseBack, NoCopy
  <1>2. CASE TakeLock(p)
    <2>1. pc[p] = "planned"
      BY <1>2 DEF TakeLock
    <2>2. UNCHANGED <<tree, durable, phase, faults>>
      BY <1>2 DEF TakeLock, fs, counters
    <2>3. \/ pc'[p] = "locked" /\ rootBefore'[p] = tree[Target]
          \/ pc'[p] = "busy"
      BY <1>2, PathsDiffer DEF TakeLock, Topologies
    <2>. QED  BY <2>1, <2>2, <2>3 DEF CourseStart, CourseForward, CourseBack, NoCopy
  <1>3. CASE Mount(p)
    <2>1. pc[p] = "locked" /\ pc'[p] = "mounted"
      BY <1>3 DEF Mount
    <2>2. UNCHANGED <<tree, durable, phase, rootBefore, faults>>
      BY <1>3 DEF Mount, fs, counters
    <2>. QED  BY <2>1, <2>2 DEF CourseStart, CourseForward, CourseBack, NoCopy
  <1>4. CASE CreateReplacement(p)
    <2>1. tree[Target] = rootBefore[p] /\ phase[p] = 0 /\ NoCopy(tree, p)
      BY <1>4 DEF CreateReplacement, Phase, CourseForward
    <2>2. UNCHANGED <<rootBefore, faults>>
      BY <1>4 DEF CreateReplacement, Phase, counters
    <2>3. CASE Exists(Snapshot) /\ ~Exists(Replacement(p))
      <3>1. pc'[p] = "copied" /\ phase'[p] = 1
        BY <1>4, <2>3 DEF CreateReplacement, Phase
      <3>2. tree' = [tree EXCEPT ![Replacement(p)] = CopyBy(p)]
        BY <1>4, <2>3 DEF CreateReplacement, Phase, Change
      <3>3. tree'[Target] = tree[Target] /\ OnlyAt(tree', CopyBy(p), Replacement(p))
        BY <2>1, <3>2, MadeCopy, PathsDiffer
      <3>. QED  BY <2>1, <2>2, <3>1, <3>3 DEF CourseStart, CourseForward, CourseBack, OnlyAt
    <2>4. CASE ~(Exists(Snapshot) /\ ~Exists(Replacement(p)))
      <3>1. pc'[p] = "caught" /\ UNCHANGED <<tree, phase>>
        BY <1>4, <2>4 DEF CreateReplacement, Phase, fs
      <3>. QED  BY <2>1, <2>2, <3>1 DEF CourseStart, CourseForward, CourseBack
    <2>. QED  BY <2>3, <2>4
  <1>5. CASE PreserveTarget(p)
    <2>1. /\ tree[Target] = rootBefore[p] /\ phase[p] = 1
          /\ OnlyAt(tree, CopyBy(p), Replacement(p))
      BY <1>5 DEF PreserveTarget, Phase, CourseForward
    <2>2. UNCHANGED <<rootBefore, faults>>
      BY <1>5 DEF PreserveTarget, Phase, counters
    <2>3. CASE Movable(Target, Preserved(p))
      <3>1. pc'[p] = "preserved" /\ phase'[p] = 2
        BY <1>5, <2>3 DEF PreserveTarget, Phase
      <3>2. tree' = Moved(Target, Preserved(p))
        BY <1>5, <2>3 DEF PreserveTarget, Phase, Change
      <3>3. /\ tree'[Target] = None /\ tree'[Preserved(p)] = tree[Target]
            /\ OnlyAt(tree', CopyBy(p), Replacement(p))
        BY <2>1, <2>3, <3>2, MovedTree, MovedCopy, PathsDiffer DEF Movable, Exists
      <3>4. rootBefore[p] # None
        BY <2>1, <2>3 DEF Movable, Exists
      <3>. QED
        BY <2>1, <2>2, <3>1, <3>3, <3>4 DEF CourseStart, CourseForward, CourseBack, OnlyAt
    <2>4. CASE ~Movable(Target, Preserved(p))
      <3>1. pc'[p] = "caught" /\ UNCHANGED <<tree, phase>>
        BY <1>5, <2>4 DEF PreserveTarget, Phase, fs
      <3>. QED  BY <2>1, <2>2, <3>1 DEF CourseStart, CourseForward, CourseBack
    <2>. QED  BY <2>3, <2>4
  <1>6. CASE SwitchTarget(p)
    <2>1. /\ tree[Target] = None /\ tree[Preserved(p)] = rootBefore[p] /\ rootBefore[p] # None
          /\ OnlyAt(tree, CopyBy(p), Replacement(p))
      BY <1>6 DEF SwitchTarget, Phase, CourseForward
    <2>2. Movable(Replacement(p), Target)
      BY <2>1, PathsDiffer, TreesDiffer DEF Movable, Exists, OnlyAt
    <2>3. UNCHANGED <<rootBefore, faults>> /\ pc'[p] = "switched" /\ phase'[p] = 3
      BY <1>6, <2>2 DEF SwitchTarget, Phase, counters
    <2>4. tree' = Moved(Replacement(p), Target)
      BY <1>6, <2>2 DEF SwitchTarget, Phase, Change
    <2>5. tree'[Preserved(p)] = tree[Preserved(p)] /\ OnlyAt(tree', CopyBy(p), Target)
      BY <2>1, <2>4, MovedTree, MovedCopy, PathsDiffer
    <2>. QED  BY <2>1, <2>3, <2>5 DEF CourseStart, CourseForward, CourseBack, OnlyAt
  <1>7. CASE VerifyTopology(p)
    <2>1. /\ tree[Preserved(p)] = rootBefore[p] /\ rootBefore[p] # None
          /\ phase[p] = 3 /\ OnlyAt(tree, CopyBy(p), Target)
      BY <1>7 DEF VerifyTopology, CourseForward
    <2>2. Exists(Target) /\ Exists(Preserved(p))
      BY <2>1, PathsDiffer, TreesDiffer DEF Exists, OnlyAt
    <2>3. pc'[p] = "verified" /\ UNCHANGED <<tree, phase, rootBefore, faults>>
      BY <1>7, <2>2 DEF VerifyTopology, fs, counters
    <2>. QED  BY <2>1, <2>3 DEF CourseStart, CourseForward, CourseBack, OnlyAt
  <1>8. CASE Sync(p)
    <2>1. /\ tree[Preserved(p)] = rootBefore[p] /\ rootBefore[p] # None
          /\ phase[p] = 3 /\ OnlyAt(tree, CopyBy(p), Target)
      BY <1>8 DEF Sync, CourseForward
    <2>2. /\ pc'[p] = "synced" /\ durable' = {tree'}
          /\ UNCHANGED <<tree, phase, rootBefore, faults>>
      BY <1>8 DEF Sync, Synced, counters
    <2>. QED  BY <2>1, <2>2 DEF CourseStart, CourseForward, CourseBack, OnlyAt
  <1>9. CASE Unmount(p)
    <2>1. pc'[p] = "done"
      BY <1>9 DEF Unmount
    <2>. QED  BY <2>1 DEF CourseStart, CourseForward, CourseBack
  <1>. QED
    BY <1>1, <1>2, <1>3, <1>4, <1>5, <1>6, <1>7, <1>8, <1>9 DEF Execute

(* Its compensation. *)
LEMMA CourseBackStep ==
  ASSUME TypeOK, NEW p \in Procs, Course(p), Compensate(p)
  PROVE  Course(p)'
  <1> USE DEF TypeOK, Go, Course
  <1>1. CASE DiscardReplacement(p)
    <2>1. pc[p] = "caught" /\ pc'[p] = "putback" /\ UNCHANGED <<phase, rootBefore, faults>>
      BY <1>1 DEF DiscardReplacement, TryMove, counters
    <2>2. CASE phase[p] = 3
      <3>1. /\ faults[p] >= 1 /\ tree[Preserved(p)] = rootBefore[p] /\ rootBefore[p] # None
            /\ OnlyAt(tree, CopyBy(p), Target)
        BY <2>1, <2>2 DEF CourseBack
      <3>2. TryMove(p, Target, Failed)
        BY <1>1, <2>2 DEF DiscardReplacement
      <3>3. CASE Movable(Target, Failed)
        <4>1. tree' = Moved(Target, Failed)
          BY <3>2, <3>3 DEF TryMove, Change
        <4>2. tree'[Target] = None /\ tree'[Preserved(p)] = tree[Preserved(p)]
          BY <4>1, MovedTree, PathsDiffer
        <4>. QED
          BY <2>1, <2>2, <3>1, <4>2 DEF CourseStart, CourseForward, CourseBack
      <3>4. CASE ~Movable(Target, Failed)
        <4>1. UNCHANGED tree
          BY <3>2, <3>4 DEF TryMove, fs
        <4>2. Blocked(p)
          BY <3>1, <3>4, PathsDiffer, TreesDiffer DEF Blocked, OnlyAt, Movable, Exists
        <4>. QED
          BY <2>1, <2>2, <3>1, <4>1, <4>2
             DEF CourseStart, CourseForward, CourseBack, Blocked, Exists
      <3>. QED  BY <3>3, <3>4
    <2>3. CASE phase[p] \in {1, 2}
      <3>1. TryMove(p, Replacement(p), Failed)
        BY <1>1, <2>3 DEF DiscardReplacement
      <3>2. tree'[Target] = tree[Target] /\ tree'[Preserved(p)] = tree[Preserved(p)]
        BY <3>1, MovedTree, PathsDiffer DEF TryMove, Change, fs
      <3>. QED  BY <2>1, <2>3, <3>2 DEF CourseStart, CourseForward, CourseBack
    <2>. QED  BY <1>1, <2>2, <2>3 DEF DiscardReplacement
  <1>2. CASE NothingToDiscard(p)
    <2>1. /\ pc[p] = "caught" /\ pc'[p] = "putback" /\ phase[p] = 0
          /\ UNCHANGED <<tree, phase, rootBefore, faults>>
      BY <1>2 DEF NothingToDiscard, fs, counters
    <2>. QED  BY <2>1 DEF CourseStart, CourseForward, CourseBack
  <1>3. CASE PutTargetBack(p)
    <2>1. /\ pc[p] = "putback" /\ pc'[p] = "resync" /\ phase[p] \in {2, 3}
          /\ UNCHANGED <<phase, rootBefore, faults>>
      BY <1>3 DEF PutTargetBack, TryMove, counters
    <2>2. TryMove(p, Preserved(p), Target)
      BY <1>3 DEF PutTargetBack
    <2>3. CASE faults[p] >= 2
      BY <2>1, <2>3 DEF CourseStart, CourseForward, CourseBack
    <2>4. CASE /\ tree[Target] = None
               /\ tree[Preserved(p)] = rootBefore[p] /\ rootBefore[p] # None
      <3>1. tree' = Moved(Preserved(p), Target)
        BY <2>2, <2>4 DEF TryMove, Change, Movable, Exists
      <3>2. tree'[Target] = rootBefore[p]
        BY <2>4, <3>1, MovedTree, PathsDiffer
      <3>. QED  BY <2>1, <3>2 DEF CourseStart, CourseForward, CourseBack
    <2>5. CASE Blocked(p)
      <3>1. UNCHANGED tree
        BY <2>2, <2>5, TreesDiffer DEF TryMove, Movable, Exists, Blocked, fs
      <3>. QED
        BY <2>1, <2>5, <3>1 DEF CourseStart, CourseForward, CourseBack, Blocked, Exists
    <2>. QED  BY <2>1, <2>3, <2>4, <2>5 DEF CourseBack
  <1>4. CASE NothingToPutBack(p)
    <2>1. /\ pc[p] = "putback" /\ pc'[p] = "resync" /\ phase[p] \in {0, 1}
          /\ UNCHANGED <<tree, phase, rootBefore, faults>>
      BY <1>4 DEF NothingToPutBack, fs, counters
    <2>. QED  BY <2>1 DEF CourseStart, CourseForward, CourseBack
  <1>5. CASE Resync(p)
    <2>1. /\ pc[p] = "resync" /\ pc'[p] = "detach"
          /\ UNCHANGED <<tree, phase, rootBefore, faults>>
      BY <1>5 DEF Resync, Synced, counters
    <2>. QED  BY <2>1 DEF CourseStart, CourseForward, CourseBack, Blocked, Exists
  <1>6. CASE Detach(p)
    <2>1. pc'[p] = "failed"
      BY <1>6 DEF Detach
    <2>. QED  BY <2>1 DEF CourseStart, CourseForward, CourseBack
  <1>. QED  BY <1>1, <1>2, <1>3, <1>4, <1>5, <1>6 DEF Compensate

(* And an operation that fails, or a signal. *)
LEMMA CourseFaultStep ==
  ASSUME TypeOK, NEW p \in Procs, Course(p), Fault(p) \/ Kill(p)
  PROVE  Course(p)'
  <1> USE DEF TypeOK, Course
  <1>1. CASE Kill(p)
    <2>1. pc'[p] = "dead"
      BY <1>1 DEF Kill
    <2>. QED  BY <2>1 DEF CourseStart, CourseForward, CourseBack
  <1>2. CASE Fault(p)
    <2>1. /\ UNCHANGED <<tree, durable, phase, rootBefore>>
          /\ faults'[p] = faults[p] + 1 /\ pc'[p] = OnError[pc[p]]
          /\ pc[p] \in {"planned"} \cup Inside
      BY <1>2, OnErrorLeads DEF Fault, fs
    <2>2. CASE pc[p] \in {"planned", "locked", "detach"}
      <3>1. pc'[p] = "failed"
        BY <2>1, <2>2, OnErrorLeads
      <3>. QED  BY <3>1 DEF CourseStart, CourseForward, CourseBack
    <2>3. CASE pc[p] \in {"mounted", "copied", "preserved", "switched", "verified", "synced"}
      <3>1. pc'[p] = "caught"
        BY <2>1, <2>3, OnErrorLeads
      <3>. QED
        BY <2>1, <2>3, <3>1 DEF CourseStart, CourseForward, CourseBack, OnlyAt
    <2>4. CASE pc[p] = "caught"
      <3>1. pc'[p] = "putback"
        BY <2>1, <2>4, OnErrorLeads
      <3>. QED  BY <2>1, <2>4, <3>1 DEF CourseStart, CourseForward, CourseBack
    <2>5. CASE pc[p] = "putback"
      <3>1. pc'[p] = "resync"
        BY <2>1, <2>5, OnErrorLeads
      <3>. QED  BY <2>1, <2>5, <3>1 DEF CourseStart, CourseForward, CourseBack
    <2>6. CASE pc[p] = "resync"
      <3>1. pc'[p] = "detach"
        BY <2>1, <2>6, OnErrorLeads
      <3>. QED
        BY <2>1, <2>6, <3>1 DEF CourseStart, CourseForward, CourseBack, Blocked, Exists
    <2>. QED
      BY <2>1, <2>2, <2>3, <2>4, <2>5, <2>6 DEF Inside, Forward, Compensating
  <1>. QED  BY <1>1, <1>2

LEMMA CourseStep == TypeOK /\ LockInv /\ CourseInv /\ [Next]_vars => CourseInv'
  <1> SUFFICES ASSUME TypeOK, LockInv, CourseInv, [Next]_vars, NEW r \in Procs
               PROVE  Course(r)'
    BY DEF CourseInv
  <1>1. Course(r)
    BY DEF CourseInv
  <1>2. ASSUME NEW p \in Procs, Step(p) PROVE Course(r)'
    <2>1. CASE p = r
      BY <1>1, <1>2, <2>1, CourseForwardStep, CourseBackStep, CourseFaultStep DEF Step
    <2>2. CASE p # r
      BY <1>1, <1>2, <2>2, CourseOther
    <2>. QED  BY <2>1, <2>2
  <1>3. ASSUME NEW q \in {Target, Snapshot}, Boot(q) PROVE Course(r)'
    <2>1. /\ UNCHANGED <<phase, rootBefore>> /\ tree' \in durable /\ durable' = {tree'}
          /\ pc'[r] = IF pc[r] \in Ended \cup {"start"} THEN pc[r] ELSE "dead"
      BY <1>3 DEF Boot
    <2>2. CASE pc[r] = "start"
      <3>1. CourseStart(r)'
        BY <1>1, <2>1, <2>2 DEF Course, CourseStart, NoCopy
      <3>. QED  BY <2>1, <2>2, <3>1 DEF Course, CourseForward, CourseBack
    <2>3. CASE pc[r] # "start"
      <3>1. pc'[r] \in Ended
        BY <2>1, <2>3 DEF Ended
      <3>. QED  BY <3>1 DEF Course, CourseStart, CourseForward, CourseBack, Ended
    <2>. QED  BY <2>2, <2>3
  <1>4. CASE UNCHANGED vars
    BY <1>1, <1>4, CourseSame DEF vars, fs, counters
  <1>. QED  BY <1>2, <1>3, <1>4 DEF Next

LEMMA PresentInit == Init => PresentInv
  <1> SUFFICES ASSUME Init PROVE PresentInv
    OBVIOUS
  <1>1. Exists(Target)
    BY PathsDiffer, TreesDiffer DEF Init, Exists
  <1>2. \A p \in Procs : pc[p] \notin Inside
    BY PointsAre DEF Init
  <1>. QED  BY <1>1, <1>2 DEF PresentInv

(* Faults and crashes are counted and never forgotten.                     *)
LEMMA QuietBefore ==
  ASSUME TypeOK, NEW p \in Procs, Step(p), Quiet'
  PROVE  Quiet /\ ~Kill(p)
  <1>1. /\ crashes' = crashes /\ ~Kill(p)
        /\ \A r \in Procs : faults'[r] = faults[r] \/ faults'[r] = faults[r] + 1
    <2>1. CASE BuildPlan(p) \/ Execute(p) \/ Compensate(p)
      <3>1. UNCHANGED <<faults, crashes>>
        BY <2>1 DEF BuildPlan, Execute, TakeLock, Mount, CreateReplacement, PreserveTarget,
                    SwitchTarget, VerifyTopology, Sync, Unmount, Phase, Compensate,
                    DiscardReplacement, NothingToDiscard, PutTargetBack, NothingToPutBack,
                    Resync, Detach, TryMove, counters
      <3>. QED  BY <3>1 DEF Quiet, Kill, TypeOK
    <2>2. CASE Fault(p)
      BY <2>2 DEF Fault, Kill, TypeOK
    <2>3. CASE Kill(p)
      BY <2>3 DEF Kill, Quiet, TypeOK
    <2>. QED  BY <2>1, <2>2, <2>3 DEF Step
  <1>. QED  BY <1>1 DEF Quiet, TypeOK

(* Who leaves without a signal leaves from the point before the end.       *)
LEMMA Leaves ==
  ASSUME TypeOK, NEW p \in Procs, Step(p), ~Kill(p), pc[p] \in Inside, pc'[p] \notin Inside
  PROVE  /\ pc[p] \in {"locked", "synced", "detach"}
         /\ UNCHANGED fs
         /\ pc'[p] = "done" <=> Unmount(p)
  <1> USE DEF TypeOK, Go, Inside, Forward, Compensating
  <1>1. CASE BuildPlan(p) \/ TakeLock(p) \/ Mount(p) \/ CreateReplacement(p)
             \/ PreserveTarget(p) \/ SwitchTarget(p) \/ VerifyTopology(p) \/ Sync(p)
    BY <1>1 DEF BuildPlan, TakeLock, Mount, CreateReplacement, PreserveTarget, SwitchTarget,
                VerifyTopology, Sync, Phase
  <1>2. CASE DiscardReplacement(p) \/ NothingToDiscard(p) \/ PutTargetBack(p)
             \/ NothingToPutBack(p) \/ Resync(p)
    BY <1>2 DEF DiscardReplacement, NothingToDiscard, PutTargetBack, NothingToPutBack, Resync,
                TryMove
  <1>3. CASE Unmount(p)
    BY <1>3 DEF Unmount
  <1>4. CASE Detach(p)
    BY <1>4 DEF Detach, Unmount
  <1>5. CASE Fault(p)
    <2>1. UNCHANGED fs /\ pc'[p] = OnError[pc[p]]
      BY <1>5 DEF Fault
    <2>2. pc[p] \in {"locked", "detach"} /\ pc'[p] = "failed"
      BY <2>1, OnErrorLeads
    <2>. QED  BY <2>1, <2>2 DEF Unmount
  <1>. QED  BY <1>1, <1>2, <1>3, <1>4, <1>5 DEF Step, Execute, Compensate

LEMMA PresentStep ==
  TypeOK /\ LockInv /\ CourseInv /\ PresentInv /\ [Next]_vars => PresentInv'
  <1> SUFFICES ASSUME TypeOK, LockInv, CourseInv, PresentInv, [Next]_vars, Quiet'
               PROVE  /\ lock' = Nobody => Exists(Target)'
                      /\ \A p \in Procs : pc'[p] \in Inside => rootBefore'[p] # None
    BY DEF PresentInv
  <1>1. ASSUME NEW p \in Procs, Step(p)
        PROVE  /\ lock' = Nobody => Exists(Target)'
               /\ pc'[p] \in Inside => rootBefore'[p] # None
    <2>1. Quiet /\ ~Kill(p)
      BY <1>1, QuietBefore
    <2>2. /\ lock = Nobody => Exists(Target)
          /\ pc[p] \in Inside => rootBefore[p] # None
      BY <2>1 DEF PresentInv
    <2>3. Course(p)
      BY DEF CourseInv
    <2>4. CASE lock = p /\ lock' = p /\ pc[p] \in Inside
      <3>1. UNCHANGED rootBefore
        BY <1>1, <2>4
           DEF Step, BuildPlan, Execute, TakeLock, Mount, CreateReplacement, PreserveTarget,
               SwitchTarget, VerifyTopology, Sync, Unmount, Phase, Compensate,
               DiscardReplacement, NothingToDiscard, PutTargetBack, NothingToPutBack, Resync,
               Detach, TryMove, Fault, Kill, Go, Inside, Forward, Compensating
      <3>. QED  BY <2>2, <2>4, <3>1, NobodyAssumption
    <2>5. CASE lock = p /\ pc[p] \in Inside /\ pc'[p] \notin Inside
      <3>1. pc[p] \in {"locked", "synced", "detach"} /\ UNCHANGED fs
        BY <1>1, <2>1, <2>5, Leaves
      <3>2. faults[p] < 2
        BY <2>1 DEF Quiet
      <3>3. Exists(Target)
        BY <2>2, <2>3, <2>5, <3>1, <3>2, PathsDiffer, TreesDiffer
           DEF Course, CourseForward, CourseBack, Blocked, Exists, OnlyAt, TypeOK
      <3>. QED  BY <2>5, <3>1, <3>3 DEF Exists, fs
    <2>6. CASE pc[p] = "planned" /\ pc'[p] = "locked" /\ lock = Nobody /\ lock' = p
      <3>1. TakeLock(p)
        BY <1>1, <2>6, OnErrorLeads
           DEF Step, BuildPlan, Execute, Mount, CreateReplacement, PreserveTarget, SwitchTarget,
               VerifyTopology, Sync, Unmount, Phase, Compensate, DiscardReplacement,
               NothingToDiscard, PutTargetBack, NothingToPutBack, Resync, Detach, Fault, Kill,
               Go, TypeOK
      <3>. QED  BY <2>2, <2>6, <3>1, NobodyAssumption DEF TakeLock, Exists, TypeOK
    <2>7. CASE lock # p /\ lock' = lock /\ pc[p] \notin Inside /\ pc'[p] \notin Inside
      <3>1. UNCHANGED fs
        BY <1>1, <2>7, FsMoves
      <3>. QED  BY <2>2, <2>7, <3>1 DEF Exists, fs
    <2>. QED  BY <1>1, <2>4, <2>5, <2>6, <2>7, LockMoves
  <1>2. ASSUME NEW p \in Procs, Step(p), NEW r \in Procs, r # p, pc'[r] \in Inside
        PROVE  rootBefore'[r] # None
    BY <1>2, StepShape, QuietBefore DEF PresentInv
  <1>3. ASSUME NEW q \in {Target, Snapshot}, Boot(q) PROVE FALSE
    BY <1>3 DEF Boot, Quiet, TypeOK
  <1>4. CASE UNCHANGED vars
    <2>1. UNCHANGED <<tree, lock, pc, rootBefore, faults, crashes>>
      BY <1>4 DEF vars, fs, counters
    <2>2. Quiet /\ (Exists(Target)' <=> Exists(Target))
      BY <2>1 DEF Quiet, Exists
    <2>. QED  BY <2>1, <2>2 DEF PresentInv
  <1>. QED  BY <1>1, <1>2, <1>3, <1>4 DEF Next

-----------------------------------------------------------------------------
(* What a rollback achieves. *)

Inv == TypeOK /\ LockInv /\ MountInv /\ CourseInv /\ PresentInv

LEMMA InvInit == Init => Inv
  BY TypeInit, CourseInit, PresentInit DEF Inv

LEMMA InvStep == Inv /\ [Next]_vars => Inv'
  BY TypeStep, LockStep, MountStep, CourseStep, PresentStep DEF Inv

(* RollbackService, its phases and its compensation: a crash and two       *)
(* failures of one rollback apart, the normal entry can be booted except   *)
(* between the two moves.                                                  *)
THEOREM TargetStaysPresent == Spec => []TargetPresent
  <1>1. ASSUME Inv PROVE TargetPresent
    <2> SUFFICES ASSUME Quiet, ~Exists(Target)
                 PROVE  \E p \in Procs : lock = p /\ phase[p] \in {2, 3}
      BY <1>1 DEF TargetPresent, Quiet, Inv, TypeOK
    <2>1. PICK p \in Procs : lock = p
      BY <1>1 DEF Inv, PresentInv, TypeOK
    <2>2. pc[p] \in Inside /\ rootBefore[p] # None /\ faults[p] < 2 /\ Course(p)
      BY <1>1, <2>1 DEF Inv, LockInv, PresentInv, CourseInv, Quiet
    <2>3. phase[p] \in 0..3
      BY <1>1 DEF Inv, TypeOK
    <2>4. tree[Target] # rootBefore[p]
      BY <2>2 DEF Exists
    <2>5. ~Blocked(p)
      BY TreesDiffer DEF Blocked, Exists
    <2>6. pc[p] \notin {"resync", "detach"}
      BY <1>1, <2>2, <2>4, <2>5 DEF Course, CourseBack, Inv, TypeOK
    <2>7. phase[p] \in {2, 3}
      BY <2>2, <2>3, <2>4, <2>6
         DEF Course, CourseForward, CourseBack, Inside, Forward, Compensating
    <2>. QED  BY <2>1, <2>7
  <1>. QED  BY <1>1, InvInit, InvStep, PTL DEF Spec

(* What ends a rollback that is under way, in one step.                    *)
LEMMA Ends ==
  ASSUME Inv, [Next]_vars, NEW p \in Procs, pc'[p] # pc[p], pc'[p] \in {"done", "failed"}
  PROVE  \/ /\ pc[p] = "synced" /\ pc'[p] = "done" /\ UNCHANGED <<tree, durable>>
         \/ /\ pc[p] \in {"locked", "detach"} /\ pc'[p] = "failed" /\ UNCHANGED tree
            /\ faults'[p] >= faults[p]
         \/ pc[p] = "planned" /\ pc'[p] = "failed"
  <1> USE DEF Inv, TypeOK
  <1>1. PICK r \in Procs : Step(r)
    BY DEF Next, Boot, Ended, vars
  <1>2. r = p
    BY <1>1, StepShape
  <1>3. CASE BuildPlan(p) \/ TakeLock(p) \/ Mount(p) \/ CreateReplacement(p)
             \/ PreserveTarget(p) \/ SwitchTarget(p) \/ VerifyTopology(p) \/ Sync(p)
    BY <1>3 DEF BuildPlan, TakeLock, Mount, CreateReplacement, PreserveTarget, SwitchTarget,
                VerifyTopology, Sync, Phase, Go
  <1>4. CASE DiscardReplacement(p) \/ NothingToDiscard(p) \/ PutTargetBack(p)
             \/ NothingToPutBack(p) \/ Resync(p) \/ Kill(p)
    BY <1>4 DEF DiscardReplacement, NothingToDiscard, PutTargetBack, NothingToPutBack, Resync,
                TryMove, Kill, Go
  <1>5. CASE Unmount(p)
    BY <1>5 DEF Unmount, Go, fs
  <1>6. CASE Detach(p)
    BY <1>6 DEF Detach, Go, fs, counters
  <1>7. CASE Fault(p)
    <2>1. /\ pc'[p] = OnError[pc[p]] /\ pc[p] \in {"planned"} \cup Inside
          /\ faults'[p] = faults[p] + 1 /\ UNCHANGED tree
      BY <1>7, OnErrorLeads DEF Fault, fs
    <2>2. pc[p] \in {"planned", "locked", "detach"} /\ pc'[p] = "failed"
      BY <2>1, OnErrorLeads DEF Inside, Forward, Compensating
    <2>. QED  BY <2>1, <2>2
  <1>. QED
    BY <1>1, <1>2, <1>3, <1>4, <1>5, <1>6, <1>7 DEF Step, Execute, Compensate

(* A rollback that reports success: its copy is the main root and the      *)
(* previous one has its own name, in every topology a power loss may       *)
(* leave.                                                                  *)
THEOREM SuccessIsReplaced == Spec => SuccessMeansReplaced
  <1>1. ASSUME Inv, [Next]_vars, NEW p \in Procs, pc'[p] # pc[p], pc'[p] = "done",
               NEW t \in durable' \cup {tree'}
        PROVE  t[Target] = CopyBy(p) /\ t[Preserved(p)] = rootBefore[p]
    <2>1. pc[p] = "synced" /\ UNCHANGED <<tree, durable>>
      BY <1>1, Ends
    <2>2. t = tree /\ tree[Preserved(p)] = rootBefore[p] /\ OnlyAt(tree, CopyBy(p), Target)
      BY <1>1, <2>1 DEF Inv, CourseInv, Course, CourseForward
    <2>. QED  BY <2>2, PathsDiffer DEF OnlyAt
  <1>2. Inv /\ [Next]_vars => [\A p \in Procs : pc'[p] # pc[p] /\ pc'[p] = "done" =>
          \A t \in durable' \cup {tree'} :
            t[Target] = CopyBy(p) /\ t[Preserved(p)] = rootBefore[p]]_vars
    BY <1>1
  <1>. QED  BY <1>2, InvInit, InvStep, PTL DEF Spec, SuccessMeansReplaced

(* A rollback that fails: the main root it found is where it was, unless a *)
(* second of its operations failed or the name for the failed replacement  *)
(* was taken.                                                              *)
THEOREM FailureIsUndone == Spec => FirstFailureUndone
  <1>1. ASSUME Inv, [Next]_vars, NEW p \in Procs, pc'[p] # pc[p], pc'[p] = "failed",
               rootBefore[p] # None
        PROVE  \/ faults'[p] >= 2
               \/ tree'[Target] = rootBefore[p]
               \/ Exists(Failed) /\ tree[Failed] # CopyBy(p)
    <2>1. Course(p)
      BY <1>1 DEF Inv, CourseInv
    <2>2. pc[p] # "planned"
      BY <1>1, <2>1 DEF Course, CourseStart
    <2>3. pc[p] \in {"locked", "detach"} /\ UNCHANGED tree /\ faults'[p] >= faults[p]
      BY <1>1, <2>2, Ends
    <2>4. faults[p] >= 2 => faults'[p] >= 2
      BY <1>1, <2>3, InvStep DEF Inv, TypeOK
    <2>. QED  BY <2>1, <2>3, <2>4 DEF Course, CourseForward, CourseBack, Blocked
  <1>2. Inv /\ [Next]_vars =>
          [\A p \in Procs : pc'[p] # pc[p] /\ pc'[p] = "failed" /\ rootBefore[p] # None =>
             \/ faults'[p] >= 2
             \/ tree'[Target] = rootBefore[p]
             \/ Exists(Failed) /\ tree[Failed] # CopyBy(p)]_vars
    BY <1>1
  <1>. QED  BY <1>2, InvInit, InvStep, PTL DEF Spec, FirstFailureUndone

=============================================================================
