----------------------- MODULE RefreshAutomationProofs -----------------------
(***************************************************************************)
(* Theorems about RefreshAutomation: types and refresh.lock, that no       *)
(* refresh overtakes another, that no event is forgotten, and that the     *)
(* menu is up to date whenever all has come to rest.  That it does come to *)
(* rest is liveness, and checked by TLC.                                   *)
(***************************************************************************)
EXTENDS RefreshAutomation, TLAPS

(* A refresh between discovery and installation has seen a list of         *)
(* snapshots no older than the menu it is about to replace, unless an      *)
(* apply by hand put that menu there.                                      *)
FreshView ==
  \A p \in Refreshes :
    pc[p] \in {"discovered", "validated", "planned"} /\ menuBy \notin Applies
      => menu <= view[p].seen

-----------------------------------------------------------------------------
(* Commands are told apart from each other and from nobody. *)
LEMMA CommandsAre ==
  /\ Refreshes \subseteq Commands /\ Applies \subseteq Commands
  /\ Commands = Refreshes \cup Applies
  /\ Refreshes \cap Applies = {}
  /\ Service \in Refreshes /\ Manual \subseteq Refreshes
  /\ Nobody \notin Commands
  BY RefreshAssumption DEF Commands, Refreshes

Views == [consumed: BOOLEAN, seen: 0..latest, planned: 0..latest]

(* A view with one field replaced, and the empty one.                      *)
LEMMA ViewType ==
  ASSUME TypeOK, NEW p \in Commands
  PROVE  /\ Nothing \in Views
         /\ \A b \in BOOLEAN : [view EXCEPT ![p].consumed = b] \in [Commands -> Views]
         /\ \A n \in 0..latest : /\ [view EXCEPT ![p].seen = n] \in [Commands -> Views]
                                 /\ [view EXCEPT ![p].planned = n] \in [Commands -> Views]
         /\ [view EXCEPT ![p] = Nothing] \in [Commands -> Views]
         /\ view[p].consumed \in BOOLEAN
         /\ view[p].seen \in 0..latest /\ view[p].planned \in 0..latest
  <1> USE DEF TypeOK, Views, Nothing
  <1>1. view[p] \in Views
    OBVIOUS
  <1>2. Nothing \in Views
    OBVIOUS
  <1>3. \A b \in BOOLEAN : [view EXCEPT ![p].consumed = b] \in [Commands -> Views]
    BY <1>1
  <1>4. \A n \in 0..latest : /\ [view EXCEPT ![p].seen = n] \in [Commands -> Views]
                             /\ [view EXCEPT ![p].planned = n] \in [Commands -> Views]
    BY <1>1
  <1>. QED  BY <1>1, <1>2, <1>3, <1>4

(* The lock and the program points: what TypeOK says of them, by itself.   *)
LockOK == /\ lock \in Refreshes \cup {Nobody}
          /\ pc \in [Commands -> Points]
          /\ \A p \in Refreshes : pc[p] \in Loop <=> lock = p

LEMMA PointsAre ==
  /\ Points = Loop \cup {"idle", "started", "ended"}
  /\ {"idle", "started", "ended"} \cap Loop = {}
  /\ \A p : Over(p) \in {"idle", "ended"}
  BY DEF Points, Loop, Over

(* A command that ends releases the lock if it has it.                     *)
LEMMA EndType ==
  ASSUME TypeOK, NEW p \in Commands, End(p)
  PROVE  LockOK' /\ view' \in [Commands -> Views]
  <1>1. view' \in [Commands -> Views]
    BY ViewType DEF End
  <1>2. LockOK'
    BY CommandsAre, PointsAre DEF End, TypeOK, LockOK
  <1>. QED  BY <1>1, <1>2

(* A step inside the loop, or outside it, leaves the lock where it is.     *)
LEMMA StayType ==
  ASSUME TypeOK, NEW p \in Commands, NEW to \in Points,
         pc' = [pc EXCEPT ![p] = to], lock' = lock,
         p \in Refreshes => (pc[p] \in Loop <=> to \in Loop)
  PROVE  LockOK'
  BY CommandsAre DEF TypeOK, LockOK

LEMMA TypeInit == Init => TypeOK
  <1> SUFFICES ASSUME Init PROVE TypeOK
    OBVIOUS
  <1>1. latest \in 0..MaxEvents /\ menu \in 0..latest
    BY RefreshAssumption DEF Init
  <1>2. view \in [Commands -> [consumed: BOOLEAN, seen: 0..latest, planned: 0..latest]]
    BY DEF Init, Nothing
  <1>3. lock \in Refreshes \cup {Nobody} /\ pc \in [Commands -> Points]
    BY DEF Init, Points
  <1>4. \A p \in Refreshes : pc[p] \in Loop <=> lock = p
    BY CommandsAre, PointsAre DEF Init
  <1>. QED  BY <1>1, <1>2, <1>3, <1>4 DEF Init, TypeOK

LEMMA TypeStep == TypeOK /\ [Next]_vars => TypeOK'
  <1> SUFFICES ASSUME TypeOK, [Next]_vars PROVE TypeOK'
    OBVIOUS
  <1> USE DEF vars, menuVars, requestVars, counters, history
  (* It is enough to look at what each step changes.                       *)
  <1>0. ASSUME UNCHANGED <<latest, allowed>>, LockOK', view' \in [Commands -> Views],
               menu' \in 0..latest, menuBy' \in Commands \cup {Nobody},
               marker' \in BOOLEAN, timer' \in BOOLEAN, hook' \in [Hooks -> {"idle", "called", "marked"}],
               dropped' \in BOOLEAN, disturbed' \in BOOLEAN
        PROVE  TypeOK'
    BY <1>0 DEF TypeOK, LockOK, Views
  <1>00. /\ LockOK /\ view \in [Commands -> Views] /\ menu \in 0..latest
         /\ menuBy \in Commands \cup {Nobody} /\ marker \in BOOLEAN /\ timer \in BOOLEAN
         /\ hook \in [Hooks -> {"idle", "called", "marked"}]
         /\ dropped \in BOOLEAN /\ disturbed \in BOOLEAN
    BY DEF TypeOK, LockOK, Views
  <1>1. ASSUME NEW h \in Hooks, Event(h) PROVE TypeOK'
    <2>1. latest' \in 0..MaxEvents /\ 0..latest \subseteq 0..latest'
      BY <1>1, RefreshAssumption DEF Event, TypeOK
    <2>2. view' \in [Commands -> [consumed: BOOLEAN, seen: 0..latest', planned: 0..latest']]
      BY <1>1, <2>1 DEF Event, TypeOK
    <2>. QED  BY <1>1, <2>1, <2>2 DEF Event, TypeOK
  <1>2. ASSUME NEW h \in Hooks, Request(h) PROVE TypeOK'
    BY <1>0, <1>00, <1>2 DEF Request, LockOK
  <1>3. ASSUME NEW h \in Hooks, RestartTimer(h) PROVE TypeOK'
    BY <1>0, <1>00, <1>3 DEF RestartTimer, LockOK
  <1>4. CASE Elapse
    <2>1. LockOK'
      BY <1>00, <1>4, StayType, CommandsAre, PointsAre DEF Elapse, LockOK
    <2>. QED  BY <1>0, <1>00, <1>4, <2>1 DEF Elapse
  <1>5. ASSUME NEW p \in Commands, RunByHand(p) PROVE TypeOK'
    <2>1. LockOK'
      BY <1>5, StayType, PointsAre DEF RunByHand
    <2>. QED  BY <1>0, <1>00, <1>5, <2>1 DEF RunByHand
  <1>6. ASSUME NEW p \in Commands, TakeRefreshLock(p) PROVE TypeOK'
    <2>1. CASE lock = Nobody
      <3>1. LockOK'
        BY <1>00, <1>6, <2>1, CommandsAre, PointsAre
           DEF TakeRefreshLock, RefreshLockIsFree, LockOK, Loop
      <3>. QED  BY <1>0, <1>00, <1>6, <2>1, <3>1 DEF TakeRefreshLock, RefreshLockIsFree
    <2>2. CASE lock # Nobody
      BY <1>0, <1>00, <1>6, <2>2, EndType DEF TakeRefreshLock, RefreshLockIsFree
    <2>. QED  BY <2>1, <2>2
  <1>7. ASSUME NEW p \in Commands, TestPending(p) PROVE TypeOK'
    <2>1. LockOK'
      BY <1>7, StayType DEF TestPending, Points, Loop
    <2>2. view' \in [Commands -> Views]
      BY <1>00, <1>7, ViewType DEF TestPending
    <2>. QED  BY <1>0, <1>00, <1>7, <2>1, <2>2 DEF TestPending
  <1>8. ASSUME NEW p \in Commands, ClearPending(p) PROVE TypeOK'
    <2>1. LockOK'
      BY <1>8, StayType DEF ClearPending, Points, Loop
    <2>. QED  BY <1>0, <1>00, <1>8, <2>1 DEF ClearPending
  <1>9. ASSUME NEW p \in Commands, Discover(p) PROVE TypeOK'
    <2>1. LockOK'
      <3>1. pc[p] \in Loop \/ p \notin Refreshes
        BY <1>9, CommandsAre DEF Discover, Loop
      <3>2. pc' = [pc EXCEPT ![p] = "discovered"] /\ lock' = lock
        BY <1>9 DEF Discover
      <3>3. "discovered" \in Loop /\ "discovered" \in Points
        BY DEF Loop, Points
      <3>. QED  BY <3>1, <3>2, <3>3, StayType
    <2>2. latest \in 0..latest
      BY DEF TypeOK
    <2>3. view' \in [Commands -> Views]
      BY <1>9, <2>2, ViewType DEF Discover
    <2>. QED  BY <1>0, <1>00, <1>9, <2>1, <2>3 DEF Discover
  <1>10. ASSUME NEW p \in Commands, Validate(p) PROVE TypeOK'
    <2>1. CASE End(p) /\ PutBack(p)
      <3>1. marker' \in BOOLEAN
        BY <1>00, <2>1, ViewType DEF PutBack
      <3>. QED  BY <1>0, <1>00, <1>10, <2>1, <3>1, EndType DEF Validate
    <2>2. CASE pc' = [pc EXCEPT ![p] = "validated"] /\ UNCHANGED <<marker, lock, view>>
      <3>1. LockOK'
        BY <1>10, <2>2, StayType DEF Validate, Points, Loop
      <3>. QED  BY <1>0, <1>00, <1>10, <2>2, <3>1 DEF Validate
    <2>. QED  BY <1>10, <2>1, <2>2 DEF Validate
  <1>11. ASSUME NEW p \in Commands, BuildPlan(p) PROVE TypeOK'
    <2>1. CASE End(p) /\ PutBack(p) /\ disturbed' = TRUE
      <3>1. marker' \in BOOLEAN
        BY <1>00, <2>1, ViewType DEF PutBack
      <3>. QED  BY <1>0, <1>00, <1>11, <2>1, <3>1, EndType DEF BuildPlan
    <2>2. CASE /\ pc' = [pc EXCEPT ![p] = "planned"] \/ pc' = [pc EXCEPT ![p] = "finished"]
               /\ view' = view \/ view' = [view EXCEPT ![p].planned = menu]
               /\ UNCHANGED <<marker, lock, disturbed>>
      <3>1. LockOK'
        BY <1>11, <2>2, StayType DEF BuildPlan, Points, Loop
      <3>2. view' \in [Commands -> Views]
        <4>1. [view EXCEPT ![p].planned = menu] \in [Commands -> Views]
          BY <1>00, ViewType
        <4>. QED  BY <1>00, <2>2, <4>1
      <3>. QED  BY <1>0, <1>00, <1>11, <2>2, <3>1, <3>2 DEF BuildPlan
    <2>. QED  BY <1>11, <2>1, <2>2 DEF BuildPlan
  <1>12. ASSUME NEW p \in Commands, ApplyPlan(p) PROVE TypeOK'
    <2>1. CASE menu = view[p].planned
      <3>1. LockOK'
        BY <1>12, <2>1, StayType DEF ApplyPlan, Points, Loop
      <3>2. menu' \in 0..latest
        BY <1>12, <2>1, ViewType DEF ApplyPlan
      <3>. QED  BY <1>0, <1>00, <1>12, <2>1, <3>1, <3>2 DEF ApplyPlan
    <2>2. CASE menu # view[p].planned
      <3>1. End(p) /\ dropped' \in BOOLEAN
        BY <1>12, <2>2 DEF ApplyPlan, Throws
      <3>. QED  BY <1>0, <1>00, <1>12, <2>2, <3>1, EndType DEF ApplyPlan, Throws
    <2>. QED  BY <2>1, <2>2
  <1>13. ASSUME NEW p \in Commands, CheckAgain(p) PROVE TypeOK'
    <2>1. LockOK'
      BY <1>13, StayType DEF CheckAgain, Points, Loop
    <2>2. view' \in [Commands -> Views]
      BY <1>13, ViewType DEF CheckAgain
    <2>. QED  BY <1>0, <1>00, <1>13, <2>1, <2>2 DEF CheckAgain
  <1>14. ASSUME NEW p \in Commands, Leave(p) PROVE TypeOK'
    BY <1>0, <1>00, <1>14, EndType DEF Leave
  <1>15. ASSUME NEW p \in Commands, Fault(p) PROVE TypeOK'
    <2>1. End(p) /\ dropped' \in BOOLEAN
      BY <1>15 DEF Fault, Throws
    <2>. QED  BY <1>0, <1>00, <1>15, <2>1, EndType DEF Fault, Throws
  <1>16. CASE Reboot
    <2>1. LockOK'
      BY <1>00, <1>16, CommandsAre, PointsAre DEF Reboot, LockOK
    <2>2. view' \in [Commands -> Views]
      BY <1>16, ViewType DEF Reboot, Views, Nothing, TypeOK
    <2>. QED  BY <1>0, <1>00, <1>16, <2>1, <2>2 DEF Reboot
  <1>17. CASE UNCHANGED vars
    BY <1>0, <1>00, <1>17 DEF LockOK
  <1>. QED
    BY <1>1, <1>2, <1>3, <1>4, <1>5, <1>6, <1>7, <1>8, <1>9, <1>10, <1>11, <1>12, <1>13,
       <1>14, <1>15, <1>16, <1>17
       DEF Next, Hook, Command

(* Every command, hook and reboot: types, and refresh.lock is held by      *)
(* exactly the refresh that is inside its loop.                            *)
THEOREM TypeCorrect == Spec => []TypeOK
  BY TypeInit, TypeStep, PTL DEF Spec

-----------------------------------------------------------------------------
(* Refreshes do not overtake each other.                                   *)

LEMMA FreshInit == Init => FreshView
  BY CommandsAre DEF Init, FreshView

(* The menu, who wrote it, and what a command has seen change only as said *)
(* here.                                                                   *)
LEMMA MenuMoves ==
  ASSUME TypeOK, [Next]_vars
  PROVE  \/ UNCHANGED menuVars
         \/ \E p \in Commands :
              /\ pc[p] = "planned" /\ pc' = [pc EXCEPT ![p] = "finished"]
              /\ menu' = view[p].seen /\ menuBy' = p
  BY DEF Next, Hook, Command, Event, Request, RestartTimer, Elapse, RunByHand, TakeRefreshLock,
         TestPending, ClearPending, Discover, Validate, BuildPlan, ApplyPlan, CheckAgain, Leave,
         Fault, Reboot, vars, menuVars

(* A refresh on its way to an installation has just looked at the          *)
(* snapshots, or knows what it knew.                                       *)
LEMMA ViewMoves ==
  ASSUME TypeOK, [Next]_vars, NEW p \in Refreshes,
         pc'[p] \in {"discovered", "validated", "planned"}
  PROVE  \/ view'[p].seen = latest
         \/ /\ pc[p] \in {"discovered", "validated", "planned"}
            /\ view'[p].seen = view[p].seen
  <1> DEFINE Goal == \/ view'[p].seen = latest
                     \/ /\ pc[p] \in {"discovered", "validated", "planned"}
                        /\ view'[p].seen = view[p].seen
  <1> USE DEF TypeOK
  <1>0. p \in Commands /\ p \notin Applies
    BY CommandsAre
  <1>1. CASE pc'[p] = pc[p] /\ view'[p] = view[p]
    BY <1>1
  <1>2. ASSUME NEW h \in Hooks, Event(h) \/ Hook(h) PROVE Goal
    BY <1>1, <1>2 DEF Event, Hook, Request, RestartTimer
  <1>3. CASE Elapse
    BY <1>0, <1>3, CommandsAre DEF Elapse
  <1>4. ASSUME NEW q \in Commands, RunByHand(q) PROVE Goal
    BY <1>0, <1>4 DEF RunByHand
  <1>5. ASSUME NEW q \in Commands, End(q) PROVE Goal
    BY <1>0, <1>1, <1>5 DEF End, Over
  <1>6. ASSUME NEW q \in Commands, TakeRefreshLock(q) PROVE Goal
    BY <1>0, <1>1, <1>5, <1>6 DEF TakeRefreshLock
  <1>7. ASSUME NEW q \in Commands, TestPending(q) PROVE Goal
    BY <1>0, <1>7 DEF TestPending
  <1>8. ASSUME NEW q \in Commands, ClearPending(q) PROVE Goal
    BY <1>0, <1>8 DEF ClearPending
  <1>9. ASSUME NEW q \in Commands, Discover(q) PROVE Goal
    BY <1>0, <1>9 DEF Discover
  <1>10. ASSUME NEW q \in Commands, Validate(q) PROVE Goal
    BY <1>0, <1>5, <1>10 DEF Validate
  <1>11. ASSUME NEW q \in Commands, BuildPlan(q) PROVE Goal
    BY <1>0, <1>5, <1>11 DEF BuildPlan
  <1>12. ASSUME NEW q \in Commands, ApplyPlan(q) PROVE Goal
    BY <1>0, <1>5, <1>12 DEF ApplyPlan, Throws
  <1>13. ASSUME NEW q \in Commands, CheckAgain(q) PROVE Goal
    BY <1>0, <1>13 DEF CheckAgain
  <1>14. ASSUME NEW q \in Commands, Leave(q) \/ Fault(q) PROVE Goal
    BY <1>5, <1>14 DEF Leave, Fault, Throws
  <1>15. CASE Reboot
    BY <1>0, <1>15 DEF Reboot, Over
  <1>16. CASE UNCHANGED vars
    BY <1>1, <1>16 DEF vars
  <1>. QED
    BY <1>2, <1>3, <1>4, <1>6, <1>7, <1>8, <1>9, <1>10, <1>11, <1>12, <1>13, <1>14, <1>15,
       <1>16
       DEF Next, Command

LEMMA FreshStep == TypeOK /\ FreshView /\ [Next]_vars => FreshView'
  <1> SUFFICES ASSUME TypeOK, FreshView, [Next]_vars, NEW p \in Refreshes,
                      pc'[p] \in {"discovered", "validated", "planned"}, menuBy' \notin Applies
               PROVE  menu' <= view'[p].seen
    BY DEF FreshView
  <1>0. p \in Commands
    BY CommandsAre
  <1>1. CASE UNCHANGED menuVars
    <2>1. menu' = menu /\ menu <= latest /\ menuBy \notin Applies
      BY <1>1 DEF menuVars, TypeOK
    <2>. QED  BY <2>1, ViewMoves DEF FreshView
  <1>2. ASSUME NEW q \in Commands, pc[q] = "planned", pc' = [pc EXCEPT ![q] = "finished"],
               menu' = view[q].seen, menuBy' = q
        PROVE  FALSE
    <2>1. q \in Refreshes
      BY <1>2, CommandsAre
    <2>2. q # p /\ pc[p] = pc'[p]
      BY <1>0, <1>2 DEF TypeOK
    <2>3. lock = q /\ lock = p
      BY <1>2, <2>1, <2>2 DEF TypeOK, Loop
    <2>. QED  BY <2>2, <2>3
  <1>. QED  BY <1>1, <1>2, MenuMoves

(* The refresh loop and ApplyService seen from it: an older menu replaces  *)
(* a newer one only if an apply by hand wrote one of the two.              *)
THEOREM RefreshesDoNotOvertake == Spec => NeverGoesBack
  <1>1. TypeOK /\ FreshView /\ [Next]_vars
          => [menu' >= menu \/ menuBy \in Applies \/ menuBy' \in Applies]_vars
    <2> SUFFICES ASSUME TypeOK, FreshView, [Next]_vars,
                        menuBy \notin Applies, menuBy' \notin Applies
                 PROVE  menu' >= menu
      OBVIOUS
    <2>1. CASE UNCHANGED menuVars
      BY <2>1 DEF menuVars, TypeOK
    <2>2. ASSUME NEW q \in Commands, pc[q] = "planned", menu' = view[q].seen, menuBy' = q
          PROVE  menu' >= menu
      <3>1. q \in Refreshes
        BY <2>2, CommandsAre
      <3>2. view[q].seen \in Nat /\ menu \in Nat
        BY <2>2, ViewType DEF TypeOK
      <3>. QED  BY <2>2, <3>1, <3>2 DEF FreshView
    <2>. QED  BY <2>1, <2>2, MenuMoves
  <1>. QED  BY <1>1, TypeInit, TypeStep, FreshInit, FreshStep, PTL DEF Spec, NeverGoesBack

-----------------------------------------------------------------------------
(***************************************************************************)
(* No event is forgotten.  Announced: something still says that the menu   *)
(* may be out of date.  A refresh that is about to install has seen the    *)
(* last event, or another one is announced; and a request that is taken is *)
(* being served until the menu shows what was seen.                        *)
(***************************************************************************)
Announced == marker \/ dropped \/ \E h \in Hooks : hook[h] = "called"
Looking == {"discovered", "validated", "planned"}
Serving(p) == view[p].consumed /\ pc[p] \in Looking \cup {"cleared"}

SeenInv == \A p \in Refreshes : pc[p] \in Looking => view[p].seen = latest \/ Announced

(* Only refreshes take requests, and who clears the marker found it. *)
TakenInv ==
  /\ \A p \in Refreshes : pc[p] = "clearing" => view[p].consumed
  /\ \A p \in Applies : pc[p] \notin {"round", "clearing", "cleared"} /\ ~view[p].consumed

Accounted == \/ menu = latest \/ Announced \/ menuBy \in Applies
             \/ \E p \in Refreshes : Serving(p)

(* A step of one command is none of another. *)
LEMMA Bystander ==
  ASSUME TypeOK, NEW q \in Commands, NEW p \in Commands \ {q},
         RunByHand(q) \/ Command(q) \/ Fault(q)
  PROVE  pc'[p] = pc[p] /\ view'[p] = view[p]
  <1>1. CASE End(q)
    BY <1>1 DEF End, TypeOK
  <1>2. CASE RunByHand(q) \/ TakeRefreshLock(q) \/ TestPending(q) \/ ClearPending(q)
    BY <1>1, <1>2 DEF RunByHand, TakeRefreshLock, TestPending, ClearPending, TypeOK
  <1>3. CASE Discover(q) \/ Validate(q) \/ BuildPlan(q)
    BY <1>1, <1>3 DEF Discover, Validate, BuildPlan, TypeOK
  <1>4. CASE ApplyPlan(q) \/ CheckAgain(q) \/ Leave(q) \/ Fault(q)
    BY <1>1, <1>4 DEF ApplyPlan, CheckAgain, Leave, Fault, Throws, TypeOK
  <1>. QED  BY <1>2, <1>3, <1>4 DEF Command

(* A command that ends knows nothing. *)
LEMMA EndsEmpty ==
  ASSUME TypeOK, NEW q \in Commands, End(q)
  PROVE  pc'[q] = Over(q) /\ ~view'[q].consumed
  BY DEF End, Nothing, TypeOK

LEMMA TakenStep == TypeOK /\ TakenInv /\ [Next]_vars => TakenInv'
  <1> SUFFICES ASSUME TypeOK, TakenInv, [Next]_vars PROVE TakenInv'
    OBVIOUS
  <1> DEFINE Taken(p, at, seen) ==
        /\ p \in Refreshes /\ at = "clearing" => seen.consumed
        /\ p \in Applies => at \notin {"round", "clearing", "cleared"} /\ ~seen.consumed
  <1>0. SUFFICES ASSUME NEW p \in Commands PROVE Taken(p, pc'[p], view'[p])
    BY CommandsAre DEF TakenInv
  <1>a. Taken(p, pc[p], view[p])
    BY DEF TakenInv
  <1>1. CASE pc'[p] = pc[p] /\ view'[p] = view[p]
    BY <1>a, <1>1
  <1>2. CASE (\E h \in Hooks : Event(h) \/ Hook(h)) \/ UNCHANGED vars
    BY <1>1, <1>2 DEF Event, Hook, Request, RestartTimer, vars
  <1>3. CASE Elapse
    BY <1>1, <1>3, CommandsAre DEF Elapse, TypeOK
  <1>4. CASE End(p)
    BY <1>4, EndsEmpty DEF Over
  <1>5. CASE RunByHand(p) \/ TakeRefreshLock(p)
    BY <1>a, <1>4, <1>5, CommandsAre DEF RunByHand, TakeRefreshLock, TypeOK
  <1>6. CASE TestPending(p)
    BY <1>a, <1>6, CommandsAre DEF TestPending, TypeOK
  <1>7. CASE ClearPending(p) \/ Discover(p)
    BY <1>a, <1>7, CommandsAre DEF ClearPending, Discover, TypeOK
  <1>8. CASE Validate(p)
    BY <1>a, <1>4, <1>8 DEF Validate, TypeOK
  <1>9. CASE BuildPlan(p)
    BY <1>a, <1>4, <1>9 DEF BuildPlan, TypeOK
  <1>10. CASE ApplyPlan(p) \/ Leave(p) \/ Fault(p)
    BY <1>a, <1>4, <1>10 DEF ApplyPlan, Leave, Fault, Throws, TypeOK
  <1>11. CASE CheckAgain(p)
    BY <1>a, <1>11, CommandsAre DEF CheckAgain, Nothing, TypeOK
  <1>12. CASE Reboot
    BY <1>12 DEF Reboot, Over, Nothing
  <1>13. ASSUME NEW q \in Commands, RunByHand(q) \/ Command(q) \/ Fault(q)
         PROVE  Taken(p, pc'[p], view'[p])
    BY <1>1, <1>5, <1>6, <1>7, <1>8, <1>9, <1>10, <1>11, <1>13, Bystander DEF Command
  <1>. QED  BY <1>2, <1>3, <1>12, <1>13 DEF Next

(* What is announced stays so until the marker is cleared, and an event    *)
(* is announced.                                                           *)
LEMMA AnnouncedStays ==
  ASSUME TypeOK, [Next]_vars
  PROVE  \/ Announced'
         \/ /\ latest' = latest
            /\ ~Announced \/ Reboot \/ \E q \in Commands : ClearPending(q)
  <1> DEFINE Goal == \/ Announced'
                     \/ /\ latest' = latest
                        /\ ~Announced \/ Reboot \/ \E q \in Commands : ClearPending(q)
  <1> USE DEF Announced, TypeOK
  <1>1. ASSUME NEW h \in Hooks, Event(h) \/ Hook(h) PROVE Goal
    <2>1. CASE Event(h)
      <3>1. hook'[h] = "called"
        BY <2>1 DEF Event
      <3>. QED  BY <3>1
    <2>2. CASE Request(h)
      BY <2>2 DEF Request
    <2>3. CASE RestartTimer(h)
      <3>1. \A g \in Hooks : hook[g] = "called" => hook'[g] = "called"
        BY <2>3 DEF RestartTimer
      <3>. QED  BY <2>3, <3>1 DEF RestartTimer, history
    <2>. QED  BY <1>1, <2>1, <2>2, <2>3 DEF Hook
  <1>2. ASSUME latest' = latest, hook' = hook, marker => marker', dropped => dropped'
        PROVE  Goal
    BY <1>2
  <1>3. CASE Elapse \/ UNCHANGED vars
    BY <1>2, <1>3 DEF Elapse, vars, requestVars, history
  <1>4. ASSUME NEW q \in Commands,
               RunByHand(q) \/ TakeRefreshLock(q) \/ TestPending(q) \/ Discover(q) \/ Validate(q)
        PROVE  Goal
    BY <1>2, <1>4 DEF RunByHand, TakeRefreshLock, TestPending, Discover, Validate, PutBack,
                      requestVars, history
  <1>5. ASSUME NEW q \in Commands,
               BuildPlan(q) \/ ApplyPlan(q) \/ CheckAgain(q) \/ Leave(q) \/ Fault(q)
        PROVE  Goal
    BY <1>2, <1>5 DEF BuildPlan, PutBack, ApplyPlan, CheckAgain, Leave, Fault, Throws,
                      requestVars, history
  <1>6. ASSUME NEW q \in Commands, ClearPending(q) PROVE Goal
    BY <1>6 DEF ClearPending
  <1>7. CASE Reboot
    BY <1>7 DEF Reboot
  <1>. QED  BY <1>1, <1>3, <1>4, <1>5, <1>6, <1>7 DEF Next, Command

LEMMA SeenStep == TypeOK /\ TakenInv /\ SeenInv /\ [Next]_vars => SeenInv'
  <1> SUFFICES ASSUME TypeOK, TakenInv, SeenInv, [Next]_vars, NEW p \in Refreshes,
                      pc'[p] \in Looking, ~Announced'
               PROVE  view'[p].seen = latest'
    BY DEF SeenInv
  <1>0. p \in Commands /\ latest' = latest
    BY CommandsAre, AnnouncedStays
  <1>1. CASE Reboot
    BY <1>0, <1>1 DEF Reboot, Over, Looking
  <1>2. ASSUME NEW q \in Commands, ClearPending(q) PROVE view'[p].seen = latest'
    <2>1. q \in Refreshes /\ pc[q] = "clearing" /\ pc'[q] = "cleared"
      BY <1>2, CommandsAre DEF TakenInv, ClearPending, TypeOK
    <2>2. p # q /\ pc'[p] = pc[p]
      BY <1>0, <1>2, <2>1 DEF ClearPending, Looking, TypeOK
    <2>3. lock = q /\ lock = p
      BY <2>1, <2>2 DEF TypeOK, Loop, Looking
    <2>. QED  BY <2>2, <2>3
  <1>3. CASE ~Announced
    BY <1>0, <1>3, ViewMoves DEF SeenInv, Looking
  <1>. QED  BY <1>1, <1>2, <1>3, AnnouncedStays

(* A request that is taken is served until the menu shows it, or announced *)
(* again.                                                                  *)
LEMMA ServingEnds ==
  ASSUME TypeOK, SeenInv, ~Announced, [Next]_vars, ~Reboot, NEW p \in Refreshes, Serving(p)
  PROVE  Serving(p)' \/ Announced' \/ menu' = latest
  <1> DEFINE Goal == Serving(p)' \/ Announced' \/ menu' = latest
  <1>0. p \in Commands /\ pc[p] \in Looking \cup {"cleared"} /\ view[p].consumed = TRUE
        /\ ~marker /\ (pc[p] \in Looking => view[p].seen = latest)
    BY CommandsAre, ViewType DEF Serving, SeenInv, Announced
  <1>1. CASE pc'[p] = pc[p] /\ view'[p] = view[p]
    BY <1>1 DEF Serving
  <1>2. CASE (\E h \in Hooks : Event(h) \/ Hook(h)) \/ UNCHANGED vars
    BY <1>1, <1>2 DEF Event, Hook, Request, RestartTimer, vars
  <1>3. CASE Elapse
    BY <1>0, <1>1, <1>3, CommandsAre DEF Elapse, Looking, TypeOK
  <1>4. CASE Throws(p) /\ pc[p] \in Looking \cup {"cleared"}
    BY <1>0, <1>4 DEF Throws, Announced, Looking
  <1>5. CASE PutBack(p)
    BY <1>0, <1>5 DEF PutBack, Announced
  <1>6. CASE Discover(p)
    BY <1>0, <1>6 DEF Discover, Serving, Looking, TypeOK
  <1>7. CASE Validate(p)
    BY <1>0, <1>5, <1>7 DEF Validate, Serving, Looking, TypeOK
  <1>8. CASE BuildPlan(p)
    BY <1>0, <1>5, <1>8 DEF BuildPlan, Serving, Looking, TypeOK, menuVars
  <1>9. CASE ApplyPlan(p)
    BY <1>0, <1>4, <1>9 DEF ApplyPlan, Looking
  <1>10. CASE Fault(p)
    BY <1>0, <1>4, <1>10 DEF Fault
  <1>11. ASSUME NEW q \in Commands, RunByHand(q) \/ Command(q) \/ Fault(q) PROVE Goal
    <2>1. CASE q # p
      BY <1>0, <1>1, <1>11, <2>1, Bystander
    <2>2. CASE q = p
      <3>1. ~RunByHand(p) /\ ~TakeRefreshLock(p) /\ ~TestPending(p) /\ ~ClearPending(p)
            /\ ~CheckAgain(p) /\ ~Leave(p)
        BY <1>0 DEF RunByHand, TakeRefreshLock, TestPending, ClearPending, CheckAgain, Leave, Looking
      <3>. QED  BY <1>6, <1>7, <1>8, <1>9, <1>10, <1>11, <2>2, <3>1 DEF Command
    <2>. QED  BY <2>1, <2>2
  <1>. QED  BY <1>2, <1>3, <1>11 DEF Next

LEMMA AccountStep == TypeOK /\ TakenInv /\ SeenInv /\ Accounted /\ [Next]_vars => Accounted'
  <1> SUFFICES ASSUME TypeOK, TakenInv, SeenInv, Accounted, [Next]_vars, ~Announced'
               PROVE  Accounted'
    BY DEF Accounted
  <1>0. latest' = latest
    BY AnnouncedStays
  <1>1. CASE Reboot
    BY <1>1 DEF Reboot, Accounted, Announced, menuVars
  <1>2. ASSUME NEW q \in Commands, ClearPending(q) PROVE Accounted'
    <2>1. q \in Refreshes /\ pc'[q] = "cleared" /\ view'[q] = view[q] /\ view[q].consumed
      BY <1>2, CommandsAre DEF TakenInv, ClearPending, TypeOK
    <2>2. Serving(q)'
      BY <2>1 DEF Serving
    <2>. QED  BY <2>1, <2>2 DEF Accounted
  <1>3. CASE ~Announced /\ ~Reboot
    <2>1. CASE UNCHANGED menuVars
      BY <1>0, <1>3, <2>1, ServingEnds DEF Accounted, menuVars
    <2>2. ASSUME NEW q \in Commands, pc[q] = "planned", menu' = view[q].seen, menuBy' = q
          PROVE  Accounted'
      BY <1>0, <1>3, <2>2, CommandsAre DEF Accounted, SeenInv, Looking
    <2>. QED  BY <2>1, <2>2, MenuMoves
  <1>. QED  BY <1>1, <1>2, <1>3, AnnouncedStays

ForgottenInv == TakenInv /\ SeenInv /\ Accounted

LEMMA NeverForgotten == Spec => [](TypeOK /\ ForgottenInv)
  <1>1. Init => ForgottenInv
    BY CommandsAre DEF Init, Nothing, ForgottenInv, TakenInv, SeenInv, Looking, Accounted
  <1>2. TypeOK /\ ForgottenInv /\ [Next]_vars => (TypeOK /\ ForgottenInv)'
    BY TypeStep, TakenStep, SeenStep, AccountStep DEF ForgottenInv
  <1>. QED  BY <1>1, <1>2, TypeInit, PTL DEF Spec

(* `request-refresh`, the marker and the loop of `refresh`: an event that  *)
(* is not in the menu when nobody is at work left the marker, or has one   *)
(* of the excuses that EventsReachMenu names.                              *)
THEOREM NoEventForgotten == Spec => []EventsReachMenu
  <1>1. TypeOK /\ ForgottenInv => EventsReachMenu
    <2> SUFFICES ASSUME TypeOK, Accounted, lock = Nobody, \A h \in Hooks : hook[h] # "called"
                 PROVE  menu = latest \/ marker \/ dropped \/ menuBy \in Applies
      BY DEF EventsReachMenu, ForgottenInv
    <2>1. \A p \in Refreshes : ~Serving(p)
      BY CommandsAre DEF Serving, TypeOK, Loop, Looking
    <2>. QED  BY <2>1 DEF Accounted, Announced
  <1>. QED  BY <1>1, NeverForgotten, PTL

-----------------------------------------------------------------------------
(***************************************************************************)
(* The menu settles.  While nothing has gone wrong, nobody but refreshes   *)
(* writes the menu, none of them finds it changed under its plan, and a    *)
(* marker is awaited: the timer will run or runs, a refresh will look at   *)
(* it again, or the service has been started and finds the lock free, or   *)
(* held by a refresh that will look again.                                 *)
(***************************************************************************)
CountersOK == faults \in Nat /\ invalid \in Nat /\ reboots \in Nat

Awaited == \/ timer
           \/ \E h \in Hooks : hook[h] = "marked"
           \/ \E p \in Refreshes : pc[p] \in Loop \ {"leaving"}
           \/ pc[Service] = "started" /\ \A p \in Refreshes : pc[p] # "leaving"

ServiceOK == pc[Service] # "ended"

SettleInv ==
  Undisturbed => /\ ~dropped /\ menuBy \notin Applies
                 /\ \A p \in Refreshes : pc[p] = "planned" => menu = view[p].planned
                 /\ marker => Awaited

(* Nothing is under way that would change the menu or the marker. *)
Idle == /\ ~timer /\ lock = Nobody /\ pc[Service] = "idle"
        /\ \A h \in Hooks : hook[h] = "idle"

(* What has gone wrong stays wrong. *)
LEMMA CalmBefore ==
  ASSUME TypeOK, CountersOK, [Next]_vars
  PROVE  /\ CountersOK'
         /\ Undisturbed' => Undisturbed /\ UNCHANGED counters
  <1> DEFINE Goal == CountersOK' /\ (Undisturbed' => Undisturbed /\ UNCHANGED counters)
  <1>0. ASSUME faults' \in {faults, faults + 1}, invalid' \in {invalid, invalid + 1},
               reboots' \in {reboots, reboots + 1}, disturbed => disturbed'
        PROVE  Goal
    BY <1>0 DEF CountersOK, Undisturbed, counters
  <1>1. ASSUME NEW h \in Hooks, Event(h) \/ Hook(h) PROVE Goal
    <2>1. CASE Event(h) \/ Request(h)
      BY <1>0, <2>1 DEF Event, Request, counters, history
    <2>2. CASE RestartTimer(h)
      <3>1. faults' \in {faults, faults + 1} /\ UNCHANGED <<invalid, reboots, disturbed>>
        BY <2>2 DEF RestartTimer, history
      <3>. QED  BY <1>0, <3>1
    <2>. QED  BY <1>1, <2>1, <2>2 DEF Hook
  <1>2. CASE Elapse \/ Reboot \/ UNCHANGED vars
    <2>1. CASE Elapse
      <3>1. UNCHANGED <<faults, invalid, reboots>> /\ (disturbed => disturbed')
        BY <2>1 DEF Elapse, counters
      <3>. QED  BY <1>0, <3>1
    <2>2. CASE Reboot
      BY <1>0, <2>2 DEF Reboot
    <2>3. CASE UNCHANGED vars
      BY <1>0, <2>3 DEF vars, counters, history
    <2>. QED  BY <1>2, <2>1, <2>2, <2>3
  <1>3. ASSUME NEW q \in Commands,
               RunByHand(q) \/ TakeRefreshLock(q) \/ TestPending(q) \/ ClearPending(q) \/ Discover(q)
        PROVE  Goal
    BY <1>0, <1>3 DEF RunByHand, TakeRefreshLock, TestPending, ClearPending, Discover, counters, history
  <1>4. ASSUME NEW q \in Commands,
               Validate(q) \/ BuildPlan(q) \/ ApplyPlan(q) \/ CheckAgain(q) \/ Leave(q) \/ Fault(q)
        PROVE  Goal
    BY <1>0, <1>4 DEF Validate, BuildPlan, ApplyPlan, CheckAgain, Leave, Fault, counters, history
  <1>. QED  BY <1>1, <1>2, <1>3, <1>4 DEF Next, Command

(* The service is started again, never over.                               *)
LEMMA ServiceStep == TypeOK /\ ServiceOK /\ [Next]_vars => ServiceOK'
  <1> SUFFICES ASSUME TypeOK, ServiceOK, [Next]_vars PROVE pc'[Service] # "ended"
    BY DEF ServiceOK
  <1>0. Service \in Commands /\ Over(Service) = "idle" /\ pc[Service] # "ended"
    BY CommandsAre DEF Over, ServiceOK
  <1>1. CASE pc'[Service] = pc[Service]
    BY <1>0, <1>1
  <1>2. CASE (\E h \in Hooks : Event(h) \/ Hook(h)) \/ UNCHANGED vars
    BY <1>1, <1>2 DEF Event, Hook, Request, RestartTimer, vars
  <1>3. CASE Elapse \/ Reboot
    BY <1>0, <1>3 DEF Elapse, Reboot, TypeOK
  <1>4. CASE End(Service)
    BY <1>0, <1>4 DEF End, TypeOK
  <1>5. ASSUME NEW q \in Commands, RunByHand(q) \/ Command(q) \/ Fault(q)
        PROVE  pc'[Service] # "ended"
    <2>1. CASE q # Service
      BY <1>0, <1>1, <1>5, <2>1, Bystander
    <2>2. CASE q = Service
      <3> USE DEF TypeOK
      <3>1. CASE RunByHand(q) \/ TakeRefreshLock(q) \/ TestPending(q) \/ ClearPending(q) \/ Discover(q)
        BY <1>0, <1>4, <2>2, <3>1 DEF RunByHand, TakeRefreshLock, TestPending, ClearPending, Discover
      <3>2. CASE Validate(q) \/ BuildPlan(q) \/ ApplyPlan(q)
        BY <1>0, <1>4, <2>2, <3>2 DEF Validate, BuildPlan, ApplyPlan, Throws
      <3>3. CASE CheckAgain(q) \/ Leave(q) \/ Fault(q)
        BY <1>0, <1>4, <2>2, <3>3 DEF CheckAgain, Leave, Fault, Throws
      <3>. QED  BY <1>5, <3>1, <3>2, <3>3 DEF Command
    <2>. QED  BY <2>1, <2>2
  <1>. QED  BY <1>2, <1>3, <1>5 DEF Next

(* Nothing is dropped. *)
LEMMA NothingDropped ==
  ASSUME TypeOK, TakenInv, CountersOK, [Next]_vars, Undisturbed', SettleInv
  PROVE  ~dropped' /\ menuBy' \notin Applies
  <1>0. Undisturbed /\ UNCHANGED counters /\ ~dropped /\ menuBy \notin Applies /\ disturbed' = FALSE
    BY CalmBefore DEF SettleInv, Undisturbed, TypeOK
  <1>1. CASE UNCHANGED <<dropped, menuBy>>
    BY <1>0, <1>1
  <1>2. ASSUME NEW h \in Hooks, Event(h) \/ Hook(h) PROVE ~dropped' /\ menuBy' \notin Applies
    BY <1>0, <1>2 DEF Event, Hook, Request, RestartTimer, counters, history, menuVars, CountersOK
  <1>3. CASE Elapse \/ UNCHANGED vars
    BY <1>1, <1>3 DEF Elapse, vars, history, menuVars
  <1>4. ~Reboot
    BY <1>0 DEF Reboot, counters, CountersOK
  <1>5. ASSUME NEW q \in Commands, Fault(q) PROVE FALSE
    BY <1>0, <1>5 DEF Fault, counters, CountersOK
  <1>6. ASSUME NEW q \in Commands, ApplyPlan(q) PROVE ~dropped' /\ menuBy' \notin Applies
    <2>1. CASE menu = view[q].planned
      BY <1>0, <1>6, <2>1 DEF ApplyPlan
    <2>2. CASE menu # view[q].planned
      <3>1. q \in Applies /\ ~view[q].consumed
        BY <1>0, <1>6, <2>2, CommandsAre DEF ApplyPlan, SettleInv, TakenInv
      <3>. QED  BY <1>0, <1>6, <2>2, <3>1 DEF ApplyPlan, Throws, menuVars
    <2>. QED  BY <2>1, <2>2
  <1>7. ASSUME NEW q \in Commands,
               \/ RunByHand(q) \/ TakeRefreshLock(q) \/ TestPending(q) \/ ClearPending(q)
               \/ Discover(q) \/ Validate(q) \/ BuildPlan(q) \/ CheckAgain(q) \/ Leave(q)
        PROVE  ~dropped' /\ menuBy' \notin Applies
    BY <1>1, <1>7 DEF RunByHand, TakeRefreshLock, TestPending, ClearPending, Discover, Validate,
                      BuildPlan, CheckAgain, Leave, history, menuVars
  <1>. QED  BY <1>2, <1>3, <1>4, <1>5, <1>6, <1>7 DEF Next, Command

(* A plan is made for the menu as it is. *)
LEMMA PlanMoves ==
  ASSUME TypeOK, [Next]_vars, NEW p \in Refreshes, pc'[p] = "planned"
  PROVE  \/ menu' = menu /\ view'[p].planned = menu
         \/ pc[p] = "planned" /\ view'[p].planned = view[p].planned
  <1> DEFINE Goal == \/ menu' = menu /\ view'[p].planned = menu
                     \/ pc[p] = "planned" /\ view'[p].planned = view[p].planned
  <1>0. p \in Commands
    BY CommandsAre
  <1>1. CASE pc'[p] = pc[p] /\ view'[p] = view[p]
    BY <1>1
  <1>2. CASE (\E h \in Hooks : Event(h) \/ Hook(h)) \/ UNCHANGED vars
    BY <1>1, <1>2 DEF Event, Hook, Request, RestartTimer, vars
  <1>3. CASE Elapse \/ Reboot
    BY <1>0, <1>1, <1>3, CommandsAre DEF Elapse, Reboot, Over, TypeOK
  <1>4. CASE End(p)
    BY <1>0, <1>4, EndsEmpty DEF Over
  <1>5. CASE BuildPlan(p)
    BY <1>0, <1>4, <1>5 DEF BuildPlan, menuVars, TypeOK
  <1>6. ASSUME NEW q \in Commands, RunByHand(q) \/ Command(q) \/ Fault(q) PROVE Goal
    <2>1. CASE q # p
      BY <1>0, <1>1, <1>6, <2>1, Bystander
    <2>2. CASE q = p
      <3> USE DEF TypeOK
      <3>1. CASE RunByHand(p) \/ TakeRefreshLock(p) \/ TestPending(p) \/ ClearPending(p) \/ Discover(p)
        BY <1>0, <1>4, <3>1 DEF RunByHand, TakeRefreshLock, TestPending, ClearPending, Discover
      <3>2. CASE Validate(p) \/ ApplyPlan(p)
        BY <1>0, <1>4, <3>2 DEF Validate, ApplyPlan, Throws
      <3>3. CASE CheckAgain(p) \/ Leave(p) \/ Fault(p)
        BY <1>0, <1>4, <3>3 DEF CheckAgain, Leave, Fault, Throws
      <3>. QED  BY <1>5, <1>6, <2>2, <3>1, <3>2, <3>3 DEF Command
    <2>. QED  BY <2>1, <2>2
  <1>. QED  BY <1>2, <1>3, <1>6 DEF Next

(* While nothing has gone wrong only the refresh that plans writes.        *)
LEMMA PlanHolds ==
  ASSUME TypeOK, TakenInv, CountersOK, [Next]_vars, Undisturbed', SettleInv,
         NEW p \in Refreshes, pc'[p] = "planned"
  PROVE  menu' = view'[p].planned
  <1>0. Undisturbed /\ p \in Commands /\ disturbed' = FALSE
    BY CalmBefore, CommandsAre DEF Undisturbed, TypeOK
  <1>1. CASE menu' = menu /\ view'[p].planned = menu
    BY <1>1
  <1>2. CASE pc[p] = "planned" /\ view'[p].planned = view[p].planned
    <2>1. menu = view[p].planned
      BY <1>0, <1>2 DEF SettleInv
    <2>2. CASE UNCHANGED menuVars
      BY <1>2, <2>1, <2>2 DEF menuVars
    <2>3. ASSUME NEW q \in Commands, pc[q] = "planned", pc' = [pc EXCEPT ![q] = "finished"],
                 menu' = view[q].seen, menuBy' = q
          PROVE  FALSE
      <3>1. q \notin Applies
        BY <1>0, <2>3, NothingDropped, CalmBefore DEF SettleInv
      <3>2. q \in Refreshes /\ q # p
        BY <1>0, <2>3, <3>1, CommandsAre DEF TypeOK
      <3>3. lock = q /\ lock = p
        BY <1>2, <2>3, <3>2 DEF TypeOK, Loop
      <3>. QED  BY <3>2, <3>3
    <2>. QED  BY <2>2, <2>3, MenuMoves
  <1>. QED  BY <1>1, <1>2, PlanMoves

(* Where a refresh goes while nothing goes wrong and the marker is there.  *)
LEMMA RefreshMoves ==
  ASSUME TypeOK, TakenInv, CountersOK, [Next]_vars, Undisturbed', SettleInv, marker,
         NEW p \in Refreshes
  PROVE  \/ pc'[p] = pc[p]
         \/ pc[p] \in Loop \ {"leaving"} /\ pc'[p] \in Loop \ {"leaving"}
         \/ pc[p] = "leaving" /\ pc'[p] = Over(p)
         \/ pc[p] = "started" /\ (pc'[p] = "round" \/ (pc'[p] = Over(p) /\ lock # Nobody))
         \/ pc[p] = "idle" /\ pc'[p] = "started"
  <1> DEFINE Goal == \/ pc'[p] = pc[p]
                     \/ pc[p] \in Loop \ {"leaving"} /\ pc'[p] \in Loop \ {"leaving"}
                     \/ pc[p] = "leaving" /\ pc'[p] = Over(p)
                     \/ pc[p] = "started" /\ (pc'[p] = "round" \/ (pc'[p] = Over(p) /\ lock # Nobody))
                     \/ pc[p] = "idle" /\ pc'[p] = "started"
  <1>0. p \in Commands /\ Undisturbed /\ UNCHANGED counters /\ disturbed' = FALSE
    BY CalmBefore, CommandsAre DEF Undisturbed, TypeOK
  <1>1. UNCHANGED <<faults, invalid, reboots>> /\ CountersOK
    BY <1>0 DEF counters
  <1>2. CASE (\E h \in Hooks : Event(h) \/ Hook(h)) \/ UNCHANGED vars
    BY <1>2 DEF Event, Hook, Request, RestartTimer, vars
  <1>3. CASE Elapse
    BY <1>0, <1>3, CommandsAre DEF Elapse, TypeOK
  <1>4. ~Reboot
    BY <1>1 DEF Reboot, CountersOK
  <1>5. CASE RunByHand(p)
    BY <1>0, <1>5 DEF RunByHand, TypeOK
  <1>6. CASE TakeRefreshLock(p)
    <2>1. pc[p] = "started"
      BY <1>6 DEF TakeRefreshLock
    <2>2. CASE lock = Nobody
      BY <1>0, <1>6, <2>1, <2>2 DEF TakeRefreshLock, RefreshLockIsFree, TypeOK
    <2>3. CASE lock # Nobody
      <3>1. pc'[p] = Over(p)
        BY <1>0, <1>6, <2>3, EndsEmpty DEF TakeRefreshLock, RefreshLockIsFree
      <3>. QED  BY <2>1, <2>3, <3>1
    <2>. QED  BY <2>2, <2>3
  <1>7. CASE TestPending(p) \/ ClearPending(p) \/ Discover(p)
    BY <1>0, <1>7, CommandsAre DEF TestPending, ClearPending, Discover, Loop, TypeOK
  <1>8. CASE Validate(p)
    <2>1. invalid' # invalid + 1
      BY <1>1 DEF CountersOK
    <2>2. pc[p] = "discovered" /\ pc' = [pc EXCEPT ![p] = "validated"]
      BY <1>8, <2>1 DEF Validate
    <2>. QED  BY <1>0, <2>2 DEF Loop, TypeOK
  <1>9. CASE BuildPlan(p)
    BY <1>0, <1>9 DEF BuildPlan, Loop, TypeOK
  <1>10. CASE ApplyPlan(p)
    BY <1>0, <1>10 DEF ApplyPlan, SettleInv, Loop, TypeOK
  <1>11. CASE CheckAgain(p)
    BY <1>0, <1>11 DEF CheckAgain, Loop, TypeOK
  <1>12. CASE Leave(p)
    BY <1>0, <1>12 DEF Leave, End, TypeOK
  <1>13. ~Fault(p)
    BY <1>1 DEF Fault, CountersOK
  <1>14. ASSUME NEW q \in Commands, RunByHand(q) \/ Command(q) \/ Fault(q) PROVE Goal
    <2>1. CASE q # p
      BY <1>0, <1>14, <2>1, Bystander
    <2>2. CASE q = p
      BY <1>5, <1>6, <1>7, <1>8, <1>9, <1>10, <1>11, <1>12, <1>13, <1>14, <2>2 DEF Command
    <2>. QED  BY <2>1, <2>2
  <1>. QED  BY <1>2, <1>3, <1>4, <1>14 DEF Next

(* A marker that appears is awaited from the start.                        *)
LEMMA MarkerAppears ==
  ASSUME TypeOK, CountersOK, [Next]_vars, Undisturbed', ~marker, marker'
  PROVE  Awaited'
  <1>0. UNCHANGED <<faults, invalid, reboots>> /\ disturbed' = FALSE
    BY CalmBefore DEF Undisturbed, counters, TypeOK
  <1>1. ASSUME NEW h \in Hooks, Request(h) PROVE Awaited'
    <2>1. hook'[h] = "marked"
      BY <1>1 DEF Request, TypeOK
    <2>. QED  BY <2>1 DEF Awaited
  <1>2. ASSUME NEW h \in Hooks, Event(h) \/ RestartTimer(h) PROVE FALSE
    BY <1>2 DEF Event, RestartTimer
  <1>3. ~Elapse /\ ~Reboot /\ ~(UNCHANGED vars)
    BY DEF Elapse, Reboot, vars, requestVars
  <1>4. ASSUME NEW q \in Commands,
               RunByHand(q) \/ TakeRefreshLock(q) \/ TestPending(q) \/ ClearPending(q) \/ Discover(q)
        PROVE  FALSE
    BY <1>4 DEF RunByHand, TakeRefreshLock, TestPending, ClearPending, Discover, requestVars
  <1>5. ASSUME NEW q \in Commands, Validate(q) \/ BuildPlan(q) PROVE FALSE
    <2>1. invalid' # invalid + 1
      BY <1>0 DEF CountersOK
    <2>2. ~Validate(q)
      BY <2>1 DEF Validate
    <2>3. ~BuildPlan(q)
      BY <1>0 DEF BuildPlan
    <2>. QED  BY <1>5, <2>2, <2>3
  <1>6. ASSUME NEW q \in Commands, ApplyPlan(q) \/ CheckAgain(q) \/ Leave(q) \/ Fault(q) PROVE FALSE
    BY <1>6 DEF ApplyPlan, CheckAgain, Leave, Fault, Throws, requestVars
  <1>. QED  BY <1>1, <1>2, <1>3, <1>4, <1>5, <1>6 DEF Next, Hook, Command

(* The timer and a marked hook lead on to the service.                     *)
LEMMA TimerMoves ==
  ASSUME TypeOK, CountersOK, ServiceOK, [Next]_vars, Undisturbed',
         timer \/ \E h \in Hooks : hook[h] = "marked"
  PROVE  Awaited'
  <1>0. /\ UNCHANGED <<faults, invalid, reboots>> /\ disturbed' = FALSE
        /\ Service \in Refreshes /\ Service \in Commands
    BY CalmBefore, CommandsAre DEF Undisturbed, counters, TypeOK
  <1>1. CASE UNCHANGED <<timer, hook>>
    BY <1>1 DEF Awaited
  <1>2. CASE Elapse
    <2>1. \A p \in Refreshes : pc[p] # "leaving"
      BY <1>0, <1>2 DEF Elapse
    <2>2. CASE pc[Service] = "idle"
      <3>1. pc'[Service] = "started" /\ \A p \in Refreshes : pc'[p] # "leaving"
        BY <1>0, <1>2, <2>1, <2>2, CommandsAre DEF Elapse, TypeOK
      <3>. QED  BY <3>1 DEF Awaited
    <2>3. CASE pc[Service] = "started"
      BY <1>2, <2>1, <2>3 DEF Elapse, Awaited
    <2>4. CASE pc[Service] \in Loop
      <3>1. pc' = pc /\ "idle" \notin Loop
        BY <1>2, <2>4 DEF Elapse, Loop
      <3>. QED  BY <1>0, <2>1, <2>4, <3>1 DEF Awaited
    <2>. QED  BY <1>0, <2>2, <2>3, <2>4 DEF TypeOK, Points, ServiceOK
  <1>3. ASSUME NEW h \in Hooks, Event(h) PROVE Awaited'
    <2>1. \A g \in Hooks : hook[g] = "marked" => hook'[g] = "marked"
      BY <1>3 DEF Event, TypeOK
    <2>. QED  BY <1>3, <2>1 DEF Event, Awaited
  <1>4. ASSUME NEW h \in Hooks, Request(h) PROVE Awaited'
    <2>1. \A g \in Hooks : hook[g] = "marked" => hook'[g] = "marked"
      BY <1>4 DEF Request, TypeOK
    <2>. QED  BY <1>4, <2>1 DEF Request, Awaited
  <1>5. ASSUME NEW h \in Hooks, RestartTimer(h) PROVE Awaited'
    BY <1>0, <1>5 DEF RestartTimer, CountersOK, Awaited
  <1>6. ~Reboot
    BY <1>0 DEF Reboot, CountersOK
  <1>7. CASE UNCHANGED vars
    BY <1>1, <1>7 DEF vars, requestVars
  <1>8. ASSUME NEW q \in Commands, RunByHand(q) \/ Command(q) \/ Fault(q) PROVE Awaited'
    BY <1>1, <1>8 DEF RunByHand, Command, TakeRefreshLock, TestPending, ClearPending, Discover, Validate,
                      BuildPlan, ApplyPlan, CheckAgain, Leave, Fault, requestVars
  <1>. QED  BY <1>2, <1>3, <1>4, <1>5, <1>6, <1>7, <1>8 DEF Next, Hook

LEMMA AwaitedStep ==
  ASSUME TypeOK, TakenInv, CountersOK, ServiceOK, SettleInv, [Next]_vars, Undisturbed', marker'
  PROVE  Awaited'
  <1>1. CASE ~marker
    BY <1>1, MarkerAppears
  <1>2. CASE timer \/ \E h \in Hooks : hook[h] = "marked"
    BY <1>2, TimerMoves
  <1>3. ASSUME marker, NEW p \in Refreshes, pc[p] \in Loop \ {"leaving"} PROVE Awaited'
    <2>1. pc'[p] \in Loop \ {"leaving"}
      BY <1>3, RefreshMoves DEF Loop
    <2>. QED  BY <2>1 DEF Awaited
  <1>4. CASE marker /\ pc[Service] = "started" /\ \A p \in Refreshes : pc[p] # "leaving"
    <2>0. Service \in Refreshes
      BY CommandsAre
    <2>1. \A p \in Refreshes : pc'[p] # "leaving"
      BY <1>4, RefreshMoves DEF Over
    <2>2. CASE pc'[Service] = "started"
      BY <2>1, <2>2 DEF Awaited
    <2>3. CASE pc'[Service] = "round"
      BY <2>0, <2>3 DEF Awaited, Loop
    <2>4. CASE lock # Nobody
      <3>1. lock \in Refreshes /\ pc[lock] \in Loop \ {"leaving"}
        BY <1>4, <2>4 DEF TypeOK
      <3>. QED  BY <1>3, <1>4, <3>1
    <2>. QED  BY <1>4, <2>0, <2>2, <2>3, <2>4, RefreshMoves DEF Loop
  <1>. QED  BY <1>1, <1>2, <1>3, <1>4, CalmBefore DEF SettleInv, Awaited

LEMMA SettleStep ==
  TypeOK /\ TakenInv /\ CountersOK /\ ServiceOK /\ SettleInv /\ [Next]_vars => SettleInv'
  BY NothingDropped, PlanHolds, AwaitedStep DEF SettleInv

LEMMA NeverUnsettled == Spec => [](TypeOK /\ ForgottenInv /\ SettleInv)
  <1>1. Init => CountersOK /\ ServiceOK /\ SettleInv
    BY CommandsAre DEF Init, CountersOK, ServiceOK, SettleInv, Undisturbed
  <1>2. TypeOK /\ ForgottenInv /\ CountersOK /\ ServiceOK /\ SettleInv /\ [Next]_vars
          => (CountersOK /\ ServiceOK /\ SettleInv)'
    BY SettleStep, ServiceStep, CalmBefore DEF ForgottenInv
  <1>. QED  BY <1>1, <1>2, NeverForgotten, PTL DEF Spec

(* The safety half of Settles.  As soon as no hook, timer, service or      *)
(* refresh has anything to do, and nothing has gone wrong before, the menu *)
(* shows the last event and no request is left over.                       *)
THEOREM SettledWhenIdle == Spec => [](Idle /\ Undisturbed => menu = latest /\ ~marker)
  <1>1. TypeOK /\ ForgottenInv /\ SettleInv => (Idle /\ Undisturbed => menu = latest /\ ~marker)
    <2> SUFFICES ASSUME TypeOK, Accounted, SettleInv, Idle, Undisturbed
                 PROVE  menu = latest /\ ~marker
      BY DEF ForgottenInv
    <2>1. \A p \in Refreshes : pc[p] \notin Loop
      BY CommandsAre DEF TypeOK, Idle
    <2>2. ~marker
      BY <2>1 DEF SettleInv, Awaited, Idle
    <2>3. \A p \in Refreshes : ~Serving(p)
      BY <2>1 DEF Serving, Loop, Looking
    <2>. QED  BY <2>2, <2>3 DEF SettleInv, Accounted, Announced, Idle
  <1>. QED  BY <1>1, NeverUnsettled, PTL

(* Hence Settles holds if everything that is started comes to an end, which *)
(* is what its fairness is for.                                            *)
THEOREM SettlesOnceIdle == Spec /\ <>[]Idle => Settles
  BY SettledWhenIdle, PTL DEF Settles

=============================================================================
