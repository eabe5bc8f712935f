-------------------------- MODULE RefreshAutomation --------------------------
(***************************************************************************)
(* Keeping the menu up to date.                                            *)
(*                                                                         *)
(* Snapper and pacman hooks call `request-refresh`, which leaves a marker  *)
(* in the runtime directory and restarts a timer; the timer starts a       *)
(* service that runs `refresh`.  An administrator may run `refresh` or     *)
(* `apply` at any moment.  A refresh holds refresh.lock, clears the marker *)
(* and then looks at the snapshots, and goes round again when the marker   *)
(* is back by the time it is done.                                         *)
(*                                                                         *)
(* The list of snapshots is a version number that each event increases; a  *)
(* menu is the version it was generated from.  Applying a plan is one step *)
(* here: module ApplyService shows what its steps amount to.               *)
(***************************************************************************)
EXTENDS Integers

CONSTANTS
  Hooks,           \* sources of events, each with automation switched on
  Service,         \* the refresh that systemd runs
  Manual,          \* refreshes run by hand, once each
  Applies,         \* `apply` commands run by hand, once each
  MaxEvents,       \* bound: events
  MaxFaults,       \* bound: exceptions, and restarts of the timer that fail
  MaxInvalid,      \* bound: validations that find errors
  MaxReboots       \* bound: reboots

Commands == {Service} \cup Manual \cup Applies
Refreshes == {Service} \cup Manual
Nobody == "nobody"
Nothing == [consumed |-> FALSE, seen |-> 0, planned |-> 0]

ASSUME RefreshAssumption ==
  /\ Service \notin Manual \cup Applies
  /\ Manual \cap Applies = {}
  /\ Nobody \notin Commands
  /\ MaxEvents \in Nat /\ MaxFaults \in Nat /\ MaxInvalid \in Nat /\ MaxReboots \in Nat

(* Loop: refresh.lock is held. *)
Loop == {"round", "clearing", "cleared", "discovered", "validated", "planned", "finished",
         "leaving"}
Points == Loop \cup {"idle", "started", "ended"}

VARIABLES
  latest,    \* the version of the list of snapshots
  menu,      \* the version installed in limine.conf
  marker,    \* refresh.pending exists
  timer,     \* limine-manager-refresh.timer is running
  hook,      \* hook[h]: "idle", "called", or "marked" (the marker is written)
  lock,      \* who holds refresh.lock
  pc,        \* pc[p]: where command p is
  view,      \* view[p]: what p knows in this round: whether it found the marker,
             \*   the version it discovered, and the version its plan expects to replace
  allowed,   \* a refresh may install: Secure Boot is off or automatic_apply is on
  faults, invalid, reboots,
  dropped,   \* history: a request was dropped since the last one was recorded
  disturbed, \* history: a refresh was turned away, or an apply wrote the menu
  menuBy     \* history: who wrote the menu last

requestVars == <<marker, timer, hook>>
menuVars == <<menu, menuBy>>
counters == <<faults, invalid, reboots>>
history == <<dropped, disturbed>>
vars == <<latest, menuVars, requestVars, lock, pc, view, counters, history, allowed>>

Init ==
  /\ latest = 0 /\ menu = 0
  /\ marker = FALSE /\ timer = FALSE
  /\ hook = [h \in Hooks |-> "idle"]
  /\ lock = Nobody
  /\ allowed \in BOOLEAN
  /\ pc = [p \in Commands |-> "idle"]
  /\ view = [p \in Commands |-> Nothing]
  /\ faults = 0 /\ invalid = 0 /\ reboots = 0
  /\ dropped = FALSE
  /\ disturbed = FALSE
  /\ menuBy = Nobody

-----------------------------------------------------------------------------
(* Events and requests.                                                    *)

(* The snapshots changed, and the hook that announces it is called. *)
Event(h) ==
  /\ latest < MaxEvents
  /\ hook[h] = "idle"
  /\ latest' = latest + 1
  /\ hook' = [hook EXCEPT ![h] = "called"]
  /\ UNCHANGED <<menuVars, marker, timer, lock, pc, view, counters, history, allowed>>

(* RefreshRequestService::request; a marker that exists is coalesced.  The *)
(* hook ends there when the marker cannot be written.                      *)
Request(h) ==
  /\ hook[h] = "called"
  /\ \/ /\ hook' = [hook EXCEPT ![h] = "marked"]
        /\ marker' = TRUE
        /\ dropped' = FALSE
        /\ UNCHANGED faults
     \/ /\ faults < MaxFaults
        /\ faults' = faults + 1
        /\ hook' = [hook EXCEPT ![h] = "idle"]
        /\ dropped' = (dropped \/ ~marker)
        /\ UNCHANGED marker
  /\ UNCHANGED <<latest, menuVars, timer, lock, pc, view, invalid, reboots, disturbed, allowed>>

(* systemctl restart limine-manager-refresh.timer *)
RestartTimer(h) ==
  /\ hook[h] = "marked"
  /\ hook' = [hook EXCEPT ![h] = "idle"]
  /\ \/ timer' = TRUE /\ UNCHANGED faults
     \/ faults < MaxFaults /\ faults' = faults + 1 /\ UNCHANGED timer
  /\ UNCHANGED <<latest, menuVars, marker, lock, pc, view, invalid, reboots, history, allowed>>

(* The timer elapses; a service that is still running is not started twice. *)
Elapse ==
  /\ timer
  /\ timer' = FALSE
  /\ pc' = IF pc[Service] = "idle" THEN [pc EXCEPT ![Service] = "started"] ELSE pc
  /\ disturbed' = (disturbed \/ \E p \in Refreshes : pc[p] = "leaving")
  /\ UNCHANGED <<latest, menuVars, marker, hook, lock, view, counters, dropped, allowed>>

(* A command is run by hand. *)
RunByHand(p) ==
  /\ p \in Manual \cup Applies
  /\ pc[p] = "idle"
  /\ pc' = [pc EXCEPT ![p] = "started"]
  /\ UNCHANGED <<latest, menuVars, requestVars, lock, view, counters, history, allowed>>

-----------------------------------------------------------------------------
(* The refresh command.                                                    *)

(* The service may be started again, a command run by hand may not. *)
Over(p) == IF p = Service THEN "idle" ELSE "ended"

End(p) == /\ pc' = [pc EXCEPT ![p] = Over(p)]
          /\ lock' = IF lock = p THEN Nobody ELSE lock
          /\ view' = [view EXCEPT ![p] = Nothing]

(* Faulty: the result of flock is not looked at. *)
RefreshLockIsFree_Unchecked == TRUE

RefreshLockIsFree == lock = Nobody

TakeRefreshLock(p) ==
  /\ p \in Refreshes
  /\ pc[p] = "started"
  /\ IF RefreshLockIsFree
     THEN pc' = [pc EXCEPT ![p] = "round"] /\ lock' = p /\ UNCHANGED view
     ELSE End(p)
  /\ UNCHANGED <<latest, menuVars, requestVars, counters, history, allowed>>

TestPending(p) ==
  /\ pc[p] = "round"
  /\ view' = [view EXCEPT ![p].consumed = marker]
  /\ pc' = [pc EXCEPT ![p] = IF marker THEN "clearing" ELSE "cleared"]
  /\ UNCHANGED <<latest, menuVars, requestVars, lock, counters, history, allowed>>

(* Faulty: the marker is forgotten, not removed. *)
ClearPending_Kept(p) ==
  /\ pc[p] = "clearing"
  /\ pc' = [pc EXCEPT ![p] = "cleared"]
  /\ UNCHANGED <<latest, menuVars, requestVars, lock, view, counters, history, allowed>>

ClearPending(p) ==
  /\ pc[p] = "clearing"
  /\ marker' = FALSE
  /\ pc' = [pc EXCEPT ![p] = "cleared"]
  /\ UNCHANGED <<latest, menuVars, timer, hook, lock, view, counters, history, allowed>>

(* DiscoveryService::discover; apply discovers without refresh.lock. *)
Discover(p) ==
  /\ \/ pc[p] = "cleared"
     \/ p \in Applies /\ pc[p] = "started"
  /\ view' = [view EXCEPT ![p].seen = latest]
  /\ pc' = [pc EXCEPT ![p] = "discovered"]
  /\ UNCHANGED <<latest, menuVars, requestVars, lock, counters, history, allowed>>

(* The marker that was consumed is put back; the timer is left alone. *)
PutBack(p) == marker' = (marker \/ view[p].consumed)

(* Faulty: a failed validation swallows the request. *)
Validate_Swallows(p) ==
  /\ pc[p] = "discovered"
  /\ \/ /\ pc' = [pc EXCEPT ![p] = "validated"]
        /\ UNCHANGED <<lock, view, invalid>>
     \/ /\ invalid < MaxInvalid
        /\ invalid' = invalid + 1
        /\ End(p)
  /\ UNCHANGED <<latest, menuVars, requestVars, faults, reboots, history, allowed>>

Validate(p) ==
  /\ pc[p] = "discovered"
  /\ \/ /\ pc' = [pc EXCEPT ![p] = "validated"]
        /\ UNCHANGED <<marker, lock, view, invalid>>
     \/ /\ invalid < MaxInvalid
        /\ invalid' = invalid + 1
        /\ PutBack(p)
        /\ End(p)
  /\ UNCHANGED <<latest, menuVars, timer, hook, faults, reboots, history, allowed>>

(* Nothing to do; or not allowed to; or a plan for the menu as it is. *)
BuildPlan(p) ==
  /\ pc[p] = "validated"
  /\ \/ /\ menu = view[p].seen
        /\ pc' = [pc EXCEPT ![p] = "finished"]
        /\ UNCHANGED <<marker, lock, view, disturbed>>
     \/ /\ menu # view[p].seen
        /\ p \in Refreshes /\ ~allowed
        /\ PutBack(p)
        /\ End(p)
        /\ disturbed' = TRUE
     \/ /\ menu # view[p].seen
        /\ p \in Applies \/ allowed
        /\ view' = [view EXCEPT ![p].planned = menu]
        /\ pc' = [pc EXCEPT ![p] = "planned"]
        /\ UNCHANGED <<marker, lock, disturbed>>
  /\ UNCHANGED <<latest, menuVars, timer, hook, counters, dropped, allowed>>

(* An exception: nothing puts the marker back. *)
Throws(p) ==
  /\ End(p)
  /\ dropped' = \/ dropped
                 \/ /\ view[p].consumed /\ ~marker
                    /\ pc[p] \notin {"round", "clearing", "finished", "leaving"}
  /\ UNCHANGED marker

(* ApplyService::apply refuses a plan made for another menu. *)
ApplyPlan(p) ==
  /\ pc[p] = "planned"
  /\ IF menu = view[p].planned
     THEN /\ menu' = view[p].seen /\ menuBy' = p
          /\ pc' = [pc EXCEPT ![p] = "finished"]
          /\ disturbed' = (disturbed \/ p \in Applies)
          /\ UNCHANGED <<lock, view, dropped, marker>>
     ELSE Throws(p) /\ UNCHANGED <<menuVars, disturbed>>
  /\ UNCHANGED <<latest, timer, hook, counters, allowed>>

(* Faulty: a refresh does not look at the marker again. *)
CheckAgain_Once(p) ==
  /\ pc[p] = "finished"
  /\ pc' = [pc EXCEPT ![p] = "leaving"]
  /\ view' = [view EXCEPT ![p] = Nothing]
  /\ UNCHANGED <<latest, menuVars, requestVars, lock, counters, history, allowed>>

(* The condition of the loop. *)
CheckAgain(p) ==
  /\ pc[p] = "finished"
  /\ pc' = [pc EXCEPT ![p] = IF marker /\ p \in Refreshes THEN "round" ELSE "leaving"]
  /\ view' = [view EXCEPT ![p] = Nothing]
  /\ UNCHANGED <<latest, menuVars, requestVars, lock, counters, history, allowed>>

(* What it did is reported, then refresh.lock is released and the process  *)
(* exits: a request that comes in between is not looked at.                *)
Leave(p) ==
  /\ pc[p] = "leaving"
  /\ End(p)
  /\ UNCHANGED <<latest, menuVars, requestVars, counters, history, allowed>>

(* Any call may throw: discovery, the lock, the removal, apply, prune. *)
Fault(p) ==
  /\ pc[p] \notin {"idle", "ended"}
  /\ faults < MaxFaults
  /\ faults' = faults + 1
  /\ Throws(p)
  /\ UNCHANGED <<latest, menuVars, timer, hook, invalid, reboots, disturbed, allowed>>

(* The runtime directory is in /run, and the timer is not persistent. *)
Reboot ==
  /\ reboots < MaxReboots
  /\ reboots' = reboots + 1
  /\ marker' = FALSE /\ timer' = FALSE
  /\ hook' = [h \in Hooks |-> "idle"]
  /\ lock' = Nobody
  /\ pc' = [p \in Commands |-> IF pc[p] = "idle" THEN "idle" ELSE Over(p)]
  /\ view' = [p \in Commands |-> Nothing]
  /\ dropped' = (menu # latest)
  /\ UNCHANGED <<latest, menuVars, faults, invalid, disturbed, allowed>>

-----------------------------------------------------------------------------
Command(p) ==
  \/ TakeRefreshLock(p) \/ TestPending(p) \/ ClearPending(p) \/ Discover(p)
  \/ Validate(p) \/ BuildPlan(p) \/ ApplyPlan(p) \/ CheckAgain(p)
  \/ Leave(p)

Hook(h) == Request(h) \/ RestartTimer(h)

Next == \/ \E h \in Hooks : Event(h) \/ Hook(h)
        \/ Elapse
        \/ \E p \in Commands : RunByHand(p) \/ Command(p) \/ Fault(p)
        \/ Reboot

(* What was started goes on, and a timer that runs elapses. *)
Fairness == /\ \A h \in Hooks : WF_vars(Hook(h))
            /\ WF_vars(Elapse)
            /\ \A p \in Commands : WF_vars(Command(p))

Spec == Init /\ [][Next]_vars /\ Fairness

-----------------------------------------------------------------------------
(* Properties.                                                             *)

(***************************************************************************)
(* The variables have their types, and refresh.lock is held by exactly the *)
(* refresh that is inside its loop.                                        *)
(***************************************************************************)
TypeOK ==
  /\ latest \in 0..MaxEvents /\ menu \in 0..latest
  /\ marker \in BOOLEAN /\ timer \in BOOLEAN /\ dropped \in BOOLEAN /\ disturbed \in BOOLEAN
  /\ allowed \in BOOLEAN
  /\ hook \in [Hooks -> {"idle", "called", "marked"}]
  /\ lock \in Refreshes \cup {Nobody}
  /\ pc \in [Commands -> Points]
  /\ view \in [Commands -> [consumed: BOOLEAN, seen: 0..latest, planned: 0..latest]]
  /\ menuBy \in Commands \cup {Nobody}
  /\ \A p \in Refreshes : pc[p] \in Loop <=> lock = p

(***************************************************************************)
(* An older menu replaces a newer one only if an apply by hand, which does *)
(* not take refresh.lock, wrote one of the two: refreshes cannot overtake  *)
(* each other between looking at the snapshots and installing what they    *)
(* saw.                                                                    *)
(***************************************************************************)
NeverGoesBack == [][menu' >= menu \/ menuBy \in Applies \/ menuBy' \in Applies]_vars

(***************************************************************************)
(* When the events stop and nothing went wrong, the menu comes to show the *)
(* last of them and no request is left over, however requests, timer,      *)
(* service and refreshes by hand interleave.  It goes wrong, among other   *)
(* things, when the timer elapses while a refresh is leaving: the service  *)
(* finds refresh.lock held and gives up.                                   *)
(***************************************************************************)
Undisturbed == faults = 0 /\ invalid = 0 /\ reboots = 0 /\ ~disturbed

Settles == <>[](Undisturbed => menu = latest /\ ~marker)

(***************************************************************************)
(* A refresh that was started comes to an end: its loop is not kept going  *)
(* by requests it has already served.                                      *)
(***************************************************************************)
RefreshEnds == \A p \in Refreshes : pc[p] # "idle" ~> pc[p] = Over(p)

(***************************************************************************)
(* An event is never forgotten in silence: once its hook has made the      *)
(* request and no refresh is at work, the menu shows it, or the marker is  *)
(* there for the next refresh, or a refresh that had taken the request     *)
(* died of an exception or a reboot, or an apply by hand put an older menu *)
(* back.                                                                   *)
(***************************************************************************)
EventsReachMenu ==
  lock = Nobody /\ (\A h \in Hooks : hook[h] # "called")
    => menu = latest \/ marker \/ dropped \/ menuBy \in Applies

=============================================================================
