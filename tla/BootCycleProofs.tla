--------------------------- MODULE BootCycleProofs ---------------------------
(***************************************************************************)
(* Theorems about BootCycle.  They rest on what a command knows and how    *)
(* long it stays true (Knows): the root that the command line names does   *)
(* not change while the machine runs, whatever snapshots come and go and   *)
(* whoever rolls the main root back; and on what every menu has: the       *)
(* complete kernel, and an entry for the main root or the running one.     *)
(***************************************************************************)
EXTENDS BootCycle, WellFoundedInduction, TLAPS

Steps == {"idle", "detect", "validate", "plan", "switch", "install"}
Detected == {"validate", "plan", "switch", "install"}

ProcTypes == [step: Steps, command: Commands \cup {"none"}, available: SUBSET Numbers,
              kernels: SUBSET Installations, cmdline: Roots]

(* Commands are records, and those that run are of a kind that runs.       *)
ProcOK == /\ proc \in [Procs -> ProcTypes]
          /\ \A p \in Procs : proc[p].step # "idle" => proc[p].command \in Commands

BaseFiles == {<<Base, "vmlinuz">>, <<Base, "initramfs">>}
BaseInstallation == [base |-> Base, image |-> <<Base, "vmlinuz">>,
                     initrds |-> {<<Base, "initramfs">>}, uki |-> FALSE]

Complete(k) == k.uki \/ k.initrds # {}

(* What command p saw, as long as it is not done.                          *)
Knows(p) ==
  /\ proc[p].step # "idle" /\ booted # Main => booted \in proc[p].available
  /\ proc[p].step \in Detected =>
       proc[p].cmdline = KernelCmdline /\ BaseInstallation \in proc[p].kernels
  /\ proc[p].step = "validate" => proc[p].command # "rollback"
  /\ proc[p].step \in {"plan", "switch"} => proc[p].command = "rollback"
  /\ proc[p].step = "switch" => proc[p].cmdline # booted
  /\ proc[p].step = "install" /\ proc[p].command # "rollback" =>
       proc[p].cmdline = booted /\ \A k \in proc[p].kernels : Complete(k)

KnowsInv == /\ BaseFiles \subseteq bootFiles
            /\ \A p \in Procs : Knows(p)

BaseVisible == (Included = {} \/ Base \in Included) /\ Base \notin Excluded

(* What every installed menu has.                                          *)
MenuInv == /\ BaseVisible => BaseInstallation \in menu.kernels
           /\ {Main, booted} \cap EntryRoots # {}

-----------------------------------------------------------------------------
(* Numbers, files and kernels. *)

(* The greatest number of a non-empty set of numbers up to n is in the     *)
(* set, and none of it is greater.                                         *)
LEMMA MaxOfBounded ==
  ASSUME NEW n \in Nat, NEW S \in SUBSET (0..n), S # {}
  PROVE  Max(S) \in S /\ \A y \in S : Max(S) >= y
  <1> DEFINE T == {n - s : s \in S}
             Less == {ss \in Nat \X Nat : ss[1] < ss[2]}
  <1>1. T \subseteq Nat /\ T # {}
    <2>1. \A s \in S : n - s \in Nat
      OBVIOUS
    <2>2. PICK s \in S : n - s \in T
      OBVIOUS
    <2>. QED  BY <2>1, <2>2
  <1>2. IsWellFoundedOn(Less, Nat)
    BY NatLessThanWellFounded DEF OpToRel
  <1>3. PICK x \in T : \A y \in T : ~(<<y, x>> \in Less)
    <2> HIDE DEF T, Less
    <2>. QED  BY <1>1, <1>2, WFMin
  <1>4. PICK z \in S : x = n - z
    OBVIOUS
  <1>5. \A y \in S : z >= y
    <2> SUFFICES ASSUME NEW y \in S PROVE z >= y
      OBVIOUS
    <2>1. n - y \in T /\ ~(n - y < n - z)
      BY <1>1, <1>3, <1>4
    <2>. QED BY <2>1
  <1>. QED  BY <1>5 DEF Max

LEMMA RootsAre ==
  /\ Numbers \subseteq Nat \ {0} /\ Roots = {Main} \cup Numbers /\ Main = 0
  /\ Main \notin Numbers /\ Main # NoFile /\ Main # Absent /\ NoFile # Absent
  /\ NoFile \notin Roots /\ Absent \notin Roots
  BY BootAssumption DEF Numbers, Roots, Main, NoFile, Absent

(* KernelDiscovery finds installations, and the complete kernel as it is.  *)
LEMMA DiscoveryType ==
  ASSUME NEW files \in SUBSET BootFiles
  PROVE  KernelDiscovery(files) \in SUBSET Installations
  <1> SUFFICES ASSUME NEW k \in Kernels, <<k, "vmlinuz">> \in files
               PROVE  /\ <<k, "initramfs">> \in files =>
                           [base |-> k, image |-> <<k, "vmlinuz">>,
                            initrds |-> {<<k, "initramfs">>}, uki |-> FALSE] \in Installations
                      /\ <<k, "uki">> \in files =>
                           [base |-> k, image |-> <<k, "uki">>, initrds |-> {}, uki |-> TRUE]
                             \in Installations
                      /\ [base |-> k, image |-> <<k, "vmlinuz">>, initrds |-> {}, uki |-> FALSE]
                           \in Installations
    BY DEF KernelDiscovery
  <1>. QED  BY DEF Installations

LEMMA DiscoveryBase ==
  ASSUME NEW files, BaseFiles \subseteq files
  PROVE  BaseInstallation \in KernelDiscovery(files)
  BY BootAssumption DEF KernelDiscovery, BaseInstallation, BaseFiles

(* The root that the command line names: the running one or the main one,  *)
(* and the main one when that is what runs.                                *)
LEMMA CmdlineIs ==
  ASSUME TypeOK
  PROVE  /\ KernelCmdline \in {Main, booted}
         /\ KernelCmdline \in Roots
         /\ booted # Main => (KernelCmdline = Main <=> cmdlineFile[booted] = Main)
  BY RootsAre DEF TypeOK, Existing, KernelCmdline

(* Snapper numbers a new snapshot after every root there is.               *)
LEMMA NewNumber ==
  ASSUME TypeOK
  PROVE  /\ Max(Snapshots \cup {0}) + 1 \notin Existing
         /\ Max(Snapshots \cup {0}) + 1 # Main
  <1>1. Snapshots \cup {0} \in SUBSET (0..MaxNumber) /\ Existing \subseteq Snapshots \cup {0}
    BY BootAssumption, RootsAre DEF Snapshots, Existing, Numbers
  <1>2. /\ Max(Snapshots \cup {0}) \in Snapshots \cup {0}
        /\ \A y \in Snapshots \cup {0} : Max(Snapshots \cup {0}) >= y
    BY <1>1, MaxOfBounded, BootAssumption
  <1>. QED  BY <1>1, <1>2, RootsAre

-----------------------------------------------------------------------------
(* Types. *)

LEMMA TypeInit == Init => TypeOK /\ ProcOK
  <1> SUFFICES ASSUME Init PROVE TypeOK /\ ProcOK
    OBVIOUS
  <1>1. bootFiles \in SUBSET BootFiles
    BY BootAssumption DEF Init, BootFiles
  <1>2. menu \in [kernels: SUBSET Installations, main: Roots, snapshots: SUBSET Numbers,
                  by: Commands]
    BY <1>1, DiscoveryType, RootsAre, BootAssumption DEF Init
  <1>3. {booted, Main} \subseteq Existing
    BY RootsAre DEF Init, Existing
  <1>4. Idle \in ProcTypes /\ Idle.step = "idle"
    BY RootsAre DEF Idle, ProcTypes, Steps
  <1>5. \A p \in Procs : proc[p] = Idle
    BY DEF Init
  <1>6. proc \in [Procs -> ProcTypes]
    BY <1>4 DEF Init
  <1>7. ProcOK
    BY <1>4, <1>5, <1>6 DEF ProcOK
  <1>. QED
    BY <1>1, <1>2, <1>3, <1>5, <1>7, RootsAre DEF Init, TypeOK, Idle

(* The types of proc are in both; the rest of TypeOK is this.              *)
MachineOK ==
  /\ cmdlineFile \in [Roots -> {Main, NoFile, Absent}]
  /\ {booted, Main} \subseteq Existing
  /\ bootFiles \subseteq BootFiles
  /\ menu \in [kernels: SUBSET Installations, main: Roots, snapshots: SUBSET Numbers,
                by: Commands]

(* A command that becomes idle, or takes a step with what it knows, keeps  *)
(* the types of proc.                                                      *)
LEMMA ProcType ==
  ASSUME ProcOK, NEW p \in Procs, NEW r \in ProcTypes, proc' = [proc EXCEPT ![p] = r],
         r.step # "idle" => r.command \in Commands
  PROVE  ProcOK'
  BY DEF ProcOK

LEMMA IdleType == Idle \in ProcTypes /\ Idle.step = "idle"
  BY RootsAre DEF Idle, ProcTypes, Steps

LEMMA StepType ==
  ASSUME ProcOK, NEW p \in Procs, NEW s \in Steps
  PROVE  /\ [proc[p] EXCEPT !.step = s] \in ProcTypes
         /\ [proc EXCEPT ![p].step = s] = [proc EXCEPT ![p] = [proc[p] EXCEPT !.step = s]]
         /\ [proc[p] EXCEPT !.step = s].step = s
         /\ [proc[p] EXCEPT !.step = s].command = proc[p].command
         /\ [proc[p] EXCEPT !.step = s].cmdline = proc[p].cmdline
         /\ [proc[p] EXCEPT !.step = s].kernels = proc[p].kernels
         /\ [proc[p] EXCEPT !.step = s].available = proc[p].available
  BY DEF ProcOK, ProcTypes

(* What each step of a command makes of its record. *)
Listed(command) == [Idle EXCEPT !.step = "detect", !.command = command, !.available = Snapshots]
Seen(p) == [proc[p] EXCEPT !.step = IF @ = "detect" /\ proc[p].command = "rollback"
                                    THEN "plan" ELSE "validate",
                           !.kernels = KernelDiscovery(bootFiles),
                           !.cmdline = KernelCmdline]

LEMMA ListedType ==
  ASSUME NEW command \in Commands
  PROVE  /\ Listed(command) \in ProcTypes
         /\ Listed(command).step = "detect" /\ Listed(command).command = command
         /\ Listed(command).available = Snapshots
  BY IdleType, RootsAre DEF Listed, Idle, ProcTypes, Steps, Snapshots, Existing

LEMMA SeenType ==
  ASSUME TypeOK, ProcOK, NEW p \in Procs, Detect(p)
  PROVE  /\ Seen(p) \in ProcTypes
         /\ proc' = [proc EXCEPT ![p] = Seen(p)]
         /\ Seen(p).step = IF proc[p].command = "rollback" THEN "plan" ELSE "validate"
         /\ Seen(p).command = proc[p].command
         /\ Seen(p).available = proc[p].available
         /\ Seen(p).kernels = KernelDiscovery(bootFiles)
         /\ Seen(p).cmdline = KernelCmdline
  <1>1. KernelDiscovery(bootFiles) \in SUBSET Installations /\ KernelCmdline \in Roots
    BY DiscoveryType, CmdlineIs DEF TypeOK
  <1>2. proc[p] \in ProcTypes /\ proc[p].step = "detect"
    BY DEF ProcOK, Detect
  <1>. QED  BY <1>1, <1>2 DEF Seen, ProcTypes, Steps, Detect, ProcOK

LEMMA ProcStep == TypeOK /\ ProcOK /\ [Next]_vars => ProcOK'
  <1> SUFFICES ASSUME TypeOK, ProcOK, [Next]_vars PROVE ProcOK'
    OBVIOUS
  <1>1. ASSUME NEW p \in Procs, NEW command \in Commands, ListSnapshots(p, command) PROVE ProcOK'
    BY <1>1, ListedType, ProcType DEF ListSnapshots, Listed
  <1>2. ASSUME NEW p \in Procs, Detect(p) PROVE ProcOK'
    <2>1. Seen(p).command \in Commands
      BY <1>2, SeenType DEF Detect, ProcOK
    <2>2. Seen(p) \in ProcTypes /\ proc' = [proc EXCEPT ![p] = Seen(p)]
      BY <1>2, SeenType
    <2>. QED  BY <2>1, <2>2, ProcType
  <1>3. ASSUME NEW p \in Procs, proc' = [proc EXCEPT ![p] = Idle] PROVE ProcOK'
    BY <1>3, IdleType, ProcType
  <1>4. ASSUME NEW p \in Procs, NEW s \in Steps, proc[p].step # "idle",
               proc' = [proc EXCEPT ![p] = [proc[p] EXCEPT !.step = s]]
        PROVE  ProcOK'
    <2>1. /\ [proc[p] EXCEPT !.step = s] \in ProcTypes
          /\ [proc[p] EXCEPT !.step = s].command \in Commands
      BY <1>4, StepType DEF ProcOK
    <2>. QED  BY <1>4, <2>1, ProcType
  <1>5. ASSUME NEW p \in Procs, Validate(p) PROVE ProcOK'
    BY <1>3, <1>4, <1>5 DEF Validate, Steps
  <1>6. ASSUME NEW p \in Procs, PlanRollback(p) PROVE ProcOK'
    BY <1>3, <1>4, <1>6 DEF PlanRollback, Steps
  <1>7. ASSUME NEW p \in Procs, Switch(p) PROVE ProcOK'
    BY <1>4, <1>7, StepType DEF Switch, Steps
  <1>8. ASSUME NEW p \in Procs, Install(p) \/ Abort(p) PROVE ProcOK'
    BY <1>3, <1>8 DEF Install, Abort
  <1>9. ASSUME proc' = [p \in Procs |-> Idle] PROVE ProcOK'
    BY <1>9, IdleType DEF ProcOK
  <1>10. CASE Machine
    <2>1. proc' = proc \/ proc' = [p \in Procs |-> Idle]
      BY <1>10 DEF Machine, Boot, CreateSnapshot, DeleteSnapshot, ChangeBootFile, BreakOrRepair,
                   EditCmdline
    <2>. QED  BY <1>9, <2>1 DEF ProcOK
  <1>11. CASE UNCHANGED vars
    BY <1>11 DEF vars, ProcOK
  <1>. QED
    BY <1>1, <1>2, <1>5, <1>6, <1>7, <1>8, <1>10, <1>11 DEF Next, Command

(* The menu that a command installs is a menu. *)
LEMMA PreviewType ==
  ASSUME ProcOK, NEW p \in Procs, proc[p].step # "idle"
  PROVE  Preview(p) \in [kernels: SUBSET Installations, main: Roots,
                         snapshots: SUBSET Numbers, by: Commands]
  <1>1. proc[p] \in ProcTypes /\ proc[p].command \in Commands
    BY DEF ProcOK
  <1>2. SelectKernels(proc[p].kernels) \in SUBSET Installations
    BY <1>1 DEF SelectKernels, ProcTypes
  <1>3. SelectMenuSnapshots(proc[p].available) \in SUBSET Numbers
    BY <1>1 DEF SelectMenuSnapshots, ProcTypes
  <1>. QED  BY <1>1, <1>2, <1>3 DEF Preview, ProcTypes

(* Roots that are not taken away. *)
LEMMA FileSet ==
  ASSUME MachineOK, NEW r \in Roots, NEW c \in {Main, NoFile, Absent},
         cmdlineFile' = [cmdlineFile EXCEPT ![r] = c], booted' = booted,
         c = Absent => r \notin {booted, Main}
  PROVE  /\ cmdlineFile' \in [Roots -> {Main, NoFile, Absent}]
         /\ ({booted, Main} \subseteq Existing)'
  BY RootsAre DEF MachineOK, Existing

LEMMA MachineStep == TypeOK /\ ProcOK /\ [Next]_vars => MachineOK'
  <1> SUFFICES ASSUME TypeOK, ProcOK, [Next]_vars PROVE MachineOK'
    OBVIOUS
  <1>0. MachineOK
    BY DEF MachineOK, TypeOK
  <1>1. ASSUME UNCHANGED <<cmdlineFile, bootFiles, booted, menu>> PROVE MachineOK'
    BY <1>0, <1>1 DEF MachineOK, Existing
  <1>2. ASSUME NEW r \in Roots, NEW c \in {Main, NoFile, Absent},
               cmdlineFile' = [cmdlineFile EXCEPT ![r] = c],
               c = Absent => r \notin {booted, Main},
               UNCHANGED <<bootFiles, booted, menu>>
        PROVE  MachineOK'
    BY <1>0, <1>2, FileSet DEF MachineOK
  <1>3. booted \in Roots /\ Main \in Roots
        /\ cmdlineFile[booted] \in {Main, NoFile} /\ cmdlineFile[Main] \in {Main, NoFile}
    BY <1>0 DEF MachineOK, Existing
  <1>4. ASSUME NEW p \in Procs, Command(p), ~Switch(p), ~Install(p) PROVE MachineOK'
    BY <1>1, <1>4 DEF Command, ListSnapshots, Detect, Validate, PlanRollback, Abort
  <1>5. ASSUME NEW p \in Procs, Switch(p) PROVE MachineOK'
    <2>1. proc[p].cmdline \in Roots
      BY DEF TypeOK
    <2>. QED  BY <1>2, <1>3, <1>5, <2>1, RootsAre DEF Switch
  <1>6. ASSUME NEW p \in Procs, Install(p) PROVE MachineOK'
    <2>1. Preview(p) \in [kernels: SUBSET Installations, main: Roots,
                          snapshots: SUBSET Numbers, by: Commands]
      BY <1>6, PreviewType DEF Install
    <2>. QED  BY <1>0, <1>6, <2>1 DEF Install, MachineOK, Existing
  <1>7. ASSUME NEW k, NEW r \in Roots, Boot(k, r) PROVE MachineOK'
    BY <1>0, <1>7 DEF Boot, Boots, MachineOK, Existing
  <1>8. CASE CreateSnapshot
    BY <1>2, <1>3, <1>8, RootsAre DEF CreateSnapshot
  <1>9. ASSUME NEW n \in Numbers, DeleteSnapshot(n) PROVE MachineOK'
    BY <1>2, <1>9, RootsAre DEF DeleteSnapshot, Snapshots
  <1>10. ASSUME NEW file \in BootFiles, ChangeBootFile(file) PROVE MachineOK'
    BY <1>0, <1>10 DEF ChangeBootFile, MachineOK, Existing
  <1>11. CASE BreakOrRepair
    BY <1>1, <1>11 DEF BreakOrRepair
  <1>12. CASE EditCmdline
    BY <1>2, <1>3, <1>12, RootsAre DEF EditCmdline
  <1>13. CASE UNCHANGED vars
    BY <1>1, <1>13 DEF vars
  <1>. QED
    BY <1>4, <1>5, <1>6, <1>7, <1>8, <1>9, <1>10, <1>11, <1>12, <1>13 DEF Next, Machine

LEMMA TypeStep == TypeOK /\ ProcOK /\ [Next]_vars => (TypeOK /\ ProcOK)'
  BY ProcStep, MachineStep DEF ProcOK, MachineOK, ProcTypes, Steps, TypeOK

(* Commands, pacman, Snapper and the machine: types, and the running root  *)
(* and the main one are always there.                                      *)
THEOREM TypeCorrect == Spec => []TypeOK
  BY TypeInit, TypeStep, PTL DEF Spec

-----------------------------------------------------------------------------
(* What a command knows stays true. *)

LEMMA KnowsInit == Init => KnowsInv
  BY DEF Init, KnowsInv, BaseFiles, Knows, Idle, Detected

(* The complete kernel stays. *)
LEMMA BaseFilesStep == BaseFiles \subseteq bootFiles /\ [Next]_vars => (BaseFiles \subseteq bootFiles)'
  <1> SUFFICES ASSUME BaseFiles \subseteq bootFiles, [Next]_vars
               PROVE  BaseFiles \subseteq bootFiles'
    BY DEF BaseFiles
  <1>1. ASSUME NEW file \in BootFiles, ChangeBootFile(file) PROVE BaseFiles \subseteq bootFiles'
    BY <1>1 DEF ChangeBootFile, BaseFiles
  <1>2. CASE UNCHANGED bootFiles
    BY <1>2
  <1>. QED
    BY <1>1, <1>2
       DEF Next, Command, ListSnapshots, Detect, Validate, PlanRollback, Switch, Install, Abort,
           Machine, Boot, CreateSnapshot, DeleteSnapshot, BreakOrRepair, EditCmdline, vars

(* While the machine runs, the root that its command line names is the     *)
(* same: nobody edits a snapshot, and a rollback replaces another root.    *)
LEMMA CmdlineStays ==
  ASSUME TypeOK, KnowsInv, [Next]_vars, ~\E k \in menu.kernels, r \in Roots : Boot(k, r)
  PROVE  booted' = booted /\ KernelCmdline' = KernelCmdline
  <1>1. booted' = booted
    BY DEF Next, Command, ListSnapshots, Detect, Validate, PlanRollback, Switch, Install, Abort,
           Machine, CreateSnapshot, DeleteSnapshot, ChangeBootFile, BreakOrRepair,
           EditCmdline, vars
  <1>2. CASE UNCHANGED cmdlineFile
    BY <1>1, <1>2 DEF KernelCmdline
  <1>3. ASSUME NEW r \in Roots \ {booted}, NEW c, cmdlineFile' = [cmdlineFile EXCEPT ![r] = c]
        PROVE  KernelCmdline' = KernelCmdline
    BY <1>1, <1>3, RootsAre DEF KernelCmdline, TypeOK, Existing
  <1>4. ASSUME NEW p \in Procs, Switch(p) PROVE KernelCmdline' = KernelCmdline
    BY <1>3, <1>4 DEF Switch, KnowsInv, Knows, TypeOK
  <1>5. CASE CreateSnapshot
    BY <1>3, <1>5, NewNumber, RootsAre DEF CreateSnapshot, TypeOK
  <1>6. ASSUME NEW n \in Numbers, DeleteSnapshot(n) PROVE KernelCmdline' = KernelCmdline
    BY <1>3, <1>6, RootsAre DEF DeleteSnapshot
  <1>7. CASE EditCmdline
    BY <1>1, <1>7, RootsAre DEF EditCmdline, KernelCmdline, TypeOK, Existing
  <1>. QED
    BY <1>1, <1>2, <1>4, <1>5, <1>6, <1>7
       DEF Next, Command, ListSnapshots, Detect, Validate, PlanRollback, Install, Abort, Machine,
           ChangeBootFile, BreakOrRepair, vars

(* What others do leaves it to be known. *)
LEMMA KnowsSame ==
  ASSUME NEW p, Knows(p), proc'[p] = proc[p], booted' = booted, KernelCmdline' = KernelCmdline
  PROVE  Knows(p)'
  BY DEF Knows

LEMMA KnowsIdle ==
  ASSUME NEW p, proc'[p] = Idle
  PROVE  Knows(p)'
  BY DEF Knows, Idle, Detected

(* The steps of p. *)
LEMMA KnowsStepOwn ==
  ASSUME TypeOK, ProcOK, KnowsInv, NEW p \in Procs, Command(p),
         booted' = booted, KernelCmdline' = KernelCmdline
  PROVE  Knows(p)'
  <1>0. Knows(p) /\ p \in DOMAIN proc /\ proc[p] \in ProcTypes /\ booted \in Existing
    BY DEF KnowsInv, ProcOK, TypeOK
  <1>1. ASSUME NEW command \in Commands, ListSnapshots(p, command) PROVE Knows(p)'
    <2>1. proc'[p] = Listed(command)
      BY <1>0, <1>1 DEF ListSnapshots, Listed
    <2>. QED
      BY <1>0, <2>1, ListedType DEF Knows, Detected, Snapshots
  <1>2. CASE Detect(p)
    <2>1. proc'[p] = Seen(p)
      BY <1>0, <1>2, SeenType
    <2>2. BaseInstallation \in KernelDiscovery(bootFiles)
      BY DiscoveryBase DEF KnowsInv
    <2>3. proc[p].step = "detect"
      BY <1>2 DEF Detect
    <2>. QED
      BY <1>0, <1>2, <2>1, <2>2, <2>3, SeenType DEF Knows, Detected
  <1>3. CASE Validate(p)
    <2>1. CASE Valid(p)
      <3>1. /\ proc'[p] = [proc[p] EXCEPT !.step = "install"] /\ proc[p].step = "validate"
        BY <1>0, <1>3, <2>1 DEF Validate
      <3>2. proc[p].cmdline = booted /\ \A k \in proc[p].kernels : Complete(k)
        BY <2>1 DEF Valid, RootflagsValid, KernelsValid, Complete
      <3>. QED
        BY <1>0, <3>1, <3>2, StepType DEF Knows, Detected, Steps
    <2>2. CASE ~Valid(p)
      BY <1>0, <1>3, <2>2, KnowsIdle DEF Validate
    <2>. QED  BY <2>1, <2>2
  <1>4. CASE PlanRollback(p)
    <2>1. CASE Eligible(p)
      <3>1. /\ proc'[p] = [proc[p] EXCEPT !.step = "switch"] /\ proc[p].step = "plan"
            /\ proc[p].cmdline # booted
        BY <1>0, <1>4, <2>1 DEF PlanRollback, Eligible
      <3>. QED
        BY <1>0, <3>1, StepType DEF Knows, Detected, Steps
    <2>2. CASE ~Eligible(p)
      BY <1>0, <1>4, <2>2, KnowsIdle DEF PlanRollback
    <2>. QED  BY <2>1, <2>2
  <1>5. CASE Switch(p)
    <2>1. proc'[p] = [proc[p] EXCEPT !.step = "install"] /\ proc[p].step = "switch"
      BY <1>0, <1>5 DEF Switch
    <2>. QED  BY <1>0, <2>1, StepType DEF Knows, Detected, Steps
  <1>6. CASE Install(p) \/ Abort(p)
    BY <1>0, <1>6, KnowsIdle DEF Install, Abort
  <1>. QED  BY <1>1, <1>2, <1>3, <1>4, <1>5, <1>6 DEF Command

LEMMA KnowsStep == TypeOK /\ ProcOK /\ KnowsInv /\ [Next]_vars => KnowsInv'
  <1> SUFFICES ASSUME TypeOK, ProcOK, KnowsInv, [Next]_vars, NEW r \in Procs
               PROVE  Knows(r)'
    BY BaseFilesStep DEF KnowsInv
  <1>0. Knows(r)
    BY DEF KnowsInv
  <1>1. CASE \E k \in menu.kernels, q \in Roots : Boot(k, q)
    BY <1>1, KnowsIdle DEF Boot
  <1>2. CASE ~\E k \in menu.kernels, q \in Roots : Boot(k, q)
    <2>1. booted' = booted /\ KernelCmdline' = KernelCmdline
      BY <1>2, CmdlineStays
    <2>2. CASE Command(r)
      BY <2>1, <2>2, KnowsStepOwn
    <2>3. CASE proc'[r] = proc[r]
      BY <1>0, <2>1, <2>3, KnowsSame
    <2>4. ASSUME NEW p \in Procs \ {r}, Command(p) PROVE proc'[r] = proc[r]
      BY <2>4 DEF Command, ListSnapshots, Detect, Validate, PlanRollback, Switch, Install, Abort,
                  ProcOK
    <2>5. CASE Machine \/ UNCHANGED vars
      <3>1. proc' = proc
        BY <1>2, <2>5 DEF Machine, CreateSnapshot, DeleteSnapshot, ChangeBootFile, BreakOrRepair,
                          EditCmdline, vars
      <3>. QED  BY <2>3, <3>1
    <2>. QED  BY <2>2, <2>3, <2>4, <2>5 DEF Next
  <1>. QED  BY <1>1, <1>2

-----------------------------------------------------------------------------
(* What the menus have in common. *)

LEMMA MenuInit == Init => MenuInv /\ MenuComplete
  <1> SUFFICES ASSUME Init PROVE MenuInv /\ MenuComplete
    OBVIOUS
  <1>1. /\ menu.kernels = KernelDiscovery(bootFiles) /\ menu.main = Main
        /\ bootFiles = {Base} \X {"vmlinuz", "initramfs"}
    BY DEF Init
  <1>2. BaseInstallation \in menu.kernels
    BY <1>1, DiscoveryBase DEF BaseFiles
  <1>3. \A k \in menu.kernels : k = BaseInstallation
    BY <1>1 DEF KernelDiscovery, BaseInstallation
  <1>4. Main \in {Main, booted} \cap EntryRoots
    BY <1>1 DEF EntryRoots
  <1>5. BaseInstallation.initrds # {}
    BY DEF BaseInstallation
  <1>6. MenuComplete
    BY <1>3, <1>5 DEF MenuComplete
  <1>. QED  BY <1>2, <1>4, <1>6 DEF MenuInv

(* Only a command that installs changes the menu. *)
LEMMA MenuMoves ==
  ASSUME [Next]_vars
  PROVE  \/ menu' = menu /\ booted' = booted
         \/ \E p \in Procs : Install(p)
         \/ \E k \in menu.kernels, r \in Roots : Boot(k, r)
  BY DEF Next, Command, ListSnapshots, Detect, Validate, PlanRollback, Switch, Abort,
         Machine, CreateSnapshot, DeleteSnapshot, ChangeBootFile, BreakOrRepair,
         EditCmdline, vars

(* And what it installs has its command line and its kernels. *)
LEMMA Installed ==
  ASSUME TypeOK, KnowsInv, NEW p \in Procs, Install(p)
  PROVE  /\ menu'.main = KernelCmdline /\ menu'.by = proc[p].command
         /\ menu'.kernels \subseteq proc[p].kernels
         /\ BaseVisible => BaseInstallation \in menu'.kernels
         /\ proc[p].command # "rollback" =>
              menu'.main = booted /\ \A k \in menu'.kernels : Complete(k)
         /\ booted' = booted
  <1>1. /\ menu'.main = proc[p].cmdline /\ menu'.by = proc[p].command
        /\ menu'.kernels = SelectKernels(proc[p].kernels)
    BY DEF Install, Preview
  <1>2. Knows(p) /\ proc[p].step = "install" /\ booted' = booted
    BY DEF KnowsInv, Install
  <1>. QED
    BY <1>1, <1>2 DEF Knows, Detected, SelectKernels, BaseVisible, BaseInstallation

LEMMA MenuStep == TypeOK /\ KnowsInv /\ MenuInv /\ [Next]_vars => MenuInv'
  <1> SUFFICES ASSUME TypeOK, KnowsInv, MenuInv, [Next]_vars PROVE MenuInv'
    OBVIOUS
  <1>1. CASE menu' = menu /\ booted' = booted
    BY <1>1 DEF MenuInv, EntryRoots, BaseVisible
  <1>2. ASSUME NEW p \in Procs, Install(p) PROVE MenuInv'
    <2>1. menu'.main \in {Main, booted'}
      BY <1>2, Installed, CmdlineIs
    <2>. QED  BY <1>2, <2>1, Installed DEF MenuInv, EntryRoots, BaseVisible
  <1>3. ASSUME NEW k, NEW r, Boot(k, r) PROVE MenuInv'
    BY <1>3 DEF Boot, Boots, MenuInv, EntryRoots, BaseVisible
  <1>. QED  BY <1>1, <1>2, <1>3, MenuMoves

Inv == TypeOK /\ ProcOK /\ KnowsInv /\ MenuInv

LEMMA InvInit == Init => Inv
  BY TypeInit, KnowsInit, MenuInit DEF Inv

LEMMA InvStep == Inv /\ [Next]_vars => Inv'
  BY TypeStep, KnowsStep, MenuStep DEF Inv

LEMMA InvAlways == Spec => []Inv
  BY InvInit, InvStep, PTL DEF Spec

(* ValidationService before `refresh` installs: every kernel in its menu   *)
(* is a unified image or has its initramfs.                                *)
THEOREM RefreshedMenuComplete == Spec => []MenuComplete
  <1>1. Inv /\ MenuComplete /\ [Next]_vars => MenuComplete'
    <2> SUFFICES ASSUME Inv, MenuComplete, [Next]_vars PROVE MenuComplete'
      OBVIOUS
    <2>1. CASE menu' = menu
      BY <2>1 DEF MenuComplete
    <2>2. ASSUME NEW p \in Procs, Install(p) PROVE MenuComplete'
      BY <2>2, Installed DEF Inv, MenuComplete, Complete
    <2>. QED  BY <2>1, <2>2, MenuMoves DEF Boot
  <1>. QED  BY <1>1, MenuInit, InvAlways, PTL DEF Spec

(* Whatever menus `refresh` and `rollback` install, whatever snapshots go  *)
(* and whatever pacman writes: the machine has an entry that boots.        *)
THEOREM AlwaysBootable == Spec => []StillBoots
  <1>1. ASSUME Inv PROVE StillBoots
    <2> SUFFICES ASSUME BaseVisible
                 PROVE  \E k \in menu.kernels, r \in EntryRoots : Boots(k, r)
      BY DEF StillBoots, BaseVisible
    <2>1. BaseInstallation \in menu.kernels
      BY <1>1 DEF Inv, MenuInv
    <2>2. PICK r \in EntryRoots : r \in {Main, booted}
      BY <1>1 DEF Inv, MenuInv
    <2>3. r \in Existing
      BY <1>1, <2>2 DEF Inv, TypeOK
    <2>4. {BaseInstallation.image} \cup BaseInstallation.initrds \subseteq bootFiles
      BY <1>1 DEF Inv, KnowsInv, BaseFiles, BaseInstallation
    <2>5. BaseInstallation.initrds # {}
      BY DEF BaseInstallation
    <2>6. Boots(BaseInstallation, r)
      BY <2>1, <2>3, <2>4, <2>5 DEF Boots
    <2>. QED  BY <2>1, <2>6
  <1>. QED  BY <1>1, InvAlways, PTL

(* RollbackPlanner::build: a machine that runs a snapshot which carries    *)
(* the file can be rolled back to it.                                      *)
THEOREM RollbackAlwaysOffered == Spec => []RollbackOffered
  <1>1. ASSUME Inv, NEW p \in Procs, proc[p].step = "plan", booted # Main,
               cmdlineFile[booted] = Main
        PROVE  Eligible(p)
    <2>1. Knows(p) /\ TypeOK
      BY <1>1 DEF Inv, KnowsInv
    <2>2. proc[p].cmdline = Main /\ booted \in proc[p].available
      BY <1>1, <2>1, CmdlineIs DEF Knows, Detected
    <2>3. {Main, booted} \subseteq Existing
      BY <2>1 DEF TypeOK
    <2>. QED  BY <1>1, <2>2, <2>3 DEF Eligible
  <1>2. Inv => RollbackOffered
    BY <1>1 DEF RollbackOffered
  <1>. QED  BY <1>2, InvAlways, PTL

(* KernelCmdline and what `apply` and `rollback` install with it: on a root *)
(* that carries the file, the normal entries boot the main root.           *)
THEOREM OverrideHolds == Spec => OverrideIsAuthoritative
  <1>1. ASSUME Inv, [Next]_vars, menu' # menu, cmdlineFile[booted] = Main
        PROVE  menu'.main = Main
    <2>1. PICK p \in Procs : Install(p)
      BY <1>1, MenuMoves DEF Boot
    <2>2. menu'.main = KernelCmdline
      BY <1>1, <2>1, Installed DEF Inv
    <2>. QED  BY <1>1, <2>2, RootsAre DEF KernelCmdline
  <1>2. Inv /\ [Next]_vars
          => [menu' # menu /\ cmdlineFile[booted] = Main => menu'.main = Main]_vars
    BY <1>1
  <1>. QED  BY <1>2, InvAlways, PTL DEF OverrideIsAuthoritative, Spec

(* Validation on a machine that runs such a snapshot: only a rollback      *)
(* changes the menu.                                                       *)
THEOREM OnlyRollbackOnSnapshot == Spec => SnapshotKeepsMenu
  <1>1. ASSUME Inv, [Next]_vars, menu' # menu, booted # Main, cmdlineFile[booted] = Main
        PROVE  menu'.by = "rollback"
    <2>1. PICK p \in Procs : Install(p)
      BY <1>1, MenuMoves DEF Boot
    <2>2. /\ menu'.main = KernelCmdline /\ menu'.by = proc[p].command
          /\ proc[p].command # "rollback" => menu'.main = booted
      BY <1>1, <2>1, Installed DEF Inv
    <2>3. KernelCmdline = Main
      BY <1>1, CmdlineIs DEF Inv
    <2>. QED  BY <1>1, <2>2, <2>3
  <1>2. Inv /\ [Next]_vars => [menu' # menu /\ booted # Main /\ cmdlineFile[booted] = Main
          => menu'.by = "rollback"]_vars
    BY <1>1
  <1>. QED  BY <1>2, InvAlways, PTL DEF SnapshotKeepsMenu, Spec

=============================================================================
