------------------------------ MODULE BootCycle ------------------------------
(***************************************************************************)
(* The menu, the root it was generated from and the root it boots.         *)
(*                                                                         *)
(* The machine boots an entry of the installed menu: the main root or a    *)
(* snapshot of it.  A command looks at the machine it runs on (snapshots,  *)
(* kernels in /boot, kernel command line), validates what it saw, and      *)
(* installs a menu whose main entries carry the command line it saw and    *)
(* whose snapshot entries carry the same line with another subvolume.  The *)
(* command line comes from /etc/kernel/cmdline, which each root carries,   *)
(* or is generated from the root that is mounted.                          *)
(*                                                                         *)
(* Installing a menu and replacing the main root are one step each here:   *)
(* ApplyService, SecureBootApply and BtrfsRollback show what they amount   *)
(* to, and RefreshAutomation when a refresh runs.                          *)
(***************************************************************************)
EXTENDS Integers, FiniteSets, FiniteSetsExt

CONSTANTS
  Procs,        \* commands that may run at once
  Commands,     \* the kinds that run: "refresh" (`apply` takes the same steps), "rollback"
  Kernels,      \* package bases
  Base,         \* a kernel whose files are always complete
  Included, Excluded,  \* kernels.include, kernels.exclude
  ReadWrite,    \* numbers of the snapshots that are read-write
  IncludeReadWrite,    \* snapper.include_read_write
  MaxMenu,      \* snapper.max_snapshots, 0 for no limit
  MaxNumber     \* bound: the highest snapshot number

Numbers == 1..MaxNumber   \* a snapshot is named by its number
Main == 0                 \* the main root, normally @
Roots == {Main} \cup Numbers

(* What /etc/kernel/cmdline of a root says: the subvolume in rootflags=, or *)
(* nothing because it is missing or empty.                                  *)
NoFile == -1
Absent == -2   \* there is no such root

BootFiles == Kernels \X {"vmlinuz", "initramfs", "uki"}

(* KernelInstallation: what /boot holds for a kernel. *)
Installations == [base: Kernels, image: BootFiles, initrds: SUBSET BootFiles, uki: BOOLEAN]

ASSUME BootAssumption ==
  /\ "refresh" \in Commands        \* the command that the first menu is from
  /\ Base \in Kernels /\ Included \subseteq Kernels /\ Excluded \subseteq Kernels
  /\ Included \cap Excluded = {}   \* validate_config refuses anything else
  /\ MaxMenu \in Nat /\ MaxNumber \in Nat
  /\ ReadWrite \subseteq Numbers
  /\ IncludeReadWrite \in BOOLEAN

VARIABLES
  cmdlineFile,  \* cmdlineFile[r]: what /etc/kernel/cmdline says in root r, or Absent
  bootFiles,    \* the kernel files in /boot
  ready,        \* the rest of what validation looks at is in order
  booted,       \* the root the machine runs on
  menu,         \* the installed menu, and which command installed it
  proc          \* proc[p]: command p and what it has seen

vars == <<cmdlineFile, bootFiles, ready, booted, menu, proc>>

Existing == {r \in Roots : cmdlineFile[r] # Absent}
Snapshots == Existing \ {Main}

Idle == [step |-> "idle", command |-> "none", available |-> {}, kernels |-> {}, cmdline |-> Main]

-----------------------------------------------------------------------------
(* Discovery. *)

(* A kernel is an image vmlinuz-<base> with its initramfs, or else a unified *)
(* image of that name beside it.                                             *)
KernelDiscovery(files) ==
  LET installation(k) ==
        CASE <<k, "initramfs">> \in files ->
               [base |-> k, image |-> <<k, "vmlinuz">>,
                initrds |-> {<<k, "initramfs">>}, uki |-> FALSE]
          [] <<k, "initramfs">> \notin files /\ <<k, "uki">> \in files ->
               [base |-> k, image |-> <<k, "uki">>, initrds |-> {}, uki |-> TRUE]
          [] OTHER ->
               [base |-> k, image |-> <<k, "vmlinuz">>, initrds |-> {}, uki |-> FALSE]
  IN  {installation(k) : k \in {b \in Kernels : <<b, "vmlinuz">> \in files}}

(* Faulty: The override is not read. *)
KernelCmdline_Generated == booted

(* The override of the root that is mounted, or a line generated from it. *)
KernelCmdline == IF cmdlineFile[booted] = NoFile THEN booted ELSE cmdlineFile[booted]

(* select_menu_snapshots: the most recent of those that may be shown. *)
SelectMenuSnapshots(available) ==
  LET shown == {n \in available : n \notin ReadWrite \/ IncludeReadWrite}
  IN  {n \in shown : MaxMenu = 0 \/ Cardinality({m \in shown : m > n}) < MaxMenu}

(* select_kernels, without the order: it is a matter of layout. *)
SelectKernels(kernels) ==
  {k \in kernels : (Included = {} \/ k.base \in Included) /\ k.base \notin Excluded}

(* PreviewService::build. *)
Preview(p) ==
  [kernels   |-> SelectKernels(proc[p].kernels),
   main      |-> proc[p].cmdline,
   snapshots |-> SelectMenuSnapshots(proc[p].available),
   by        |-> proc[p].command]

(* Faulty: No initramfs is asked for. *)
KernelsValid_AnyInitrd(p) ==
  /\ proc[p].kernels # {}
  /\ \A k \in proc[p].kernels : {k.image} \cup k.initrds \subseteq bootFiles

(* "kernel.discovery", ".image", ".initrd" and ".initramfs": the files are  *)
(* looked at again, the list of kernels is the one that was discovered.     *)
KernelsValid(p) ==
  /\ proc[p].kernels # {}
  /\ \A k \in proc[p].kernels :
       /\ {k.image} \cup k.initrds \subseteq bootFiles
       /\ k.uki \/ <<k.base, "initramfs">> \in k.initrds

(* Faulty: rootflags= is not compared with the root that is mounted. *)
RootflagsValid_AnyRoot(p) == proc[p].cmdline \in Roots

(* "kernel.rootflags". *)
RootflagsValid(p) == proc[p].cmdline = booted

(* "snapshot.path". *)
SnapshotsValid(p) == SelectMenuSnapshots(proc[p].available) \subseteq Snapshots

(* "kernel.root" and "kernel.encryption", and with them the reports on the  *)
(* root file system, the boot mount, limine.conf, Secure Boot and the       *)
(* configuration of Snapper.                                                *)
RestValid == ready

(* No report of ValidationService is an error. *)
Valid(p) == KernelsValid(p) /\ RootflagsValid(p) /\ SnapshotsValid(p) /\ RestValid

(* Faulty: The planner is given the snapshots of the menu. *)
Eligible_InMenu(p) ==
  /\ proc[p].cmdline # booted
  /\ booted # Main
  /\ booted \in SelectMenuSnapshots(proc[p].available)
  /\ {proc[p].cmdline, booted} \subseteq Existing

(* RollbackPlanner::build: the target is the root that the command line     *)
(* names; `available` is every snapshot that Snapper lists.                 *)
Eligible(p) ==
  /\ proc[p].cmdline # booted
  /\ booted # Main
  /\ booted \in proc[p].available
  /\ {proc[p].cmdline, booted} \subseteq Existing

-----------------------------------------------------------------------------
Init ==
  /\ cmdlineFile \in [Roots -> {Main, NoFile, Absent}]
  /\ \A r \in Roots : cmdlineFile[r] = Absent <=> r # Main
  /\ bootFiles = {Base} \X {"vmlinuz", "initramfs"}
  /\ ready = TRUE
  /\ booted = Main
  /\ menu = [kernels |-> KernelDiscovery(bootFiles), main |-> Main, snapshots |-> {},
             by |-> "refresh"]
  /\ proc = [p \in Procs |-> Idle]

(* SnapperClient::list comes first. *)
ListSnapshots(p, command) ==
  /\ proc[p].step = "idle"
  /\ proc' = [proc EXCEPT ![p] =
                [Idle EXCEPT !.step = "detect", !.command = command, !.available = Snapshots]]
  /\ UNCHANGED <<cmdlineFile, bootFiles, ready, booted, menu>>

(* SystemDetector::detect. *)
Detect(p) ==
  /\ proc[p].step = "detect"
  /\ proc' = [proc EXCEPT
                ![p].step = IF proc[p].command = "rollback" THEN "plan" ELSE "validate",
                ![p].kernels = KernelDiscovery(bootFiles),
                ![p].cmdline = KernelCmdline]
  /\ UNCHANGED <<cmdlineFile, bootFiles, ready, booted, menu>>

(* Generation is aborted when validation finds an error. *)
Validate(p) ==
  /\ proc[p].step = "validate"
  /\ proc' = [proc EXCEPT ![p] = IF Valid(p) THEN [@ EXCEPT !.step = "install"] ELSE Idle]
  /\ UNCHANGED <<cmdlineFile, bootFiles, ready, booted, menu>>

PlanRollback(p) ==
  /\ proc[p].step = "plan"
  /\ proc' = [proc EXCEPT ![p] = IF Eligible(p) THEN [@ EXCEPT !.step = "switch"] ELSE Idle]
  /\ UNCHANGED <<cmdlineFile, bootFiles, ready, booted, menu>>

(* Faulty: The snapshot itself is moved into place. *)
Switch_Moves(p) ==
  /\ proc[p].step = "switch"
  /\ cmdlineFile' = [cmdlineFile EXCEPT
                       ![proc[p].cmdline] = cmdlineFile[booted], ![booted] = Absent]
  /\ proc' = [proc EXCEPT ![p].step = "install"]
  /\ UNCHANGED <<bootFiles, ready, booted, menu>>

(* Faulty: The old root is moved away, and nothing takes its place. *)
Switch_Unfinished(p) ==
  /\ proc[p].step = "switch"
  /\ cmdlineFile' = [cmdlineFile EXCEPT ![proc[p].cmdline] = Absent]
  /\ proc' = [proc EXCEPT ![p].step = "install"]
  /\ UNCHANGED <<bootFiles, ready, booted, menu>>

(* The root that the command line names becomes a copy of the running one. *)
Switch(p) ==
  /\ proc[p].step = "switch"
  /\ cmdlineFile' = [cmdlineFile EXCEPT ![proc[p].cmdline] = cmdlineFile[booted]]
  /\ proc' = [proc EXCEPT ![p].step = "install"]
  /\ UNCHANGED <<bootFiles, ready, booted, menu>>

(* Render, plan and apply.  A rollback comes here without validation. *)
Install(p) ==
  /\ proc[p].step = "install"
  /\ menu' = Preview(p)
  /\ proc' = [proc EXCEPT ![p] = Idle]
  /\ UNCHANGED <<cmdlineFile, bootFiles, ready, booted>>

(* An exception or a signal: the command ends where it is. *)
Abort(p) ==
  /\ proc[p].step # "idle"
  /\ proc' = [proc EXCEPT ![p] = Idle]
  /\ UNCHANGED <<cmdlineFile, bootFiles, ready, booted, menu>>

-----------------------------------------------------------------------------
(* The roots that the entries of the menu name: a snapshot entry has the    *)
(* command line of the main entries with its own subvolume set in it.       *)
EntryRoots == {menu.main} \cup menu.snapshots

(* An entry boots when its files and its root are there. *)
Boots(k, r) ==
  /\ k \in menu.kernels
  /\ r \in EntryRoots
  /\ {k.image} \cup k.initrds \subseteq bootFiles
  /\ k.uki \/ k.initrds # {}
  /\ r \in Existing

(* The machine. *)
Boot(k, r) ==
  /\ Boots(k, r)
  /\ booted' = r
  /\ proc' = [p \in Procs |-> Idle]
  /\ UNCHANGED <<cmdlineFile, bootFiles, ready, menu>>

(* Snapper takes a snapshot of the running root, under the next number. *)
CreateSnapshot ==
  LET number == Max(Snapshots \cup {0}) + 1 IN
  /\ number \in Numbers
  /\ cmdlineFile' = [cmdlineFile EXCEPT ![number] = cmdlineFile[booted]]
  /\ UNCHANGED <<bootFiles, ready, booted, menu, proc>>

DeleteSnapshot(n) ==
  /\ n \in Snapshots \ {booted}
  /\ cmdlineFile' = [cmdlineFile EXCEPT ![n] = Absent]
  /\ UNCHANGED <<bootFiles, ready, booted, menu, proc>>

(* pacman and mkinitcpio write and remove the files of a kernel one by one. *)
ChangeBootFile(file) ==
  /\ file[1] # Base
  /\ bootFiles' = (bootFiles \ {file}) \cup ({file} \ bootFiles)
  /\ UNCHANGED <<cmdlineFile, ready, booted, menu, proc>>

BreakOrRepair ==
  /\ ready' = ~ready
  /\ UNCHANGED <<cmdlineFile, bootFiles, booted, menu, proc>>

(* The administrator writes or removes the file of the main root; nobody    *)
(* edits a snapshot.                                                        *)
EditCmdline ==
  /\ booted = Main
  /\ cmdlineFile' = [cmdlineFile EXCEPT ![booted] = IF @ = NoFile THEN Main ELSE NoFile]
  /\ UNCHANGED <<bootFiles, ready, booted, menu, proc>>

-----------------------------------------------------------------------------
Command(p) ==
  \/ \E command \in Commands : ListSnapshots(p, command)
  \/ Detect(p) \/ Validate(p) \/ PlanRollback(p) \/ Switch(p) \/ Install(p) \/ Abort(p)

Machine ==
  \/ \E k \in menu.kernels, r \in Roots : Boot(k, r)
  \/ CreateSnapshot
  \/ \E n \in Numbers : DeleteSnapshot(n)
  \/ \E file \in BootFiles : ChangeBootFile(file)
  \/ BreakOrRepair
  \/ EditCmdline

Next == (\E p \in Procs : Command(p)) \/ Machine

Spec == Init /\ [][Next]_vars

-----------------------------------------------------------------------------
(* Types; the running root is always there, and so is the main one. *)
TypeOK ==
  /\ cmdlineFile \in [Roots -> {Main, NoFile, Absent}]
  /\ {booted, Main} \subseteq Existing
  /\ bootFiles \subseteq BootFiles
  /\ menu \in [kernels: SUBSET Installations, main: Roots, snapshots: SUBSET Numbers,
                by: Commands]
  /\ \A p \in Procs :
       /\ proc[p].step \in {"idle", "detect", "validate", "plan", "switch", "install"}
       /\ proc[p].available \subseteq Numbers
       /\ proc[p].kernels \subseteq Installations
       /\ proc[p].cmdline \in Roots

(* The normal entries boot the main root, wherever the menu was generated:  *)
(* booting a snapshot is temporary.                                         *)
MainEntryBootsMain == menu.main = Main

(* A non-empty kernel command line file stays authoritative: a root that    *)
(* carries one installs no menu whose normal entries boot another root.     *)
OverrideIsAuthoritative ==
  [][menu' # menu /\ cmdlineFile[booted] = Main => menu'.main = Main]_vars

(* Every kernel in a menu that `refresh` installed is a unified image or    *)
(* has its initramfs, whenever pacman was writing them.                     *)
MenuComplete ==
  menu.by = "refresh" => \A k \in menu.kernels : k.uki \/ k.initrds # {}

(* A machine that has one complete kernel, which the settings do not hide,  *)
(* can always boot an entry of its menu: also the one that a rollback       *)
(* installed without validation, also a menu that went stale as snapshots   *)
(* were deleted or its main entry was written on a booted snapshot.         *)
StillBoots ==
  (Included = {} \/ Base \in Included) /\ Base \notin Excluded
    => \E k \in menu.kernels, r \in EntryRoots : Boots(k, r)

(* A machine that runs a snapshot which carries the file can be rolled back *)
(* to it, whatever snapshots came after it and however many of them the     *)
(* menu shows.                                                              *)
RollbackOffered ==
  \A p \in Procs :
    proc[p].step = "plan" /\ booted # Main /\ cmdlineFile[booted] = Main => Eligible(p)

(* On such a machine only a rollback changes the menu: the automation that  *)
(* fires there finds a command line that is not the one it runs with.       *)
(* `restore`, which reinstalls an earlier menu, is not in this model.       *)
SnapshotKeepsMenu ==
  [][menu' # menu /\ booted # Main /\ cmdlineFile[booted] = Main
       => menu'.by = "rollback"]_vars

=============================================================================
