------------------------------ MODULE Generation ------------------------------
(***************************************************************************)
(* From the machine to the menu: what `validate`, `status`, `preview`,     *)
(* `plan`, `diff`, `dry-run`, `apply` and `refresh` have in common.        *)
(*                                                                         *)
(* A command loads the configuration, lists the snapshots, looks at the    *)
(* machine, validates what it saw, generates the menu and compares it with *)
(* the installed one; it ends with an exit code, and `apply` installs the  *)
(* menu.  The machine may change between any two of these steps.  The      *)
(* decisions on the way are those of the modules that this one extends;    *)
(* the installation is one step here, and ApplyService what it amounts to. *)
(***************************************************************************)
EXTENDS ValidationService, ConfigLoader, SnapperClient

CONSTANTS
  Machines,    \* the machines that are considered: records, see SystemDetector
  Commands,    \* the commands that run
  LargeMenu,   \* the number of snapshots above which status degrades: 100 in the code
  MaxChanges,  \* bound: how often the machine changes
  MaxRuns      \* bound: how many commands start

AllCommands == {"validate", "status", "preview", "plan", "diff", "dry-run", "apply"}

ASSUME GenerationAssumption ==
  /\ Commands \subseteq AllCommands
  /\ LargeMenu \in Nat /\ MaxChanges \in Nat /\ MaxRuns \in Nat

(* Identifiers of file systems and partitions, and names of devices. *)
Words == STRING \ {Space, Single, Double, Backslash, ":"}

(* The parts of a machine that are text, the tools of Secure Boot, and what *)
(* is finite.                                                               *)
IsMachine(m) ==
  /\ IsFiniteSet(DOMAIN m.files) /\ DOMAIN m.files \subseteq [dir : STRING, name : Seq(STRING)]
  /\ IsFiniteSet(DOMAIN m.modules)
  /\ m.config \in Seq(ConfigLines)
  /\ m.cmdline \in Seq(STRING) /\ m.sdEncrypt \in BOOLEAN
  /\ m.root \in [source : STRING \X (Words \ {NoText}), fstype : STRING, subvolume : Seq(STRING),
                 blockType : STRING, uuid : Words, luksUuid : Words, partUuid : Words,
                 backing : Seq(STRING), backingFound : BOOLEAN]
  /\ m.root.luksUuid # NoText => m.root.luksUuid \in Uuids
  /\ m.secureBoot \in [enforced : BOOLEAN, sbctl : BOOLEAN, limine : BOOLEAN,
                       sbattach : BOOLEAN, efi : STRING, hashing : BOOLEAN]
  /\ m.snapshots \in Seq([number : DOMAIN NumberWords, description : Seq(STRING),
                          readOnly : BOOLEAN])
  /\ \A i, j \in DOMAIN m.snapshots : m.snapshots[i].number = m.snapshots[j].number => i = j

ASSUME MachinesAssumption == \A m \in Machines : IsMachine(m)

(* Of two packages, one sorts before the other. *)
ASSUME NamesAssumption ==
  \A m \in Machines : \A f, g \in {h \in DOMAIN m.files : IsImage(h)} :
    \/ Tail(f.name) = Tail(g.name)
    \/ <<Tail(f.name), Tail(g.name)>> \in NameOrder
    \/ <<Tail(g.name), Tail(f.name)>> \in NameOrder

VARIABLES
  machine,     \* the machine
  installed,   \* the menu in limine.conf
  run,         \* the command at hand and what it knows
  answer,      \* the last command that ended, and its exit code
  steady,      \* neither machine nor menu changed since the command began
  said,        \* what was last said of this machine and this menu
  changes, runs

vars == <<machine, installed, run, answer, steady, said, changes, runs>>

NoMenu == [is |-> "missing"]
OtherMenu == [is |-> "other"]      \* a file that someone else wrote

Idle == [step |-> "idle"]

NoAnswer == [command |-> "none", code |-> 0]

-----------------------------------------------------------------------------
(* select_menu_snapshots: the most recent that may be shown. *)
SelectMenuSnapshots(snapshots, config) ==
  LET limit == config[<<"snapper", "max_snapshots">>]
      all == ToSet(snapshots)
      shown == Filtered(SortBy(snapshots, {p \in all \X all : p[1].number > p[2].number}),
                        {s \in all : s.readOnly \/ config[<<"snapper", "include_read_write">>]})
  IN  IF limit = 0 \/ limit >= Len(shown) THEN shown ELSE SubSeq(shown, 1, limit)

(* select_kernels: `order` first, then the one that runs, then by name. *)
SelectKernels(kernels, config) ==
  LET names(key) == ToSet(config[<<"kernels", key>>])
      order == config[<<"kernels", "order">>]
      name(k) == k.base[1]   \* the settings name a package base by one word
      ranked(k) == Len(k.base) = 1 /\ name(k) \in ToSet(order)
      rank(k) == SelectInSeq(order, LAMBDA word : word = name(k))
      all == ToSet(kernels)
      shown == {k \in all :
                  /\ names("include") = {} \/ (Len(k.base) = 1 /\ name(k) \in names("include"))
                  /\ ~(Len(k.base) = 1 /\ name(k) \in names("exclude"))}
      precedes(k, l) ==
        CASE ranked(k) \/ ranked(l) -> ranked(k) /\ (ranked(l) => rank(k) < rank(l))
          [] ~ranked(k) /\ ~ranked(l) /\ k.running # l.running -> k.running
          [] OTHER -> NamePrecedes(k.base, l.base)
  IN  SortBy(Filtered(kernels, shown), {p \in all \X all : precedes(p[1], p[2])})

(* limine_path: the file, and its hash if one is known. *)
LiminePath(f, hash, system) ==
  [file |-> f,
   hash |-> IF hash /\ system.secureBoot.enforced /\ f \in DOMAIN system.hashes
            THEN system.hashes[f] ELSE NoHash]

(* Faulty: The other arguments of the line are forgotten. *)
SnapshotCmdline_OnlyFlags(line, subvolume, number) ==
  SetValue(<<>>, "rootflags", <<"subvol", "=">> \o subvolume \o <<"/", NumberWords[number]>>)

(* snapshot_cmdline; the path ends in /snapshot for every snapshot. *)
SnapshotCmdline(line, subvolume, number) ==
  SetValue(line, "rootflags", <<"subvol", "=">> \o subvolume \o <<"/", NumberWords[number]>>)

(* The boot specification of an entry. *)
Entry(kernel, system, line) ==
  [protocol |-> IF kernel.uki THEN "efi" ELSE "linux",
   release  |-> kernel.release,
   path     |-> LiminePath(kernel.image, ~kernel.uki, system),
   modules  |-> [i \in DOMAIN kernel.initrds |-> LiminePath(kernel.initrds[i], TRUE, system)],
   cmdline  |-> RenderArguments(line)]

(* PreviewService::build; titles and the options of the menu are left to    *)
(* the configuration they come from.                                        *)
Preview(system, snapshots, config) ==
  LET kernels == SelectKernels(system.kernels, config)
      shown == SelectMenuSnapshots(snapshots, config)
      entries(line) == [i \in DOMAIN kernels |-> Entry(kernels[i], system, line)]
  IN  [is        |-> "generated",
       options   |-> <<config[<<"theme", "name">>],
                       [key \in {k \in DOMAIN config : k[1] = "limine"} |-> config[key]]>>,
       main      |-> entries(system.cmdline),
       snapshots |->
         [i \in DOMAIN shown |->
            [number  |-> shown[i].number,
             entries |-> entries(SnapshotCmdline(system.cmdline,
                                                 config[<<"snapper", "snapshots_subvolume">>],
                                                 shown[i].number))]]]

(* StatusService::build: what is wrong with a valid machine. *)
Degraded(system, snapshots, config) ==
  \/ system.encrypted /\ (system.root.backing = NoPath \/ system.root.luksUuid = NoText)
  \/ Len(SelectMenuSnapshots(snapshots, config)) > LargeMenu

(* The exit codes of main. *)
ExitCode(command, errors, degraded, pending) ==
  CASE errors # {} -> 1
    [] errors = {} /\ command = "status" -> IF degraded THEN 2 ELSE IF pending THEN 3 ELSE 0
    [] errors = {} /\ command \in {"plan", "diff", "dry-run"} -> IF pending THEN 3 ELSE 0
    [] OTHER -> 0

-----------------------------------------------------------------------------
Init ==
  /\ machine \in Machines
  /\ installed = OtherMenu
  /\ run = Idle
  /\ answer = NoAnswer
  /\ steady = FALSE
  /\ said = "nothing"
  /\ changes = 0
  /\ runs = 0

Fail ==
  /\ run' = Idle
  /\ answer' = [command |-> run.command, code |-> 1]

(* What the configuration files of the machines load as. *)
Loaded == [file \in {m.config : m \in Machines} |-> Load(file)]

(* The configuration of the machine is loaded. *)
LoadConfig(command) ==
  LET loaded == Loaded[machine.config] IN
  /\ run.step = "idle"
  /\ runs < MaxRuns
  /\ runs' = runs + 1
  /\ steady' = TRUE
  /\ IF loaded.failed
     THEN run' = Idle /\ answer' = [command |-> command, code |-> 1]
     ELSE /\ run' = [step |-> "list", command |-> command, config |-> loaded.config]
          /\ answer' = NoAnswer
  /\ UNCHANGED <<machine, installed, said, changes>>

ListSnapshots ==
  LET result == List(SnapperPrints(machine.snapshots)) IN
  /\ run.step = "list"
  /\ IF result.failed THEN Fail
     ELSE /\ run' = [step |-> "detect", command |-> run.command, config |-> run.config,
                     snapshots |-> result.list]
          /\ UNCHANGED answer
  /\ UNCHANGED <<machine, installed, steady, said, changes, runs>>

(* The directories are read in any order. *)
Detect ==
  /\ run.step = "detect"
  /\ \E system \in {DetectSystem(machine, listing, modules) :
                      listing \in SetToSeqs(DOMAIN machine.files),
                      modules \in SetToSeqs(DOMAIN machine.modules)} :
       IF system.failed THEN Fail
       ELSE /\ run' = [step |-> "validate", command |-> run.command, config |-> run.config,
                       snapshots |-> run.snapshots, system |-> system,
                       snapperOnRoot |-> machine.snapperOnRoot]
            /\ UNCHANGED answer
  /\ UNCHANGED <<machine, installed, steady, said, changes, runs>>

ValidateSystem ==
  /\ run.step = "validate"
  /\ run' = [step |-> "conclude", command |-> run.command, config |-> run.config,
             snapshots |-> run.snapshots, system |-> run.system,
             errors |-> Validate(run.system, run.snapperOnRoot,
                                 SelectMenuSnapshots(run.snapshots, run.config),
                                 run.config[<<"secure_boot", "protect_config">>], machine,
                                 installed # NoMenu)]
  /\ UNCHANGED <<machine, installed, answer, steady, said, changes, runs>>

(* The menu is generated, compared and, by `apply`, installed. *)
Conclude ==
  LET menu == Preview(run.system, run.snapshots, run.config)
      pending == menu # installed
      installs == run.command = "apply" /\ run.errors = {} /\ pending
  IN
  /\ run.step = "conclude"
  /\ run' = Idle
  /\ answer' = [command |-> run.command,
                code |-> ExitCode(run.command, run.errors,
                                  Degraded(run.system, run.snapshots, run.config), pending)]
  /\ installed' = IF installs THEN menu ELSE installed
  /\ said' = CASE ~steady -> "nothing"
               [] steady /\ run.errors # {} -> "invalid"
               [] steady /\ run.errors = {} /\ pending /\ ~installs -> "pending"
               [] OTHER -> "current"
  /\ UNCHANGED <<machine, steady, changes, runs>>

(* The machine changes in one respect. *)
Change ==
  /\ changes < MaxChanges
  /\ machine' \in {other \in Machines :
                   Cardinality({part \in DOMAIN machine : other[part] # machine[part]}) = 1}
  /\ steady' = FALSE
  /\ said' = "nothing"
  /\ changes' = changes + 1
  /\ UNCHANGED <<installed, run, answer, runs>>

(* limine.conf is removed. *)
RemoveMenu ==
  /\ changes < MaxChanges
  /\ installed' = NoMenu
  /\ steady' = FALSE
  /\ said' = "nothing"
  /\ changes' = changes + 1
  /\ UNCHANGED <<machine, run, answer, runs>>

Next ==
  \/ \E command \in Commands : LoadConfig(command)
  \/ ListSnapshots \/ Detect \/ ValidateSystem \/ Conclude
  \/ Change \/ RemoveMenu

Spec == Init /\ [][Next]_vars

-----------------------------------------------------------------------------
(* The firmware, Limine and the initramfs of a machine, as the entries meet *)
(* them.                                                                    *)

(* The names under which the initramfs opens the container of the root. *)
Opened(m, arguments) ==
  {CryptdeviceMapper(v) : v \in {w \in Values(arguments, "cryptdevice") :
     IsCryptdevice(w) /\ IsBacking(CryptdeviceSource(w), m.root)}}
  \cup {Beyond(v, "=") : v \in {w \in Values(arguments, "rd.luks.name") :
     UpTo(w, "=") = <<m.root.luksUuid>> /\ Beyond(w, "=") # <<>>}}

(* The root device is found: the container of an encrypted root is opened,  *)
(* and root= names what is in it.                                           *)
RootFound(m, arguments) ==
  LET opened == Opened(m, arguments)
      root == InForce(arguments, "root")
  IN  IF m.root.luksUuid = NoText
      THEN root \in {m.root.source, <<"UUID", "=", m.root.uuid>>}
      ELSE /\ opened # {}
           /\ \/ root = <<"UUID", "=", m.root.uuid>>
              \/ \E name \in opened : root = <<MapperDir>> \o name
              \/ m.root.blockType = "lvm" /\ root = m.root.source

(* A file is there, and Limine accepts it. *)
Accepted(m, path) ==
  /\ path.file \in DOMAIN m.files
  /\ path.hash # NoHash => path.hash = m.files[path.file]

EntryBoots(m, entry, subvolume) ==
  LET arguments == KernelReads(entry.cmdline) IN
  /\ Accepted(m, entry.path)
  /\ \A i \in DOMAIN entry.modules : Accepted(m, entry.modules[i])
  /\ entry.protocol = "linux" =>
       /\ \E i \in DOMAIN entry.modules : entry.modules[i].file.name[1] = "initramfs-"
       /\ m.secureBoot.enforced =>
            \A path \in {entry.path} \cup {entry.modules[i] : i \in DOMAIN entry.modules} :
              path.hash # NoHash
  /\ RootFound(m, arguments)
  /\ InForce(arguments, "rootflags") = <<"subvol", "=">> \o subvolume

(* Where the snapshots of the machine really are. *)
RealSnapshots == Default(<<"snapper", "snapshots_subvolume">>)

-----------------------------------------------------------------------------
(* What is asked of the machine beyond what validation looks at. *)

(* The line of the machine, from its file or generated. *)
Line(m) == ParseText(IF m.cmdline = <<>> THEN GenerateCmdline(m) ELSE m.cmdline)

(* Validation looks at the first root= and rootflags=, the kernel obeys the *)
(* last; the menu replaces the first rootflags, one without a value too.    *)
NothingRepeated(line) ==
  \A key \in {"root", "rootflags"} :
    \A i, j \in DOMAIN line : IsKey(line[i], key) /\ IsKey(line[j], key) => i = j

(* The kernel knows no escapes and no single quotes. *)
NothingEscaped(line) ==
  \A i \in DOMAIN line : ToSet(line[i]) \cap {Single, Double, Backslash} = {}

(* Every encryption option opens the container of the root under the name   *)
(* it has now; validation is content with the name or with the container.   *)
MappingMatches(m, line) ==
  /\ \A v \in Values(line, "cryptdevice") :
       /\ IsCryptdevice(v)
       /\ IsBacking(CryptdeviceSource(v), m.root)
       /\ CryptdeviceMapper(v) = <<m.root.source[2]>>
  /\ \A v \in Values(line, "rd.luks.name") :
       v = <<m.root.luksUuid, "=", m.root.source[2]>>

(* An encrypted root is a dm-crypt mapping itself, not a volume on one, and *)
(* mounted by the name of its mapper.                                       *)
NotLayered(m) ==
  m.root.luksUuid # NoText => Encrypted(m.root) /\ m.root.source[1] = MapperDir

(* sbctl tells of Secure Boot when it is enforced. *)
SecureBootSeen(m) == m.secureBoot.enforced => SecureBootDetected(m)

(* The settings name the subvolume that holds the snapshots. *)
SnapshotsConfigured(m) ==
  Loaded[m.config].config[<<"snapper", "snapshots_subvolume">>] = RealSnapshots

Ordinary(m) ==
  /\ NothingRepeated(Line(m)) /\ NothingEscaped(Line(m)) /\ MappingMatches(m, Line(m))
  /\ NotLayered(m) /\ SecureBootSeen(m) /\ SnapshotsConfigured(m)

(* No two files of one name, and no package with two releases. *)
Unambiguous(m) ==
  /\ \A f, g \in DOMAIN m.files : f.name = g.name => f = g
  /\ \A r, s \in DOMAIN m.modules : m.modules[r] = m.modules[s] => r = s

-----------------------------------------------------------------------------
(* The shape of a menu: a unified image has no modules, any other kernel    *)
(* has one, and the snapshots come in descending order.                     *)
MenuOK(menu) ==
  LET entries == ToSet(menu.main)
                 \cup UNION {ToSet(menu.snapshots[i].entries) : i \in DOMAIN menu.snapshots}
  IN  /\ \A e \in entries : (e.protocol = "efi") <=> (e.modules = <<>>)
      /\ \A i, j \in DOMAIN menu.snapshots :
           i < j => menu.snapshots[i].number > menu.snapshots[j].number

TypeOK ==
  /\ machine \in Machines
  /\ installed \in {NoMenu, OtherMenu} \/ MenuOK(installed)
  /\ run.step \in {"idle", "list", "detect", "validate", "conclude"}
  /\ answer.code \in 0..3
  /\ said \in {"nothing", "invalid", "pending", "current"}
  /\ steady \in BOOLEAN /\ changes \in 0..MaxChanges /\ runs \in 0..MaxRuns

(* When `status` answers 0, and nothing changed since it looked, every entry *)
(* of the installed menu boots: its files are there and have the hashes that *)
(* Secure Boot demands, its command line finds the root, and mounts the main *)
(* subvolume or the snapshot that the entry is for.  This is so on machines  *)
(* for which Ordinary holds: each of its conditions is one that validation   *)
(* does not look at.                                                         *)
HealthyMenuBoots ==
  answer = [command |-> "status", code |-> 0] /\ steady /\ run = Idle /\ Ordinary(machine) =>
    /\ \A i \in DOMAIN installed.main : EntryBoots(machine, installed.main[i], machine.root.subvolume)
    /\ \A i \in DOMAIN installed.snapshots :
         LET snapshot == installed.snapshots[i] IN
         \A j \in DOMAIN snapshot.entries :
           EntryBoots(machine, snapshot.entries[j],
                      RealSnapshots \o <<"/", NumberWords[snapshot.number]>>)

(* What a command says of a machine and its menu stands until one of them    *)
(* changes, in whatever order the directories are read: what `apply` has     *)
(* just installed is up to date for `status` and `plan`, and an apply after  *)
(* it has nothing to do.  Files of one name in two directories, or packages  *)
(* with two releases, are the exception: the first or last one read counts.  *)
VerdictStands ==
  [][said # "nothing" /\ said' # said /\ Unambiguous(machine) =>
       \/ said' = "nothing"
       \/ said = "pending" /\ said' = "current" /\ installed' # installed]_vars

(* A command line that the program generates is one it accepts: of a Btrfs   *)
(* root in a subvolume, encrypted or not, with either of the two hooks, as   *)
(* long as an encrypted root is mounted by the name of its mapper and the    *)
(* name of the subvolume needs no escape.                                    *)
GeneratedLineAccepted ==
  /\ run.step = "conclude" /\ run.system.generated
  /\ run.system.root.subvolume # <<>>
  /\ ToSet(run.system.root.subvolume) \cap {Space, Single, Double, Backslash} = {}
  /\ run.system.encrypted => run.system.root.source[1] = MapperDir
  => run.errors \cap {"kernel.cmdline", "kernel.root", "kernel.encryption", "kernel.rootflags"} = {}

=============================================================================
