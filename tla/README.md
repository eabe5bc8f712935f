# limine-manager in TLA+

This directory is a TLA+ development of `limine-manager`, the program that
generates `limine.conf` for Arch machines with Btrfs, Snapper and Limine.  It
models the part of the program where the order of steps matters: installing
`limine.conf`, doing so under Secure Boot, replacing the main root by a
snapshot, deciding when to refresh the menu, what a menu says about the
machine that boots from it, and the way from the machine to the menu.  Line
numbers below refer to the repository.

- `*.tla` named after a component: the specifications and their properties.
- `MC*.tla` and `*.cfg`: the instances TLC checks.
- `AtomicReplace.tla`: the abstract specification that ApplyService implements.
- `*Proofs.tla`: theorems about the module they are named after, checked by TLAPS.
- `PROJECT.json`: which definition models which lines, what each run checks, the
  mutants that show that each property can fail, hazards, findings.

Run `tlc -config apply_commands.cfg MCApplyService.tla` and the like, and
`tlapm ApplyServiceProofs.tla` and so on for each of the eight proof modules.

## 1. Inventory

| Component | Source | State | Operations | Module |
|---|---|---|---|---|
| apply | `apply_service.cpp`, `change_planner.cpp`, `secure_file_ops.cpp` | `limine.conf`, a temporary file, a backup, `apply.lock` | plan, lock, compare, back up, write, rename, verify, restore | ApplyService |
| backups | `backup_service.cpp` | the backup files | list, prune, latest | ApplyService |
| secure boot apply | `secure_boot_apply_service.cpp`, `secure_boot_transaction.cpp`, `efi_image_transaction.cpp`, `secure_boot_tools.cpp` | the EFI executable, its copy in `/tmp`, two "pending" flags | open, record, digest, strip, enrol, sign, verify, commit, roll back, retry | SecureBootApply |
| btrfs rollback | `rollback_planner.cpp`, `rollback_service.cpp`, `btrfs_client.cpp` | the subvolumes, the top-level mount, `rollback.lock` | plan, snapshot, move, move, verify, sync, unmount, compensate | BtrfsRollback |
| refresh automation | `automation.cpp`, `refresh_service.cpp`, `main.cpp`, `systemd/` | `refresh.pending`, `refresh.lock`, the timer, the service | request, restart the timer, refresh round, retry | RefreshAutomation |
| discovery, validation, menu | `discovery_service.cpp`, `validation_service.cpp`, `preview_service.cpp`, `snapshot_selector.hpp`, `kernel_discovery.cpp`, `system_detector.cpp`, `snapper_client.cpp` | none of their own; they read the machine | list snapshots, detect, validate, select, generate | SystemDetector, ValidationService, SnapperClient, Generation; BootCycle |
| command dispatch | `main.cpp` | none | `apply`, `refresh`, `restore`, `prune-backups`, `rollback`, `request-refresh`; `status`, `validate`, `preview`, `plan`, `diff`, `dry-run` | the modules above that name `main`, Generation |
| kernel command line | `kernel_cmdline.cpp` | a list of arguments | parse, value, values, set, render | KernelCommandLine |
| configuration | `config_loader.cpp`, `theme.cpp`, `config.hpp` | none | read and check a file, `show-config` | ConfigLoader |
| renderers | `render/`, `domain/menu.cpp` | none | text of a menu and of a diff | UnifiedDiff; a menu is a structure in Generation |
| status, reports | `status_service.cpp`, `domain/validation.cpp` | none | summaries and exit codes | Generation |
| process and file system | `process.cpp`, `filesystem.cpp` | none | wrappers of system calls | not modelled; their failures are faults of their callers |
| packaging, scripts | `packaging/`, `scripts/`, `.github/` | – | build and release | not modelled |

**How they interact.** Every command is a process of its own; there is no
daemon.  Processes meet in the file system: `limine.conf` and its backups,
three lock files (`apply.lock`, `refresh.lock`, `rollback.lock`), the marker
`refresh.pending`, the EFI executable, the subvolumes.  Hooks of Snapper and
pacman run `request-refresh`, which writes the marker and restarts a systemd
timer; the timer starts a service that runs `refresh`.  `apply` and `refresh`
discover, validate, render, plan and call `SecureBootApplyService::apply`, which
opens a transaction under Secure Boot and calls `ApplyService::apply`; `restore`
calls `ApplyService::apply` itself, `rollback` calls `RollbackService::execute`
and then renders and applies a menu.  Pruning comes after an apply, outside its
lock, or by `prune-backups`.

**What is hard.** Plans are made before locks are taken.  `apply.lock` protects
one step of a longer transaction.  A prune holds no lock.  Every step does I/O that can fail, and the
error paths do I/O too.  Processes are killed, and machines lose power
between a write and its sync.  A request may arrive at any point of a refresh.
The machine that generates the menu may be running a snapshot rather than the
root the menu is about, and pacman may be in the middle of writing `/boot`.
What validation looks at, what the entries say and what the kernel makes of
them are three readings of one command line.
`PROJECT.json` lists these at their lines under `hazards`.

## 2. The modules

### ApplyService

One boot file, its directory of backups, and a set of processes, each an
`apply` (or `refresh`), a `restore` or a `prune-backups`.

| State | In the code |
|---|---|
| `target` | `limine.conf`, seen by every process |
| `durable` | what it may contain after a power loss; `fsync_directory` makes this one value |
| `backups`, `births` | the backup files, with what they copy, whether the copy is complete, whether its directory entry is on the disk |
| `lock` | `apply.lock`, one for each runtime directory in use |
| `pc`, `plan`, `copy`, `backup`, `tmp`, `doomed` | the local state of a process: the `ChangePlan`, `backup_candidate`, `backup`, the temporary file, the list that `prune` walks |

Each action is a stretch of `ApplyService::apply`, `BackupService` or the commands in
`main.cpp` between two operations that another process or a crash could
separate.  `copy_file_secure` is three of them (`CreateBackup`, `WriteBackup`,
`SyncBackup`): the backup exists under its final name before it has its
content, and only after the last one does the error path know of it.
`IOError` sends a process where its exception goes: before anything was done
(`refused`), into the catch block (`failing`), or out of it (`rollbackfailed`).
`PowerLoss` may take any backup whose directory entry was not synced; one that it
does not take is on the disk from then on (`OnDisk`), as the boot file is.

Data: a file is one of a few texts and whether it ends in a newline, which is what
`normalize_newline` changes.  Modes, owners and symbolic links are left out.
A backup's name is a number whose order stands for the order of names as strings;
its modification time is its rank of creation divided by `ClockGrain`.

### AtomicReplace

What all of that amounts to for somebody who uses it: a file, what a power loss
may leave of it, an archive of earlier contents, and clients who replace it one
at a time.  A client gets the turn once the content it is about to replace is
archived, and is told `done` only of a new content that is on the disk,
`undone` of an old content that is back there, `stuck` if neither could be had.
A power loss may add to the archive (a copy that happened to reach the disk), never
take from it.
No locks, no backup files, no temporary files.

`ReplacesAtomically` in ApplyService says that ApplyService implements it, with
the refinement mapping in `Replacement`: `target` is the file, `durable` the
disk, the written and synced backups are the archive; a process has the turn
(`HasTurn`) from the moment it relies on its backup until it lets go of the
lock, and what it was told is read off its program counter (`Told`).

### SecureBootApply

EXTENDS ApplyService with the EFI executable as a record of the digest enrolled
in it and whether it is signed.  A process in the role `apply` runs inside a
transaction: `OpenTransaction` copies the executable *before* the apply lock is
taken, the steps of ApplyService follow, then digest, strip, enrol, sign,
verify and commit.  On any failure `UndoConfig` and `UndoEfi` run, up to three
times: the explicit rollback, `~SecureBootTransaction`, which tries both again, and
`~EfiImageTransaction`, which tries the executable alone.  `configPending` and
`efiPending` are the flags of the code.  A tool that fails may have done its work or not.  A power loss
empties `/tmp`, and with it the copies.  What the tools wrote
to the executable is taken to be on the disk: how they write is not in this
repository.

### BtrfsRollback

Subvolumes are paths that hold a tree: the original main root, the snapshot, or
the copy that an invocation made.  The phases of `RollbackService::execute` are
actions, `phase` counts those that are complete, and the catch block undoes
them in the same order as the code; its moves fail silently (`try_move`).  A
power loss leaves any topology since the last sync, and the machine may boot
the main root or the snapshot afterwards.  `rollback` may be run again.

### RefreshAutomation

The list of snapshots is a version number, a menu is the version it was
generated from.  Hooks, the timer, the service, and refreshes and applies by
hand.  The loop of `refresh` in `main.cpp:472-510` is one action per test or
call; applying is one step, refined by ApplyService.  `Leave` is the stretch
between the last look at the marker and the release of `refresh.lock`.  Each
process that generates a menu has in `view` the version it discovered and the
menu it planned against.

### BootCycle

Which root the machine runs on, what `/etc/kernel/cmdline` in each root says,
which kernel files are in `/boot`, the installed menu.  A command lists the
snapshots, detects the system, validates or plans a rollback, and installs
what it rendered from what it saw; meanwhile snapshots are taken and deleted,
kernel files come and go, the file of the main root is written or removed, and
the machine reboots into any entry of its menu that can boot.  Validation
is the conjunction of its reports on kernels, `rootflags=` and snapshots; the
other reports are the variable `ready`, which may change at any moment.
Installing and replacing a root are one step here; the modules above take them
apart.

### Generation and the modules it extends

From the machine to the menu, as `status`, `validate`, `preview`, `plan`,
`diff`, `dry-run`, `apply` and `refresh` go it.  One action per stage of `main`: the
configuration is loaded, the snapshots are listed, the machine is detected,
what was seen is validated, and the menu is generated, compared and, by
`apply`, installed.  Between any two of them the machine may change, or
`limine.conf` disappear.  A machine is a record of the files in `/boot` with what they
hold, the modules, the root and the devices under it, the firmware and its tools, the
snapshots, the configuration file.  The decisions are pure modules:

| Module | In the code |
|---|---|
| KernelCommandLine | `kernel_cmdline.cpp`, character by character where quoting matters; a word in which nothing is told apart is one character.  `KernelReads` and `InForce` are the kernel's own reader, external |
| SystemDetector | `system_detector.cpp`, `kernel_discovery.cpp`: the kernels with their initramfs, microcode or unified image and their order; the root device; Secure Boot and the hashes; the generated command line |
| ValidationService | every error of `validate`, by its code; information and warnings stop nothing.  A `cryptdevice=` must name a device of a known kind and a mapper, an `rd.luks.name=` must begin with a UUID (`Uuids`: the words of hexadecimal digits and dashes), or it maps nothing |
| ConfigLoader | the keys with their kinds and defaults, reading, checking, `show-config` |
| SnapperClient | the rows that snapper prints (external) and how they are read |
| UnifiedDiff | the table of `render` and the walk over it |

What the entries of a menu do when they are chosen (`EntryBoots`) is external:
Limine refuses a file whose hash is another one, the initramfs opens the
containers it is told to open and looks for `root=`, the last `rootflags=`
counts.

Directories are read in any order (`SetToSeqs`), which is more than a file
system may do between two calls.

TextSamples hands samples of bounded length to KernelCommandLine, ConfigLoader,
SnapperClient and UnifiedDiff; its properties compare the result with what was
given.  MCGeneration runs it beside Generation, from one initial state.

The loops of these modules are scans (`Scan` and `Filtered` in Scanning, in use
wherever the code goes once through a text or a list and keeps something) and
the recursions are functions on places, so that the proofs can speak of them.

## 3. The runs

Passing runs, with the bounds and why they are enough:

| Run | Instance | Shows |
|---|---|---|
| `apply_commands` | two applies and a prune, one old backup, retention 1, two faults, one crash | Two applies can plan against the same file, a prune can remove what either relies on, and a rollback can fail.  `NothingLost`: what is overwritten is in a whole, durable backup.  `AllOrNothing`: apply returns with its plan in place or throws with the old file back.  `NeverTorn`: neither a reader nor a power loss sees half a file.  `RollbackBreaksOnlyTwice`: retention 1 is the smallest that keeps a backup, and it is still enough for a concurrent prune to leave the backup a failing apply needs.  `OldestGoFirst`.  `ReplacesAtomically`: all of this is an atomic replacement. |
| `restore_and_edits` | an apply and a restore, one edit by another program, one fault, one crash | The lock excludes the two; an edit is lost only in the window between comparison and rename, which the code does not close. |
| `secure_apply` | one apply, one prune, three faults, one crash | Three faults is what it takes to defeat all three rollbacks.  Configuration and executable change together (`SecureAllOrNothing`, `InStepAtRest`), and there is a way back at every point of a running transaction (`WayBack`).  `BrokenOnlyAfterRetries`: giving up takes the failure of the destructors too, or a commit that had removed the copy. |
| `rollback` | two rollbacks, two faults each, two crashes or boots | Each may start after the other failed at any phase.  `RootsKept`: the original root and the snapshot are at exactly one path, also after a power loss.  `SuccessMeansReplaced`, `FirstFailureUndone`, `TargetPresent`, `RunningRootStays`. |
| `refresh` | two hooks, the service, a refresh and an apply by hand, two events, one exception, one failed validation, one reboot | `Settles`: when nothing went wrong the menu comes to show the last event.  `EventsReachMenu`: otherwise an event that is not in the menu when nobody is at work left the marker or has one of the named excuses.  `RefreshEnds`, `NeverGoesBack`.  Two events: one being handled and one arriving; with three and nothing going wrong the instance has 475,678 states and passes too. |
| `boot_cycle` | one command at a time, two kernels, two snapshots of which the menu shows one | `RollbackOffered` needs a snapshot that has dropped out of the menu, hence two.  `StillBoots`: while one complete kernel is shown by the settings, some entry boots, also after a rollback installed a menu without validating it.  `MenuComplete`, `OverrideIsAuthoritative`, `SnapshotKeepsMenu`.  With two commands at once the instance has 8.2 million states; it passed without `StillBoots`. |
| `generation` | 180 machines that differ from an ordinary one, plain or encrypted, in one or two respects; `status`, `plan` and `apply`; one change, two runs; beside them the samples: lines of two arguments of two characters, descriptions with quotes, commas, line breaks and carriage returns, lists of two snapshots, diffs of texts of four lines | `HealthyMenuBoots`, `GeneratedLineAccepted`, `VerdictStands`; `RenderedLineIsRead`, `ShownConfigLoads`, `SnapshotsAreRead`, `DiffIsExact`.  Two runs: one says something and the other may contradict it.  One change: a second one only leads to a machine from which another behaviour starts.  `LargeMenu` is 1 so that two snapshots degrade the status; it is 100 in the code. |

In all of them the program really may stop (commands end, bounds are used up),
so deadlock is not checked.

The bounds: `MaxFaults`, `MaxCrashes`, `MaxEdits`, `MaxEvents`, `MaxInvalid`,
`MaxReboots`, `MaxNumber`, `MaxMenu`, `Names` (the backups that can be made),
`MaxChanges`, `MaxRuns`, `MaxArguments`, `MaxSnapshots` and `MaxDiffLines`.

Violation runs, each a statement of the repository that the code does not keep:

| Run | Property | What happens |
|---|---|---|
| `restore_unfinished` | `NeverTorn` | `restore` picks the newest backup with no lock held; an apply may still be writing it. |
| `restore_own_lock` | `Exclusive` | `main.cpp:443` does not give `restore` the configured runtime directory, so it holds another lock. |
| `secure_concurrent` | `InStepAtRest` | Two applies: the first copies the executable, the second changes both parts and commits, the first then fails its comparison and restores its copy. |
| `rollback_second_failure` | `PartlyRecovered` | `@.limine-manager.failed-replacement` is one fixed name.  A rollback that fails after its final move, when an earlier one has left its replacement there, can move neither its own replacement aside nor the preserved root back.  (If the final move itself fails, the preserved root is moved back whatever has that name.) |
| `boot_generated` | `MainEntryBootsMain` | With no `/etc/kernel/cmdline`, a refresh on a booted snapshot writes that snapshot into the normal entries. |

`HealthyMenuBoots` is about machines for which `Ordinary` holds.  Each of its
conditions is there because without it TLC finds a machine that `status` calls
healthy and that does not boot an entry of its menu; they are what validation
does not look at:

| Condition | What happens without it |
|---|---|
| `NothingRepeated` | validation looks at the first `root=` and `rootflags=` and a snapshot entry replaces the first (`kernel_cmdline.cpp:91,120`), be it a `rootflags` without a value; the kernel obeys the last |
| `NothingEscaped` | the kernel knows neither backslashes nor single quotes |
| `MappingMatches` | the mapper's name, or the container, is enough for validation (`validation_service.cpp:108`): the other one may be wrong |
| `NotLayered` | a logical volume in a container is not seen as encrypted (`system_detector.cpp:267`), and nothing has to open the container; a root that is mounted as `/dev/dm-0` has no mapper name to compare with |
| `SecureBootSeen` | when `sbctl status` fails Secure Boot counts as off (`system_detector.cpp:178`); the error `secure_boot.sbctl` can never be reported |
| `SnapshotsConfigured` | validation looks into `snapshots_directory`, the entries name `snapshots_subvolume` |

The two conditions of `Unambiguous`, for `VerdictStands`, and the premises of
`GeneratedLineAccepted` are needed in the same way.

Observed while modelling, described here and not given a run:

- Backups of one modification time are ordered by their names as text
  (`backup_service.cpp:45`); with `ClockGrain` 2 `OldestGoFirst` fails.
- `restore` under Secure Boot does not enrol the restored file
  (`main.cpp:443`); with a restore in it `InStepAtRest` fails.
- A commit that fails after it removed the copy cannot roll the executable back
  (`efi_image_transaction.cpp:74`).  `BrokenOnlyAfterRetries` excuses it.
- `rollback` applies a menu that was not validated (`main.cpp:547`), so that a
  kernel without initramfs may be in it.  `MenuComplete` is about refresh.
- With a generated command line the booted root is the root the planner takes for
  the target, so a rollback is never eligible.
- A marker that was cleared is lost when discovery or apply throws
  (`main.cpp:475-479`), and a retry after a failed validation writes the marker
  but does not restart the timer (`main.cpp:483`): the event waits for the next.
- `apply` takes no `refresh.lock` and may put back an older menu.
- A service that starts while another refresh is leaving gives up on
  `refresh.lock`, and the marker stays.  The timer's three seconds
  (`limine-manager-refresh.timer`) make that unlikely; `Settles` excuses it.
- A refresh puts an older menu back if an apply by hand installed a newer one
  between its discovery and its plan.
- `vmlinuz-linux.efi` is accepted as a unified image of `linux`
  (`kernel_discovery.cpp:70`) and is itself taken for a kernel `linux.efi`
  (`kernel_discovery.cpp:117`) that has no initramfs, so that with such a file
  validation never passes.
- `apply` cannot create `limine.conf`: validation demands one that can be read
  (`validation_service.cpp:194`).  Only a rollback, which does not validate,
  reaches the `create` branch of ApplyService, or an apply whose file was
  removed after validation.
- Validation does not ask whether the hook in `mkinitcpio.conf` fits an option
  written by hand: `cryptdevice=` passes on a machine with `sd-encrypt`.
- A root in a subvolume with a space in its name has `\x20` in the options that
  findmnt prints, the backslash is lost when the generated line is parsed, and
  validation rejects the line.
- `show-config` omits `system.mkinitcpio_config`; a size of `-1` is accepted as
  2^64 - 1; `automation.debounce_seconds` is read, checked and printed, and the timer's
  three seconds are fixed in its unit.
- `restore`, `list-backups` and `prune-backups` use the configured path of
  `limine.conf` (`main.cpp:400`), `apply` and `refresh` the discovered one.
- `status` answers 2 for a degraded machine also when changes are pending.
- A line with a bare `rootflags` before `rootflags=subvol=@` passes validation;
  the snapshot entries replace the bare word (`kernel_cmdline.cpp:120`) and mount
  the main subvolume.
- `kernels.include` may name no installed kernel, and the menu then has no
  normal entry; the comparator of `kernel_discovery.cpp:141` is not irreflexive
  for two images of `linux`.
- Kernel images in `/boot` are not part of a snapshot: a snapshot entry boots
  today's kernel.

## 4. Fairness

Only RefreshAutomation has liveness.  Its `Fairness` is weak fairness of each
hook, of the timer and of each command: a process that was started is
scheduled, a timer that runs elapses.  Nothing makes anybody run a command or an
event happen.  `Settles` does not rely on the timer's delay: a run in which
the timer elapses while a refresh is leaving counts as disturbed.  No fairness is assumed of
locks: they are taken without waiting (`LOCK_NB`), and a command that finds one
held ends.

## 5. What is proved

Eight modules hold proofs, without a step taken on trust.  They are about any
sets of processes, files, kernels, snapshots and names, and any bounds; what a
theorem needs beyond the ASSUMEs of its module is written in its `ASSUME`.

Hypotheses of theorems about ApplyService, and why they cannot be dropped:

| Hypothesis | Says | Without it |
|---|---|---|
| `OneLock` | all commands use one runtime directory | run `restore_own_lock` |
| `FineClock` | `ClockGrain = 1`: modification times tell backups apart | `OldestGoFirst` fails with 2, and with it every argument that a prune spares the newest backup |
| `NoEdits` | no other program writes `limine.conf` (`MaxEdits = 0`) | run `restore_and_edits` checks the weaker `LostOnlyInWindow`, because the window between comparison and rename is open |
| `NoRestore` | no command is a `restore` | run `restore_unfinished` |
| `OneApply` | one apply at a time under Secure Boot, beside any number of prunes | run `secure_concurrent` |

### ApplyServiceProofs

- `TypeCorrect`: `Spec => []TypeOK`.  `TypeOK` is inductive.  Besides types it says
  that nobody is past planning with an unchanged plan, which the other proofs
  need to know which branch an apply took.
- `ExclusiveApply` (`Exclusive`, under `OneLock`).  `Exclusive` is not inductive:
  that two processes cannot both be inside follows from each of them being the
  holder of the lock, so the invariant is `LockInv`, a process inside `apply` is
  the one that the lock names.
- `NeverTornApply` (`NeverTorn`, under `NoRestore`).  The inductive invariant
  `TornInv` adds that every plan generates a whole file, that every backup is a
  copy of a whole file, that a backup which an error path may restore is
  written, and that a temporary file about to be renamed is synced.  Restoring an
  unfinished copy and renaming an unsynced file are the two ways to break it.

**Transactions.** `OnlyTwoErrorsBreakRollback`, `AppliedOrUndone` and `NothingIsLost` state
`RollbackBreaksOnlyTwice`, `AllOrNothing` and `NothingLost` under `OneLock`,
`NoEdits` and `FineClock`, for any number of applies, restores and prunes.  None of the
three is inductive: that a rollback finds its backup depends on what each prune
had listed before the backup existed.  `TransactionInv` says

- of the backups (`BirthInv`, `DoomedInv`): each was born at its own time, earlier
  than `births`, and a prune means to delete only what existed when it listed
  them;
- of a process inside the lock (`Course`, one clause per program point): its
  copy, from its creation on, is the newest of all, so that no prune lists it among the
  surplus; it holds what the plan was made for; `target` is the old or
  the new content according to whether the rename has happened; an error path
  with a backup can restore it, and one without has nothing to restore;
- of `fsync` (`UnsyncedInv`): a backup that is not on the disk is a copy of the
  file as it still is.

The lemmas follow that split: what a step of an outsider may do to an insider
(`OutsiderStep`, `ReadyStays`, `NewestStays`), and one step per action of the
insider.

`PrunesOldestFirst` (`OldestGoFirst`, under `FineClock` alone) needs only that
what a prune means to delete is closed under "older than" (`OlderDoomed`).

`OnlyTheWindowLoses` (`LostOnlyInWindow`, under `OneLock` and `FineClock`) admits
edits and restores.  `Course` is then false, since the file may change under a
process; `CopyInv` keeps what is left of it: until the rename its copy is the
newest backup and, once made, whole and on the disk, and a `backup` that the error
path restores is that copy.

**Refinement.** `ImplementsAtomicReplace`: `Spec => ReplacesAtomically`, under `OneLock`,
`NoEdits`, `FineClock` and `NoRestore`.  Each action is shown to be one abstract action
or a stutter, from `RefinementInv`: `TransactionInv`, `TornInv`, and that only
an apply with a complete menu gets past planning.  Hence the theorems of
AtomicReplace hold of ApplyService through the mapping.

### AtomicReplaceProofs

For any clients and contents: `TypeCorrect`;
`AlwaysOldOrNew`, that the file is what the client found or what it installs, and
what it found is archived; `NothingUnarchived`, that no content disappears
before it is archived, other than what a client that undoes its replacement had
installed, or by a loss of power.  The two invariants are inductive; the last
one needs the second, because undoing looks at no content, and the hypothesis
that `NoClient` is no client.

### SecureBootApplyProofs

`SecureTypeCorrect` (`SBTypeOK`) has no hypothesis.  `TogetherOrNotAtAll`
(`InStepAtRest`), `WayBackStays` (`WayBack`), `GivenUpOnlyAfterRetries`
(`BrokenOnlyAfterRetries`) and `SecureTransaction` (`SecureAllOrNothing`) need
all five.  Every step of ApplyService is a step of `Spec`, so its
invariants are taken over; `SecureInv` adds, for each stage of the transaction,

- the configuration the executable was enrolled for when the transaction was
  opened (`Prior`) is in place until the rename and in the backup from then on;
- the copy of the executable accepts `Prior` as long as the executable is pending;
- while rolling back, a part that is not pending is back, and one that is has failed
  as often as it was tried (`Undone`, `Tried`): this is where the three tries of
  the explicit rollback and the two destructors are counted;
- what ApplyService answered says where `target` is (`Consequent`).

### BtrfsRollbackProofs

No hypotheses.  `TypeCorrect`, `RootsNeverLost` (`RootsKept`),
`NothingMovesRunningRoot` (`RunningRootStays`), `TargetStaysPresent`
(`TargetPresent`), `SuccessIsReplaced` (`SuccessMeansReplaced`),
`FailureIsUndone` (`FirstFailureUndone`).  `RootsInv` (each root at one path, in the tree and in
every topology a power loss may leave) is inductive because a move is
made only to a path found free.  The others need `Course`: which
topology an invocation finds at each of its program points and phases, given
that it alone holds `rollback.lock`, and that whoever planned still runs the
snapshot (`BootedInv`).

### RefreshAutomationProofs

`TypeCorrect`: types, and `refresh.lock` is held by the refresh in its loop.
`RefreshesDoNotOvertake` (`NeverGoesBack`): the invariant `FreshView` says that a
refresh between discovery and installation has seen a list no older than the menu
it will replace, unless an apply by hand installed that.  It holds
because refreshes exclude each other and an apply does not join in.

`NoEventForgotten` (`EventsReachMenu`).  Between quiet states an event is in one
of many places, and the invariant lists them (`Accounted`): in a hook that is about to
make its request, in the marker, in a refresh that took the marker and has not yet
installed or put it back (`Serving`), in the menu, or in an excuse.  It is inductive
with two more: that a refresh on its way to an installation saw the last event
unless another is announced (`SeenInv`), and that only a refresh that found the marker
clears it (`TakenInv`).

`SettledWhenIdle` is the safety half of `Settles`: in any state in which no hook,
timer, service or refresh has anything to do, and nothing has gone wrong before,
the menu shows the last event and there is no marker.  `SettleInv` adds that a marker
is awaited (`Awaited`): the timer runs or will be restarted, a refresh
will look again, or the service has been started and meets no refresh that is
leaving.  That is where the race between `Elapse` and `Leave` sits, which
`disturbed` excuses.  `SettlesOnceIdle` concludes `Settles` for every
behaviour that comes to rest; that fairness brings it to rest is for TLC.

### BootCycleProofs

No hypotheses.  `TypeCorrect`, `RefreshedMenuComplete` (`MenuComplete`),
`AlwaysBootable` (`StillBoots`), `RollbackAlwaysOffered` (`RollbackOffered`),
`OverrideHolds` (`OverrideIsAuthoritative`), `OnlyRollbackOnSnapshot`
(`SnapshotKeepsMenu`); `restore`, which reinstalls an earlier menu on any root, is
not among the commands of BootCycle.  A command decides on what it saw some steps before;
`Knows` is the part of it that stays true meanwhile: the running root and
what its command line names, that the complete kernel was found, that the snapshot running
was listed.  `MenuInv` is what every menu has: the complete kernel if the settings
show it, and an entry for the main root or the running one.

### TextSamplesProofs

No hypotheses other than the assumptions of TextSamples: an argument of a line is
not empty (parse gives none that is), arguments and descriptions are sequences,
a configuration file is a sequence of lines (`ConfigLines`), and numbers have words
of their own (`NumberWords`).  The bounds on lengths, that on the number of
snapshots (`MaxSnapshots`) included, are constants, so the theorems hold for texts of any length over any characters.

- `RenderedLineIsReadAlways` (`RenderedLineIsRead`), from `ParseOfRender` and
  `KernelOfRender`: what the state of the parser, or of the kernel's reader, is
  after each of the characters that `render` writes.
- `SnapshotsAreReadAlways` (`SnapshotsAreRead`), from `PrintReadsBack`, that a
  printed row is read back whatever quotes and commas it holds, and `ListOfPrint`, that
  the rows are.
- `DiffExactAlways` (`DiffIsExact`), from `WalkExact`, that the walk spells out both
  texts, and `TableLongest`, that each entry of the table is the length of the longest
  common subsequence of two suffixes, as an upper bound and as one that is reached.
- `ShownConfigLoadsAlways` (`ShownConfigLoads`), for any file that loads.  What `load`
  knows after any lines (`LoadStates`) is a configuration whose values suit their keys
  (`Suits`): a flag has a truth value, a size a number, no item of a list is
  the comma, a theme is in lower case, the path of the executable is not the word `auto`.
  These are the values that `Show` prints so that `Read` gives them back (`ShowReads`);
  each needs its clause.  A section is then read as the values of its keys
  (`PartRead`), all of them as the values of all keys but one (`RenderRead`), and
  the key that is missing is not one that `validate_config` looks at (`ConsistentSame`).

The inductive invariants only say what the samples are made of (`TextsAreLines`,
`LinesHaveArguments`, `ListsHaveSnapshots`, `FilesAreLines`); the work is in the induction over
texts.  The prover cannot instantiate a rule of induction over a predicate, so
`SeqInduction` is stated for a *set* of sequences that has the empty one and is
closed under appending, and is itself proved from a least counterexample.  In the
same way a scan is a function on pairs (`ScanOf`), and `ScanLink` says that
`Scan` over an operator is `ScanOf` of its function.

### GenerationProofs

`GenerationTypeOK` (`TypeOK`), `GeneratedLineAcceptedAlways`
(`GeneratedLineAccepted`), `HealthyMenuBootsAlways` (`HealthyMenuBoots`) and
`VerdictStandsAlways` (`VerdictStands`), for any set of machines: any files, kernels, modules, devices, command lines,
configurations and snapshots of the types in `IsMachine`, and any number of changes
between any two stages.  The module takes the lemmas on texts from
TextSamplesProofs and nothing about its samples.

The inductive invariant is `Seen`: the configuration, the snapshots, the system
and the errors that a command holds are each of a machine that there was, which is
the present one as long as the command is `steady`.  From it

- a generated line is built of arguments that need no quotes, or of one in
  quotes; rendered and parsed it is those arguments again (`GeneratedLine`), and
  each check of validation finds in them what the generator put there
  (`GeneratedIsAccepted`): for an encrypted root that the option is well-formed, as
  `parse_cryptdevice` and `parse_rd_luks_name` demand, and maps the root;
- every entry of a menu is made of a kernel that detection found, and is for the
  main root or for one of the snapshots that were listed (`PreviewIs`); a kernel
  that validation accepted has its files and an initramfs (`KernelAccepted`), and the
  hashes that Secure Boot demands (`HashesAccepted`);
- what the kernel reads of an entry's line is what the program rendered
  (`LineIsRead`), because `NothingEscaped`; the first `root=` that validation
  looked at is the one in force (`ValueInForce`) and the flags that `set`
  replaces are the only ones (`FlagsSet`), because `NothingRepeated`; the
  container that is opened is the root's, under the name that `root=` has
  (`RootIsFound`), because `MappingMatches` and `NotLayered`.

So each condition of `Ordinary` is cited where it is needed, and the table in
section 3 has the machine that shows that it is.

For `VerdictStands` the invariant is `Known` beside `Seen`: while nothing changes, what a
command holds is of the present machine, and what was said last is
`VerdictOf` that machine, as some detection found it, and the installed menu.  A
step that concludes says `VerdictOf` what *it* found (`ConcludeSays`); an
`apply` that installs leaves nothing to say but "current", because the errors depend on
the old menu only in that there is one (`ErrorsStay`).  So two verdicts can differ
only if two detections do, and they do not (`DetectedSame`): what is left when one
element matches is the same in any order (`FilteredOne`, with `Unambiguous`), and the
comparison of the kernels is a strict total order on those that are found
(`KernelsOrdered`), so that there is one way to sort them (`SortedSame`, `OrderUnique`).
That needs what `std::sort` asks of its comparison: at most one kernel runs and no
two have one package base, both from `Unambiguous`.  The theorem assumes of names
that they have a strict order (`NameOrderAssumption`) in which those of a machine's
kernels can be compared (`NamesAssumption`), as bytes have.

### What the proofs changed

- That a refinement step of `PowerLoss` maps to one of AtomicReplace failed: a
  backup that survived by chance stayed unsynced and could be lost to a second power
  loss, though it had been read from the disk after the first.  `OnDisk` in
  ApplyService and `Archive` in AtomicReplace say it right.
- `InStepAtRest` had an exception for a created file that could not be
  unlinked, and `BrokenOnlyAfterRetries` one for a pruned backup.  The proofs
  did not use them; both properties are stated without, and the runs agree.
- `NothingRepeated` said only that no *value* of `root` and `rootflags` is repeated:
  a bare `rootflags` is one that `set` replaces too.  `NotLayered` did not ask for the
  name of the mapper.  `GeneratedLineAccepted` did not exclude subvolumes whose names
  need an escape, and asked for a machine that had not changed, which it does not
  need.  The machines of the run have these cases now.
- `NamePrecedes` ranked the three names of the run and no others; it is a constant
  order of all names now (`NameOrder`).
- A carriage return at the end of a row is cut off before it is read; the model has
  it, and the samples, since the proof asked what ends a row.
- Recursive operators and folds of the text modules are scans and functions now, and
  `Render` prints the sections and keys in the order in which the code has them: as
  a fold over a set it could not be reasoned about.
- Assumptions the proofs needed: `Absent` is no image of the executable
  (`NoImageAssumption`), and `refresh` is among the `Commands` of BootCycle.

The assumptions on constants are the ASSUMEs of the modules: constants have their
types, `NameOrder` is a strict order, and `Absent`, `Unused`, `Partial`, `Nobody`
are none of the values they stand beside.  TLC evaluates them in every run of their module.

### Only model-checked

- `RefreshEnds`, and the part of `Settles` that says that hooks, timer and refreshes
  come to rest: liveness under fairness is out of the prover's reach.
- The properties of ApplyService and SecureBootApply where the hypotheses fail,
  as far as the runs with restores and edits go.

## 6. What is not modelled

The layout of `limine.conf` and the wording of every report; the header of a
diff; option parsing and the listing commands.  The process runner and the file
system are wrappers whose failures the modules have as faults.  Of discovery,
the search for `limine.conf` below the boot mount and the parsing of `findmnt`,
`lsblk`, `blkid`, `cryptsetup`, `b2sum` and `btrfs` output; the machine record
holds what they tell.  Of validation, information and warnings.  Titles, comments
and the colours of themes are data.  White space other than a space, the forms
in which a UUID may be written, file modes, owners and symbolic links are not
told apart.  `contains` and `erase` of the command line are never called, and
`backup_service.cpp`'s `latest` only reads.  The filters on the source of a
request (`automation.cpp`) are abstracted to events that are relevant.

## 7. Plan

Done: the five components in the order apply, Secure Boot, rollback, refresh,
boot cycle; the abstract replacement and the refinement; the generation of the
menu with the pure modules; the theorems of section 5.  Next:

1. Proofs: `SecureAllOrNothing` and `WayBack` with restores among the invocations, as
   far as they hold.
2. The one-step `Switch` and `Install` of BootCycle, and the `ApplyPlan` of
   RefreshAutomation, related to the detailed modules with refinement mappings.
3. The discovery of `limine.conf`, so that `restore` and `apply` may be about
   different files.
