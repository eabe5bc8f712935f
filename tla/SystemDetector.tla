---------------------------- MODULE SystemDetector ----------------------------
(***************************************************************************)
(* infrastructure::SystemDetector and KernelDiscovery: what a command finds*)
(* out about a machine before it generates a menu.                         *)
(*                                                                         *)
(* A machine is a record:                                                  *)
(*   files      the files in /boot, a function to what they hold; a file   *)
(*              is a directory and a name, a name a sequence of words      *)
(*   modules    /usr/lib/modules: a function from releases to pkgbase      *)
(*   running    the release that runs                                      *)
(*   microcode  the microcode file of the processor, "none" for others     *)
(*   cmdline    the text of /etc/kernel/cmdline, <<>> if there is no file  *)
(*   sdEncrypt  mkinitcpio.conf names the sd-encrypt hook                  *)
(*   root       what is mounted on /: its source, file system, subvolume,  *)
(*              block type and the identifiers of the devices under it     *)
(*   secureBoot what the firmware enforces and what tools there are        *)
(*   bootMounted, snapperOnRoot, snapshots, accessible, config: see        *)
(*              ValidationService and Generation                           *)
(***************************************************************************)
EXTENDS KernelCommandLine, FiniteSets, FiniteSetsExt

CONSTANT NameOrder   \* <<a, b>> for names a that sort before b, byte by byte

ASSUME NameOrderAssumption ==
  \A p, q \in NameOrder : p[1] # p[2] /\ (p[2] = q[1] => <<p[1], q[2]>> \in NameOrder)

NoText == ""

(* An element, put before the first that it precedes; `before` holds the    *)
(* pairs in which the one precedes the other.                               *)
Insert(before, sorted, e) ==
  LET after == {i \in DOMAIN sorted : <<e, sorted[i]>> \in before}
      place == IF after = {} THEN Len(sorted) + 1 ELSE Min(after)
  IN  SubSeq(sorted, 1, place - 1) \o <<e>> \o SubSeq(sorted, place, Len(sorted))

(* A sort that keeps the order of equals. *)
SortBy(seq, before) == Scan(LAMBDA sorted, e : Insert(before, sorted, e), <<>>, seq)

-----------------------------------------------------------------------------
(* KernelDiscovery.  `listing` holds the files of /boot in the order in     *)
(* which the directories were read, `modules` those of /usr/lib/modules.    *)

(* named_files: for one name, the path in a subdirectory sorts first. *)
NamedFiles(listing, name) ==
  LET named == {f \in ToSet(listing) : f.name = name}
      top == {f \in named : f.dir = NoText}
  IN  Filtered(listing, named \ top) \o Filtered(listing, top)

FindUki(listing, base) ==
  LET named(name) == Filtered(listing, {f \in ToSet(listing) : f.name = name})
  IN  (named(<<"arch-">> \o base \o <<".efi">>) \o named(base \o <<".efi">>))
      \o named(<<"vmlinuz-">> \o base \o <<".efi">>)

(* The release of a package: the last directory that names it. *)
ReleaseOf(m, modules, base) ==
  LET found == Filtered(modules, {r \in ToSet(modules) : m.modules[r] = base})
  IN  IF found = <<>> THEN NoText ELSE found[Len(found)]

Microcodes(m, listing) ==
  IF m.microcode = "none" THEN <<>> ELSE NamedFiles(listing, <<m.microcode>>)

Initramfs(base) == <<"initramfs-">> \o base \o <<".img">>

(* Faulty: A unified image keeps the microcode. *)
Installation_KeepsMicrocode(m, listing, modules, image) ==
  LET base == Tail(image.name)
      ukis == FindUki(listing, base)
  IN  [base |-> base, release |-> ReleaseOf(m, modules, base), running |-> FALSE,
       image |-> IF ukis = <<>> THEN image ELSE ukis[1], uki |-> ukis # <<>>,
       initrds |-> Microcodes(m, listing) \o NamedFiles(listing, Initramfs(base))]

(* A kernel: with its own initramfs after the microcode, or else as a       *)
(* unified image, which holds both.                                         *)
Installation(m, listing, modules, image) ==
  LET base == Tail(image.name)
      initramfs == NamedFiles(listing, Initramfs(base))
      ukis == FindUki(listing, base)
      release == ReleaseOf(m, modules, base)
      found == [base |-> base, release |-> release, image |-> image, uki |-> FALSE,
                initrds |-> Microcodes(m, listing),
                running |-> release # NoText /\ release = m.running]
  IN  CASE initramfs # <<>> -> [found EXCEPT !.initrds = Append(@, initramfs[1])]
        [] initramfs = <<>> /\ ukis # <<>> ->
             [found EXCEPT !.image = ukis[1], !.initrds = <<>>, !.uki = TRUE]
        [] OTHER -> found

(* Faulty: Names are not compared. *)
NamePrecedes_Never(a, b) == FALSE

NamePrecedes(a, b) == <<a, b>> \in NameOrder

KernelPrecedes(k, l) ==
  CASE k.running # l.running -> k.running
    [] k.running = l.running /\ <<"linux">> \in {k.base, l.base} -> k.base = <<"linux">>
    [] OTHER -> NamePrecedes(k.base, l.base)

(* A file that is taken for a kernel. *)
IsImage(f) == Len(f.name) > 1 /\ f.name[1] = "vmlinuz-"

(* KernelDiscovery::discover. *)
DiscoverKernels(m, listing, modules) ==
  LET images == Filtered(listing, {f \in ToSet(listing) : IsImage(f)})
      kernels == [i \in DOMAIN images |-> Installation(m, listing, modules, images[i])]
  IN  SortBy(kernels, {p \in ToSet(kernels) \X ToSet(kernels) : KernelPrecedes(p[1], p[2])})

-----------------------------------------------------------------------------
(* detect_secure_boot.  Only what sbctl reports counts as Secure Boot. *)
SecureBootDetected(m) == m.secureBoot.sbctl /\ m.secureBoot.enforced

(* The files of a kernel that are hashed. *)
Hashed(kernel) == (IF kernel.uki THEN {} ELSE {kernel.image}) \cup ToSet(kernel.initrds)

NoHash == 0

ResourceHashes(m, kernels) ==
  IF ~SecureBootDetected(m) THEN <<>>
  ELSE [f \in UNION {Hashed(kernels[i]) : i \in DOMAIN kernels} |->
          IF m.secureBoot.hashing THEN m.files[f] ELSE NoHash]

-----------------------------------------------------------------------------
(* The root device.  A path is a directory and a name. *)
MapperDir == "/dev/mapper/"
NoPath == <<>>

Encrypted(root) ==
  IF root.blockType = NoText THEN root.source[1] = MapperDir ELSE root.blockType = "crypt"

(* The identifiers of the device under the root are asked for when the root *)
(* is a dm-crypt mapping, and need that device to be found.                 *)
RootInfo(root) ==
  IF Encrypted(root) /\ root.backingFound THEN root
  ELSE [root EXCEPT !.luksUuid = NoText, !.partUuid = NoText, !.backing = NoPath]

(* Faulty: cryptdevice= names the container without the UUID= before it. *)
GenerateCmdline_Bare(m) ==
  LET root == RootInfo(m.root)
  IN  (IF Encrypted(root)
       THEN <<"cryptdevice", "=", root.luksUuid, ":", root.source[2], Space,
              "root", "=", MapperDir, root.source[2]>>
       ELSE <<"root", "=", "UUID", "=", root.uuid>>)
      \o <<Space, "rootflags", "=", "subvol", "=">> \o root.subvolume \o <<Space, "rw">>

(* generate_cmdline. *)
GenerateCmdline(m) ==
  LET root == RootInfo(m.root)
      mapper == root.source[2]
      device ==
        CASE Encrypted(root) /\ m.sdEncrypt ->
               <<"rd.luks.name", "=", root.luksUuid, "=", mapper, Space,
                 "root", "=", MapperDir, mapper>>
          [] Encrypted(root) /\ ~m.sdEncrypt ->
               <<"cryptdevice", "=", "UUID", "=", root.luksUuid, ":", mapper, Space,
                 "root", "=", MapperDir, mapper>>
          [] OTHER -> <<"root", "=", "UUID", "=", root.uuid>>
      subvolume == IF root.subvolume = <<>> THEN <<>>
                   ELSE <<Space, "rootflags", "=", "subvol", "=">> \o root.subvolume
  IN  device \o subvolume \o <<Space, "rw">>

CanGenerate(root) ==
  IF Encrypted(root) THEN RootInfo(root).luksUuid # NoText ELSE root.uuid # NoText

(* SystemDetector::detect; `failed` tells an exception. *)
DetectSystem(m, listing, modules) ==
  LET kernels == DiscoverKernels(m, listing, modules)
      generated == m.cmdline = <<>>
      line == ParseText(IF generated THEN GenerateCmdline(m) ELSE m.cmdline)
  IN  [failed     |-> (generated /\ ~CanGenerate(m.root)) \/ line = Malformed,
       kernels    |-> kernels,
       hashes     |-> ResourceHashes(m, kernels),
       secureBoot |-> [m.secureBoot EXCEPT !.enforced = SecureBootDetected(m)],
       root       |-> RootInfo(m.root),
       encrypted  |-> Encrypted(m.root),
       bootMounted |-> m.bootMounted,
       cmdline    |-> line,
       generated  |-> generated]

=============================================================================
