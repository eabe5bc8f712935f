--------------------------- MODULE ValidationService ---------------------------
(***************************************************************************)
(* application::ValidationService: the errors it reports about what was    *)
(* detected, by their codes.  Information and warnings stop nothing, and   *)
(* are left out.  `system` is what SystemDetector found, `m` the machine   *)
(* as it is when its files are looked at again.                            *)
(***************************************************************************)
EXTENDS SystemDetector

CONSTANT Uuids   \* the words of hexadecimal digits and dashes

ASSUME UuidsAssumption ==
  Uuids \subseteq STRING \ {NoText, "=", ":", Space, Single, Double, Backslash}

ReportIf(condition, code) == IF condition THEN {code} ELSE {}

(* Faulty: No hash is asked for. *)
SecureBootErrors_NoHashes(system, protect) ==
  IF ~system.secureBoot.enforced THEN {}
  ELSE ReportIf(~protect, "secure_boot.protection_disabled")
       \cup ReportIf(system.secureBoot.efi = "none", "secure_boot.efi")

SecureBootErrors(system, protect) ==
  LET sb == system.secureBoot
      missing(f) == f \notin DOMAIN system.hashes \/ system.hashes[f] = NoHash
  IN  IF ~sb.enforced THEN {}
      ELSE ReportIf(~protect, "secure_boot.protection_disabled")
           \cup ReportIf(~sb.sbctl, "secure_boot.sbctl")
           \cup ReportIf(~sb.limine, "secure_boot.limine")
           \cup ReportIf(~sb.sbattach, "secure_boot.sbattach")
           \cup ReportIf(sb.efi = "none", "secure_boot.efi")
           \cup ReportIf(sb.efi = "unsigned", "secure_boot.signature")
           \cup ReportIf(\E i \in DOMAIN system.kernels :
                           \E f \in Hashed(system.kernels[i]) : missing(f), "secure_boot.hash")

(* The kernels, one by one: all that were discovered, not only those that   *)
(* the settings show.                                                       *)
KernelErrors(system, m) ==
  LET errors(k) ==
        ReportIf(k.image \notin DOMAIN m.files, "kernel.image")
        \cup IF k.uki THEN {}
             ELSE ReportIf(k.initrds = <<>>, "kernel.initrd")
                  \cup ReportIf(~(ToSet(k.initrds) \subseteq DOMAIN m.files), "kernel.module")
                  \cup ReportIf(\A f \in ToSet(k.initrds) : f.name # Initramfs(k.base),
                                "kernel.initramfs")
  IN  ReportIf(system.kernels = <<>>, "kernel.discovery")
      \cup UNION {errors(system.kernels[i]) : i \in DOMAIN system.kernels}

(* root= is the source of the mount or the UUID of its file system, in the  *)
(* first argument that has a value.                                         *)
RootErrors(system) ==
  LET root == system.root
  IN  ReportIf(/\ Value(system.cmdline, "root") # root.source
               /\ \/ root.uuid = NoText
                  \/ Value(system.cmdline, "root") # <<"UUID", "=", root.uuid>>, "kernel.root")

(* A value before and after the first of a separator; all of it and nothing *)
(* if it has none.                                                          *)
UpTo(value, separator) ==
  LET place == SelectInSeq(value, LAMBDA ch : ch = separator)
  IN  IF place = 0 THEN value ELSE SubSeq(value, 1, place - 1)

Beyond(value, separator) ==
  LET place == SelectInSeq(value, LAMBDA ch : ch = separator)
  IN  IF place = 0 THEN <<>> ELSE SubSeq(value, place + 1, Len(value))

(* parse_device_reference: an identifier of a known kind that is not empty, *)
(* or a path below /dev/, which begins with one of two words.               *)
IsDeviceReference(source) ==
  \/ Len(source) > 2 /\ source[1] \in {"UUID", "PARTUUID"} /\ source[2] = "="
  \/ source # <<>> /\ source[1] \in {"/dev/", MapperDir}

(* parse_cryptdevice: <device>:<mapper>, and what may follow. *)
CryptdeviceSource(value) == UpTo(value, ":")
CryptdeviceMapper(value) == UpTo(Beyond(value, ":"), ":")

IsCryptdevice(value) ==
  IsDeviceReference(CryptdeviceSource(value)) /\ CryptdeviceMapper(value) # <<>>

(* valid_uuid. *)
IsUuid(text) == text # <<>> /\ ToSet(text) \subseteq Uuids

(* The device that the root is mapped from: by its UUID, that of its        *)
(* partition, or its path.                                                  *)
IsBacking(source, root) ==
  \/ root.luksUuid # NoText /\ source = <<"UUID", "=", root.luksUuid>>
  \/ root.partUuid # NoText /\ source = <<"PARTUUID", "=", root.partUuid>>
  \/ root.backing # NoPath /\ source = root.backing

(* mapping_identifies_root, for cryptdevice= and for the <uuid>=<mapper> or *)
(* <uuid> of rd.luks.name=: the name of the mapper alone is enough, if what  *)
(* precedes it is well-formed.                                              *)
MappedByCryptdevice(value, root) ==
  /\ IsCryptdevice(value)
  /\ \/ CryptdeviceMapper(value) = <<root.source[2]>>
     \/ IsBacking(CryptdeviceSource(value), root)

MappedByName(value, root) ==
  /\ IsUuid(UpTo(value, "="))
  /\ \/ Beyond(value, "=") = <<root.source[2]>>
     \/ root.luksUuid # NoText /\ UpTo(value, "=") = <<root.luksUuid>>

EncryptionErrors(system) ==
  ReportIf(/\ system.encrypted
           /\ \A v \in Values(system.cmdline, "cryptdevice") :
                ~MappedByCryptdevice(v, system.root)
           /\ \A v \in Values(system.cmdline, "rd.luks.name") :
                ~MappedByName(v, system.root), "kernel.encryption")

RootflagsErrors(system) ==
  ReportIf(Value(system.cmdline, "rootflags") # <<"subvol", "=">> \o system.root.subvolume,
           "kernel.rootflags")

(* The snapshots of the menu have a directory each. *)
SnapshotErrors(shown, m) ==
  ReportIf(\E i \in DOMAIN shown : shown[i].number \notin m.accessible, "snapshot.path")

(* validate; `installed` tells whether limine.conf is there. *)
Validate(system, snapperOnRoot, shown, protect, m, installed) ==
  SecureBootErrors(system, protect)
  \cup ReportIf(system.root.fstype # "btrfs", "root.filesystem")
  \cup ReportIf(system.root.subvolume = <<>>, "root.subvolume")
  \cup ReportIf(~system.bootMounted, "boot.mount")
  \cup ReportIf(~installed, "limine.config")
  \cup ReportIf(~system.generated /\ m.cmdline = <<>>, "kernel.cmdline_file")
  \cup ReportIf(system.cmdline = <<>>, "kernel.cmdline")
  \cup KernelErrors(system, m)
  \cup RootErrors(system) \cup EncryptionErrors(system) \cup RootflagsErrors(system)
  \cup ReportIf(~snapperOnRoot, "snapper.subvolume")
  \cup SnapshotErrors(shown, m)

=============================================================================
