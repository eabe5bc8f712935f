----------------------------- MODULE MCGeneration -----------------------------
(***************************************************************************)
(* An Arch Linux machine and its variations, each in one or two respects;  *)
(* and, from the initial states, the samples of TextSamples.               *)
(***************************************************************************)
EXTENDS Generation, TextSamples

File(name) == [dir |-> NoText, name |-> name]
Nested(name) == [dir |-> "EFI/Linux", name |-> name]
Image(base) == <<"vmlinuz-">> \o base
All(files) == [f \in files |-> 1]

Names == <<<<"linux">>, <<"linux-lts">>, <<"linux-zen">>, <<"linux", ".efi">>>>
MCNameOrder == {<<Names[i], Names[j]>> : <<i, j>> \in {p \in (1..4) \X (1..4) : p[1] < p[2]}}

MCUuids == {"u1", "c1", "c2", "p1"}
MCNumberWords == <<"1", "2", "3">>

Linux == {File(Image(<<"linux">>)), File(Initramfs(<<"linux">>))}
Uki == {File(Image(<<"linux">>)), Nested(<<"arch-", "linux", ".efi">>)}

PlainRoot ==
  [source |-> <<"/dev/", "sda2">>, fstype |-> "btrfs", subvolume |-> <<"@">>,
   blockType |-> "part", uuid |-> "u1", luksUuid |-> NoText, partUuid |-> NoText,
   backing |-> NoPath, backingFound |-> TRUE]
CryptRoot ==
  [source |-> <<MapperDir, "root">>, fstype |-> "btrfs", subvolume |-> <<"@">>,
   blockType |-> "crypt", uuid |-> "u1", luksUuid |-> "c1", partUuid |-> "p1",
   backing |-> <<"/dev/", "sda2">>, backingFound |-> TRUE]

NoSecureBoot ==
  [enforced |-> FALSE, sbctl |-> TRUE, limine |-> TRUE, sbattach |-> TRUE,
   efi |-> "signed", hashing |-> TRUE]
SecureBoot == [NoSecureBoot EXCEPT !.enforced = TRUE]

Snapshot(n, readOnly) == [number |-> n, description |-> <<"d">>, readOnly |-> readOnly]

PlainMachine ==
  [files |-> All(Linux), modules |-> ("7.1" :> <<"linux">>), running |-> "7.1",
   microcode |-> "none", cmdline |-> <<>>, sdEncrypt |-> FALSE, root |-> PlainRoot,
   secureBoot |-> NoSecureBoot, bootMounted |-> TRUE, snapperOnRoot |-> TRUE,
   snapshots |-> <<Snapshot(1, TRUE)>>, accessible |-> {1, 2}, config |-> <<>>]
CryptMachine == [PlainMachine EXCEPT !.root = CryptRoot, !.secureBoot = SecureBoot]

Flags1 == <<Space, "rootflags", "=", "subvol", "=", "@">>
UuidRoot == <<"root", "=", "UUID", "=", "u1">>
Lines ==
  {<<>>, UuidRoot \o Flags1, UuidRoot, Flags1, <<Double>>,
   <<Double>> \o UuidRoot \o <<Double>> \o Flags1,
   <<"root", Space>> \o UuidRoot \o Flags1, <<"rootflags", Space>> \o UuidRoot \o Flags1,
   UuidRoot \o Flags1 \o <<Space, "rootflags">>,
   <<"x", "=", Backslash, Double, Space>> \o UuidRoot \o Flags1,
   <<"x", "=", Double, "a", Space, "b", Double, Space>> \o UuidRoot \o Flags1,
   UuidRoot \o Flags1 \o <<Space, "rootflags", "=", "degraded">>,
   UuidRoot \o Flags1 \o <<Space, "root", "=", "/dev/", "sdb1">>}
CryptLines ==
  {l \o <<Space>> \o r \o Flags1 :
     l \in {<<"cryptdevice", "=", "UUID", "=", "c1", ":", "root">>,
            <<"cryptdevice", "=", "UUID", "=", "c2", ":", "root">>,
            <<"cryptdevice", "=", "UUID", "=", "c1", ":", "other">>,
            <<"cryptdevice", "=", "PARTUUID", "=", "p1", ":", "root", ":", "allow-discards">>,
            <<"cryptdevice", "=", "/dev/", "sda2", ":", "root">>,
            <<"cryptdevice", "=", "c1">>, <<"cryptdevice", "=", "c1", ":", "root">>,
            <<"cryptdevice", "=", "UUID", "=", ":", "root">>,
            <<"rd.luks.name", "=", "other", "=", "root">>,
            <<"rd.luks.name", "=", "c1", "=", "root">>,
            <<"rd.luks.name", "=", "c1">>, <<"rd.luks.name", "=", "c2">>},
     r \in {UuidRoot, <<"root", "=", MapperDir, "root">>}}

Roots == {[CryptRoot EXCEPT !.backingFound = FALSE], [CryptRoot EXCEPT !.blockType = NoText],
          [CryptRoot EXCEPT !.blockType = "lvm", !.source = <<MapperDir, "vg-root">>],
          [CryptRoot EXCEPT !.source = <<"/dev/", "dm-0">>],
          [PlainRoot EXCEPT !.fstype = "ext4"], [PlainRoot EXCEPT !.subvolume = <<>>],
          [PlainRoot EXCEPT !.subvolume = <<"@", Backslash, "x20">>],
          [PlainRoot EXCEPT !.uuid = NoText], [PlainRoot EXCEPT !.source = <<"/dev/", "sdb2">>]}

Microcode == File(<<"amd-ucode.img">>)
Boots ==
  {{}, {File(Image(<<"linux">>))}, Uki,
   Uki \cup {File(Initramfs(<<"linux">>))}, Uki \cup {File(<<"linux", ".efi">>)},
   {File(Image(<<"linux">>)), File(Image(<<"linux", ".efi">>))},
   Linux \cup {Microcode}, Linux \cup {Nested(Initramfs(<<"linux">>))},
   Linux \cup {File(Image(<<"linux-lts">>)), File(Initramfs(<<"linux-lts">>))},
   Linux \cup {File(Image(<<"linux-lts">>))},
   {File(Image(<<"linux-lts">>)), File(Initramfs(<<"linux-lts">>)),
    File(Image(<<"linux-zen">>)), File(Initramfs(<<"linux-zen">>))},
   {File(Image(<<"linux-lts">>)), Nested(Image(<<"linux-lts">>)), File(Initramfs(<<"linux-lts">>))}}
Contents ==
  {All(b) : b \in Boots} \cup {[f \in Linux |-> IF f.name = Initramfs(<<"linux">>) THEN 2 ELSE 1]}
Modules ==
  {<<>>, ("7.1" :> <<"linux">>) @@ ("6.6" :> <<"linux-lts">>),
   ("7.1" :> <<"linux">>) @@ ("7.0" :> <<"linux">>)}

SecureBoots ==
  {SecureBoot, [SecureBoot EXCEPT !.sbctl = FALSE], [SecureBoot EXCEPT !.limine = FALSE],
   [SecureBoot EXCEPT !.sbattach = FALSE], [SecureBoot EXCEPT !.efi = "none"],
   [SecureBoot EXCEPT !.efi = "unsigned"], [SecureBoot EXCEPT !.efi = "unknown"],
   [SecureBoot EXCEPT !.hashing = FALSE]}

Snapshots == {<<>>, <<Snapshot(1, TRUE), Snapshot(2, FALSE)>>,
              <<Snapshot(1, TRUE), Snapshot(2, TRUE)>>, <<Snapshot(3, TRUE)>>,
              <<[Snapshot(1, TRUE) EXCEPT !.description = <<"a", Newline, "b">>]>>}

Configs ==
  {<<Section("Kernels"), Pair("order", <<"linux-lts", ",", "linux">>)>>,
   <<Section("kernels"), Pair("include", <<"linux">>)>>,
   <<Section("kernels"), Pair("exclude", <<"linux", ",">>)>>,
   <<Section("snapper"), Pair("max_snapshots", <<"1">>)>>,
   <<Section("snapper"), Pair("include_read_write", <<"Yes">>)>>,
   <<Section("snapper"), Pair("snapshots_subvolume", <<"@other">>)>>,
   <<Section("secure_boot"), Pair("protect_config", <<"no">>)>>,
   <<Section("theme"), Pair("name", <<"Nord">>)>>,
   <<Pair("retain", <<"5">>)>>}

MCMachines ==
  {PlainMachine, CryptMachine}
  \cup {[PlainMachine EXCEPT !.cmdline = l] : l \in Lines}
  \cup {[CryptMachine EXCEPT !.cmdline = l] : l \in CryptLines}
  \cup {[PlainMachine EXCEPT !.root = r] : r \in Roots}
  \cup {[CryptMachine EXCEPT !.root = r, !.sdEncrypt = sd] : r \in Roots \cup {CryptRoot}, sd \in BOOLEAN}
  \cup {[mc EXCEPT !.files = f, !.microcode = "amd-ucode.img"] :
          mc \in {PlainMachine, CryptMachine}, f \in Contents}
  \cup {[PlainMachine EXCEPT !.files = All(Linux \cup {File(Image(<<"linux-lts">>)),
                                                     File(Initramfs(<<"linux-lts">>))}),
                             !.modules = d, !.running = r, !.config = c] :
          d \in Modules, r \in {"7.1", "6.6"}, c \in {<<>>} \cup Configs}
  \cup {[CryptMachine EXCEPT !.secureBoot = sb] : sb \in SecureBoots}
  \cup {[CryptMachine EXCEPT !.snapshots = s, !.accessible = a] :
          s \in Snapshots, a \in {{1}, {1, 2, 3}}}
  \cup {[CryptMachine EXCEPT !.config = c] : c \in Configs}
  \cup {[PlainMachine EXCEPT !.bootMounted = FALSE], [PlainMachine EXCEPT !.snapperOnRoot = FALSE]}

-----------------------------------------------------------------------------
MCArguments == SeqOf({"a", Space, Single, Double, Backslash}, 2) \ {<<>>}

MCDescriptions == SeqOf({"a", Comma, QuoteMark, Newline, CarriageReturn}, 2)

MCConfigFiles ==
  {<<Section("system"), Pair("mkinitcpio_config", <<"/etc/other">>)>> \o lines :
     lines \in Configs \cup
       {<<[is |-> "other", key |-> "", value |-> <<>>]>>, <<Section("")>>, <<Pair("", <<>>)>>,
        <<Section("theme"), Pair("name", <<"tokyo_night">>)>>,
        <<Section("theme"), Pair("name", <<"solarized">>)>>,
        <<Section("kernels"), Pair("include", <<"linux", ",", ",", "linux-lts">>),
          Pair("order", <<"linux-lts", ",", "linux">>)>>,
        <<Section("kernels"), Pair("include", <<"linux">>), Pair("exclude", <<"linux">>)>>,
        <<Section("kernels"), Pair("exclude", <<",">>), Pair("exclude", <<>>)>>,
        <<Section("snapper"), Pair("max_snapshots", <<"-1">>)>>,
        <<Section("automation"), Pair("debounce_seconds", <<"3601">>)>>,
        <<Section("automation"), Pair("debounce_seconds", <<"01">>), Pair("enabled", <<"2">>)>>,
        <<Section("limine"), Pair("timeout", <<"3">>),
          [is |-> "skipped", key |-> "", value |-> <<>>], Pair("quiet", <<"Yes">>)>>,
        <<Section("secure_boot"), Pair("efi_executable", <<"auto">>),
          Pair("automatic_apply", <<"1">>)>>,
        <<Section("secure_boot"), Pair("efi_executable", <<"/boot/x.efi">>)>>,
        <<Section("menu"), Pair("root_title", <<>>)>>,
        <<Section("menu"), Pair("nothing", <<>>)>>,
        <<Section("manager"), Pair("schema_version", <<"2">>)>>}}

-----------------------------------------------------------------------------
MCInit == Init /\ TextInit

MCNext ==
  \/ sample = NoSample /\ Next /\ UNCHANGED sample
  \/ /\ runs = 0 /\ changes = 0 /\ installed = OtherMenu /\ machine = PlainMachine
     /\ TextNext
     /\ UNCHANGED vars

MCSpec == MCInit /\ [][MCNext]_<<vars, sample>>

=============================================================================
