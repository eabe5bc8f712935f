----------------------------- MODULE ConfigLoader -----------------------------
(***************************************************************************)
(* config::ConfigLoader: the configuration file, its defaults and checks,  *)
(* and the text that `show-config` prints of what is in force.             *)
(*                                                                         *)
(* A file is a sequence of trimmed lines: a section header, a pair of a    *)
(* key and a value, one that is skipped (empty or a comment) or any other. *)
(* A value is a sequence of words, a comma being one of them.  A           *)
(* configuration is a function from <<section, key>> to the value in force.*)
(***************************************************************************)
EXTENDS Integers, Sequences, SequencesExt, Scanning

ConfigLines == [is : {"section", "pair", "skipped", "other"}, key : STRING, value : Seq(STRING)]

Wrapped == 1000000   \* stands for 2^64 - 1, which stoull makes of "-1"

(* The numbers that occur in a file, and the word each is printed as. *)
Numerals ==
  [word \in {"0", "1", "01", "2", "3", "5", "3600", "3601", "-1", "18446744073709551615"} |->
     CASE word = "0" -> 0 [] word \in {"1", "01"} -> 1 [] word = "2" -> 2 [] word = "3" -> 3
       [] word = "5" -> 5 [] word = "3600" -> 3600 [] word = "3601" -> 3601 [] OTHER -> Wrapped]
Printed == DOMAIN Numerals \ {"01", "-1"}

(* lower, for the words that occur in capitals. *)
Lower(word) ==
  CASE word = "Yes" -> "yes" [] word = "Nord" -> "nord" [] word = "Kernels" -> "kernels"
    [] OTHER -> word

(* normalize of find_theme, for the names of themes. *)
Normalize(word) == IF Lower(word) = "tokyo_night" THEN "tokyo-night" ELSE Lower(word)

(* The presets; their colours are data. *)
Themes == {"none", "tokyo-night", "catppuccin", "nord", "dracula", "gruvbox"}

(* The keys that assign knows, by the function that reads their value. *)
Texts == {<<"system", k>> : k \in {"boot_mount", "limine_config", "kernel_cmdline_file",
                                   "modules_root", "cpuinfo", "mkinitcpio_config"}}
         \cup {<<"snapper", k>> : k \in {"config", "snapshots_subvolume", "snapshots_directory"}}
         \cup {<<"menu", k>> : k \in {"root_title", "snapshots_title"}}
         \cup {<<"automation", "runtime_directory">>, <<"secure_boot", "efi_executable">>,
               <<"theme", "name">>}
Sizes == {<<"manager", "schema_version">>, <<"snapper", "max_snapshots">>,
          <<"backups", "retain">>, <<"automation", "debounce_seconds">>}
Flags == {<<"snapper", "include_read_write">>, <<"menu", "root_expanded">>,
          <<"menu", "snapshots_expanded">>, <<"automation", "enabled">>,
          <<"automation", "snapper">>, <<"automation", "pacman">>,
          <<"secure_boot", "protect_config">>, <<"secure_boot", "automatic_apply">>}
Lists == {<<"kernels", "include">>, <<"kernels", "exclude">>, <<"kernels", "order">>}

Keys == Texts \cup Sizes \cup Flags \cup Lists

Default(key) ==
  CASE key = <<"manager", "schema_version">>                 -> 1
    [] key = <<"snapper", "max_snapshots">>                  -> 0
    [] key = <<"backups", "retain">>                         -> 5
    [] key = <<"automation", "debounce_seconds">>            -> 3
    [] key \in {<<"snapper", "include_read_write">>, <<"menu", "snapshots_expanded">>,
                <<"secure_boot", "automatic_apply">>}        -> FALSE
    [] key \in Flags \ {<<"snapper", "include_read_write">>, <<"menu", "snapshots_expanded">>,
                        <<"secure_boot", "automatic_apply">>} -> TRUE
    [] key \in Lists                                         -> <<>>
    [] key = <<"theme", "name">>                             -> <<"none">>
    [] key = <<"secure_boot", "efi_executable">>             -> <<>>
    [] OTHER                                                 -> <<"default">>

Options ==
  [key \in {<<"limine", "remember_last_entry">>, <<"limine", "timeout">>} |->
     IF key[2] = "timeout" THEN <<"5">> ELSE <<"yes">>]

AppConfig ==
  [key \in Keys \cup DOMAIN Options |-> IF key \in Keys THEN Default(key) ELSE Options[key]]

-----------------------------------------------------------------------------
Separator == ","

(* parse_list: the items between the commas that are not empty; an item is  *)
(* one word.                                                                *)
ParseList(value) == Filtered(value, {word \in ToSet(value) : word # Separator})

(* Whether assign can read a value, and what it reads. *)
Readable(key, value) ==
  CASE key \in Flags -> Len(value) = 1 /\ Lower(value[1]) \in {"true", "yes", "1", "false", "no", "0"}
    [] key \in Sizes -> Len(value) = 1 /\ value[1] \in DOMAIN Numerals
    [] OTHER         -> TRUE

Read(key, value) ==
  CASE key \in Flags -> Lower(value[1]) \in {"true", "yes", "1"}
    [] key \in Sizes -> Numerals[value[1]]
    [] key \in Lists -> ParseList(value)
    [] key = <<"theme", "name">> -> [i \in DOMAIN value |-> Lower(value[i])]
    [] key = <<"secure_boot", "efi_executable">> -> IF value = <<"auto">> THEN <<>> ELSE value
    [] OTHER         -> value

(* The configuration with that value for the key. *)
Assign(config, key, value) ==
  [k \in DOMAIN config \cup {key} |-> IF k = key THEN value ELSE config[k]]

(* One line of the file; the first error ends it. *)
ReadLine(state, line) ==
  LET key == <<state.section, Lower(line.key)>>
      failed == [state EXCEPT !.failed = TRUE]
  IN  CASE state.failed \/ line.is = "skipped"                -> state
        [] ~state.failed /\ line.is \in {"section", "pair"} /\ line.key = "" -> failed
        [] ~state.failed /\ line.is = "other"                  -> failed
        [] ~state.failed /\ line.is = "section" /\ line.key # "" ->
             [state EXCEPT !.section = Lower(line.key)]
        [] ~state.failed /\ line.is = "pair" /\ line.key # "" ->
             IF (key \in Keys \/ state.section = "limine") /\ Readable(key, line.value)
             THEN [state EXCEPT !.config = Assign(@, key, Read(key, line.value))]
             ELSE failed

(* validate_config. *)
Consistent(config) ==
  /\ config[<<"manager", "schema_version">>] = 1
  /\ \A key \in {<<"system", "boot_mount">>, <<"system", "limine_config">>, <<"snapper", "config">>,
                 <<"snapper", "snapshots_subvolume">>, <<"snapper", "snapshots_directory">>,
                 <<"menu", "root_title">>, <<"menu", "snapshots_title">>,
                 <<"automation", "runtime_directory">>} : config[key] # <<>>
  /\ Len(config[<<"theme", "name">>]) = 1
  /\ Normalize(config[<<"theme", "name">>][1]) \in Themes
  /\ config[<<"automation", "debounce_seconds">>] <= 3600
  /\ ToSet(config[<<"kernels", "include">>]) \cap ToSet(config[<<"kernels", "exclude">>]) = {}

(* load, of a file that exists: `failed` tells an exception. *)
Load(lines) ==
  LET end == Scan(ReadLine, [section |-> "", config |-> AppConfig, failed |-> FALSE], lines)
  IN  [end EXCEPT !.failed = @ \/ ~Consistent(end.config)]

-----------------------------------------------------------------------------
Section(name) == [is |-> "section", key |-> name, value |-> <<>>]
Pair(key, value) == [is |-> "pair", key |-> key, value |-> value]

Joined(items) ==
  Scan(LAMBDA text, item : IF text = <<>> THEN <<item>> ELSE text \o <<Separator, item>>, <<>>, items)

(* The text of a value. *)
Show(config, key) ==
  CASE key \in Flags -> IF config[key] THEN <<"true">> ELSE <<"false">>
    [] key \in Sizes -> <<CHOOSE word \in Printed : Numerals[word] = config[key]>>
    [] key \in Lists -> Joined(config[key])
    [] key = <<"secure_boot", "efi_executable">> ->
         IF config[key] = <<>> THEN <<"auto">> ELSE config[key]
    [] OTHER         -> config[key]

(* The sections in the order in which they are printed, with their keys:    *)
(* all but system.mkinitcpio_config.                                        *)
Layout ==
  << <<"manager", <<"schema_version">>>>,
     <<"system", <<"boot_mount", "limine_config", "kernel_cmdline_file", "modules_root", "cpuinfo">>>>,
     <<"snapper", <<"config", "snapshots_subvolume", "snapshots_directory", "max_snapshots",
                    "include_read_write">>>>,
     <<"backups", <<"retain">>>>,
     <<"menu", <<"root_title", "snapshots_title", "root_expanded", "snapshots_expanded">>>>,
     <<"kernels", <<"include", "exclude", "order">>>>,
     <<"theme", <<"name">>>>,
     <<"automation", <<"enabled", "snapper", "pacman", "debounce_seconds", "runtime_directory">>>>,
     <<"secure_boot", <<"protect_config", "automatic_apply", "efi_executable">>>> >>

(* The options of Limine; their order tells nothing. *)
LimineOptions(config) == SetToSeq({key[2] : key \in {k \in DOMAIN config : k[1] = "limine"}})

(* Faulty: The options of Limine are left out as well. *)
Parts_NoOptions(config) == Layout

Parts(config) == Layout \o <<<<"limine", LimineOptions(config)>>>>

(* A section, as it is printed. *)
PrintPart(config, part) ==
  <<Section(part[1])>>
  \o [i \in DOMAIN part[2] |-> Pair(part[2][i], Show(config, <<part[1], part[2][i]>>))]

(* render. *)
Render(config) ==
  Scan(LAMBDA text, part : text \o PrintPart(config, part), <<>>, Parts(config))

=============================================================================
