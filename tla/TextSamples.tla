----------------------------- MODULE TextSamples ------------------------------
(***************************************************************************)
(* What the program reads and prints, one sample at a time: kernel command *)
(* lines, configuration files, the output of snapper, and the diff of two  *)
(* texts.  Each step hands a sample of bounded length to one of them; the  *)
(* properties compare the result with what was given.                      *)
(***************************************************************************)
EXTENDS KernelCommandLine, ConfigLoader, SnapperClient, UnifiedDiff, Scanning, FiniteSets

CONSTANTS
  Arguments,      \* arguments of sample command lines
  ConfigFiles,    \* sample configuration files
  Descriptions,   \* descriptions of sample snapshots
  DiffLines,      \* lines of sample texts
  MaxArguments,   \* bound: the number of arguments of a line
  MaxSnapshots,   \* bound: the number of snapshots that are listed
  MaxDiffLines    \* bound: the number of lines of a text

VARIABLE sample   \* what is looked at, and what it is given

ASSUME SampleAssumption ==
  MaxArguments \in Nat /\ MaxDiffLines \in Nat /\ MaxSnapshots \in 0..Len(NumberWords)

(* parse gives no empty argument. *)
ASSUME ArgumentsAssumption == \A a \in Arguments : a # <<>> /\ a \in Seq(ToSet(a))

(* A file is a sequence of lines. *)
ASSUME FilesAssumption == \A file \in ConfigFiles : file \in Seq(ConfigLines)

(* A description is a sequence of characters. *)
ASSUME DescriptionsAssumption == \A d \in Descriptions : d \in Seq(ToSet(d))

NoSample == [of |-> "nothing"]

TextInit == sample = NoSample

RenderLine ==
  \E n \in 0..MaxArguments : \E arguments \in [1..n -> Arguments] :
    sample' = [of |-> "line", arguments |-> arguments]

ShowConfig == \E file \in ConfigFiles : sample' = [of |-> "config", file |-> file]

ListSnapper ==
  \E n \in 0..MaxSnapshots : \E given \in [1..n -> Descriptions \X BOOLEAN] :
    sample' = [of |-> "snapshots",
               list |-> [i \in 1..n |-> [number |-> i, description |-> given[i][1],
                                         readOnly |-> given[i][2]]]]

ShowDiff ==
  \E before, after \in SeqOf(DiffLines, MaxDiffLines) :
    sample' = [of |-> "diff", before |-> before, after |-> after]

TextNext == sample = NoSample /\ (RenderLine \/ ShowConfig \/ ListSnapper \/ ShowDiff)

TextSpec == TextInit /\ [][TextNext]_sample

-----------------------------------------------------------------------------
(* The arguments of a parsed line come back from the text that is rendered   *)
(* of them, spaces, quotes and backslashes in them included; a single quote  *)
(* is the exception, because render does not quote it.  The kernel reads     *)
(* the same arguments unless they hold a double quote or a backslash: it     *)
(* knows no escapes.                                                         *)
RenderedLineIsRead ==
  sample.of = "line" =>
    LET characters == UNION {ToSet(sample.arguments[i]) : i \in DOMAIN sample.arguments}
        text == RenderArguments(sample.arguments)
    IN  /\ Single \notin characters => ParseText(text) = sample.arguments
        /\ characters \cap {Double, Backslash} = {} => KernelReads(text) = sample.arguments

(* The configuration that `show-config` prints is the one in force: copied   *)
(* into a file it loads, as the same configuration.  The exception is        *)
(* system.mkinitcpio_config, which is not printed.                           *)
ShownConfigLoads ==
  sample.of = "config" =>
    LET inForce == Load(sample.file)
        again == Load(Render(inForce.config))
        hidden == <<"system", "mkinitcpio_config">>
    IN  ~inForce.failed =>
          /\ ~again.failed
          /\ again.config = [inForce.config EXCEPT ![hidden] = Default(hidden)]

(* Every snapshot is read as snapper has it: no comma or quote in a          *)
(* description moves the columns after it, so that no writable snapshot is   *)
(* taken for a read-only one, and none is lost.  A newline in a description  *)
(* is the exception: it ends the row, and with it the command.               *)
SnapshotsAreRead ==
  sample.of = "snapshots" =>
    LET result == List(SnapperPrints(sample.list))
    IN  IF \E i \in DOMAIN sample.list : Contains(sample.list[i].description, Newline)
        THEN result.failed
        ELSE result = [list |-> sample.list, failed |-> FALSE]

(* The lines of a diff with one of those signs. *)
LinesOf(diff, signs) ==
  Scan(LAMBDA lines, line : IF line[1] \in signs THEN Append(lines, line[2]) ELSE lines,
       <<>>, diff)

(* s is t without some of its lines. *)
IsSubsequence(s, t) ==
  \E place \in [1..Len(s) -> 1..Len(t)] :
    /\ \A i, k \in 1..Len(s) : i < k => place[i] < place[k]
    /\ \A i \in 1..Len(s) : t[place[i]] = s[i]

(* What the administrator reads before an apply is exact: without the added  *)
(* lines it is the installed file, without the removed ones the generated    *)
(* menu, and no diff that keeps more lines exists.                           *)
DiffIsExact ==
  sample.of = "diff" =>
    LET diff == Diff(sample.before, sample.after)
        kept == LinesOf(diff, {" "})
    IN  /\ LinesOf(diff, {" ", "-"}) = sample.before
        /\ LinesOf(diff, {" ", "+"}) = sample.after
        /\ \A s \in SeqOf(DiffLines, MaxDiffLines) :
             Len(s) > Len(kept) => ~(IsSubsequence(s, sample.before) /\ IsSubsequence(s, sample.after))

=============================================================================
