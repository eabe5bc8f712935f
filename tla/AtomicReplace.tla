---------------------------- MODULE AtomicReplace ----------------------------
(***************************************************************************)
(* What installing limine.conf promises, without locks, backup files and   *)
(* temporary files.                                                        *)
(*                                                                         *)
(* There is a file, what may be left of it after a power loss, and an      *)
(* archive of earlier contents.  One client at a time has the turn.  It    *)
(* gets it when the content it is about to replace is in the archive,      *)
(* installs the new content in one step, and is told that it is done only  *)
(* when the new content is on the disk.  Otherwise it puts the old content *)
(* back and is told so, or is told that it is stuck.                       *)
(***************************************************************************)
EXTENDS Naturals

CONSTANTS
  Clients,   \* those who replace the file
  Contents,  \* complete contents
  None,      \* there is no file
  NoClient   \* nobody has the turn

VARIABLES
  file,      \* the content that everybody sees
  disk,      \* the contents that a power loss may leave
  archive,   \* the contents of which a complete copy is on the disk
  turn,      \* who replaces the file, what by what
  answer     \* answer[c]: what client c was told

vars == <<file, disk, archive, turn, answer>>

Answers == {"none", "done", "undone", "stuck", "dead"}
Resting == [client |-> NoClient, old |-> None, new |-> None]
Turns == [client : Clients \cup {NoClient}, old : Contents \cup {None}, new : Contents \cup {None}]

Init ==
  /\ file \in Contents \cup {None}
  /\ disk = {file}
  /\ archive \subseteq Contents
  /\ turn = Resting
  /\ answer = [c \in Clients |-> "none"]

Answer(c, a) == answer' = [answer EXCEPT ![c] = a]

(* A copy of the file as it is may have reached the disk. *)
Archive == archive' = archive \/ (file # None /\ archive' = archive \cup {file})

(* The file as it is is on the disk, and perhaps a copy of it as well. *)
Synchronise == disk' = {file} /\ Archive /\ UNCHANGED file

Sync == Synchronise /\ UNCHANGED <<turn, answer>>

(* A client gets the turn once the old content is archived. *)
Begin(c) ==
  /\ turn = Resting
  /\ answer[c] = "none"
  /\ Synchronise \/ UNCHANGED <<file, disk, archive>>
  /\ file = None \/ file \in archive'
  /\ \E new \in Contents \ {file} : turn' = [client |-> c, old |-> file, new |-> new]
  /\ UNCHANGED answer

(* The old content is still archived at the moment it is replaced. *)
Install(c) ==
  /\ turn.client = c
  /\ file = turn.old
  /\ file = None \/ file \in archive
  /\ file' = turn.new
  /\ disk' = disk \cup {file'}
  /\ UNCHANGED <<archive, turn, answer>>

(* Success is reported of a new content that is on the disk. *)
Accept(c) ==
  /\ turn.client = c
  /\ file = turn.new /\ disk = {file}
  /\ turn' = Resting
  /\ Answer(c, "done")
  /\ UNCHANGED <<file, disk, archive>>

(* The old content comes back. *)
Undo(c) ==
  /\ turn.client = c
  /\ file' = turn.old
  /\ disk' = disk \cup {file'}
  /\ UNCHANGED <<archive, turn, answer>>

(* A failure is reported of an old content that is back on the disk; when  *)
(* there was no file nothing is sure of the new one.                       *)
Reject(c) ==
  /\ turn.client = c
  /\ \/ Synchronise
     \/ turn.old = None /\ UNCHANGED <<file, disk, archive>>
  /\ turn.old = None \/ file = turn.old
  /\ turn' = Resting
  /\ Answer(c, "undone")

(* A client that never had the turn changed nothing. *)
Refuse(c) ==
  /\ turn.client # c
  /\ answer[c] = "none"
  /\ Answer(c, "undone")
  /\ UNCHANGED <<file, disk, archive, turn>>

(* The file could not be put back, and the client is told. *)
GetStuck(c) ==
  /\ turn.client = c
  /\ turn' = Resting
  /\ Answer(c, "stuck")
  /\ UNCHANGED <<file, disk, archive>>

Die(c) ==
  /\ turn' = IF turn.client = c THEN Resting ELSE turn
  /\ Answer(c, "dead")
  /\ UNCHANGED <<file, disk, archive>>

(* Pruning: never the content that the client whose turn it is would need. *)
Forget ==
  /\ archive' \subseteq archive
  /\ turn # Resting /\ turn.old # None => turn.old \in archive'
  /\ UNCHANGED <<file, disk, turn, answer>>

PowerLoss ==
  /\ file' \in disk
  /\ disk' = {file'}
  /\ Archive
  /\ turn' = Resting
  /\ answer' \in [Clients -> Answers]
  /\ \A c \in Clients : answer'[c] \in {answer[c], "dead"}

Client(c) ==
  \/ Begin(c) \/ Install(c) \/ Accept(c) \/ Undo(c) \/ Reject(c)
  \/ Refuse(c) \/ GetStuck(c) \/ Die(c)

Next == (\E c \in Clients : Client(c)) \/ Sync \/ Forget \/ PowerLoss

Spec == Init /\ [][Next]_vars

-----------------------------------------------------------------------------
(* The variables have their types. *)
TypeOK ==
  /\ file \in Contents \cup {None}
  /\ disk \subseteq Contents \cup {None}
  /\ archive \subseteq Contents
  /\ turn \in Turns
  /\ answer \in [Clients -> Answers]

(* While a client has the turn the file is what it found or what it means   *)
(* to install, and what it found is archived.                               *)
OldOrNew ==
  turn # Resting => /\ file \in {turn.old, turn.new}
                    /\ turn.old = None \/ turn.old \in archive

(* A content that disappears from the file, other than by a power loss, is  *)
(* archived, or is what the client that undoes its replacement had just     *)
(* installed.                                                               *)
ArchivedFirst ==
  [][file' # file => \/ file \in archive \cup {None}
                     \/ turn # Resting /\ file = turn.new
                     \/ PowerLoss]_vars

=============================================================================
