------------------------- MODULE AtomicReplaceProofs -------------------------
(***************************************************************************)
(* What AtomicReplace promises, for any clients and contents.  The two     *)
(* invariants are inductive as they stand; that nothing is overwritten     *)
(* unarchived needs OldOrNew, because undoing looks at no content.         *)
(***************************************************************************)
EXTENDS AtomicReplace, TLAPS

(* What the actions leave alone, or change in one way only. *)
LEMMA SynchroniseTypes ==
  ASSUME TypeOK, Synchronise
  PROVE  /\ file' \in Contents \cup {None}
         /\ disk' \subseteq Contents \cup {None}
         /\ archive' \subseteq Contents
         /\ archive \subseteq archive'
         /\ file' = file
BY DEF TypeOK, Synchronise, Archive

LEMMA AnswerTypes ==
  ASSUME TypeOK, NEW c \in Clients, NEW a \in Answers, Answer(c, a)
  PROVE  answer' \in [Clients -> Answers]
BY DEF TypeOK, Answer

LEMMA RestingType == Resting \in Turns
BY DEF Resting, Turns

(* The type invariant, for an arbitrary step. *)
LEMMA TypeStep ==
  ASSUME TypeOK, [Next]_vars
  PROVE  TypeOK'
<1> USE RestingType
<1>1. ASSUME NEW c \in Clients, Client(c) PROVE TypeOK'
  <2>1. CASE Begin(c)
    <3>1. PICK new \in Contents \ {file} : turn' = [client |-> c, old |-> file, new |-> new]
      BY <2>1 DEF Begin
    <3>2. turn' \in Turns
      BY <3>1 DEF TypeOK, Turns
    <3>3. CASE Synchronise
      BY <2>1, <3>2, <3>3, SynchroniseTypes DEF Begin, TypeOK
    <3>4. CASE UNCHANGED <<file, disk, archive>>
      BY <2>1, <3>2, <3>4 DEF Begin, TypeOK
    <3> QED BY <2>1, <3>3, <3>4 DEF Begin
  <2>2. CASE Install(c)
    BY <2>2 DEF Install, TypeOK, Turns
  <2>3. CASE Accept(c)
    <3>1. answer' \in [Clients -> Answers]
      BY <2>3, AnswerTypes DEF Accept, Answers
    <3> QED BY <2>3, <3>1 DEF Accept, TypeOK
  <2>4. CASE Undo(c)
    BY <2>4 DEF Undo, TypeOK, Turns
  <2>5. CASE Reject(c)
    <3>1. answer' \in [Clients -> Answers]
      BY <2>5, AnswerTypes DEF Reject, Answers
    <3>2. CASE Synchronise
      BY <2>5, <3>1, <3>2, SynchroniseTypes DEF Reject, TypeOK
    <3>3. CASE UNCHANGED <<file, disk, archive>>
      BY <2>5, <3>1, <3>3 DEF Reject, TypeOK
    <3> QED BY <2>5, <3>2, <3>3 DEF Reject
  <2>6. CASE Refuse(c)
    <3>1. answer' \in [Clients -> Answers]
      BY <2>6, AnswerTypes DEF Refuse, Answers
    <3> QED BY <2>6, <3>1 DEF Refuse, TypeOK
  <2>7. CASE GetStuck(c)
    <3>1. answer' \in [Clients -> Answers]
      BY <2>7, AnswerTypes DEF GetStuck, Answers
    <3> QED BY <2>7, <3>1 DEF GetStuck, TypeOK
  <2>8. CASE Die(c)
    <3>1. answer' \in [Clients -> Answers]
      BY <2>8, AnswerTypes DEF Die, Answers
    <3> QED BY <2>8, <3>1 DEF Die, TypeOK
  <2> QED BY <1>1, <2>1, <2>2, <2>3, <2>4, <2>5, <2>6, <2>7, <2>8 DEF Client
<1>2. CASE Sync
  BY <1>2, SynchroniseTypes DEF Sync, TypeOK
<1>3. CASE Forget
  BY <1>3 DEF Forget, TypeOK
<1>4. CASE PowerLoss
  BY <1>4 DEF PowerLoss, Archive, TypeOK
<1>5. CASE UNCHANGED vars
  BY <1>5 DEF vars, TypeOK
<1> QED BY <1>1, <1>2, <1>3, <1>4, <1>5 DEF Next

(* The variables have their types in every reachable state. *)
THEOREM TypeCorrect == Spec => []TypeOK
<1>1. Init => TypeOK
  BY RestingType DEF Init, TypeOK, Answers
<1>2. TypeOK /\ [Next]_vars => TypeOK'
  BY TypeStep
<1> QED BY <1>1, <1>2, PTL DEF Spec

(* A step keeps the file old or new, and the old content archived. *)
LEMMA OldOrNewStep ==
  ASSUME TypeOK, OldOrNew, [Next]_vars
  PROVE  OldOrNew'
<1>1. ASSUME NEW c \in Clients, Client(c) PROVE OldOrNew'
  <2>1. CASE Begin(c)
    <3>1. PICK new \in Contents \ {file} : turn' = [client |-> c, old |-> file, new |-> new]
      BY <2>1 DEF Begin
    <3>2. file' = file
      BY <2>1 DEF Begin, Synchronise
    <3> QED BY <2>1, <3>1, <3>2 DEF Begin, OldOrNew
  <2>2. CASE Install(c)
    BY <2>2 DEF Install, OldOrNew
  <2>3. CASE Undo(c)
    BY <2>3 DEF Undo, OldOrNew
  <2>4. CASE Accept(c) \/ Reject(c) \/ GetStuck(c)
    BY <2>4 DEF Accept, Reject, GetStuck, OldOrNew, Resting
  <2>5. CASE Refuse(c)
    BY <2>5 DEF Refuse, OldOrNew, Resting
  <2>6. CASE Die(c)
    BY <2>6 DEF Die, OldOrNew, Resting
  <2> QED BY <1>1, <2>1, <2>2, <2>3, <2>4, <2>5, <2>6 DEF Client
<1>2. CASE Sync
  BY <1>2, SynchroniseTypes DEF Sync, OldOrNew, Resting
<1>3. CASE Forget
  BY <1>3 DEF Forget, OldOrNew, Resting
<1>4. CASE PowerLoss
  BY <1>4 DEF PowerLoss, OldOrNew, Resting
<1>5. CASE UNCHANGED vars
  BY <1>5 DEF vars, OldOrNew, Resting
<1> QED BY <1>1, <1>2, <1>3, <1>4, <1>5 DEF Next

(* While limine.conf is being replaced it is the old or the new one, and    *)
(* the old one is not lost.                                                 *)
THEOREM AlwaysOldOrNew == Spec => []OldOrNew
<1>1. Init => OldOrNew
  BY DEF Init, OldOrNew
<1>2. TypeOK /\ OldOrNew /\ [Next]_vars => OldOrNew'
  BY OldOrNewStep
<1> QED BY <1>1, <1>2, TypeCorrect, PTL DEF Spec

(* No content disappears before it is archived, save what an undone         *)
(* replacement had installed, and by a loss of power; nobody stands for     *)
(* itself.                                                                  *)
THEOREM NothingUnarchived ==
  ASSUME NoClient \notin Clients
  PROVE  Spec => ArchivedFirst
<1>1. ASSUME OldOrNew, [Next]_vars
      PROVE  [file' # file => \/ file \in archive \cup {None}
                              \/ turn # Resting /\ file = turn.new
                              \/ PowerLoss]_vars
  <2>1. ASSUME NEW c \in Clients, Client(c), file' # file
        PROVE  file \in archive \cup {None} \/ (turn # Resting /\ file = turn.new)
    <3>1. CASE Install(c)
      BY <3>1 DEF Install
    <3>2. CASE Undo(c)
      <4>1. turn # Resting
        BY <3>2 DEF Undo, Resting
      <4> QED BY <1>1, <2>1, <3>2, <4>1 DEF Undo, OldOrNew
    <3>3. CASE ~Install(c) /\ ~Undo(c)
      BY <2>1, <3>3 DEF Client, Begin, Accept, Reject, Refuse, GetStuck, Die, Synchronise
    <3> QED BY <3>1, <3>2, <3>3
  <2>2. Sync \/ Forget => file' = file
    BY DEF Sync, Forget, Synchronise
  <2> QED BY <1>1, <2>1, <2>2 DEF Next
<1> QED BY <1>1, AlwaysOldOrNew, PTL DEF Spec, ArchivedFirst

=============================================================================
