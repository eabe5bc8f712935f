------------------------------ MODULE Scanning -------------------------------
(***************************************************************************)
(* A loop over the elements of a sequence: Step takes what it keeps and    *)
(* the next element.  This is FoldLeft, by the places of the sequence.     *)
(***************************************************************************)
EXTENDS Integers, Sequences

Scan(Step(_, _), start, text) ==
  LET after[k \in 0..Len(text)] == IF k = 0 THEN start ELSE Step(after[k-1], text[k])
  IN  after[Len(text)]

(* The elements that are in a set, in their order. *)
Filtered(text, S) ==
  Scan(LAMBDA kept, e : IF e \in S THEN Append(kept, e) ELSE kept, <<>>, text)

=============================================================================
