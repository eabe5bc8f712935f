------------------------------ MODULE UnifiedDiff ------------------------------
(***************************************************************************)
(* render::UnifiedDiffRenderer: what `diff` and `dry-run` print of a plan. *)
(* A text is the sequence of its lines.                                    *)
(***************************************************************************)
EXTENDS Integers, Sequences

Larger(a, b) == IF a >= b THEN a ELSE b

(* A place is a line of each text; one past the last line is the end.       *)
Places(before, after) == (1..Len(before)+1) \X (1..Len(after)+1)

(* The length of a longest common subsequence of what is left of the texts  *)
(* from a place on.                                                         *)
CommonTable(before, after) ==
  LET lcs[p \in Places(before, after)] ==
        IF p[1] > Len(before) \/ p[2] > Len(after) THEN 0
        ELSE IF before[p[1]] = after[p[2]] THEN 1 + lcs[<<p[1]+1, p[2]+1>>]
        ELSE Larger(lcs[<<p[1]+1, p[2]>>], lcs[<<p[1], p[2]+1>>])
  IN  lcs

(* Faulty: The shorter remainder is followed. *)
Adds_Shorter(before, after, i, j) ==
  /\ j <= Len(after)
  /\ \/ i > Len(before)
     \/ CommonTable(before, after)[<<i, j+1>>] <= CommonTable(before, after)[<<i+1, j>>]

(* The choice between the two lines: the line of the new text is printed    *)
(* first when that loses nothing.                                           *)
Adds(before, after, i, j) ==
  /\ j <= Len(after)
  /\ \/ i > Len(before)
     \/ CommonTable(before, after)[<<i, j+1>>] >= CommonTable(before, after)[<<i+1, j>>]

Keeps(before, after, i, j) ==
  i <= Len(before) /\ j <= Len(after) /\ before[i] = after[j]

(* The walk: kept, added and removed lines in the order they are printed. *)
Walk(before, after) ==
  LET walk[p \in Places(before, after)] ==
        IF p = <<Len(before)+1, Len(after)+1>> THEN <<>>
        ELSE IF Keeps(before, after, p[1], p[2])
        THEN <<<<" ", before[p[1]]>>>> \o walk[<<p[1]+1, p[2]+1>>]
        ELSE IF Adds(before, after, p[1], p[2])
        THEN <<<<"+", after[p[2]]>>>> \o walk[<<p[1], p[2]+1>>]
        ELSE <<<<"-", before[p[1]]>>>> \o walk[<<p[1]+1, p[2]>>]
  IN  walk

Diff(before, after) == Walk(before, after)[<<1, 1>>]

=============================================================================
