----------------------------- MODULE MCSectors -----------------------------
(* Numbers 0 to 3, of which 1 and 2 are allocated; pages of two rows.  The total
   may be taken before or after 0 and 3 are, so the table has one page or two,
   full or with a row to spare, and numbers still to come below and above them.
   Sector 1 is live, and 2 may be proven, in the partition of 1 or in another,
   moved and terminated. *)
EXTENDS Sectors, TLC

CONSTANTS c1, c2, p, q

Numbers == 0..3
Allocated == {1, 2}
Sectors0 == [n \in Numbers |-> [life |-> IF n = 1 THEN "live" ELSE "unproven",
                                exp |-> IF n = 1 THEN 1 ELSE 0, loc |-> p]]
Extensions == {[nums |-> {1, 2}, exp |-> 2], [nums |-> {1}, exp |-> 1]}

Perms == Permutations(Call)
=============================================================================
