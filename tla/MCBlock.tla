------------------------------ MODULE MCBlock ------------------------------
(* Nine cells, every start of the registers.                               *)
EXTENDS BlockTransfer

Names == <<"p", "q", "r", "s", "t", "u", "v", "w", "x", "y", "A", "B", "C", "D", "E", "F">>

(* All cells different, so that a byte in the wrong place shows *)
Distinct == [x \in Addr |-> Names[x + 1]]

(* The byte searched for in some cells, also behind the first *)
Sparse == [x \in Addr |-> IF x \in {3, 5, 6} THEN "p" ELSE "q"]

BothMemories == {Distinct, Sparse}

StoredBytes ==
  {Names[i] : i \in DOMAIN Names} \cup {"ED"} \cup BlockOps \cup {"1", "2", "3", "4"}

FromDevice == <<"1", "2", "3", "4">>

=============================================================================
