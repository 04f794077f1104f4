------------------------------- MODULE MCHome -------------------------------
(* One instance of Home for TLC: two commands at a time, two wallet files, *)
(* two keys, two passwords and a short one, five sets of init arguments    *)
(* that differ in the chain, the allocations and the validators; the last  *)
(* two are refused.                                                        *)
EXTENDS Home

CONSTANTS c1, c2, good, other, short

MCPaths == {1, 2}
MCKeys == {1, 2}

MCInitArgs ==
  {[chain_id |-> 1, allocations |-> <<<<2, 5>>, <<1, 7>>>>, validators |-> <<>>],
   [chain_id |-> 2, allocations |-> <<<<1, 9>>>>, validators |-> <<<<1, 1>>>>],
   [chain_id |-> 1, allocations |-> <<<<1, 9>>>>, validators |-> <<>>],
   [chain_id |-> 2, allocations |-> <<<<1, 9>>, <<1, 3>>>>, validators |-> <<>>],
   [chain_id |-> 1, allocations |-> <<Malformed>>, validators |-> <<>>]}

Symmetry == Permutations(Procs)
=============================================================================
