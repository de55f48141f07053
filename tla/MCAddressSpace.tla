----------------------------- MODULE MCAddressSpace -----------------------------
EXTENDS AddressSpace, TLC

\* One read-only page of code, one writable page of data
CodeAndData == << [page |-> 2, write |-> FALSE], [page |-> 3, write |-> TRUE] >>

\* Processes are alike; Min over the frames does not tell them apart
ProcessSymmetry == Permutations(Processes)
================================================================================
