---------------------------- MODULE MCTracemalloc ----------------------------
(* Instances of Tracemalloc for TLC: sizes, and the symmetry of the data.  *)
EXTENDS Tracemalloc, TLC

CONSTANTS t1, t2

MCSizes == {1, 2}
OneSize == {1}
Both == {t1, t2}
None == {}

\* Addresses are only compared for equality, and so are stacks.
DataSymmetry ==
  Permutations(Ptrs) \cup Permutations(Slots) \cup Permutations(TbPtrs)
    \cup Permutations(Stacks)

=============================================================================
