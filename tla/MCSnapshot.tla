----------------------------- MODULE MCSnapshot -----------------------------
(* Instances of Tracebacks and Snapshot for TLC. *)
EXTENDS Snapshot, TLC

\* Stacks of two frames at most, with a string each or something else.
MCStacks ==
  LET Frame(s) == [filename |-> s, lineno |-> 1]
  IN {<<>>}
     \cup {<<Frame(s)>> : s \in Strings \cup {Unknown}}
     \cup {<<Frame(s), Frame(r)>> : s \in Strings, r \in Strings \cup {Unknown}}

DataSymmetry ==
  Permutations(Strings) \cup Permutations(Texts) \cup Permutations(Ptrs)
    \cup Permutations(TbPtrs) \cup Permutations(Tuples)

=============================================================================
