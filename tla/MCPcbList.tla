----------------------------- MODULE MCPcbList -----------------------------
(* Instances of PcbList for TLC. *)
EXTENDS PcbList, TLC

\* Jobs and addresses are only compared.
HeapSymmetry == Permutations(Job) \cup Permutations(Addr)
=============================================================================
