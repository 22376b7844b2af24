------------------------------ MODULE MCBinlog ------------------------------
(* Binlog for TLC: the thresholds of need_reindex, scaled down, and the     *)
(* symmetries of clients, keys and values.                             *)
EXTENDS Binlog

MCReindexRules == {<<2, 2>>}
Symmetry == Permutations(Clients) \cup Permutations(Keys) \cup Permutations(Values)
=============================================================================
