--------------------------- MODULE MCCodexMonitor --------------------------
(* CodexMonitor with two files, which the safety run takes as symmetric:   *)
(* nothing but their times tells them apart.                               *)
EXTENDS CodexMonitor

Symmetry == Permutations(Files)
OneSession == [f \in Files |-> "session"]
OwnSession == [f \in Files |-> f]
============================================================================
