----------------------------- MODULE MCPublication -----------------------------
(* Publication with a rerun of each command over what the other left.      *)
EXTENDS Publication

MCMaxRuns == [d \in Dirs |-> 2]
=============================================================================
