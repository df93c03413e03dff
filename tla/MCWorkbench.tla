----------------------------- MODULE MCWorkbench -----------------------------
(* Two pipelines for Workbench.  The steps repeat the same accesses to the *)
(* job directory, so one step, with every outcome a step can have, is      *)
(* enough to interleave three processes; three steps, the one that can     *)
(* stop the job in the middle, exercise the order of the records.          *)
EXTENDS Workbench

OneStep    == <<"run">>
ThreeSteps == <<"map", "run", "release">>
MCRunStep  == "run"
=============================================================================
