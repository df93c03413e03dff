------------------------------- MODULE MCOutDir -------------------------------
(* OutDir with two runs of two commands that write two files.            *)
EXTENDS OutDir

MCCommands  == {"run", "report"}
MCOutputs   == {"evidence.json", "report.html"}
MCUserNames == {"notes.txt"}
=============================================================================
