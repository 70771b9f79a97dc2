------------------------------ MODULE MCCliRun ------------------------------
(* CliRun for TLC: the constants come from the .cfg files.                  *)
EXTENDS CliRun
=============================================================================
