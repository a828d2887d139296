------------------------------ MODULE MCSetup ------------------------------
(* Two runs of setup on one host, with two pids to be had.                  *)
EXTENDS Setup, TLC

Pids == Permutations(Pid)
=============================================================================
