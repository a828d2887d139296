---------------------------- MODULE MCCryptoFile ----------------------------
(* Two processes, a document with a mirror and one without.                 *)
EXTENDS CryptoFile, TLC

Processes == Permutations(Proc)
=============================================================================
