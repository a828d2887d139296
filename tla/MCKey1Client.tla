---------------------------- MODULE MCKey1Client ----------------------------
(* get-key1 over the networks of MCKey1Boot.                                *)
EXTENDS MCKey1Boot, Key1Client
=============================================================================
