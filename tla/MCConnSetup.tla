---------------------------- MODULE MCConnSetup ----------------------------
(* Small instances of ConnSetup for TLC. *)
EXTENDS ConnSetup
=============================================================================
