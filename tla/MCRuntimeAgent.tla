---------------------------- MODULE MCRuntimeAgent ----------------------------
(* RuntimeAgent on a small instance.                                         *)
EXTENDS RuntimeAgent

=============================================================================
