---------------------------- MODULE MCRunScript -----------------------------
(* RunScript on a small number of subjobs, given in the configuration. *)
EXTENDS RunScript
=============================================================================
