--------------------------- MODULE MCJobLifecycle ---------------------------
(* JobLifecycle with the jobs and commands that the configuration names. *)
EXTENDS JobLifecycle
=============================================================================
