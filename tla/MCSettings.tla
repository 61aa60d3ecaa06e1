----------------------------- MODULE MCSettings -----------------------------
(* Two processes over one folder, one of which may be the command line.     *)
EXTENDS Settings
=============================================================================
