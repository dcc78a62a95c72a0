------------------------------- MODULE MCMapRead -------------------------------
(***************************************************************************)
(* Small instances of MapRead for TLC; CPUs are numbered.                  *)
(***************************************************************************)
EXTENDS MapRead
================================================================================
