------------------------------ MODULE MCCollector ------------------------------
(***************************************************************************)
(* Small instances of Collector for TLC.                                   *)
(***************************************************************************)
EXTENDS Collector
================================================================================
