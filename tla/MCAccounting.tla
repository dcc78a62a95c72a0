----------------------------- MODULE MCAccounting ------------------------------
(***************************************************************************)
(* Small instances of the programs and of their merge for TLC.             *)
(***************************************************************************)
EXTENDS Merge, TLC

\* PIDs are interchangeable (CPUs are numbered, for the merge).
PidSymmetry == Permutations(Pid)

\* The histories moved and missed guard no step and are not seen by StatsFeed.
WithoutTally == <<procVars, call, saved, statsVars, job, ringVars, moves>>
================================================================================
