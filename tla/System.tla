--------------------------------- MODULE System --------------------------------
(***************************************************************************)
(* The daemon's main loop over the eBPF programs themselves: the actions   *)
(* of Collector, with the entry of a PID computed from the values of its   *)
(* element in STATS and the events taken from the programs' own ring,      *)
(* interleaved with the steps of Accounting.                               *)
(***************************************************************************)
EXTENDS Merge

CONSTANTS DeadProcLimit, FrameMax, RowLen, DeadLen, LookupMayFail, MaxResets

VARIABLES pc, procs, deadProcs, rows, idx, resets, shown, base, staleTicks, misread

daemonVars == <<pc, procs, deadProcs, rows, idx, resets, shown, base, staleTicks, misread>>

Daemon == INSTANCE Collector WITH
    Counter <- Op, Emitter <- Cpu, MapCap <- Cardinality(Slot),
    MaxBytes <- MaxMoves, MaxInserts <- MaxMoves,
    entry <- FeedEntry, pending <- FeedPending

SystemInit == Init /\ Daemon!CollectorInit

\* A step of the kernel; the daemon takes an event out of the ring; a step of the
\* daemon that only reads the maps, or that does not touch them.
Programs == (Machine \/ Probes \/ AccountBytes) /\ UNCHANGED daemonVars
Drain == Consume /\ Daemon!DrainOne
Tick ==
    /\ UNCHANGED vars
    /\ \/ Daemon!Wake \/ Daemon!DrainDone \/ Daemon!CollectRow \/ Daemon!CollectDead
       \/ Daemon!Publish \/ Daemon!PublishOversized \/ Daemon!Reset

SystemNext == Programs \/ Drain \/ Tick

SystemSpec == SystemInit /\ [][SystemNext]_<<vars, daemonVars>>

--------------------------------------------------------------------------------
(* Properties.                                                             *)

\* From the probes to the screen: the per-tick figures collect_rows gave out for a
\* process since the last Reset add up to no more than the process moved, less what
\* the programs had to give up.
FiguresWereMoved ==
    \A i \in DOMAIN procs, op \in Op :
        LET p == procs[i].pid
        IN  phase[p] = "running" /\ ~Daemon!Reused(p) =>
                shown[p][op] + missed[p][op] <= base[p][op] + moved[p][op]

\* No process holds an element of STATS unseen: the daemon has a record of it, its
\* event is in the ring or about to be emitted, or the ring was full or a lookup
\* failed.
ElementsAreKnown ==
    \A s \in Slot : key[s] # 0 =>
        Daemon!Announced(key[s]) \/ lost[key[s]] \/ key[s] \in misread
================================================================================
