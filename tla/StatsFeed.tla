------------------------------- MODULE StatsFeed -------------------------------
(***************************************************************************)
(* What the eBPF side of procnetd (bpf/procnet.bpf.c) promises the daemon: *)
(* the STATS map, one entry of byte counters per process, and the EVENTS   *)
(* ring buffer, one start event per inserted entry.  This is the abstract  *)
(* specification: one entry is one record of counters (the CPUs, the map's *)
(* storage and the threads are in module Accounting, which implements this *)
(* one), and an accounted chunk is one unit.                               *)
(*                                                                         *)
(* Three facts about the kernel side shape it:                             *)
(*   - inserting an entry and emitting its event are two steps of the same *)
(*     program run (account_bytes): other CPUs and the daemon run between  *)
(*     them, so an event can be `pending';                                 *)
(*   - emit_start_event gives the event up when the ring has no room;      *)
(*   - the entry is deleted when the thread-group leader exits, which need *)
(*     not be the last thread of the process to exit.                      *)
(***************************************************************************)
EXTENDS Naturals, Sequences, FiniteSets

CONSTANTS
    Pid,                \* thread-group ids (the u32 key of STATS)
    Counter,            \* the byte counters of struct ProcStats
    Emitter,            \* contexts that can be inside account_bytes: CPUs
    MapCap,             \* STATS max_entries
    RingCap,            \* start events the EVENTS ring holds
    MaxGen,             \* bound: incarnations of one PID
    MaxBytes,           \* bound: units counted in one counter of an entry
    MaxInserts,         \* bound: entries inserted in one behaviour
    LeaderExitsLast     \* do all threads of a process exit before its leader?

ASSUME FeedAssumption ==
    /\ MapCap \in Nat \ {0}
    /\ RingCap \in Nat \ {0}
    /\ MaxGen \in Nat
    /\ MaxBytes \in Nat
    /\ MaxInserts \in Nat
    /\ LeaderExitsLast \in BOOLEAN

VARIABLES
    phase,      \* phase[p]: "free" (no such process), "running", "exiting"
    gen,        \* gen[p]: which incarnation of PID p is (or was last) alive
    entry,      \* entry[p]: the STATS entry of key p, or NoEntry
    pending,    \* pending[e]: inserted by e, its event not yet emitted
    ring,       \* the EVENTS ring buffer
    lost,       \* history: the last event of PID p found the ring full
    inserts     \* history: number of entries inserted so far

feedVars == <<phase, gen, entry, pending, ring, lost, inserts>>

NoEntry == [owner |-> 0, bytes |-> [c \in Counter |-> 0]]
NoEvent == [pid |-> 0, owner |-> 0]

\* The generation of an entry's or event's process stands for its comm.
Bytes == [Counter -> Nat]
Entry == [owner : Nat, bytes : Bytes]
Event == [pid : Pid, owner : Nat]

ASSUME PidAssumption == 0 \notin Pid

Present == {p \in Pid : entry[p] # NoEntry}

FeedTypeOK ==
    /\ phase \in [Pid -> {"free", "running", "exiting"}]
    /\ gen \in [Pid -> Nat]
    /\ entry \in [Pid -> Entry]
    /\ pending \in [Emitter -> Event \cup {NoEvent}]
    /\ ring \in Seq(Event)
    /\ lost \in [Pid -> BOOLEAN]
    /\ inserts \in Nat

FeedInit ==
    /\ phase = [p \in Pid |-> "free"]
    /\ gen = [p \in Pid |-> 0]
    /\ entry = [p \in Pid |-> NoEntry]
    /\ pending = [e \in Emitter |-> NoEvent]
    /\ ring = << >>
    /\ lost = [p \in Pid |-> FALSE]
    /\ inserts = 0

--------------------------------------------------------------------------------
(* The processes of the machine.                                           *)

\* A process is started under a free PID, perhaps one that was used before.
Fork(p) ==
    /\ phase[p] = "free"
    /\ gen[p] < MaxGen
    /\ phase' = [phase EXCEPT ![p] = "running"]
    /\ gen' = [gen EXCEPT ![p] = @ + 1]
    /\ UNCHANGED <<entry, pending, ring, lost, inserts>>

\* Threads of p can still reach account_bytes.
CanAccount(p) ==
    \/ phase[p] = "running"
    \/ phase[p] = "exiting" /\ ~LeaderExitsLast

\* procnet_sched_process_exit for the leader: the entry goes, if there is one.
LeaderExit(p) ==
    /\ phase[p] = "running"
    /\ phase' = [phase EXCEPT ![p] = "exiting"]
    /\ entry' = [entry EXCEPT ![p] = NoEntry]
    /\ UNCHANGED <<gen, pending, ring, lost, inserts>>

\* The last thread is gone and the PID is released.
Reap(p) ==
    /\ phase[p] = "exiting"
    /\ phase' = [phase EXCEPT ![p] = "free"]
    /\ UNCHANGED <<gen, entry, pending, ring, lost, inserts>>

--------------------------------------------------------------------------------
(* account_bytes.                                                          *)

\* An entry is created with the first unit in counter c.
Insert(e, p, c) ==
    /\ CanAccount(p)
    /\ inserts < MaxInserts
    /\ inserts' = inserts + 1
    /\ pending[e] = NoEvent
    /\ pending' = [pending EXCEPT ![e] = [pid |-> p, owner |-> gen[p]]]
    /\ lost' = [lost EXCEPT ![p] = FALSE]
    /\ UNCHANGED <<phase, gen, ring>>
    /\ entry[p] = NoEntry
    /\ Cardinality(Present) < MapCap
    /\ entry' = [entry EXCEPT ![p] =
                    [owner |-> gen[p],
                     bytes |-> [d \in Counter |-> IF d = c THEN 1 ELSE 0]]]

\* One more unit is counted in an existing entry.
Account(p, c) ==
    /\ UNCHANGED <<phase, gen, pending, ring, lost, inserts>>
    /\ entry[p] # NoEntry
    /\ entry[p].bytes[c] < MaxBytes
    /\ entry' = [entry EXCEPT ![p] =
                    [owner |-> entry[p].owner,
                     bytes |-> [entry[p].bytes EXCEPT ![c] = @ + 1]]]

\* emit_start_event: a full ring drops the event, and nobody is told.
Emit(e) ==
    /\ pending[e] # NoEvent
    /\ pending' = [pending EXCEPT ![e] = NoEvent]
    /\ \/ /\ Len(ring) < RingCap
          /\ ring' = Append(ring, pending[e])
          /\ UNCHANGED lost
       \/ /\ Len(ring) >= RingCap
          /\ lost' = [lost EXCEPT ![pending[e].pid] = TRUE]
          /\ UNCHANGED ring
    /\ UNCHANGED <<phase, gen, entry, inserts>>

\* The consumer's side of the ring (ring_buffer__consume takes one record).
Consume ==
    /\ ring # << >>
    /\ ring' = Tail(ring)
    /\ UNCHANGED <<phase, gen, entry, pending, lost, inserts>>

FeedNext ==
    \/ \E p \in Pid : Fork(p) \/ LeaderExit(p) \/ Reap(p)
    \/ \E p \in Pid, c \in Counter : Account(p, c)
    \/ \E e \in Emitter, p \in Pid, c \in Counter : Insert(e, p, c)
    \/ \E e \in Emitter : Emit(e)

FeedSpec == FeedInit /\ [][FeedNext \/ Consume]_feedVars
================================================================================
