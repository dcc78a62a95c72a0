--------------------------------- MODULE Merge ---------------------------------
(***************************************************************************)
(* merge_values_for_pid (procnet-core/src/stats.rs): the values of one     *)
(* STATS element on all CPUs become the one record the daemon shows.  The  *)
(* u64 counters are unbounded here: no process moves 2^64 bytes.  Seen     *)
(* through that merge the programs of Accounting implement StatsFeed.      *)
(***************************************************************************)
EXTENDS Accounting

\* lookup_percpu returns one value for each of the CPUs 0, 1, ...
ASSUME CpuAssumption ==
    IsFiniteSet(Cpu) /\ Cpu # {} /\ Cpu = 0 .. Cardinality(Cpu) - 1

\* Mutant of MergeStats: it returns when an endpoint is known, before it adds.
MergeStatsReturnsEarly(merged, stats) ==
    [bytes |-> [op \in Op |-> IF merged.addr[ProtocolOf(op)] = NoAddr
                             THEN merged.bytes[op] + stats.bytes[op]
                             ELSE merged.bytes[op]],
     addr  |-> [x \in Protocol |->
                  IF merged.addr[x] = NoAddr THEN stats.addr[x] ELSE merged.addr[x]]]

\* The counters are added; the first endpoint that is not all zero is kept.
MergeStats(merged, stats) ==
    [bytes |-> [op \in Op |-> merged.bytes[op] + stats.bytes[op]],
     addr  |-> [x \in Protocol |->
                  IF merged.addr[x] = NoAddr THEN stats.addr[x] ELSE merged.addr[x]]]

\* The loop over per_cpu_values: merged[i] after the first i of them.
MergeLoop(v) ==
    LET merged[i \in 0 .. Cardinality(Cpu)] ==
            IF i = 0 THEN EmptyStats ELSE MergeStats(merged[i-1], v[i-1])
    IN  merged

MergeValues(v) == MergeLoop(v)[Cardinality(Cpu)]

--------------------------------------------------------------------------------
(* Properties.                                                             *)

\* What a lookup of p would show, were the map to stand still.
Linked(p) == \E s \in Slot : key[s] = p
Element(p) == CHOOSE s \in Slot : key[s] = p
Shown(p) == IF Linked(p) THEN MergeValues(value[Element(p)]) ELSE EmptyStats

\* The programs that have a unit in hand.
Counting == {c \in Cpu : job[c].pc \in {"lookup", "update", "insert", "relookup"}}
Flight(p, op) == {c \in Counting : Tgid(job[c].thread) = p /\ job[c].op = op}
InFlight(p, op) == Cardinality(Flight(p, op))

\* Every unit a running process moved is counted exactly once and in its own
\* counter, is being counted, or was given up for lack of room: concurrent updates
\* on several CPUs neither lose nor repeat any.
BytesConserved ==
    \A p \in Pid, op \in Op : phase[p] = "running" =>
        moved[p][op] = Shown(p).bytes[op] + InFlight(p, op) + missed[p][op]

\* The abstract entry of a PID, and the abstract event a CPU has still to emit.
FeedEntry == [p \in Pid |->
    [owner |-> IF Linked(p) THEN owner[Element(p)] ELSE 0, bytes |-> Shown(p).bytes]]
FeedPending == [c \in Cpu |->
    IF job[c].pc = "emit"
    THEN [pid |-> Tgid(job[c].thread), owner |-> gen[Tgid(job[c].thread)]]
    ELSE [pid |-> 0, owner |-> 0]]

Feed == INSTANCE StatsFeed WITH
    Counter <- Op, Emitter <- Cpu, MapCap <- Cardinality(Slot),
    MaxBytes <- MaxMoves, MaxInserts <- MaxMoves,
    entry <- FeedEntry, pending <- FeedPending

\* The programs, with every interleaving of their map accesses, behave as
\* StatsFeed says: seen through the merge of the values of all CPUs, every step
\* changes one entry by one unit, inserts, deletes, emits or drops an event, or is
\* invisible.
ImplementsFeed == Feed!FeedSpec

--------------------------------------------------------------------------------
(* What the proofs add to make these inductive.                            *)

\* A lookup's result is the element of the thread's own process (it needs
\* LeaderExitsLast: otherwise the element may have been deleted and reused).
UpdatesOwnElement ==
    \A c \in Cpu : job[c].pc = "update" => key[job[c].slot] = Tgid(job[c].thread)

\* Whether or not leaders exit last: a thread in a call is alive, a live thread's
\* process is not reaped, and the leader of a process that exits is gone.
CallersAreAlive ==
    /\ \A t \in Thread : call[t] # NoCall => t \in threads
    /\ \A t \in threads : phase[Tgid(t)] # "free"
    /\ \A p \in Pid : <<p, Leader>> \in threads => phase[p] = "running"
    /\ \A p \in Pid : phase[p] # "free" => gen[p] > 0

\* A linked element has an owner, and no unit is counted in two places.
ElementsAreBounded ==
    /\ \A s \in Slot : key[s] # 0 => owner[s] > 0
    /\ moves <= MaxMoves
    /\ inserts + Cardinality(Counting) <= moves
    /\ \A s \in Slot, op \in Op :
          MergeValues(value[s]).bytes[op] + Cardinality(Counting) <= moves
================================================================================
