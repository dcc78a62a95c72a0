------------------------------ MODULE Accounting -------------------------------
(***************************************************************************)
(* The eBPF programs of bpf/procnet.bpf.c, run by the threads of the       *)
(* machine on its CPUs.  Every helper call on a shared map is a step of    *)
(* its own, so the programs of different CPUs interleave between any two   *)
(* of them.  tgid is the PID of a process, pid_tgid a thread: <<p, m>>.    *)
(*                                                                         *)
(* One accounted call moves one unit of traffic (ret or copied > 0).  An   *)
(* operation names both the hooked kernel function and the byte counter it *)
(* feeds: struct ProcStats has exactly one counter per operation.          *)
(***************************************************************************)
EXTENDS Naturals, Sequences, FiniteSets

CONSTANTS
    Pid,                \* thread-group ids
    Member, Leader,     \* the threads a process may have, and its leader
    Cpu,
    Slot,               \* the preallocated elements of STATS
    Op,                 \* the operations exercised, a subset of AllOps
    Addr, NoAddr,       \* socket endpoints, and the all-zero StatsAddr
    AddrCap,            \* max_entries of the three *_ADDRS maps
    RingCap,            \* start events the EVENTS ring holds
    MaxGen,             \* bound: incarnations of one PID
    MaxMoves,           \* bound: units moved in one behaviour
    LeaderExitsLast     \* do all threads of a process exit before its leader?

AllOps == {"tcp_send", "tcp_recv", "udp_send", "udp_recv"}

\* enum Protocol
Protocol == {"tcp", "udp"}
ProtocolOf(op) == IF op \in {"tcp_send", "tcp_recv"} THEN "tcp" ELSE "udp"

\* The operations with an entry and a return probe, each with an *_ADDRS map.
\* tcp_cleanup_rbuf has the socket and the count at hand and needs neither.
Bracketed == Op \ {"tcp_recv"}

ASSUME AccountingAssumption ==
    /\ 0 \notin Pid /\ 0 \notin Slot
    /\ Leader \in Member
    /\ Op \subseteq AllOps
    /\ NoAddr \notin Addr
    /\ AddrCap \in Nat \ {0} /\ RingCap \in Nat \ {0}
    /\ MaxGen \in Nat /\ MaxMoves \in Nat
    /\ LeaderExitsLast \in BOOLEAN

Thread == Pid \X Member
Tgid(t) == t[1]
ThreadsOf(T, p) == {t \in T : Tgid(t) = p}

VARIABLES
    phase,      \* phase[p]: "free", "running", "exiting" (leader is a zombie)
    gen,        \* gen[p]: incarnations of PID p so far
    threads,    \* the live threads
    call,       \* call[t]: the hooked kernel function t is in, and its socket
    saved,      \* saved[op][t]: the *_ADDRS map of op, NoAddr where no entry
    key,        \* key[s]: the PID element s of STATS is linked under, 0 if free
    value,      \* value[s][c]: the ProcStats of element s on CPU c
    owner,      \* history: owner[s]: generation that inserted element s
    job,        \* job[c]: the run of account_bytes on CPU c
    ring,       \* the EVENTS ring buffer
    lost,       \* history: the last event of PID p found the ring full
    moves,      \* history: units moved so far
    inserts,    \* history: elements inserted so far
    moved,      \* history: moved[p][op]: units process p has moved with op
    missed      \* history: missed[p][op]: those that were never counted

procVars == <<phase, gen, threads>>
statsVars == <<key, value, owner>>
ringVars == <<ring, lost, inserts>>
countVars == <<moves, moved, missed>>
vars == <<procVars, call, saved, statsVars, job, ringVars, countVars>>

NoCall == [op |-> "none", addr |-> NoAddr]
Idle == [pc |-> "idle", thread |-> <<0, Leader>>, op |-> "none", addr |-> NoAddr,
         slot |-> 0]

Call == [op : Op, addr : Addr]
Job == [pc : {"lookup", "update", "insert", "emit", "relookup"},
        thread : Thread, op : Op, addr : Addr, slot : Slot \cup {0}]
ProcStats == [bytes : [Op -> Nat], addr : [Protocol -> Addr \cup {NoAddr}]]
StartEvent == [pid : Pid, owner : Nat]

NoUnits == [op \in Op |-> 0]
EmptyStats == [bytes |-> NoUnits, addr |-> [x \in Protocol |-> NoAddr]]

TypeOK ==
    /\ phase \in [Pid -> {"free", "running", "exiting"}]
    /\ gen \in [Pid -> Nat]
    /\ threads \subseteq Thread
    /\ call \in [Thread -> Call \cup {NoCall}]
    /\ saved \in [Bracketed -> [Thread -> Addr \cup {NoAddr}]]
    /\ key \in [Slot -> Pid \cup {0}]
    /\ value \in [Slot -> [Cpu -> ProcStats]]
    /\ owner \in [Slot -> Nat]
    /\ job \in [Cpu -> Job \cup {Idle}]
    /\ \A c \in Cpu : job[c].pc \in {"update", "emit"} => job[c].slot \in Slot
    /\ ring \in Seq(StartEvent)
    /\ lost \in [Pid -> BOOLEAN]
    /\ moves \in Nat /\ inserts \in Nat
    /\ moved \in [Pid -> [Op -> Nat]] /\ missed \in [Pid -> [Op -> Nat]]

Init ==
    /\ phase = [p \in Pid |-> "free"]
    /\ gen = [p \in Pid |-> 0]
    /\ threads = {}
    /\ call = [t \in Thread |-> NoCall]
    /\ saved = [op \in Bracketed |-> [t \in Thread |-> NoAddr]]
    /\ key = [s \in Slot |-> 0]
    /\ value = [s \in Slot |-> [c \in Cpu |-> EmptyStats]]
    /\ owner = [s \in Slot |-> 0]
    /\ job = [c \in Cpu |-> Idle]
    /\ ring = << >>
    /\ lost = [p \in Pid |-> FALSE]
    /\ moves = 0 /\ inserts = 0
    /\ moved = [p \in Pid |-> NoUnits] /\ missed = [p \in Pid |-> NoUnits]

--------------------------------------------------------------------------------
(* Processes and threads.                                                  *)

Fork(p) ==
    /\ phase[p] = "free"
    /\ gen[p] < MaxGen
    /\ phase' = [phase EXCEPT ![p] = "running"]
    /\ gen' = [gen EXCEPT ![p] = @ + 1]
    /\ threads' = threads \cup {<<p, Leader>>}
    /\ moved' = [moved EXCEPT ![p] = NoUnits]
    /\ missed' = [missed EXCEPT ![p] = NoUnits]
    /\ UNCHANGED <<call, saved, statsVars, job, ringVars, moves>>

Spawn(t) ==
    /\ t \notin threads /\ t[2] # Leader
    /\ ThreadsOf(threads, Tgid(t)) # {}
    /\ threads' = threads \cup {t}
    /\ UNCHANGED <<phase, gen, call, saved, statsVars, job, ringVars, countVars>>

\* Mutant of DeleteKey: the entry stays.
DeleteNothing(p) == UNCHANGED statsVars

\* bpf_map_delete_elem(&STATS, &p): the element is unlinked and free for reuse at
\* once; its value stays until then.
DeleteKey(p) ==
    /\ key' = [s \in Slot |-> IF key[s] = p THEN 0 ELSE key[s]]
    /\ owner' = [s \in Slot |-> IF key[s] = p THEN 0 ELSE owner[s]]
    /\ UNCHANGED value

\* Mutant of SchedProcessExit: every thread's exit deletes the entry.
SchedProcessExitAnyThread(t) ==
    /\ t \in threads /\ call[t] = NoCall
    /\ t[2] = Leader /\ LeaderExitsLast => ThreadsOf(threads, Tgid(t)) = {t}
    /\ threads' = threads \ {t}
    /\ phase' = IF t[2] = Leader THEN [phase EXCEPT ![Tgid(t)] = "exiting"] ELSE phase
    /\ DeleteKey(Tgid(t))
    /\ UNCHANGED <<gen, call, saved, job, ringVars, countVars>>

\* procnet_sched_process_exit: for the leader only, the STATS entry is deleted.
SchedProcessExit(t) ==
    /\ t \in threads /\ call[t] = NoCall
    /\ threads' = threads \ {t}
    /\ \/ /\ t[2] # Leader
          /\ UNCHANGED <<phase, statsVars>>
       \/ /\ t[2] = Leader
          /\ LeaderExitsLast => ThreadsOf(threads, Tgid(t)) = {t}
          /\ phase' = [phase EXCEPT ![Tgid(t)] = "exiting"]
          /\ DeleteKey(Tgid(t))
    /\ UNCHANGED <<gen, call, saved, job, ringVars, countVars>>

\* The PID is free once every thread is gone.
Reap(p) ==
    /\ phase[p] = "exiting"
    /\ ThreadsOf(threads, p) = {}
    /\ phase' = [phase EXCEPT ![p] = "free"]
    /\ UNCHANGED <<gen, threads, call, saved, statsVars, job, ringVars, countVars>>

--------------------------------------------------------------------------------
(* The probes.                                                             *)

\* Mutant of LruUpdate: the map is keyed by process, not by thread.
LruUpdateByTgid(m, t, a) == {[u \in Thread |-> IF Tgid(u) = Tgid(t) THEN a ELSE m[u]]}

\* BPF_MAP_TYPE_LRU_HASH: a new key in a full map evicts another entry.
LruUpdate(m, t, a) ==
    LET held == {u \in Thread : m[u] # NoAddr}
    IN  IF m[t] # NoAddr \/ Cardinality(held) < AddrCap
        THEN {[m EXCEPT ![t] = a]}
        ELSE {[m EXCEPT ![t] = a, ![u] = NoAddr] : u \in held}

\* procnet_{tcp_sendmsg,udp_sendmsg,udp_recvmsg}_entry on a socket at a.
ProbeEntry(t, op, a) ==
    /\ t \in threads /\ call[t] = NoCall
    /\ call' = [call EXCEPT ![t] = [op |-> op, addr |-> a]]
    /\ \E m \in LruUpdate(saved[op], t, a) : saved' = [saved EXCEPT ![op] = m]
    /\ UNCHANGED <<procVars, statsVars, job, ringVars, countVars>>

\* A unit moves: account_bytes starts on CPU c with endpoint a.
StartAccount(c, t, op, a) ==
    /\ job[c] = Idle
    /\ job' = [job EXCEPT ![c] = [pc |-> "lookup", thread |-> t, op |-> op,
                                  addr |-> a, slot |-> 0]]

\* One more unit of op in the history n.
Tally(n, p, op) == [n EXCEPT ![p] = [n[p] EXCEPT ![op] = n[p][op] + 1]]

Move(p, op) ==
    /\ moves < MaxMoves
    /\ moves' = moves + 1
    /\ moved' = Tally(moved, p, op)

InJob(t) == \E c \in Cpu : job[c].thread = t

\* The *_exit probes.  No saved address: the unit is not counted.
ProbeExit(t, c) ==
    LET op == call[t].op
    IN  /\ op \in Bracketed
        /\ ~InJob(t)
        /\ saved' = [saved EXCEPT ![op] = [@ EXCEPT ![t] = NoAddr]]
        /\ \/ \* ret <= 0
              /\ call' = [call EXCEPT ![t] = NoCall]
              /\ UNCHANGED <<job, countVars>>
           \/ /\ saved[op][t] = NoAddr
              /\ Move(Tgid(t), op)
              /\ missed' = Tally(missed, Tgid(t), op)
              /\ call' = [call EXCEPT ![t] = NoCall]
              /\ UNCHANGED job
           \/ /\ saved[op][t] # NoAddr
              /\ Move(Tgid(t), op)
              /\ StartAccount(c, t, op, saved[op][t])
              /\ UNCHANGED <<call, missed>>
        /\ UNCHANGED <<procVars, statsVars, ringVars>>

\* procnet_tcp_cleanup_rbuf with copied > 0 (otherwise it does nothing).
TcpCleanupRbuf(t, c, a) ==
    /\ "tcp_recv" \in Op
    /\ t \in threads /\ call[t] = NoCall
    /\ call' = [call EXCEPT ![t] = [op |-> "tcp_recv", addr |-> a]]
    /\ Move(Tgid(t), "tcp_recv")
    /\ StartAccount(c, t, "tcp_recv", a)
    /\ UNCHANGED <<procVars, saved, statsVars, ringVars, missed>>

--------------------------------------------------------------------------------
(* account_bytes, one step per access to STATS or EVENTS.                  *)

\* Mutant of Found: an element another CPU inserted is not seen.
FoundOnThisCpu(c) ==
    {s \in Slot : key[s] = Tgid(job[c].thread) /\ value[s][c] # EmptyStats}

\* The elements linked under the tgid of the thread that runs on c.
Found(c) == {s \in Slot : key[s] = Tgid(job[c].thread)}

Goto(c, pc, s) == job' = [job EXCEPT ![c] = [@ EXCEPT !.pc = pc, !.slot = s]]

\* The program and the hooked function return.
Return(c) ==
    /\ job' = [job EXCEPT ![c] = Idle]
    /\ call' = [call EXCEPT ![job[c].thread] = NoCall]

Lookup(c) ==
    /\ job[c].pc = "lookup"
    /\ \/ \E s \in Found(c) : Goto(c, "update", s)
       \/ Found(c) = {} /\ Goto(c, "insert", 0)
    /\ UNCHANGED <<procVars, call, saved, statsVars, ringVars, countVars>>

\* Mutant of UpdateStats: the count is assigned, not added.
UpdateStatsAssigns(v, op, a) ==
    [bytes |-> [v.bytes EXCEPT ![op] = 1],
     addr  |-> [v.addr EXCEPT ![ProtocolOf(op)] = a]]

\* update_stats of one unit on one CPU's value.
UpdateStats(v, op, a) ==
    [bytes |-> [v.bytes EXCEPT ![op] = @ + 1],
     addr  |-> [v.addr EXCEPT ![ProtocolOf(op)] = a]]

\* The element the lookup returned is written through its pointer.  If it was
\* deleted meanwhile the write goes to an unlinked element, which an insertion
\* clears; if it was linked again under another key, it goes there.
Update(c) ==
    LET j == job[c]
    IN  /\ j.pc = "update"
        /\ value' = [value EXCEPT ![j.slot] = [value[j.slot] EXCEPT ![c] =
                        UpdateStats(value[j.slot][c], j.op, j.addr)]]
        /\ Return(c)
        /\ UNCHANGED <<procVars, saved, key, owner, ringVars, countVars>>

\* Mutant of Insert: the values of the other CPUs are not cleared.
InsertThisCpuOnly(c) ==
    LET j == job[c]
        p == Tgid(j.thread)
    IN  /\ j.pc = "insert"
        /\ \E s \in Slot :
              /\ Found(c) = {} /\ key[s] = 0
              /\ key' = [key EXCEPT ![s] = p]
              /\ owner' = [owner EXCEPT ![s] = gen[p]]
              /\ value' = [value EXCEPT ![s][c] = UpdateStats(EmptyStats, j.op, j.addr)]
              /\ Goto(c, "emit", s)
        /\ lost' = [lost EXCEPT ![p] = FALSE]
        /\ inserts' = inserts + 1
        /\ UNCHANGED <<procVars, call, saved, ring, countVars>>

\* bpf_map_update_elem(..., BPF_NOEXIST) on a zeroed element.
Insert(c) ==
    LET j == job[c]
        p == Tgid(j.thread)
    IN  /\ j.pc = "insert"
        /\ \/ \E s \in Slot :
                 /\ Found(c) = {} /\ key[s] = 0
                 /\ key' = [key EXCEPT ![s] = p]
                 /\ owner' = [owner EXCEPT ![s] = gen[p]]
                 /\ value' = [value EXCEPT ![s] = [d \in Cpu |->
                        IF d = c THEN UpdateStats(EmptyStats, j.op, j.addr)
                                 ELSE EmptyStats]]
                 /\ Goto(c, "emit", s)
                 /\ lost' = [lost EXCEPT ![p] = FALSE]
                 /\ inserts' = inserts + 1
           \/ /\ Found(c) # {} \/ \A s \in Slot : key[s] # 0
              /\ Goto(c, "relookup", 0)
              /\ UNCHANGED <<statsVars, lost, inserts>>
        /\ UNCHANGED <<procVars, call, saved, ring, countVars>>

\* emit_start_event; the comm is the running thread's.
Emit(c) ==
    LET p == Tgid(job[c].thread)
    IN  /\ job[c].pc = "emit"
        /\ \/ /\ Len(ring) < RingCap
              /\ ring' = Append(ring, [pid |-> p, owner |-> gen[p]])
              /\ UNCHANGED lost
           \/ /\ Len(ring) >= RingCap
              /\ lost' = [lost EXCEPT ![p] = TRUE]
              /\ UNCHANGED ring
        /\ Return(c)
        /\ UNCHANGED <<procVars, saved, statsVars, inserts, countVars>>

\* Mutant of Relookup: a failed insertion gives the unit up.
RelookupGivesUp(c) ==
    /\ job[c].pc = "relookup"
    /\ missed' = Tally(missed, Tgid(job[c].thread), job[c].op)
    /\ Return(c)
    /\ UNCHANGED <<procVars, saved, statsVars, ringVars, moves, moved>>

\* The insertion failed: another CPU was first, or the map is full.
Relookup(c) ==
    /\ job[c].pc = "relookup"
    /\ \/ \E s \in Found(c) : Goto(c, "update", s) /\ UNCHANGED <<call, missed>>
       \/ /\ Found(c) = {}
          /\ missed' = Tally(missed, Tgid(job[c].thread), job[c].op)
          /\ Return(c)
    /\ UNCHANGED <<procVars, saved, statsVars, ringVars, moves, moved>>

\* The daemon's ring_buffer__consume takes one record.
Consume ==
    /\ ring # << >>
    /\ ring' = Tail(ring)
    /\ UNCHANGED <<procVars, call, saved, statsVars, job, lost, inserts, countVars>>

Machine ==
    \/ \E p \in Pid : Fork(p) \/ Reap(p)
    \/ \E t \in Thread : Spawn(t) \/ SchedProcessExit(t)

Probes ==
    \E t \in Thread :
        \/ \E op \in Bracketed, a \in Addr : ProbeEntry(t, op, a)
        \/ \E c \in Cpu : ProbeExit(t, c)
        \/ \E c \in Cpu, a \in Addr : TcpCleanupRbuf(t, c, a)

AccountBytes ==
    \E c \in Cpu : Lookup(c) \/ Update(c) \/ Insert(c) \/ Emit(c) \/ Relookup(c)

Next == Machine \/ Probes \/ AccountBytes \/ Consume

Spec == Init /\ [][Next]_vars

--------------------------------------------------------------------------------
(* Properties.                                                             *)

\* Traffic is filed under the endpoint of the call that moved it, although the
\* address crosses from the entry to the exit probe through a shared LRU map.
EndpointOfThisCall ==
    \A c \in Cpu : job[c] # Idle =>
        job[c].op = call[job[c].thread].op /\ job[c].addr = call[job[c].thread].addr

\* Two programs that insert the same PID at once never link it twice.
OneElementPerPid ==
    \A r, s \in Slot : key[r] = key[s] /\ key[r] # 0 => r = s

\* An entry is its process's: it is there only while the process runs, and was
\* inserted by that incarnation of the PID, so a reused PID inherits no counters.
\* It needs LeaderExitsLast.
NoEntryOutlivesProcess ==
    \A s \in Slot : key[s] # 0 =>
        phase[key[s]] = "running" /\ owner[s] = gen[key[s]]

\* No unit goes uncounted when the maps have room, whichever CPU wins the race to
\* insert the entry.
NothingMissed == \A p \in Pid : missed[p] = NoUnits

\* Room: an *_ADDRS map has an entry for every thread inside its function, and
\* STATS an element for every running process.
RoomInMaps ==
    /\ \A op \in Bracketed : Cardinality({t \in Thread : call[t].op = op}) <= AddrCap
    /\ Cardinality({p \in Pid : phase[p] = "running"}) <= Cardinality(Slot)

--------------------------------------------------------------------------------
(* What the proofs add to make these inductive.                            *)

\* A saved address is that of the call its thread is in, and is taken out of the
\* map before account_bytes starts; a thread runs on one CPU at a time.
SavedIsCurrent ==
    /\ \A op \in Bracketed, t \in Thread : saved[op][t] # NoAddr =>
            call[t].op = op /\ call[t].addr = saved[op][t]
    /\ \A c \in Cpu, op \in Bracketed :
            job[c] # Idle => saved[op][job[c].thread] = NoAddr
    /\ \A c, d \in Cpu :
            job[c] # Idle /\ job[d] # Idle /\ job[c].thread = job[d].thread => c = d

\* Only live threads are in a call, and while the leader lives the process runs.
CallersRun ==
    /\ \A t \in Thread : call[t] # NoCall => t \in threads
    /\ \A t \in threads : phase[Tgid(t)] = "running"

\* With room, an address stays saved until the exit probe takes it, and an
\* insertion fails only because another CPU inserted the element first.
AddressIsSaved ==
    \A t \in Thread :
        call[t].op \in Bracketed /\ ~InJob(t) => saved[call[t].op][t] # NoAddr
RelookupFinds == \A c \in Cpu : job[c].pc = "relookup" => Found(c) # {}
================================================================================
