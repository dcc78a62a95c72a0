---------------------------- MODULE AccountingProofs ---------------------------
(***************************************************************************)
(* Proofs about Accounting for every set of processes, threads, CPUs, map  *)
(* elements and endpoints and every capacity.                              *)
(***************************************************************************)
EXTENDS Accounting, SequenceTheorems, FunctionTheorems, FiniteSetTheorems, TLAPS

\* The operations never include the marker of an idle CPU or thread.
LEMMA NoneIsNoOp == "none" \notin Op /\ Bracketed \subseteq Op
BY AccountingAssumption DEF AllOps, Bracketed

\* One unit added to a per-CPU value, or to a zeroed one, is a per-CPU value.
LEMMA UpdateStatsType ==
    ASSUME NEW v \in ProcStats, NEW op \in Op, NEW a \in Addr
    PROVE  UpdateStats(v, op, a) \in ProcStats /\ EmptyStats \in ProcStats
<1>1. ProtocolOf(op) \in Protocol
      BY DEF ProtocolOf, Protocol
<1>2. v.bytes \in [Op -> Nat] /\ v.addr \in [Protocol -> Addr \cup {NoAddr}]
      BY DEF ProcStats
<1>3. [v.bytes EXCEPT ![op] = @ + 1] \in [Op -> Nat]
      BY <1>2
<1>4. [v.addr EXCEPT ![ProtocolOf(op)] = a] \in [Protocol -> Addr \cup {NoAddr}]
      BY <1>1, <1>2
<1>5. UpdateStats(v, op, a) \in ProcStats
      BY <1>3, <1>4 DEF UpdateStats, ProcStats
<1>6. EmptyStats \in ProcStats
      BY DEF EmptyStats, NoUnits, ProcStats
<1> QED BY <1>5, <1>6

\* LruUpdate stores the address of t and at most forgets others.
LEMMA LruUpdateFacts ==
    ASSUME NEW m \in [Thread -> Addr \cup {NoAddr}], NEW t \in Thread, NEW a \in Addr,
           NEW n \in LruUpdate(m, t, a)
    PROVE  /\ n \in [Thread -> Addr \cup {NoAddr}]
           /\ \A u \in Thread : u # t => n[u] = m[u] \/ n[u] = NoAddr
           /\ n[t] = a \/ n[t] = NoAddr
BY DEF LruUpdate

\* Goto moves CPU c alone, and only its program counter and element.
LEMMA GotoFacts ==
    ASSUME TypeOK, NEW c \in Cpu, job[c] # Idle,
           NEW x \in {"lookup", "update", "insert", "emit", "relookup"},
           NEW s \in Slot \cup {0}, x \in {"update", "emit"} => s \in Slot,
           Goto(c, x, s)
    PROVE  /\ job' \in [Cpu -> Job \cup {Idle}]
           /\ \A d \in Cpu : d # c => job'[d] = job[d]
           /\ job'[c] \in Job /\ job'[c].thread = job[c].thread
           /\ job'[c].op = job[c].op /\ job'[c].addr = job[c].addr
           /\ \A d \in Cpu : job'[d].pc \in {"update", "emit"} => job'[d].slot \in Slot
<1>1. job[c] \in Job
      BY DEF TypeOK
<1> DEFINE next == [job[c] EXCEPT !.pc = x, !.slot = s]
<1>2. /\ next \in Job /\ next.thread = job[c].thread /\ next.op = job[c].op
      /\ next.addr = job[c].addr /\ next.pc = x /\ next.slot = s
      BY <1>1 DEF Job
<1>3. job' = [job EXCEPT ![c] = next]
      BY DEF Goto
<1> HIDE DEF next
<1> QED BY <1>2, <1>3 DEF TypeOK

\* Return frees CPU c and ends the call of its thread, and nothing else.
LEMMA ReturnFacts ==
    ASSUME TypeOK, NEW c \in Cpu, job[c] # Idle, Return(c)
    PROVE  /\ job' \in [Cpu -> Job \cup {Idle}] /\ job'[c] = Idle
           /\ \A d \in Cpu : d # c => job'[d] = job[d]
           /\ \A d \in Cpu : job'[d].pc \in {"update", "emit"} => job'[d].slot \in Slot
           /\ job[c].thread \in Thread
           /\ call' \in [Thread -> Call \cup {NoCall}]
           /\ call' = [call EXCEPT ![job[c].thread] = NoCall]
<1>1. job[c].thread \in Thread
      BY DEF TypeOK, Job
<1>2. Idle.pc \notin {"update", "emit"}
      BY DEF Idle
<1> QED BY <1>1, <1>2 DEF TypeOK, Return

--------------------------------------------------------------------------------
(* Type correctness.                                                       *)

LEMMA TallyType ==
    ASSUME NEW n \in [Pid -> [Op -> Nat]], NEW p \in Pid, NEW op \in Op
    PROVE  Tally(n, p, op) \in [Pid -> [Op -> Nat]]
<1>1. [n[p] EXCEPT ![op] = n[p][op] + 1] \in [Op -> Nat]
      OBVIOUS
<1> QED BY <1>1 DEF Tally

LEMMA TypeInit == Init => TypeOK
<1>1. EmptyStats \in ProcStats /\ NoUnits \in [Op -> Nat]
      BY DEF EmptyStats, NoUnits, ProcStats
<1> QED BY <1>1, AccountingAssumption DEF Init, TypeOK, Idle

LEMMA TypeStep == TypeOK /\ [Next]_vars => TypeOK'
<1> SUFFICES ASSUME TypeOK, [Next]_vars PROVE TypeOK'
    OBVIOUS
<1> USE DEF procVars, statsVars, ringVars, countVars
<1>a. AccountingAssumption /\ \A t \in Thread : Tgid(t) \in Pid
      BY AccountingAssumption DEF Thread, Tgid
<1>i. \A c \in Cpu : job[c].pc # "idle" => job[c] # Idle /\ job[c] \in Job
      BY DEF TypeOK, Idle
<1>1. ASSUME NEW p \in Pid, Fork(p) PROVE TypeOK'
  <2>1. <<p, Leader>> \in Thread
        BY <1>a DEF Thread, AccountingAssumption
  <2>2. phase' \in [Pid -> {"free", "running", "exiting"}] /\ gen' \in [Pid -> Nat]
        BY <1>1 DEF Fork, TypeOK
  <2>3. threads' \subseteq Thread
        BY <1>1, <2>1 DEF Fork, TypeOK
  <2>4. moved' \in [Pid -> [Op -> Nat]] /\ missed' \in [Pid -> [Op -> Nat]]
        BY <1>1 DEF Fork, TypeOK, NoUnits
  <2> QED BY <1>1, <2>2, <2>3, <2>4 DEF Fork, TypeOK
<1>2. ASSUME NEW p \in Pid, Reap(p) PROVE TypeOK'
      BY <1>2 DEF Reap, TypeOK
<1>3. ASSUME NEW t \in Thread, Spawn(t) PROVE TypeOK'
      BY <1>3 DEF Spawn, TypeOK
<1>4. ASSUME NEW t \in Thread, SchedProcessExit(t) PROVE TypeOK'
  <2>1. EmptyStats \in ProcStats
        BY DEF EmptyStats, NoUnits, ProcStats
  <2>2. phase' \in [Pid -> {"free", "running", "exiting"}] /\ threads' \subseteq Thread
        BY <1>4, <1>a DEF SchedProcessExit, TypeOK
  <2>3. /\ key' \in [Slot -> Pid \cup {0}] /\ owner' \in [Slot -> Nat]
        /\ value' \in [Slot -> [Cpu -> ProcStats]]
    <3>t. /\ key \in [Slot -> Pid \cup {0}] /\ owner \in [Slot -> Nat]
          /\ value \in [Slot -> [Cpu -> ProcStats]]
          BY DEF TypeOK
    <3>1. UNCHANGED statsVars \/ DeleteKey(Tgid(t))
          BY <1>4 DEF SchedProcessExit
    <3> QED BY <2>1, <3>t, <3>1 DEF DeleteKey
  <2> QED BY <1>4, <2>2, <2>3 DEF SchedProcessExit, TypeOK
<1>5. ASSUME NEW t \in Thread, NEW op \in Bracketed, NEW a \in Addr, ProbeEntry(t, op, a)
      PROVE  TypeOK'
  <2>1. saved[op] \in [Thread -> Addr \cup {NoAddr}] /\ op \in Op
        BY NoneIsNoOp DEF TypeOK
  <2>2. saved' \in [Bracketed -> [Thread -> Addr \cup {NoAddr}]]
    <3>t. saved \in [Bracketed -> [Thread -> Addr \cup {NoAddr}]]
          BY DEF TypeOK
    <3>1. PICK m \in LruUpdate(saved[op], t, a) : saved' = [saved EXCEPT ![op] = m]
          BY <1>5 DEF ProbeEntry
    <3>2. m \in [Thread -> Addr \cup {NoAddr}]
          BY <2>1, LruUpdateFacts
    <3> QED BY <3>t, <3>1, <3>2
  <2>3. call' \in [Thread -> Call \cup {NoCall}]
        BY <1>5, <2>1 DEF ProbeEntry, TypeOK, Call
  <2> QED BY <1>5, <2>2, <2>3 DEF ProbeEntry, TypeOK
<1>6. ASSUME NEW t \in Thread, NEW c \in Cpu, ProbeExit(t, c) PROVE TypeOK'
  <2> DEFINE op == call[t].op
  <2>1. op \in Bracketed /\ op \in Op
        BY <1>6, NoneIsNoOp DEF ProbeExit
  <2>2. saved' \in [Bracketed -> [Thread -> Addr \cup {NoAddr}]]
        BY <1>6, <2>1 DEF ProbeExit, TypeOK
  <2>3. call' \in [Thread -> Call \cup {NoCall}]
        BY <1>6 DEF ProbeExit, TypeOK
  <2>4. /\ job' \in [Cpu -> Job \cup {Idle}]
        /\ \A d \in Cpu : job'[d].pc \in {"update", "emit"} => job'[d].slot \in Slot
    <3>1. CASE UNCHANGED job
          BY <3>1 DEF TypeOK
    <3>2. CASE saved[op][t] # NoAddr /\ StartAccount(c, t, op, saved[op][t])
      <4> DEFINE new == [pc |-> "lookup", thread |-> t, op |-> op,
                         addr |-> saved[op][t], slot |-> 0]
      <4>1. saved[op][t] \in Addr
            BY <3>2, <2>1 DEF TypeOK
      <4>2. new \in Job /\ new.pc = "lookup"
            BY <4>1, <2>1 DEF Job
      <4>3. job' = [job EXCEPT ![c] = new]
            BY <3>2 DEF StartAccount
      <4> HIDE DEF new
      <4> QED BY <4>2, <4>3 DEF TypeOK
    <3> QED BY <1>6, <3>1, <3>2 DEF ProbeExit
  <2>5. moves' \in Nat /\ moved' \in [Pid -> [Op -> Nat]] /\ missed' \in [Pid -> [Op -> Nat]]
    <3>1. /\ moves' = moves \/ moves' = moves + 1
          /\ moved' = moved \/ moved' = Tally(moved, Tgid(t), op)
          /\ missed' = missed \/ missed' = Tally(missed, Tgid(t), op)
          BY <1>6 DEF ProbeExit, Move
    <3>2. moves \in Nat /\ moved \in [Pid -> [Op -> Nat]] /\ missed \in [Pid -> [Op -> Nat]]
          BY DEF TypeOK
    <3>3. Tgid(t) \in Pid /\ op \in Op
          BY <1>a, <2>1
    <3> HIDE DEF op
    <3>4. /\ Tally(moved, Tgid(t), op) \in [Pid -> [Op -> Nat]]
          /\ Tally(missed, Tgid(t), op) \in [Pid -> [Op -> Nat]]
          BY <3>2, <3>3, TallyType
    <3> QED BY <3>1, <3>2, <3>4
  <2> QED BY <1>6, <2>2, <2>3, <2>4, <2>5 DEF ProbeExit, TypeOK
<1>7. ASSUME NEW t \in Thread, NEW c \in Cpu, NEW a \in Addr, TcpCleanupRbuf(t, c, a)
      PROVE  TypeOK'
  <2> DEFINE new == [pc |-> "lookup", thread |-> t, op |-> "tcp_recv", addr |-> a, slot |-> 0]
  <2>1. new \in Job /\ new.pc = "lookup"
        BY <1>7 DEF TcpCleanupRbuf, Job
  <2>2. job' = [job EXCEPT ![c] = new]
        BY <1>7 DEF TcpCleanupRbuf, StartAccount
  <2> HIDE DEF new
  <2>3. /\ job' \in [Cpu -> Job \cup {Idle}]
        /\ \A d \in Cpu : job'[d].pc \in {"update", "emit"} => job'[d].slot \in Slot
        BY <2>1, <2>2 DEF TypeOK
  <2>4. call' \in [Thread -> Call \cup {NoCall}]
        BY <1>7 DEF TcpCleanupRbuf, Call, TypeOK
  <2>5. moves' \in Nat /\ moved' \in [Pid -> [Op -> Nat]]
    <3>1. /\ moves' = moves + 1 /\ moved' = Tally(moved, Tgid(t), "tcp_recv")
          /\ "tcp_recv" \in Op
          BY <1>7 DEF TcpCleanupRbuf, Move
    <3>2. moves \in Nat /\ moved \in [Pid -> [Op -> Nat]]
          BY DEF TypeOK
    <3> QED BY <1>a, <3>1, <3>2, TallyType
  <2> QED BY <1>7, <2>3, <2>4, <2>5 DEF TcpCleanupRbuf, TypeOK
<1>8. ASSUME NEW c \in Cpu, Lookup(c) PROVE TypeOK'
  <2>1. /\ job' \in [Cpu -> Job \cup {Idle}]
        /\ \A d \in Cpu : job'[d].pc \in {"update", "emit"} => job'[d].slot \in Slot
        BY <1>8, <1>i, GotoFacts DEF Lookup, Found
  <2> QED BY <1>8, <2>1 DEF Lookup, TypeOK
<1>9. ASSUME NEW c \in Cpu, Update(c) PROVE TypeOK'
  <2> DEFINE j == job[c]
  <2>1. j \in Job /\ j.slot \in Slot /\ j # Idle /\ j.op \in Op /\ j.addr \in Addr
        BY <1>9, <1>i DEF Update, TypeOK, Job
  <2>2. UpdateStats(value[j.slot][c], j.op, j.addr) \in ProcStats
        BY <2>1, UpdateStatsType DEF TypeOK
  <2>3. value' \in [Slot -> [Cpu -> ProcStats]]
    <3> DEFINE w == [value[j.slot] EXCEPT ![c] =
                      UpdateStats(value[j.slot][c], j.op, j.addr)]
    <3>t. value \in [Slot -> [Cpu -> ProcStats]] /\ value[j.slot] \in [Cpu -> ProcStats]
          BY <2>1 DEF TypeOK
    <3>1. w \in [Cpu -> ProcStats]
          BY <2>2, <3>t
    <3>2. value' = value \/ value' = [value EXCEPT ![j.slot] = w]
          BY <1>9 DEF Update
    <3> HIDE DEF w
    <3> QED BY <2>1, <3>t, <3>1, <3>2
  <2>4. /\ job' \in [Cpu -> Job \cup {Idle}] /\ call' \in [Thread -> Call \cup {NoCall}]
        /\ \A d \in Cpu : job'[d].pc \in {"update", "emit"} => job'[d].slot \in Slot
        BY <1>9, <2>1, ReturnFacts DEF Update
  <2> QED BY <1>9, <2>3, <2>4 DEF Update, TypeOK
<1>10. ASSUME NEW c \in Cpu, Insert(c) PROVE TypeOK'
  <2> DEFINE j == job[c]
             p == Tgid(j.thread)
  <2>1. j \in Job /\ j # Idle /\ j.op \in Op /\ j.addr \in Addr /\ p \in Pid
        BY <1>10, <1>i, <1>a DEF Insert, Job
  <2>2. EmptyStats \in ProcStats /\ UpdateStats(EmptyStats, j.op, j.addr) \in ProcStats
    <3>1. EmptyStats \in ProcStats
          BY DEF EmptyStats, NoUnits, ProcStats
    <3> QED BY <2>1, <3>1, UpdateStatsType
  <2>3. /\ job' \in [Cpu -> Job \cup {Idle}]
        /\ \A d \in Cpu : job'[d].pc \in {"update", "emit"} => job'[d].slot \in Slot
        BY <1>10, <2>1, GotoFacts DEF Insert
  <2>t. /\ key \in [Slot -> Pid \cup {0}] /\ owner \in [Slot -> Nat] /\ gen[p] \in Nat
        /\ value \in [Slot -> [Cpu -> ProcStats]]
        /\ lost \in [Pid -> BOOLEAN] /\ inserts \in Nat
        BY <2>1 DEF TypeOK
  <2>4. value' \in [Slot -> [Cpu -> ProcStats]]
    <3> DEFINE w == [d \in Cpu |-> IF d = c THEN UpdateStats(EmptyStats, j.op, j.addr)
                                            ELSE EmptyStats]
    <3>1. w \in [Cpu -> ProcStats]
          BY <2>2
    <3>2. value' = value \/ \E s \in Slot : value' = [value EXCEPT ![s] = w]
          BY <1>10 DEF Insert
    <3> HIDE DEF w
    <3> QED BY <2>t, <3>1, <3>2
  <2>5. key' \in [Slot -> Pid \cup {0}] /\ owner' \in [Slot -> Nat]
    <3>1. \/ UNCHANGED <<key, owner>>
          \/ \E s \in Slot : /\ key' = [key EXCEPT ![s] = p]
                             /\ owner' = [owner EXCEPT ![s] = gen[p]]
          BY <1>10 DEF Insert
    <3> HIDE DEF p
    <3> QED BY <2>1, <2>t, <3>1
  <2>6. lost' \in [Pid -> BOOLEAN] /\ inserts' \in Nat
    <3>1. \/ UNCHANGED <<lost, inserts>>
          \/ lost' = [lost EXCEPT ![p] = FALSE] /\ inserts' = inserts + 1
          BY <1>10 DEF Insert
    <3> HIDE DEF p
    <3>2. [lost EXCEPT ![p] = FALSE] \in [Pid -> BOOLEAN]
          BY <2>t, Zenon
    <3>3. lost' \in [Pid -> BOOLEAN]
          BY <2>t, <3>1, <3>2, Zenon
    <3>4. inserts' \in Nat
          BY <2>t, <3>1
    <3> QED BY <3>3, <3>4
  <2> QED BY <1>10, <2>3, <2>4, <2>5, <2>6 DEF Insert, TypeOK
<1>11. ASSUME NEW c \in Cpu, Emit(c) PROVE TypeOK'
  <2> DEFINE p == Tgid(job[c].thread)
             event == [pid |-> p, owner |-> gen[p]]
  <2>1. job[c] \in Job /\ job[c] # Idle /\ p \in Pid
        BY <1>11, <1>i, <1>a DEF Emit, Job
  <2>2. event \in StartEvent
        BY <2>1 DEF StartEvent, TypeOK
  <2>3. /\ job' \in [Cpu -> Job \cup {Idle}] /\ call' \in [Thread -> Call \cup {NoCall}]
        /\ \A d \in Cpu : job'[d].pc \in {"update", "emit"} => job'[d].slot \in Slot
        BY <1>11, <2>1, ReturnFacts DEF Emit
  <2>4. Append(ring, event) \in Seq(StartEvent)
        BY <2>2, AppendProperties DEF TypeOK
  <2>5. ring' \in Seq(StartEvent) /\ lost' \in [Pid -> BOOLEAN]
        BY <1>11, <2>1, <2>4 DEF Emit, TypeOK
  <2> QED BY <1>11, <2>3, <2>5 DEF Emit, TypeOK
<1>12. ASSUME NEW c \in Cpu, Relookup(c) PROVE TypeOK'
  <2>1. job[c] \in Job /\ job[c] # Idle /\ Tgid(job[c].thread) \in Pid
        BY <1>12, <1>i, <1>a DEF Relookup, Job
  <2>2. /\ job' \in [Cpu -> Job \cup {Idle}] /\ call' \in [Thread -> Call \cup {NoCall}]
        /\ \A d \in Cpu : job'[d].pc \in {"update", "emit"} => job'[d].slot \in Slot
    <3>1. CASE \E s \in Found(c) : Goto(c, "update", s) /\ UNCHANGED <<call, missed>>
          BY <3>1, <2>1, GotoFacts DEF Found, TypeOK
    <3>2. CASE Return(c)
          BY <3>2, <2>1, ReturnFacts
    <3> QED BY <1>12, <3>1, <3>2 DEF Relookup
  <2>3. missed' \in [Pid -> [Op -> Nat]]
    <3>1. missed' = missed \/ missed' = Tally(missed, Tgid(job[c].thread), job[c].op)
          BY <1>12 DEF Relookup
    <3>2. missed \in [Pid -> [Op -> Nat]] /\ job[c].op \in Op
          BY <2>1 DEF TypeOK, Job
    <3> QED BY <2>1, <3>1, <3>2, TallyType
  <2> QED BY <1>12, <2>2, <2>3 DEF Relookup, TypeOK
<1>13. CASE Consume
      BY <1>13, HeadTailProperties DEF Consume, TypeOK
<1>14. CASE UNCHANGED vars
      BY <1>14 DEF vars, TypeOK
<1> QED BY <1>1, <1>2, <1>3, <1>4, <1>5, <1>6, <1>7, <1>8, <1>9, <1>10, <1>11,
           <1>12, <1>13, <1>14 DEF Next, Machine, Probes, AccountBytes

--------------------------------------------------------------------------------
(* The endpoint of a call survives the way through the *_ADDRS map.        *)

LEMMA EndpointInit == Init => EndpointOfThisCall /\ SavedIsCurrent
BY DEF Init, EndpointOfThisCall, SavedIsCurrent

\* A CPU that only moves its program counter keeps thread, operation and endpoint.
LEMMA EndpointGoto ==
    ASSUME TypeOK, EndpointOfThisCall, SavedIsCurrent, NEW c \in Cpu, job[c] # Idle,
           UNCHANGED <<call, saved>>,
           \A d \in Cpu : d # c => job'[d] = job[d],
           job'[c].thread = job[c].thread, job'[c].op = job[c].op,
           job'[c].addr = job[c].addr
    PROVE  (EndpointOfThisCall /\ SavedIsCurrent)'
<1>1. \A d \in Cpu : /\ job'[d] # Idle => job[d] # Idle
                     /\ job'[d].thread = job[d].thread
                     /\ job'[d].op = job[d].op /\ job'[d].addr = job[d].addr
      OBVIOUS
<1>2. EndpointOfThisCall'
      BY <1>1 DEF EndpointOfThisCall
<1>3. SavedIsCurrent'
      BY <1>1 DEF SavedIsCurrent
<1> QED BY <1>2, <1>3

\* When account_bytes returns, its thread leaves the call with no address saved.
LEMMA EndpointReturn ==
    ASSUME TypeOK, EndpointOfThisCall, SavedIsCurrent, NEW c \in Cpu, job[c] # Idle,
           UNCHANGED saved, Return(c)
    PROVE  (EndpointOfThisCall /\ SavedIsCurrent)'
<1> DEFINE t == job[c].thread
<1>1. /\ job'[c] = Idle /\ \A d \in Cpu : d # c => job'[d] = job[d]
      /\ t \in Thread /\ call' = [call EXCEPT ![t] = NoCall]
      /\ call \in [Thread -> Call \cup {NoCall}]
      BY ReturnFacts DEF TypeOK
<1>2. \A d \in Cpu : job'[d] # Idle => d # c /\ job[d] # Idle /\ job[d].thread # t
      BY <1>1 DEF SavedIsCurrent
<1>3. \A d \in Cpu : job'[d] # Idle => job[d].thread \in Thread
      BY <1>2 DEF TypeOK, Job
<1>4. \A u \in Thread : u # t => call'[u] = call[u]
      BY <1>1
<1>5. EndpointOfThisCall'
      BY <1>1, <1>2, <1>3, <1>4 DEF EndpointOfThisCall
<1>6. \A op \in Bracketed : saved[op][t] = NoAddr
      BY DEF SavedIsCurrent
<1>7. SavedIsCurrent'
      BY <1>1, <1>2, <1>4, <1>6 DEF SavedIsCurrent
<1> QED BY <1>5, <1>7

LEMMA EndpointStep ==
    TypeOK /\ EndpointOfThisCall /\ SavedIsCurrent /\ [Next]_vars
        => (EndpointOfThisCall /\ SavedIsCurrent)'
<1> SUFFICES ASSUME TypeOK, EndpointOfThisCall, SavedIsCurrent, [Next]_vars
             PROVE  (EndpointOfThisCall /\ SavedIsCurrent)'
    OBVIOUS
<1>n. NoCall.op = "none" /\ "none" \notin Op /\ Bracketed \subseteq Op
      BY NoneIsNoOp DEF NoCall
<1>j. \A c \in Cpu : job[c] # Idle =>
          job[c].thread \in Thread /\ job[c].op \in Op /\ call[job[c].thread] # NoCall
      BY <1>n DEF TypeOK, Job, EndpointOfThisCall
<1>i. \A c \in Cpu : job[c].pc # "idle" => job[c] # Idle
      BY DEF Idle
<1>s. \A t \in Thread, op \in Bracketed : call[t] = NoCall => saved[op][t] = NoAddr
      BY <1>n DEF SavedIsCurrent
<1>t. /\ call \in [Thread -> Call \cup {NoCall}] /\ job \in [Cpu -> Job \cup {Idle}]
      /\ saved \in [Bracketed -> [Thread -> Addr \cup {NoAddr}]]
      BY DEF TypeOK
<1>1. CASE Machine \/ Consume \/ UNCHANGED vars
  <2>1. UNCHANGED <<call, saved, job>>
        BY <1>1 DEF Machine, Fork, Reap, Spawn, SchedProcessExit, Consume, vars
  <2> QED BY <2>1 DEF EndpointOfThisCall, SavedIsCurrent
<1>2. ASSUME NEW t \in Thread, NEW op \in Bracketed, NEW a \in Addr, ProbeEntry(t, op, a)
      PROVE  (EndpointOfThisCall /\ SavedIsCurrent)'
  <2> DEFINE new == [op |-> op, addr |-> a]
  <2>1. call[t] = NoCall /\ job' = job /\ call' = [call EXCEPT ![t] = new]
        BY <1>2 DEF ProbeEntry
  <2>2. new.op = op /\ new.addr = a
        OBVIOUS
  <2> HIDE DEF new
  <2>3. PICK m \in LruUpdate(saved[op], t, a) : saved' = [saved EXCEPT ![op] = m]
        BY <1>2 DEF ProbeEntry
  <2>4. /\ \A u \in Thread : u # t => m[u] = saved[op][u] \/ m[u] = NoAddr
        /\ m[t] = a \/ m[t] = NoAddr
        BY <1>t, LruUpdateFacts
  <2>5. \A c \in Cpu : job[c] # Idle => job[c].thread # t
        BY <2>1, <1>j
  <2>6. EndpointOfThisCall'
        BY <2>1, <2>5, <1>j, <1>t DEF EndpointOfThisCall
  <2>7. ASSUME NEW o \in Bracketed, NEW u \in Thread, saved'[o][u] # NoAddr
        PROVE  call'[u].op = o /\ call'[u].addr = saved'[o][u]
    <3>1. CASE o = op /\ u = t
          BY <3>1, <2>1, <2>2, <2>3, <2>4, <2>7, <1>t
    <3>2. CASE u # t
      <4>1. saved'[o][u] = saved[o][u]
            BY <3>2, <2>3, <2>4, <2>7, <1>t
      <4>2. call'[u] = call[u]
            BY <3>2, <2>1, <1>t
      <4> QED BY <4>1, <4>2, <2>7 DEF SavedIsCurrent
    <3>3. CASE o # op /\ u = t
          BY <3>3, <2>1, <2>3, <2>7, <1>s, <1>t
    <3> QED BY <3>1, <3>2, <3>3
  <2>8. ASSUME NEW c \in Cpu, NEW o \in Bracketed, job[c] # Idle
        PROVE  saved'[o][job[c].thread] = NoAddr
    <3>1. saved[o][job[c].thread] = NoAddr /\ job[c].thread # t /\ job[c].thread \in Thread
          BY <2>5, <2>8, <1>j DEF SavedIsCurrent
    <3> QED BY <3>1, <2>3, <2>4, <1>t
  <2>9. SavedIsCurrent'
        BY <2>1, <2>7, <2>8 DEF SavedIsCurrent
  <2> QED BY <2>6, <2>9
<1>3. ASSUME NEW t \in Thread, NEW c \in Cpu, ProbeExit(t, c)
      PROVE  (EndpointOfThisCall /\ SavedIsCurrent)'
  <2> DEFINE op == call[t].op
  <2>1. /\ op \in Bracketed /\ \A d \in Cpu : job[d].thread # t
        /\ saved' = [saved EXCEPT ![op] = [saved[op] EXCEPT ![t] = NoAddr]]
        BY <1>3 DEF ProbeExit, InJob
  <2>2. /\ \A o \in Bracketed : saved'[o][t] = NoAddr
        /\ \A o \in Bracketed, u \in Thread : u # t => saved'[o][u] = saved[o][u]
    <3>1. \A o \in Bracketed : o # op => saved[o][t] = NoAddr
          BY DEF SavedIsCurrent
    <3> HIDE DEF op
    <3> QED BY <2>1, <3>1, <1>t
  <2>3. \A u \in Thread : u # t => call'[u] = call[u]
        BY <1>3, <1>t DEF ProbeExit
  <2>4. CASE UNCHANGED job
    <3>1. EndpointOfThisCall'
          BY <2>4, <2>1, <2>3, <1>j DEF EndpointOfThisCall
    <3>2. SavedIsCurrent'
          BY <2>4, <2>1, <2>2, <2>3, <1>j DEF SavedIsCurrent
    <3> QED BY <3>1, <3>2
  <2>5. CASE /\ saved[op][t] # NoAddr /\ UNCHANGED call
             /\ StartAccount(c, t, op, saved[op][t])
    <3> DEFINE new == [pc |-> "lookup", thread |-> t, op |-> op,
                       addr |-> saved[op][t], slot |-> 0]
    <3>1. job' = [job EXCEPT ![c] = new] /\ job[c] = Idle
          BY <2>5 DEF StartAccount
    <3>2. new.thread = t /\ new.op = call[t].op /\ new.addr = call[t].addr
          BY <2>1, <2>5 DEF SavedIsCurrent
    <3> HIDE DEF new, op
    <3>3. job'[c] = new /\ \A d \in Cpu : d # c => job'[d] = job[d]
          BY <3>1, <1>t
    <3>4. EndpointOfThisCall'
          BY <2>5, <3>2, <3>3 DEF EndpointOfThisCall
    <3>5. SavedIsCurrent'
          BY <2>1, <2>2, <2>5, <3>2, <3>3, <1>j DEF SavedIsCurrent
    <3> QED BY <3>4, <3>5
  <2> QED BY <1>3, <2>4, <2>5 DEF ProbeExit
<1>4. ASSUME NEW t \in Thread, NEW c \in Cpu, NEW a \in Addr, TcpCleanupRbuf(t, c, a)
      PROVE  (EndpointOfThisCall /\ SavedIsCurrent)'
  <2> DEFINE new == [pc |-> "lookup", thread |-> t, op |-> "tcp_recv", addr |-> a, slot |-> 0]
             cal == [op |-> "tcp_recv", addr |-> a]
  <2>1. /\ call[t] = NoCall /\ call' = [call EXCEPT ![t] = cal] /\ saved' = saved
        /\ job[c] = Idle /\ job' = [job EXCEPT ![c] = new]
        BY <1>4 DEF TcpCleanupRbuf, StartAccount
  <2>2. new.thread = t /\ new.op = cal.op /\ new.addr = cal.addr
        OBVIOUS
  <2> HIDE DEF new, cal
  <2>3. job'[c] = new /\ \A d \in Cpu : d # c => job'[d] = job[d]
        BY <2>1, <1>t
  <2>4. call'[t] = cal /\ \A u \in Thread : u # t => call'[u] = call[u]
        BY <2>1, <1>t
  <2>5. \A d \in Cpu : job[d] # Idle => job[d].thread # t
        BY <2>1, <1>j
  <2>6. EndpointOfThisCall'
        BY <2>2, <2>3, <2>4, <2>5, <1>j DEF EndpointOfThisCall
  <2>7. \A o \in Bracketed : saved[o][t] = NoAddr
        BY <2>1, <1>s
  <2>8. SavedIsCurrent'
        BY <2>1, <2>2, <2>3, <2>4, <2>5, <2>7 DEF SavedIsCurrent
  <2> QED BY <2>6, <2>8
<1>5. ASSUME NEW c \in Cpu, Lookup(c) PROVE (EndpointOfThisCall /\ SavedIsCurrent)'
      BY <1>5, <1>i, GotoFacts, EndpointGoto DEF Lookup, Found
<1>6. ASSUME NEW c \in Cpu, Update(c) PROVE (EndpointOfThisCall /\ SavedIsCurrent)'
      BY <1>6, <1>i, EndpointReturn DEF Update
<1>7. ASSUME NEW c \in Cpu, Insert(c) PROVE (EndpointOfThisCall /\ SavedIsCurrent)'
      BY <1>7, <1>i, GotoFacts, EndpointGoto DEF Insert
<1>8. ASSUME NEW c \in Cpu, Emit(c) PROVE (EndpointOfThisCall /\ SavedIsCurrent)'
      BY <1>8, <1>i, EndpointReturn DEF Emit
<1>9. ASSUME NEW c \in Cpu, Relookup(c) PROVE (EndpointOfThisCall /\ SavedIsCurrent)'
      BY <1>9, <1>i, GotoFacts, EndpointGoto, EndpointReturn DEF Relookup, Found
<1> QED BY <1>1, <1>2, <1>3, <1>4, <1>5, <1>6, <1>7, <1>8, <1>9
        DEF Next, Probes, AccountBytes

--------------------------------------------------------------------------------
(* One element per PID.                                                    *)

LEMMA OneElementInit == Init => OneElementPerPid
BY DEF Init, OneElementPerPid

LEMMA OneElementStep == TypeOK /\ OneElementPerPid /\ [Next]_vars => OneElementPerPid'
<1> SUFFICES ASSUME TypeOK, OneElementPerPid, [Next]_vars PROVE OneElementPerPid'
    OBVIOUS
<1>t. key \in [Slot -> Pid \cup {0}]
      BY DEF TypeOK
<1>1. ASSUME NEW t \in Thread, SchedProcessExit(t) PROVE OneElementPerPid'
  <2>1. \/ UNCHANGED key
        \/ key' = [s \in Slot |-> IF key[s] = Tgid(t) THEN 0 ELSE key[s]]
        BY <1>1 DEF SchedProcessExit, DeleteKey, statsVars
  <2> QED BY <2>1, <1>t DEF OneElementPerPid
<1>2. ASSUME NEW c \in Cpu, Insert(c) PROVE OneElementPerPid'
  <2> DEFINE p == Tgid(job[c].thread)
  <2>1. \/ UNCHANGED key
        \/ \E s \in Slot : /\ key' = [key EXCEPT ![s] = p]
                           /\ \A r \in Slot : key[r] # p
        BY <1>2 DEF Insert, statsVars, Found
  <2> HIDE DEF p
  <2> QED BY <2>1, <1>t DEF OneElementPerPid
<1>3. CASE UNCHANGED key
      BY <1>3 DEF OneElementPerPid
<1>4. \/ UNCHANGED key
      \/ \E t \in Thread : SchedProcessExit(t)
      \/ \E c \in Cpu : Insert(c)
      BY DEF Next, Machine, Probes, AccountBytes, Fork, Reap, Spawn, ProbeEntry,
         ProbeExit, TcpCleanupRbuf, Lookup, Update, Emit, Relookup, Consume,
         vars, statsVars
<1> QED BY <1>1, <1>2, <1>3, <1>4

--------------------------------------------------------------------------------
(* Entries die with their process, when leaders exit last.                 *)

Owned == CallersRun /\ NoEntryOutlivesProcess

LEMMA OwnedInit == Init => Owned
BY DEF Init, Owned, CallersRun, NoEntryOutlivesProcess

LEMMA OwnedStep ==
    ASSUME LeaderExitsLast, TypeOK, EndpointOfThisCall, Owned, [Next]_vars
    PROVE  Owned'
<1> USE DEF procVars, statsVars, ringVars, countVars
<1>n. NoCall.op = "none" /\ "none" \notin Op /\ Bracketed \subseteq Op
      BY NoneIsNoOp DEF NoCall
<1>t. /\ phase \in [Pid -> {"free", "running", "exiting"}] /\ gen \in [Pid -> Nat]
      /\ threads \subseteq Thread /\ call \in [Thread -> Call \cup {NoCall}]
      /\ key \in [Slot -> Pid \cup {0}] /\ owner \in [Slot -> Nat]
      /\ \A t \in Thread : Tgid(t) \in Pid
      BY DEF TypeOK, Thread, Tgid
<1>z. 0 \notin Pid
      BY AccountingAssumption
<1>i. \A c \in Cpu : job[c].pc # "idle" => job[c] # Idle
      BY DEF Idle
\* A program runs only for a thread of a running process.
<1>j. \A c \in Cpu : job[c] # Idle =>
          /\ job[c].thread \in threads /\ job[c].thread \in Thread
          /\ phase[Tgid(job[c].thread)] = "running"
  <2>1. \A c \in Cpu : job[c] # Idle => job[c].thread \in Thread /\ job[c].op \in Op
        BY DEF TypeOK, Job
  <2>2. \A c \in Cpu : job[c] # Idle => call[job[c].thread] # NoCall
        BY <2>1, <1>n DEF EndpointOfThisCall
  <2> QED BY <2>1, <2>2 DEF Owned, CallersRun
<1>1. ASSUME NEW p \in Pid, Fork(p) PROVE Owned'
  <2>1. /\ phase[p] = "free" /\ phase' = [phase EXCEPT ![p] = "running"]
        /\ gen' = [gen EXCEPT ![p] = @ + 1] /\ threads' = threads \cup {<<p, Leader>>}
        /\ UNCHANGED <<call, key, owner>>
        BY <1>1 DEF Fork
  <2>2. CallersRun'
        BY <2>1, <1>t DEF Owned, CallersRun, Tgid
  <2>3. \A s \in Slot : key[s] # p
        BY <2>1, <1>z DEF Owned, NoEntryOutlivesProcess
  <2>4. NoEntryOutlivesProcess'
        BY <2>1, <2>3, <1>t DEF Owned, NoEntryOutlivesProcess
  <2> QED BY <2>2, <2>4 DEF Owned
<1>2. ASSUME NEW p \in Pid, Reap(p) PROVE Owned'
  <2>1. /\ phase[p] = "exiting" /\ phase' = [phase EXCEPT ![p] = "free"]
        /\ UNCHANGED <<gen, threads, call, key, owner>>
        BY <1>2 DEF Reap
  <2> QED BY <2>1, <1>t DEF Owned, CallersRun, NoEntryOutlivesProcess
<1>3. ASSUME NEW t \in Thread, Spawn(t) PROVE Owned'
  <2>1. /\ threads' = threads \cup {t} /\ UNCHANGED <<phase, gen, call, key, owner>>
        /\ \E u \in threads : Tgid(u) = Tgid(t)
        BY <1>3 DEF Spawn, ThreadsOf
  <2>2. phase[Tgid(t)] = "running"
        BY <2>1 DEF Owned, CallersRun
  <2> QED BY <2>1, <2>2 DEF Owned, CallersRun, NoEntryOutlivesProcess
<1>4. ASSUME NEW t \in Thread, SchedProcessExit(t) PROVE Owned'
  <2> DEFINE p == Tgid(t)
  <2>1. call[t] = NoCall /\ threads' = threads \ {t} /\ UNCHANGED <<gen, call>>
        BY <1>4 DEF SchedProcessExit
  <2>2. CASE UNCHANGED <<phase, key, owner>>
        BY <2>1, <2>2 DEF Owned, CallersRun, NoEntryOutlivesProcess
  <2>3. CASE /\ ThreadsOf(threads, p) = {t}
             /\ phase' = [phase EXCEPT ![p] = "exiting"]
             /\ key' = [s \in Slot |-> IF key[s] = p THEN 0 ELSE key[s]]
             /\ owner' = [s \in Slot |-> IF key[s] = p THEN 0 ELSE owner[s]]
    <3>1. p \in Pid
          BY <1>t
    <3>2. \A u \in threads' : Tgid(u) # p /\ u \in threads
          BY <2>1, <2>3 DEF ThreadsOf
    <3> HIDE DEF p
    <3>3. \A u \in threads' : phase'[Tgid(u)] = "running"
          BY <2>3, <3>1, <3>2, <1>t DEF Owned, CallersRun
    <3>4. CallersRun'
          BY <2>1, <3>3 DEF Owned, CallersRun
    <3>5. NoEntryOutlivesProcess'
          BY <2>1, <2>3, <3>1, <1>t DEF Owned, NoEntryOutlivesProcess
    <3> QED BY <3>4, <3>5 DEF Owned
  <2> QED BY <1>4, <2>2, <2>3 DEF SchedProcessExit, DeleteKey
<1>5. ASSUME NEW c \in Cpu, Insert(c) PROVE Owned'
  <2> DEFINE p == Tgid(job[c].thread)
  <2>1. p \in Pid /\ phase[p] = "running"
        BY <1>5, <1>i, <1>j, <1>t DEF Insert
  <2>2. UNCHANGED <<phase, gen, threads, call>>
        BY <1>5 DEF Insert
  <2>3. \/ UNCHANGED <<key, owner>>
        \/ \E s \in Slot : /\ key' = [key EXCEPT ![s] = p]
                           /\ owner' = [owner EXCEPT ![s] = gen[p]]
        BY <1>5 DEF Insert
  <2> HIDE DEF p
  <2>4. NoEntryOutlivesProcess'
        BY <2>1, <2>2, <2>3, <1>t DEF Owned, NoEntryOutlivesProcess
  <2> QED BY <2>2, <2>4 DEF Owned, CallersRun
\* The probes and the rest of account_bytes leave processes and keys alone; only
\* live threads enter a call.
<1>6. ASSUME UNCHANGED <<phase, gen, threads, key, owner>>,
             \A t \in Thread : call'[t] # NoCall => t \in threads
      PROVE  Owned'
      BY <1>6 DEF Owned, CallersRun, NoEntryOutlivesProcess
<1>7. ASSUME NEW t \in Thread,
             \/ \E op \in Bracketed, a \in Addr : ProbeEntry(t, op, a)
             \/ \E c \in Cpu : ProbeExit(t, c)
             \/ \E c \in Cpu, a \in Addr : TcpCleanupRbuf(t, c, a)
      PROVE  Owned'
  <2>1. UNCHANGED <<phase, gen, threads, key, owner>>
        BY <1>7 DEF ProbeEntry, ProbeExit, TcpCleanupRbuf
  <2>2. \A u \in Thread : u # t => call'[u] = call[u]
        BY <1>7, <1>t DEF ProbeEntry, ProbeExit, TcpCleanupRbuf
  <2>3. call'[t] # NoCall => t \in threads
    <3>1. CASE \E c \in Cpu : ProbeExit(t, c)
          BY <3>1, <1>t, <1>n DEF ProbeExit, Owned, CallersRun
    <3>2. CASE ~ \E c \in Cpu : ProbeExit(t, c)
          BY <3>2, <1>7 DEF ProbeEntry, TcpCleanupRbuf
    <3> QED BY <3>1, <3>2
  <2> QED BY <1>6, <2>1, <2>2, <2>3 DEF Owned, CallersRun
<1>8. ASSUME NEW c \in Cpu, Lookup(c) \/ Update(c) \/ Emit(c) \/ Relookup(c)
      PROVE  Owned'
  <2>1. UNCHANGED <<phase, gen, threads, key, owner>>
        BY <1>8 DEF Lookup, Update, Emit, Relookup
  <2>2. call' = call \/ call' = [call EXCEPT ![job[c].thread] = NoCall]
        BY <1>8 DEF Lookup, Update, Emit, Relookup, Return
  <2>3. \A u \in Thread : call'[u] # NoCall => call[u] # NoCall
        BY <2>2, <1>t
  <2> QED BY <1>6, <2>1, <2>3 DEF Owned, CallersRun
<1>9. CASE Consume \/ UNCHANGED vars
  <2>1. UNCHANGED <<phase, gen, threads, key, owner, call>>
        BY <1>9 DEF Consume, vars
  <2> QED BY <1>6, <2>1 DEF Owned, CallersRun
<1> QED BY <1>1, <1>2, <1>3, <1>4, <1>5, <1>7, <1>8, <1>9
        DEF Next, Machine, Probes, AccountBytes

--------------------------------------------------------------------------------
(* Nothing is missed while the maps have room.                             *)

\* The saved addresses of an operation are those of threads inside it, so with
\* room for one more call the LRU map evicts nothing.
LEMMA LruKeeps ==
    ASSUME TypeOK, SavedIsCurrent, IsFiniteSet(Thread), RoomInMaps',
           NEW t \in Thread, NEW op \in Bracketed, NEW a \in Addr, ProbeEntry(t, op, a)
    PROVE  saved' = [saved EXCEPT ![op] = [saved[op] EXCEPT ![t] = a]]
<1> DEFINE held == {u \in Thread : saved[op][u] # NoAddr}
           inside == {u \in Thread : call'[u].op = op}
<1>t. call \in [Thread -> Call \cup {NoCall}]
      BY DEF TypeOK
<1>1. call[t] = NoCall /\ call' = [call EXCEPT ![t] = [op |-> op, addr |-> a]]
      BY DEF ProbeEntry
<1>2. \A u \in held : call[u].op = op
      BY DEF SavedIsCurrent
<1>3. NoCall.op # op
      BY NoneIsNoOp DEF NoCall
<1>4. t \notin held
      BY <1>1, <1>2, <1>3
<1>5. t \in inside /\ held \subseteq inside \ {t}
      BY <1>1, <1>2, <1>4, <1>t
<1>6. inside \subseteq Thread /\ Cardinality(inside) <= AddrCap
      BY DEF RoomInMaps
<1> HIDE DEF inside
<1>7. IsFiniteSet(inside) /\ Cardinality(inside) \in Nat
      BY <1>6, FS_Subset, FS_CardinalityType
<1>8. IsFiniteSet(inside \ {t}) /\ Cardinality(inside \ {t}) = Cardinality(inside) - 1
      BY <1>5, <1>7, FS_RemoveElement
<1>9. Cardinality(held) <= Cardinality(inside \ {t}) /\ Cardinality(held) \in Nat
  <2> HIDE DEF held
  <2> QED BY <1>5, <1>8, FS_Subset, FS_CardinalityType
<1>10. Cardinality(held) < AddrCap
      BY <1>6, <1>7, <1>8, <1>9, AccountingAssumption
<1>11. LruUpdate(saved[op], t, a) = {[saved[op] EXCEPT ![t] = a]}
      BY <1>10 DEF LruUpdate
<1> QED BY <1>11 DEF ProbeEntry

\* A full STATS map holds an element for every running process.
LEMMA FullMapHasAll ==
    ASSUME TypeOK, OneElementPerPid, NoEntryOutlivesProcess, RoomInMaps,
           IsFiniteSet(Pid), IsFiniteSet(Slot),
           \A s \in Slot : key[s] # 0,
           NEW p \in Pid, phase[p] = "running"
    PROVE  \E s \in Slot : key[s] = p
<1> DEFINE running == {q \in Pid : phase[q] = "running"}
<1>1. key \in [Slot -> running]
      BY DEF TypeOK, NoEntryOutlivesProcess
<1>2. key \in Injection(Slot, running)
      BY <1>1 DEF OneElementPerPid, Injection, IsInjective
<1>3. IsFiniteSet(running) /\ Cardinality(running) \in Nat /\ Cardinality(Slot) \in Nat
      BY FS_Subset, FS_CardinalityType
<1>4. Cardinality(running) <= Cardinality(Slot) /\ p \in running
      BY DEF RoomInMaps
<1> HIDE DEF running
<1>5. Cardinality(Slot) <= Cardinality(running)
      BY <1>2, <1>3, FS_Injection
<1>6. key \in Surjection(Slot, running)
      BY <1>2, <1>3, <1>4, <1>5, FS_Injection
<1> QED BY <1>4, <1>6 DEF Surjection

MissInv == AddressIsSaved /\ RelookupFinds /\ NothingMissed

LEMMA MissInit == Init => MissInv
<1> SUFFICES ASSUME Init PROVE MissInv
    OBVIOUS
<1>1. NoCall.op \notin Bracketed
      BY NoneIsNoOp DEF NoCall
<1>2. AddressIsSaved
      BY <1>1 DEF Init, AddressIsSaved
<1>3. RelookupFinds
      BY DEF Init, RelookupFinds, Idle
<1>4. NothingMissed
      BY DEF Init, NothingMissed
<1> QED BY <1>2, <1>3, <1>4 DEF MissInv

LEMMA MissStep ==
    ASSUME LeaderExitsLast, IsFiniteSet(Thread), IsFiniteSet(Pid), IsFiniteSet(Slot),
           TypeOK, EndpointOfThisCall, SavedIsCurrent, OneElementPerPid, Owned,
           MissInv, RoomInMaps, RoomInMaps', [Next]_vars
    PROVE  MissInv'
<1> USE DEF procVars, statsVars, ringVars, countVars
<1>n. NoCall.op = "none" /\ NoCall.op \notin Bracketed /\ Bracketed \subseteq Op
      BY NoneIsNoOp DEF NoCall
<1>t. /\ call \in [Thread -> Call \cup {NoCall}] /\ job \in [Cpu -> Job \cup {Idle}]
      /\ saved \in [Bracketed -> [Thread -> Addr \cup {NoAddr}]]
      /\ key \in [Slot -> Pid \cup {0}] /\ missed \in [Pid -> [Op -> Nat]]
      /\ \A t \in Thread : Tgid(t) \in Pid
      BY DEF TypeOK, Thread, Tgid
<1>z. 0 \notin Pid /\ NoAddr \notin Addr
      BY AccountingAssumption
<1>i. /\ \A c \in Cpu : job[c].pc # "idle" => job[c] # Idle
      /\ Idle.pc = "idle" /\ Idle.thread \notin Thread
      BY <1>z DEF Idle, Thread
<1>j. \A c \in Cpu : job[c] # Idle =>
          /\ job[c] \in Job /\ job[c].thread \in threads /\ job[c].thread \in Thread
          /\ call[job[c].thread] # NoCall /\ phase[Tgid(job[c].thread)] = "running"
  <2>1. \A c \in Cpu : job[c] # Idle =>
            job[c] \in Job /\ job[c].thread \in Thread /\ job[c].op \in Op
        BY DEF TypeOK, Job
  <2>2. \A c \in Cpu : job[c] # Idle => call[job[c].thread] # NoCall
        BY <2>1, NoneIsNoOp DEF EndpointOfThisCall, NoCall
  <2> QED BY <2>1, <2>2 DEF Owned, CallersRun
\* Steps of other parts: nobody enters or leaves a call or a program.
<1>s. ASSUME UNCHANGED <<call, saved, job>>,
             \A c \in Cpu : job[c].pc = "relookup" => Found(c)' # {},
             \A p \in Pid : missed'[p] = NoUnits
      PROVE  MissInv'
  <2>1. AddressIsSaved'
        BY <1>s DEF MissInv, AddressIsSaved, InJob
  <2>2. RelookupFinds'
        BY <1>s DEF RelookupFinds
  <2> QED BY <1>s, <2>1, <2>2 DEF MissInv, NothingMissed
<1>f. UNCHANGED <<key, job>> => \A c \in Cpu : job[c].pc = "relookup" => Found(c)' # {}
      BY DEF MissInv, RelookupFinds, Found
\* A step of the program on c that stays in account_bytes.
<1>g. ASSUME NEW c \in Cpu, job[c] # Idle, UNCHANGED <<call, saved, missed>>,
             \A d \in Cpu : d # c => job'[d] = job[d],
             job'[c].thread = job[c].thread,
             \A d \in Cpu : job'[d].pc = "relookup" => Found(d)' # {}
      PROVE  MissInv'
  <2>1. \A t : InJob(t)' <=> InJob(t)
        BY <1>g DEF InJob
  <2>2. AddressIsSaved'
        BY <1>g, <2>1 DEF MissInv, AddressIsSaved
  <2> QED BY <1>g, <2>2 DEF MissInv, RelookupFinds, NothingMissed
\* The program on c returns.
<1>r. ASSUME NEW c \in Cpu, job[c] # Idle, UNCHANGED <<saved, missed, key>>, Return(c)
      PROVE  MissInv'
  <2>1. /\ job'[c] = Idle /\ \A d \in Cpu : d # c => job'[d] = job[d]
        /\ job[c].thread \in Thread /\ call' = [call EXCEPT ![job[c].thread] = NoCall]
        BY <1>r, ReturnFacts
  <2>2. ASSUME NEW t \in Thread, call'[t].op \in Bracketed, ~InJob(t)'
        PROVE  saved'[call'[t].op][t] # NoAddr
    <3>1. t # job[c].thread /\ call'[t] = call[t]
          BY <2>1, <2>2, <1>n, <1>t
    <3>2. ~InJob(t)
          BY <2>1, <2>2, <3>1 DEF InJob
    <3> QED BY <1>r, <2>2, <3>1, <3>2 DEF MissInv, AddressIsSaved
  <2>3. RelookupFinds'
        BY <1>r, <2>1, <1>i DEF MissInv, RelookupFinds, Found
  <2> QED BY <1>r, <2>2, <2>3 DEF MissInv, AddressIsSaved, NothingMissed
<1>1. ASSUME NEW p \in Pid, Fork(p) \/ Reap(p) PROVE MissInv'
  <2>1. UNCHANGED <<call, saved, job, key>> /\ \A q \in Pid : missed'[q] = NoUnits
        BY <1>1, <1>t DEF Fork, Reap, MissInv, NothingMissed
  <2> QED BY <2>1, <1>s, <1>f
<1>2. ASSUME NEW t \in Thread, Spawn(t) PROVE MissInv'
  <2>1. UNCHANGED <<call, saved, job, key, missed>>
        BY <1>2 DEF Spawn
  <2> QED BY <2>1, <1>s, <1>f DEF MissInv, NothingMissed
<1>3. ASSUME NEW t \in Thread, SchedProcessExit(t) PROVE MissInv'
  <2>1. /\ call[t] = NoCall /\ UNCHANGED <<call, saved, job, missed>>
        /\ \/ UNCHANGED key
           \/ /\ ThreadsOf(threads, Tgid(t)) = {t}
              /\ key' = [s \in Slot |-> IF key[s] = Tgid(t) THEN 0 ELSE key[s]]
        BY <1>3 DEF SchedProcessExit, DeleteKey
  <2>2. ASSUME NEW c \in Cpu, job[c].pc = "relookup" PROVE Found(c)' # {}
    <3>1. job[c] # Idle /\ Found(c) # {}
          BY <2>2, <1>i DEF MissInv, RelookupFinds
    <3>2. PICK s \in Slot : key[s] = Tgid(job[c].thread)
          BY <3>1 DEF Found
    <3>3. CASE UNCHANGED key
          BY <2>1, <3>2, <3>3 DEF Found
    <3>4. CASE /\ ThreadsOf(threads, Tgid(t)) = {t}
               /\ key' = [r \in Slot |-> IF key[r] = Tgid(t) THEN 0 ELSE key[r]]
      <4>1. Tgid(job[c].thread) # Tgid(t)
            BY <2>1, <3>1, <3>4, <1>j DEF ThreadsOf
      <4>2. key'[s] = Tgid(job[c].thread)
            BY <3>2, <3>4, <4>1
      <4> QED BY <2>1, <4>2 DEF Found
    <3> QED BY <2>1, <3>3, <3>4
  <2> QED BY <2>1, <2>2, <1>s DEF MissInv, NothingMissed
<1>4. ASSUME NEW t \in Thread, NEW op \in Bracketed, NEW a \in Addr, ProbeEntry(t, op, a)
      PROVE  MissInv'
  <2> DEFINE cal == [op |-> op, addr |-> a]
  <2>1. /\ call' = [call EXCEPT ![t] = cal] /\ cal.op = op
        /\ UNCHANGED <<job, key, missed>>
        BY <1>4 DEF ProbeEntry
  <2> HIDE DEF cal
  <2>2. saved' = [saved EXCEPT ![op] = [saved[op] EXCEPT ![t] = a]]
        BY <1>4, LruKeeps
  <2>3. ASSUME NEW u \in Thread, call'[u].op \in Bracketed, ~InJob(u)'
        PROVE  saved'[call'[u].op][u] # NoAddr
    <3>1. CASE u = t
          BY <2>1, <2>2, <3>1, <1>t, <1>z
    <3>2. CASE u # t
      <4>1. call'[u] = call[u] /\ ~InJob(u)
            BY <2>1, <2>3, <3>2, <1>t DEF InJob
      <4>2. saved[call[u].op][u] # NoAddr
            BY <2>3, <4>1 DEF MissInv, AddressIsSaved
      <4>3. \A o \in Bracketed : saved'[o][u] = saved[o][u]
            BY <2>2, <3>2, <1>t
      <4> QED BY <2>3, <4>1, <4>2, <4>3
    <3> QED BY <3>1, <3>2
  <2>4. AddressIsSaved'
        BY <2>3 DEF AddressIsSaved
  <2> QED BY <2>1, <2>4, <1>f DEF MissInv, RelookupFinds, NothingMissed
<1>5. ASSUME NEW t \in Thread, NEW c \in Cpu, ProbeExit(t, c) PROVE MissInv'
  <2> DEFINE op == call[t].op
  <2>1. /\ op \in Bracketed /\ ~InJob(t) /\ UNCHANGED key
        /\ saved' = [saved EXCEPT ![op] = [saved[op] EXCEPT ![t] = NoAddr]]
        BY <1>5 DEF ProbeExit
  <2>2. saved[op][t] # NoAddr
        BY <2>1 DEF MissInv, AddressIsSaved
  <2>3. missed' = missed
        BY <1>5, <2>2 DEF ProbeExit
  <2>4. ASSUME NEW u \in Thread, u # t, call'[u] = call[u], call[u].op \in Bracketed, ~InJob(u)
        PROVE  saved'[call'[u].op][u] # NoAddr
    <3>1. saved[call[u].op][u] # NoAddr
          BY <2>4 DEF MissInv, AddressIsSaved
    <3> HIDE DEF op
    <3>2. \A o \in Bracketed : saved'[o][u] = saved[o][u]
          BY <2>1, <2>4, <1>t
    <3> QED BY <2>4, <3>1, <3>2
  <2>5. CASE UNCHANGED job /\ call' = [call EXCEPT ![t] = NoCall]
    <3>1. AddressIsSaved'
          BY <2>4, <2>5, <1>n, <1>t DEF AddressIsSaved, InJob
    <3> QED BY <2>1, <2>3, <2>5, <3>1, <1>f DEF MissInv, RelookupFinds, NothingMissed
  <2>6. CASE UNCHANGED call /\ StartAccount(c, t, op, saved[op][t])
    <3> DEFINE new == [pc |-> "lookup", thread |-> t, op |-> op,
                       addr |-> saved[op][t], slot |-> 0]
    <3>1. job[c] = Idle /\ job' = [job EXCEPT ![c] = new] /\ new.thread = t /\ new.pc = "lookup"
          BY <2>6 DEF StartAccount
    <3> HIDE DEF new
    <3>2. job'[c] = new /\ \A d \in Cpu : d # c => job'[d] = job[d]
          BY <3>1, <1>t
    <3>3. \A u \in Thread : ~InJob(u)' => u # t /\ ~InJob(u)
          BY <3>1, <3>2, <1>i DEF InJob
    <3>4. AddressIsSaved'
          BY <2>4, <2>6, <3>3 DEF AddressIsSaved
    <3>5. RelookupFinds'
          BY <2>1, <3>1, <3>2 DEF MissInv, RelookupFinds, Found
    <3> QED BY <2>3, <3>4, <3>5 DEF MissInv, NothingMissed
  <2> QED BY <1>5, <2>2, <2>5, <2>6 DEF ProbeExit
<1>6. ASSUME NEW t \in Thread, NEW c \in Cpu, NEW a \in Addr, TcpCleanupRbuf(t, c, a)
      PROVE  MissInv'
  <2> DEFINE new == [pc |-> "lookup", thread |-> t, op |-> "tcp_recv", addr |-> a, slot |-> 0]
             cal == [op |-> "tcp_recv", addr |-> a]
  <2>1. /\ call' = [call EXCEPT ![t] = cal] /\ UNCHANGED <<saved, key, missed>>
        /\ job[c] = Idle /\ job' = [job EXCEPT ![c] = new]
        BY <1>6 DEF TcpCleanupRbuf, StartAccount
  <2>2. new.thread = t /\ new.pc = "lookup" /\ cal.op \notin Bracketed
        BY DEF Bracketed
  <2> HIDE DEF new, cal
  <2>3. job'[c] = new /\ \A d \in Cpu : d # c => job'[d] = job[d]
        BY <2>1, <1>t
  <2>4. ASSUME NEW u \in Thread, call'[u].op \in Bracketed, ~InJob(u)'
        PROVE  saved'[call'[u].op][u] # NoAddr
    <3>1. u # t /\ call'[u] = call[u]
          BY <2>1, <2>2, <2>4, <1>t
    <3>2. ~InJob(u)
          BY <2>1, <2>3, <2>4, <1>i DEF InJob
    <3> QED BY <2>1, <2>4, <3>1, <3>2 DEF MissInv, AddressIsSaved
  <2>5. RelookupFinds'
        BY <2>1, <2>2, <2>3 DEF MissInv, RelookupFinds, Found
  <2> QED BY <2>1, <2>4, <2>5 DEF MissInv, AddressIsSaved, NothingMissed
<1>7. ASSUME NEW c \in Cpu, Lookup(c) PROVE MissInv'
  <2>1. job[c] # Idle /\ UNCHANGED <<call, saved, missed, key>>
        BY <1>7, <1>i DEF Lookup
  <2>2. PICK x \in {"update", "insert"}, s \in Slot \cup {0} :
             (x = "update" => s \in Slot) /\ Goto(c, x, s)
        BY <1>7 DEF Lookup, Found
  <2>3. /\ \A d \in Cpu : d # c => job'[d] = job[d]
        /\ job'[c].thread = job[c].thread
        BY <2>1, <2>2, GotoFacts
  <2>4. job'[c].pc = x
        BY <2>1, <2>2, <1>j, <1>t DEF Goto, Job
  <2>5. \A d \in Cpu : job'[d].pc = "relookup" => Found(d)' # {}
        BY <2>1, <2>3, <2>4 DEF MissInv, RelookupFinds, Found
  <2> QED BY <2>1, <2>3, <2>5, <1>g
<1>8. ASSUME NEW c \in Cpu, Insert(c) PROVE MissInv'
  <2> DEFINE p == Tgid(job[c].thread)
  <2>1. job[c] # Idle /\ UNCHANGED <<call, saved, missed>>
        BY <1>8, <1>i DEF Insert
  <2>2. p \in Pid /\ phase[p] = "running"
        BY <2>1, <1>j, <1>t
  <2>3. CASE \E s \in Slot : key[s] = 0 /\ key' = [key EXCEPT ![s] = p] /\ Goto(c, "emit", s)
    <3>1. PICK s \in Slot : key[s] = 0 /\ key' = [key EXCEPT ![s] = p] /\ Goto(c, "emit", s)
          BY <2>3
    <3>2. /\ \A d \in Cpu : d # c => job'[d] = job[d]
          /\ job'[c].thread = job[c].thread
          BY <2>1, <3>1, GotoFacts
    <3>3. job'[c].pc = "emit"
          BY <2>1, <3>1, <1>j, <1>t DEF Goto, Job
    <3>4. ASSUME NEW d \in Cpu, job'[d].pc = "relookup" PROVE Found(d)' # {}
      <4>1. d # c /\ job'[d] = job[d] /\ Found(d) # {} /\ job[d] # Idle
            BY <3>2, <3>3, <3>4, <1>i DEF MissInv, RelookupFinds
      <4>2. PICK r \in Slot : key[r] = Tgid(job[d].thread)
            BY <4>1 DEF Found
      <4>3. key[r] # 0
            BY <4>1, <4>2, <1>j, <1>t, <1>z
      <4>4. key'[r] = key[r]
            BY <3>1, <4>3, <1>t
      <4> QED BY <4>1, <4>2, <4>4 DEF Found
    <3> QED BY <2>1, <3>2, <3>4, <1>g
  <2>4. CASE /\ Found(c) # {} \/ \A s \in Slot : key[s] # 0
             /\ Goto(c, "relookup", 0) /\ UNCHANGED key
    <3>1. /\ \A d \in Cpu : d # c => job'[d] = job[d]
          /\ job'[c].thread = job[c].thread
          BY <2>1, <2>4, GotoFacts
    <3>2. Found(c) # {}
          BY <2>2, <2>4, FullMapHasAll DEF Found, Owned
    <3>3. \A d \in Cpu : job'[d].pc = "relookup" => Found(d)' # {}
          BY <2>4, <3>1, <3>2 DEF MissInv, RelookupFinds, Found
    <3> QED BY <2>1, <3>1, <3>3, <1>g
  <2> QED BY <1>8, <2>3, <2>4 DEF Insert
<1>9. ASSUME NEW c \in Cpu, Update(c) \/ Emit(c) PROVE MissInv'
  <2>1. job[c] # Idle /\ UNCHANGED <<saved, missed, key>> /\ Return(c)
        BY <1>9, <1>i DEF Update, Emit
  <2> QED BY <2>1, <1>r
<1>10. ASSUME NEW c \in Cpu, Relookup(c) PROVE MissInv'
  <2>1. job[c] # Idle /\ Found(c) # {} /\ UNCHANGED <<saved, key>>
        BY <1>10, <1>i DEF Relookup, MissInv, RelookupFinds
  <2>2. PICK s \in Slot : Goto(c, "update", s) /\ UNCHANGED <<call, missed>>
        BY <1>10, <2>1 DEF Relookup, Found
  <2>3. /\ \A d \in Cpu : d # c => job'[d] = job[d]
        /\ job'[c].thread = job[c].thread
        BY <2>1, <2>2, GotoFacts
  <2>4. job'[c].pc = "update"
        BY <2>1, <2>2, <1>j, <1>t DEF Goto, Job
  <2>5. \A d \in Cpu : job'[d].pc = "relookup" => Found(d)' # {}
        BY <2>1, <2>3, <2>4 DEF MissInv, RelookupFinds, Found
  <2> QED BY <2>1, <2>2, <2>3, <2>5, <1>g
<1>11. CASE Consume \/ UNCHANGED vars
  <2>1. UNCHANGED <<call, saved, job, key, missed>>
        BY <1>11 DEF Consume, vars
  <2> QED BY <2>1, <1>s, <1>f DEF MissInv, NothingMissed
<1> QED BY <1>1, <1>2, <1>3, <1>4, <1>5, <1>6, <1>7, <1>8, <1>9, <1>10, <1>11
        DEF Next, Machine, Probes, AccountBytes

--------------------------------------------------------------------------------
(* The theorems.                                                           *)

\* Every reachable state of the eBPF side is well typed.
THEOREM TypeCorrect == Spec => []TypeOK
BY TypeInit, TypeStep, PTL DEF Spec

\* The traffic of a call is filed under that call's endpoint: the per-thread key
\* of the *_ADDRS maps keeps concurrent calls apart, and eviction only loses.
THEOREM EndpointsAreRight == Spec => []EndpointOfThisCall
BY EndpointInit, EndpointStep, TypeCorrect, PTL DEF Spec

\* BPF_NOEXIST and the second lookup keep one element per PID in STATS, however
\* many CPUs try to insert it.
THEOREM OneElement == Spec => []OneElementPerPid
BY OneElementInit, OneElementStep, TypeCorrect, PTL DEF Spec

\* If the leader is always the last thread to exit, an entry never outlives its
\* process and a reused PID never inherits one.
THEOREM EntriesDieWithProcess ==
    ASSUME LeaderExitsLast PROVE Spec => []NoEntryOutlivesProcess
<1>1. Init => Owned
      BY OwnedInit
<1>2. TypeOK /\ EndpointOfThisCall /\ Owned /\ [Next]_vars => Owned'
      BY OwnedStep
<1>3. Owned => NoEntryOutlivesProcess
      BY DEF Owned
<1> QED BY <1>1, <1>2, <1>3, TypeCorrect, EndpointsAreRight, PTL DEF Spec

\* While every *_ADDRS map has an entry for each thread inside its function and
\* STATS an element for each running process, no unit goes uncounted: no address
\* is evicted, and the CPU that loses the race to insert finds the element.
THEOREM NothingIsMissed ==
    ASSUME LeaderExitsLast, IsFiniteSet(Thread), IsFiniteSet(Pid), IsFiniteSet(Slot)
    PROVE  Spec /\ []RoomInMaps => []NothingMissed
<1> DEFINE Inv == /\ TypeOK /\ EndpointOfThisCall /\ SavedIsCurrent
                  /\ OneElementPerPid /\ Owned /\ MissInv
<1>1. Init => Inv
      BY TypeInit, EndpointInit, OneElementInit, OwnedInit, MissInit
<1>2. Inv /\ RoomInMaps /\ RoomInMaps' /\ [Next]_vars => Inv'
  <2> SUFFICES ASSUME Inv, RoomInMaps, RoomInMaps', [Next]_vars PROVE Inv'
      OBVIOUS
  <2>1. TypeOK' /\ EndpointOfThisCall' /\ SavedIsCurrent' /\ OneElementPerPid'
        BY TypeStep, EndpointStep, OneElementStep
  <2>2. Owned' /\ MissInv'
        BY OwnedStep, MissStep
  <2> QED BY <2>1, <2>2
<1>3. Inv => NothingMissed
      BY DEF MissInv
<1> QED BY <1>1, <1>2, <1>3, PTL DEF Spec
================================================================================
