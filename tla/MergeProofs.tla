------------------------------ MODULE MergeProofs ------------------------------
(***************************************************************************)
(* Proofs about Merge: what the loop over the CPUs computes, that every    *)
(* unit is counted once, and that the programs implement StatsFeed.        *)
(***************************************************************************)
EXTENDS Merge, AccountingProofs, WellFoundedInduction

--------------------------------------------------------------------------------
(* Induction over the CPUs.                                                *)

LEMMA LeastNat ==
    ASSUME NEW T \in SUBSET Nat, T # {}
    PROVE  \E x \in T : \A y \in T : x <= y
<1> DEFINE R == {ss \in Nat \X Nat : ss[1] < ss[2]}
<1>1. IsWellFoundedOn(R, Nat)
      BY NatLessThanWellFounded DEF OpToRel
<1>2. PICK x \in T : \A y \in T : <<y, x>> \notin R
  <2> HIDE DEF R
  <2> QED BY <1>1, WFMin
<1>3. \A y \in T : ~(y < x)
      BY <1>2
<1> QED BY <1>3

\* Induction on membership in a set: the library's rule takes an operator, which
\* the provers cannot instantiate.
LEMMA SetInduction ==
    ASSUME NEW G, 0 \in G, \A n \in Nat : n \in G => n + 1 \in G
    PROVE  \A n \in Nat : n \in G
<1> DEFINE T == {n \in Nat : n \notin G}
<1> SUFFICES ASSUME T # {} PROVE FALSE
    OBVIOUS
<1>1. PICK x \in T : \A y \in T : x <= y
      BY LeastNat
<1>2. x \in Nat /\ x # 0
      BY <1>1
<1>3. x - 1 \in Nat /\ x - 1 \notin T
      BY <1>1, <1>2
<1>4. x - 1 \in G /\ (x - 1) + 1 = x
      BY <1>2, <1>3
<1> QED BY <1>1, <1>3, <1>4

Last == Cardinality(Cpu)

LEMMA Cpus == Last \in Nat \ {0} /\ Cpu = 0 .. Last - 1 /\ IsFiniteSet(Cpu)
BY CpuAssumption, FS_CardinalityType, FS_EmptySet DEF Last

\* The recursive definition of the loop has a solution, so it computes what it says.
LEMMA LoopDef ==
    ASSUME NEW v
    PROVE  MergeLoop(v) = [i \in 0 .. Last |->
               IF i = 0 THEN EmptyStats ELSE MergeStats(MergeLoop(v)[i-1], v[i-1])]
<1> DEFINE Step(f, i) == IF i = 0 THEN EmptyStats ELSE MergeStats(f[i-1], v[i-1])
           G == {n \in Nat : \E f : f = [i \in 0 .. n |-> Step(f, i)]}
<1>0. Last \in Nat
      BY Cpus
<1>1. 0 \in G
  <2> DEFINE f == [i \in 0 .. 0 |-> EmptyStats]
  <2>1. f = [i \in 0 .. 0 |-> Step(f, i)]
        OBVIOUS
  <2> QED BY <2>1
<1>2. ASSUME NEW n \in Nat, n \in G PROVE n + 1 \in G
  <2>1. PICK f : f = [i \in 0 .. n |-> Step(f, i)]
        BY <1>2
  <2> DEFINE g == [i \in 0 .. n + 1 |-> IF i = n + 1 THEN MergeStats(f[n], v[n]) ELSE f[i]]
  <2>2. ASSUME NEW i \in 0 .. n + 1 PROVE g[i] = Step(g, i)
    <3>1. CASE i = n + 1
          BY <3>1
    <3>2. CASE i \in 0 .. n
      <4>1. g[i] = f[i] /\ f[i] = Step(f, i)
            BY <2>1, <3>2
      <4>2. i # 0 => i - 1 \in 0 .. n + 1 /\ i - 1 # n + 1
            BY <3>2
      <4>3. i # 0 => g[i-1] = f[i-1]
            BY <4>2
      <4> QED BY <4>1, <4>3
    <3> QED BY <3>1, <3>2
  <2>3. g = [i \in 0 .. n + 1 |-> Step(g, i)]
        BY <2>2
  <2> HIDE DEF g
  <2> QED BY <2>3
<1>3. \A n \in Nat : n \in G
  <2> HIDE DEF G
  <2> QED BY <1>1, <1>2, SetInduction
<1>4. \E f : f = [i \in 0 .. Last |-> Step(f, i)]
      BY <1>0, <1>3
<1> QED BY <1>4 DEF MergeLoop, Last

LEMMA LoopFacts ==
    ASSUME NEW v
    PROVE  /\ MergeLoop(v)[0] = EmptyStats
           /\ \A i \in Cpu : MergeLoop(v)[i + 1] = MergeStats(MergeLoop(v)[i], v[i])
           /\ MergeValues(v) = MergeLoop(v)[Last]
<1>1. \A i \in 0 .. Last : MergeLoop(v)[i] =
          IF i = 0 THEN EmptyStats ELSE MergeStats(MergeLoop(v)[i-1], v[i-1])
      BY LoopDef
<1>2. 0 \in 0 .. Last /\ \A i \in Cpu : i + 1 \in 0 .. Last /\ i + 1 # 0 /\ (i + 1) - 1 = i
      BY Cpus
<1> QED BY <1>1, <1>2 DEF MergeValues, Last

LEMMA CpuInduction ==
    ASSUME NEW G, 0 \in G, \A i \in Cpu : i \in G => i + 1 \in G
    PROVE  \A i \in 0 .. Last : i \in G
<1> DEFINE H == {n \in Nat : n <= Last => n \in G}
<1>1. 0 \in H
      OBVIOUS
<1>2. \A n \in Nat : n \in H => n + 1 \in H
  <2> SUFFICES ASSUME NEW n \in Nat, n \in H, n + 1 <= Last PROVE n + 1 \in G
      OBVIOUS
  <2> QED BY Cpus
<1>3. \A n \in Nat : n \in H
  <2> HIDE DEF H
  <2> QED BY <1>1, <1>2, SetInduction
<1> QED BY <1>3, Cpus

LEMMA MergeStatsType ==
    ASSUME NEW m \in ProcStats, NEW n \in ProcStats
    PROVE  /\ MergeStats(m, n) \in ProcStats
           /\ \A op \in Op : MergeStats(m, n).bytes[op] = m.bytes[op] + n.bytes[op]
           /\ \A x \in Protocol : MergeStats(m, n).addr[x] =
                 IF m.addr[x] = NoAddr THEN n.addr[x] ELSE m.addr[x]
<1>1. /\ m.bytes \in [Op -> Nat] /\ m.addr \in [Protocol -> Addr \cup {NoAddr}]
      /\ n.bytes \in [Op -> Nat] /\ n.addr \in [Protocol -> Addr \cup {NoAddr}]
      BY DEF ProcStats
<1>2. /\ MergeStats(m, n).bytes \in [Op -> Nat]
      /\ MergeStats(m, n).addr \in [Protocol -> Addr \cup {NoAddr}]
      BY <1>1 DEF MergeStats
<1> QED BY <1>2 DEF MergeStats, ProcStats

LEMMA EmptyStatsType ==
    /\ EmptyStats \in ProcStats /\ EmptyStats.bytes = NoUnits
    /\ \A op \in Op : EmptyStats.bytes[op] = 0
    /\ \A x \in Protocol : EmptyStats.addr[x] = NoAddr
<1>1. NoUnits \in [Op -> Nat] /\ [x \in Protocol |-> NoAddr] \in [Protocol -> Addr \cup {NoAddr}]
      BY DEF NoUnits
<1> QED BY <1>1 DEF EmptyStats, NoUnits, ProcStats

\* The merged record is a record of the same kind.
LEMMA LoopType ==
    ASSUME NEW v \in [Cpu -> ProcStats]
    PROVE  /\ \A i \in 0 .. Last : MergeLoop(v)[i] \in ProcStats
           /\ MergeValues(v) \in ProcStats
<1> DEFINE G == {i \in 0 .. Last : MergeLoop(v)[i] \in ProcStats}
<1>1. 0 \in G
      BY LoopFacts, EmptyStatsType, Cpus
<1>2. ASSUME NEW i \in Cpu, i \in G PROVE i + 1 \in G
      BY <1>2, LoopFacts, MergeStatsType, Cpus
<1>3. \A i \in 0 .. Last : i \in G
  <2> HIDE DEF G
  <2> QED BY <1>1, <1>2, CpuInduction
<1> QED BY <1>3, LoopFacts, Cpus

\* A unit added to one CPU's value adds one to that counter of the merged record.
LEMMA MergeAdds ==
    ASSUME NEW v \in [Cpu -> ProcStats], NEW w \in [Cpu -> ProcStats],
           NEW c \in Cpu, NEW op \in Op, \A d \in Cpu : d # c => w[d] = v[d],
           \A k \in Op : w[c].bytes[k] = v[c].bytes[k] + (IF k = op THEN 1 ELSE 0)
    PROVE  \A k \in Op : MergeValues(w).bytes[k] =
                             MergeValues(v).bytes[k] + (IF k = op THEN 1 ELSE 0)
<1> SUFFICES ASSUME NEW k \in Op
             PROVE  MergeValues(w).bytes[k] =
                        MergeValues(v).bytes[k] + (IF k = op THEN 1 ELSE 0)
    OBVIOUS
<1> DEFINE x == IF k = op THEN 1 ELSE 0
           L(i) == MergeLoop(v)[i].bytes[k]
           M(i) == MergeLoop(w)[i].bytes[k]
           G == {i \in 0 .. Last : M(i) = L(i) + (IF i > c THEN x ELSE 0)}
<1>t. c \in Nat /\ x \in Nat /\ \A i \in 0 .. Last : L(i) \in Nat /\ M(i) \in Nat
  <2>1. \A i \in 0 .. Last : MergeLoop(v)[i] \in ProcStats /\ MergeLoop(w)[i] \in ProcStats
        BY LoopType
  <2>2. \A i \in 0 .. Last : L(i) \in Nat /\ M(i) \in Nat
        BY <2>1 DEF ProcStats
  <2> QED BY <2>2, Cpus
<1>v. \A i \in Cpu : v[i].bytes[k] \in Nat /\ w[i].bytes[k] \in Nat
      BY DEF ProcStats
<1>s. \A i \in Cpu : L(i + 1) = L(i) + v[i].bytes[k] /\ M(i + 1) = M(i) + w[i].bytes[k]
  <2> SUFFICES ASSUME NEW i \in Cpu
               PROVE  L(i + 1) = L(i) + v[i].bytes[k] /\ M(i + 1) = M(i) + w[i].bytes[k]
      OBVIOUS
  <2>1. i \in 0 .. Last
        BY Cpus
  <2>2. /\ MergeLoop(v)[i] \in ProcStats /\ v[i] \in ProcStats
        /\ MergeLoop(w)[i] \in ProcStats /\ w[i] \in ProcStats
        BY <2>1, LoopType
  <2> QED BY <2>2, LoopFacts, MergeStatsType
<1>1. 0 \in G
      BY <1>t, LoopFacts, Cpus
<1>2. ASSUME NEW i \in Cpu, i \in G PROVE i + 1 \in G
  <2>1. i \in Nat /\ i + 1 \in 0 .. Last /\ M(i) = L(i) + (IF i > c THEN x ELSE 0)
        BY <1>2, Cpus
  <2>2. w[i].bytes[k] = v[i].bytes[k] + (IF i = c THEN x ELSE 0)
        BY <1>v
  <2>3. i \in 0 .. Last
        BY Cpus
  <2>4. L(i) \in Nat /\ M(i) \in Nat /\ v[i].bytes[k] \in Nat /\ w[i].bytes[k] \in Nat
        BY <1>t, <1>v, <2>3
  <2>5. L(i + 1) = L(i) + v[i].bytes[k] /\ M(i + 1) = M(i) + w[i].bytes[k]
        BY <1>s
  <2> HIDE DEF L, M, x
  <2>6. M(i + 1) = L(i + 1) + (IF i + 1 > c THEN x ELSE 0)
        BY <2>1, <2>2, <2>4, <2>5, <1>t
  <2> QED BY <2>1, <2>6
<1>3. \A i \in 0 .. Last : i \in G
  <2> HIDE DEF G
  <2> QED BY <1>1, <1>2, CpuInduction
<1>4. Last \in 0 .. Last /\ Last > c
      BY Cpus
<1> QED BY <1>3, <1>4, LoopFacts

\* Zeroed values merge to a zero record.
LEMMA MergeEmpty ==
    ASSUME NEW v, \A c \in Cpu : v[c] = EmptyStats
    PROVE  \A op \in Op : MergeValues(v).bytes[op] = 0
<1> DEFINE G == {i \in 0 .. Last : MergeLoop(v)[i] = EmptyStats}
<1>1. 0 \in G
      BY LoopFacts, Cpus
<1>2. ASSUME NEW i \in Cpu, i \in G PROVE i + 1 \in G
  <2>1. MergeStats(EmptyStats, EmptyStats) = EmptyStats
        BY EmptyStatsType DEF MergeStats, EmptyStats, NoUnits
  <2> QED BY <1>2, <2>1, LoopFacts, Cpus
<1>3. \A i \in 0 .. Last : i \in G
  <2> HIDE DEF G
  <2> QED BY <1>1, <1>2, CpuInduction
<1> QED BY <1>3, LoopFacts, Cpus, EmptyStatsType

--------------------------------------------------------------------------------
(* The units in hand.                                                      *)

InHand(j) == j.pc \in {"lookup", "update", "insert", "relookup"}

LEMMA FlightType ==
    /\ IsFiniteSet(Counting) /\ Cardinality(Counting) \in Nat
    /\ \A p, op : IsFiniteSet(Flight(p, op)) /\ InFlight(p, op) \in Nat
    /\ \A p, op : InFlight(p, op) = Cardinality(Flight(p, op))
<1>1. Counting \in SUBSET Cpu /\ \A p, op : Flight(p, op) \in SUBSET Cpu
      BY DEF Counting, Flight
<1>2. IsFiniteSet(Counting) /\ \A p, op : IsFiniteSet(Flight(p, op))
      BY <1>1, Cpus, FS_Subset
<1>3. \A p, op : InFlight(p, op) = Cardinality(Flight(p, op))
      BY DEF InFlight
<1> QED BY <1>2, <1>3, FS_CardinalityType

LEMMA FlightStays ==
    ASSUME \A d \in Cpu : InHand(job'[d]) <=> InHand(job[d]),
           \A d \in Cpu : InHand(job[d]) =>
               job'[d].thread = job[d].thread /\ job'[d].op = job[d].op
    PROVE  /\ Counting' = Counting
           /\ \A p, op : InFlight(p, op)' = InFlight(p, op)
<1>1. Counting' = Counting /\ \A c \in Counting : InHand(job[c])
      BY DEF Counting, InHand
<1>2. ASSUME NEW p, NEW op PROVE InFlight(p, op)' = InFlight(p, op)
  <2>1. Flight(p, op)' = Flight(p, op)
        BY <1>1 DEF Flight, Counting
  <2> QED BY <2>1 DEF InFlight
<1> QED BY <1>1, <1>2

\* The program on c has counted or given up its unit.
LEMMA FlightLeaves ==
    ASSUME NEW c \in Cpu, InHand(job[c]), ~InHand(job'[c]),
           \A d \in Cpu : d # c => job'[d] = job[d]
    PROVE  /\ Cardinality(Counting') \in Nat
           /\ Cardinality(Counting) = Cardinality(Counting') + 1
           /\ \A p, op : InFlight(p, op) = InFlight(p, op)' +
                 (IF p = Tgid(job[c].thread) /\ op = job[c].op THEN 1 ELSE 0)
           /\ \A p, op : InFlight(p, op)' \in Nat
<1>1. Counting' = Counting \ {c} /\ c \in Counting
      BY DEF Counting, InHand
<1>2. \A p, op : Flight(p, op)' = Flight(p, op) \ {c}
  <2>1. \A p, op, d : d \in Flight(p, op)' <=> d \in Flight(p, op) \ {c}
        BY <1>1 DEF Flight, Counting
  <2> QED BY <2>1
<1>3. \A p, op : c \in Flight(p, op) <=> p = Tgid(job[c].thread) /\ op = job[c].op
      BY <1>1 DEF Flight
<1>4. /\ IsFiniteSet(Counting') /\ Cardinality(Counting') = Cardinality(Counting) - 1
      BY <1>1, FlightType, FS_RemoveElement
<1>5. \A p, op : /\ IsFiniteSet(Flight(p, op) \ {c})
                  /\ Cardinality(Flight(p, op) \ {c}) =
                        IF c \in Flight(p, op) THEN InFlight(p, op) - 1 ELSE InFlight(p, op)
      BY FlightType, FS_RemoveElement
<1>6. \A p, op : InFlight(p, op)' = Cardinality(Flight(p, op) \ {c})
      BY <1>2 DEF InFlight
<1>7. \A p, op : InFlight(p, op)' \in Nat
      BY <1>5, <1>6, FS_CardinalityType
<1>8. Cardinality(Counting') \in Nat
      BY <1>4, FS_CardinalityType
<1>9. Cardinality(Counting) = Cardinality(Counting') + 1
      BY <1>4, <1>8, FlightType
<1>10. ASSUME NEW p, NEW op
       PROVE  InFlight(p, op) = InFlight(p, op)' +
                 (IF p = Tgid(job[c].thread) /\ op = job[c].op THEN 1 ELSE 0)
  <2>1. InFlight(p, op)' =
            IF c \in Flight(p, op) THEN InFlight(p, op) - 1 ELSE InFlight(p, op)
        BY <1>5, <1>6
  <2>2. c \in Flight(p, op) <=> p = Tgid(job[c].thread) /\ op = job[c].op
        BY <1>3
  <2>3. InFlight(p, op) \in Nat /\ InFlight(p, op)' \in Nat
        BY <1>7, FlightType
  <2> QED BY <2>1, <2>2, <2>3
<1> QED BY <1>7, <1>8, <1>9, <1>10

\* A unit moves and account_bytes starts with it on CPU c.
LEMMA FlightStarts ==
    ASSUME NEW c \in Cpu, ~InHand(job[c]), InHand(job'[c]),
           \A d \in Cpu : d # c => job'[d] = job[d]
    PROVE  /\ Cardinality(Counting') = Cardinality(Counting) + 1
           /\ \A p, op : InFlight(p, op)' = InFlight(p, op) +
                 (IF p = Tgid(job'[c].thread) /\ op = job'[c].op THEN 1 ELSE 0)
<1>1. Counting' = Counting \cup {c} /\ c \notin Counting
      BY DEF Counting, InHand
<1>2. \A p, op : c \notin Flight(p, op) /\ Flight(p, op)' =
          IF p = Tgid(job'[c].thread) /\ op = job'[c].op
          THEN Flight(p, op) \cup {c} ELSE Flight(p, op)
  <2>1. \A p, op, d : d \in Flight(p, op)' <=>
            \/ d \in Flight(p, op)
            \/ d = c /\ p = Tgid(job'[c].thread) /\ op = job'[c].op
        BY <1>1 DEF Flight, Counting
  <2>2. \A p, op : c \notin Flight(p, op)
        BY <1>1 DEF Flight
  <2>3. ASSUME NEW p, NEW op, p = Tgid(job'[c].thread) /\ op = job'[c].op
        PROVE  Flight(p, op)' = Flight(p, op) \cup {c}
        BY <2>1, <2>3
  <2>4. ASSUME NEW p, NEW op, ~(p = Tgid(job'[c].thread) /\ op = job'[c].op)
        PROVE  Flight(p, op)' = Flight(p, op)
    <3>1. \A d : d \in Flight(p, op)' <=> d \in Flight(p, op)
          BY <2>1, <2>4
    <3> DEFINE A == Flight(p, op)'
               B == Flight(p, op)
    <3>2. \A d : d \in A <=> d \in B
          BY <3>1
    <3> HIDE DEF A, B
    <3>3. A = B
          BY <3>2
    <3> QED BY <3>3 DEF A, B
  <2> QED BY <2>2, <2>3, <2>4
<1>3. Cardinality(Counting') = Cardinality(Counting) + 1
      BY <1>1, FlightType, FS_AddElement
<1>4. \A p, op : Cardinality(Flight(p, op) \cup {c}) = InFlight(p, op) + 1
      BY <1>2, FlightType, FS_AddElement
<1>5. \A p, op : InFlight(p, op)' = Cardinality(Flight(p, op)')
      BY DEF InFlight
<1> QED BY <1>2, <1>3, <1>4, <1>5, FlightType

--------------------------------------------------------------------------------
(* What the steps of account_bytes do to the merged records.               *)

LEMMA JobFacts ==
    ASSUME TypeOK, EndpointOfThisCall
    PROVE  \A c \in Cpu :
             /\ job[c].pc # "idle" => job[c] # Idle
             /\ job[c] # Idle =>
                   /\ job[c] \in Job /\ job[c].thread \in Thread
                   /\ job[c].op \in Op /\ job[c].addr \in Addr
                   /\ Tgid(job[c].thread) \in Pid /\ Tgid(job[c].thread) # 0
                   /\ call[job[c].thread] # NoCall
             /\ ~InHand(Idle)
<1>1. \A c \in Cpu : job[c] # Idle =>
          /\ job[c] \in Job /\ job[c].thread \in Thread
          /\ job[c].op \in Op /\ job[c].addr \in Addr
      BY DEF TypeOK, Job
<1>2. \A t \in Thread : Tgid(t) \in Pid /\ Tgid(t) # 0
      BY AccountingAssumption DEF Thread, Tgid
<1>3. \A c \in Cpu : job[c] # Idle => call[job[c].thread] # NoCall
      BY <1>1, NoneIsNoOp DEF EndpointOfThisCall, NoCall
<1>4. Idle.pc = "idle"
      BY DEF Idle
<1> QED BY <1>1, <1>2, <1>3, <1>4 DEF InHand

LEMMA TallyFacts ==
    ASSUME NEW n \in [Pid -> [Op -> Nat]], NEW p \in Pid, NEW op \in Op,
           NEW q \in Pid, NEW k \in Op
    PROVE  Tally(n, p, op)[q][k] = n[q][k] + (IF q = p /\ k = op THEN 1 ELSE 0)
<1>1. n[q] \in [Op -> Nat] /\ n[q][k] \in Nat
      OBVIOUS
<1>2. Tally(n, p, op)[q] = IF q = p THEN [n[p] EXCEPT ![op] = n[p][op] + 1] ELSE n[q]
      BY DEF Tally
<1> QED BY <1>1, <1>2

LEMMA UpdateStatsFacts ==
    ASSUME NEW v \in ProcStats, NEW op \in Op, NEW a \in Addr
    PROVE  /\ UpdateStats(v, op, a) \in ProcStats
           /\ \A k \in Op : UpdateStats(v, op, a).bytes[k] =
                               v.bytes[k] + (IF k = op THEN 1 ELSE 0)
           /\ \A x \in Protocol : UpdateStats(v, op, a).addr[x] =
                 IF x = ProtocolOf(op) THEN a ELSE v.addr[x]
<1>1. v.bytes \in [Op -> Nat] /\ v.addr \in [Protocol -> Addr \cup {NoAddr}]
      BY DEF ProcStats
<1>2. \A k \in Op : [v.bytes EXCEPT ![op] = @ + 1][k] = v.bytes[k] + (IF k = op THEN 1 ELSE 0)
      BY <1>1
<1>3. \A x \in Protocol : [v.addr EXCEPT ![ProtocolOf(op)] = a][x] =
                              IF x = ProtocolOf(op) THEN a ELSE v.addr[x]
      BY <1>1
<1> QED BY <1>2, <1>3, UpdateStatsType DEF UpdateStats

\* Update adds a unit to the element it points to and to no other.
LEMMA UpdateAdds ==
    ASSUME TypeOK, EndpointOfThisCall, NEW c \in Cpu, Update(c)
    PROVE  /\ job[c] # Idle /\ InHand(job[c]) /\ job[c].slot \in Slot
           /\ job'[c] = Idle /\ \A d \in Cpu : d # c => job'[d] = job[d]
           /\ \A s \in Slot : s # job[c].slot => value'[s] = value[s]
           /\ \A k \in Op : MergeValues(value'[job[c].slot]).bytes[k] =
                 MergeValues(value[job[c].slot]).bytes[k] +
                     (IF k = job[c].op THEN 1 ELSE 0)
<1> DEFINE j == job[c]
           v == value[j.slot]
           w == [v EXCEPT ![c] = UpdateStats(v[c], j.op, j.addr)]
<1>1. /\ j # Idle /\ InHand(j) /\ j.slot \in Slot /\ j.op \in Op /\ j.addr \in Addr
      BY JobFacts DEF Update, InHand, TypeOK
<1>2. v \in [Cpu -> ProcStats] /\ value \in [Slot -> [Cpu -> ProcStats]]
      BY <1>1 DEF TypeOK
<1>3. value' = [value EXCEPT ![j.slot] = w]
      BY DEF Update
<1>4. job'[c] = Idle /\ \A d \in Cpu : d # c => job'[d] = job[d]
      BY <1>1, ReturnFacts DEF Update
<1>5. /\ UpdateStats(v[c], j.op, j.addr) \in ProcStats
      /\ \A k \in Op : UpdateStats(v[c], j.op, j.addr).bytes[k] =
                          v[c].bytes[k] + (IF k = j.op THEN 1 ELSE 0)
      BY <1>1, <1>2, UpdateStatsFacts
<1> HIDE DEF j, v
<1>6. /\ w \in [Cpu -> ProcStats] /\ \A d \in Cpu : d # c => w[d] = v[d]
      /\ \A k \in Op : w[c].bytes[k] = v[c].bytes[k] + (IF k = j.op THEN 1 ELSE 0)
      BY <1>2, <1>5
<1> HIDE DEF w
<1>7. \A k \in Op : MergeValues(w).bytes[k] =
                        MergeValues(v).bytes[k] + (IF k = j.op THEN 1 ELSE 0)
  <2>1. v \in [Cpu -> ProcStats] /\ j.op \in Op
        BY <1>1, <1>2
  <2> QED BY <2>1, <1>6, MergeAdds
<1>8. value'[j.slot] = w /\ \A s \in Slot : s # j.slot => value'[s] = value[s]
      BY <1>1, <1>2, <1>3
<1> QED BY <1>1, <1>4, <1>7, <1>8 DEF j, v

\* An insertion that succeeds leaves an element with one unit.
LEMMA InsertIsOne ==
    ASSUME TypeOK, EndpointOfThisCall, NEW c \in Cpu, job[c] # Idle, NEW s \in Slot,
           value' = [value EXCEPT ![s] = [d \in Cpu |->
               IF d = c THEN UpdateStats(EmptyStats, job[c].op, job[c].addr)
                        ELSE EmptyStats]]
    PROVE  /\ \A r \in Slot : r # s => value'[r] = value[r]
           /\ \A k \in Op : MergeValues(value'[s]).bytes[k] =
                               IF k = job[c].op THEN 1 ELSE 0
<1> DEFINE j == job[c]
           v == [d \in Cpu |-> EmptyStats]
           w == [d \in Cpu |-> IF d = c THEN UpdateStats(EmptyStats, j.op, j.addr)
                                         ELSE EmptyStats]
<1>1. j.op \in Op /\ j.addr \in Addr
      BY JobFacts
<1>2. v \in [Cpu -> ProcStats] /\ \A d \in Cpu : v[d] = EmptyStats
      BY EmptyStatsType
<1>3. /\ UpdateStats(EmptyStats, j.op, j.addr) \in ProcStats
      /\ \A k \in Op : UpdateStats(EmptyStats, j.op, j.addr).bytes[k] =
                          EmptyStats.bytes[k] + (IF k = j.op THEN 1 ELSE 0)
      BY <1>1, EmptyStatsType, UpdateStatsFacts
<1> HIDE DEF j
<1>4. /\ w \in [Cpu -> ProcStats] /\ \A d \in Cpu : d # c => w[d] = v[d]
      /\ \A k \in Op : w[c].bytes[k] = v[c].bytes[k] + (IF k = j.op THEN 1 ELSE 0)
      BY <1>2, <1>3, EmptyStatsType
<1>5. value'[s] = w /\ \A r \in Slot : r # s => value'[r] = value[r]
      BY DEF j, TypeOK
<1> HIDE DEF v, w
<1>6. \A k \in Op : MergeValues(v).bytes[k] = 0
      BY <1>2, MergeEmpty
<1>7. \A k \in Op : MergeValues(w).bytes[k] =
                        MergeValues(v).bytes[k] + (IF k = j.op THEN 1 ELSE 0)
      BY <1>1, <1>2, <1>4, MergeAdds
<1> QED BY <1>5, <1>6, <1>7 DEF j

LEMMA ShownIs ==
    ASSUME OneElementPerPid, NEW s \in Slot, key[s] # 0
    PROVE  /\ Linked(key[s]) /\ Element(key[s]) = s
           /\ Shown(key[s]) = MergeValues(value[s])
<1>1. Linked(key[s]) /\ Element(key[s]) \in Slot /\ key[Element(key[s])] = key[s]
      BY DEF Linked, Element
<1>2. Element(key[s]) = s
      BY <1>1 DEF OneElementPerPid
<1> QED BY <1>1, <1>2 DEF Shown

LEMMA ShownNone ==
    ASSUME NEW p, \A s \in Slot : key[s] # p
    PROVE  ~Linked(p) /\ Shown(p) = EmptyStats
BY DEF Linked, Shown

\* A record changes only with the element of its PID.
LEMMA ShownSame ==
    ASSUME OneElementPerPid, OneElementPerPid', NEW p, p # 0,
           \A s \in Slot : key'[s] = p <=> key[s] = p,
           \A s \in Slot : key[s] = p => value'[s] = value[s] /\ owner'[s] = owner[s]
    PROVE  /\ Shown(p)' = Shown(p) /\ (Linked(p)' <=> Linked(p))
           /\ Linked(p) => owner'[Element(p)'] = owner[Element(p)]
<1>1. CASE \E s \in Slot : key[s] = p
  <2>1. PICK s \in Slot : key[s] = p
        BY <1>1
  <2>2. key'[s] = p /\ value'[s] = value[s] /\ owner'[s] = owner[s]
        BY <2>1
  <2>3. Linked(p) /\ Element(p) = s /\ Shown(p) = MergeValues(value[s])
        BY <2>1, ShownIs
  <2>4. Linked(p)' /\ Element(p)' = s /\ Shown(p)' = MergeValues(value'[s])
    <3>1. Linked(p)' /\ Element(p)' \in Slot /\ key'[Element(p)'] = p
          BY <2>2 DEF Linked, Element
    <3>2. Element(p)' = s
          BY <3>1, <2>2 DEF OneElementPerPid
    <3> QED BY <3>1, <3>2 DEF Shown
  <2> QED BY <2>2, <2>3, <2>4
<1>2. CASE \A s \in Slot : key[s] # p
  <2>1. \A s \in Slot : key'[s] # p
        BY <1>2
  <2>2. ~Linked(p) /\ ~Linked(p)'
        BY <1>2, <2>1 DEF Linked
  <2>3. Shown(p) = EmptyStats /\ Shown(p)' = EmptyStats
        BY <2>2 DEF Shown, EmptyStats, NoUnits
  <2> QED BY <2>2, <2>3
<1> QED BY <1>1, <1>2

LEMMA StartFacts ==
    ASSUME TypeOK, NEW c \in Cpu, NEW t, NEW op, NEW a, StartAccount(c, t, op, a)
    PROVE  /\ ~InHand(job[c]) /\ InHand(job'[c]) /\ job[c] = Idle
           /\ job'[c].thread = t /\ job'[c].op = op /\ job'[c].addr = a
           /\ job'[c].pc = "lookup"
           /\ \A d \in Cpu : d # c => job'[d] = job[d]
<1> DEFINE new == [pc |-> "lookup", thread |-> t, op |-> op, addr |-> a, slot |-> 0]
<1>1. job[c] = Idle /\ job' = [job EXCEPT ![c] = new] /\ job \in [Cpu -> Job \cup {Idle}]
      BY DEF StartAccount, TypeOK
<1>2. new.pc = "lookup" /\ new.thread = t /\ new.op = op /\ new.addr = a
      OBVIOUS
<1> HIDE DEF new
<1>3. job'[c] = new /\ \A d \in Cpu : d # c => job'[d] = job[d]
      BY <1>1
<1> QED BY <1>1, <1>2, <1>3 DEF InHand, Idle

\* A step within account_bytes: job[c] at another point, with another element.
LEMMA GotoMore ==
    ASSUME TypeOK, NEW c \in Cpu, job[c] # Idle, NEW x, NEW s, Goto(c, x, s)
    PROVE  /\ job'[c].pc = x /\ job'[c].slot = s /\ job'[c].thread = job[c].thread
           /\ job'[c].op = job[c].op
           /\ \A d \in Cpu : d # c => job'[d] = job[d]
<1> DEFINE next == [job[c] EXCEPT !.pc = x, !.slot = s]
<1>1. job' = [job EXCEPT ![c] = next] /\ job \in [Cpu -> Job \cup {Idle}] /\ job[c] \in Job
      BY DEF Goto, TypeOK
<1>2. /\ next.pc = x /\ next.slot = s /\ next.thread = job[c].thread
      /\ next.op = job[c].op
      BY <1>1 DEF Job
<1> HIDE DEF next
<1> QED BY <1>1, <1>2

--------------------------------------------------------------------------------
(* Every unit is counted once, when leaders exit last.                     *)

LEMMA OwnElementStep ==
    ASSUME LeaderExitsLast, TypeOK, EndpointOfThisCall, Owned, UpdatesOwnElement,
           [Next]_vars
    PROVE  UpdatesOwnElement'
<1> USE DEF procVars, statsVars, ringVars, countVars
<1>t. /\ key \in [Slot -> Pid \cup {0}] /\ job \in [Cpu -> Job \cup {Idle}]
      /\ \A c \in Cpu : job[c].pc \in {"update", "emit"} => job[c].slot \in Slot
      BY DEF TypeOK
<1>q. UNCHANGED <<key, job>> => UpdatesOwnElement'
      BY DEF UpdatesOwnElement
<1>j. \A c \in Cpu : job[c].pc # "idle" =>
          /\ job[c] # Idle /\ job[c].thread \in threads /\ call[job[c].thread] # NoCall
          /\ Tgid(job[c].thread) # 0
      BY JobFacts DEF Owned, CallersRun
\* Other programs are where they were, and so are the elements in use.
<1>o. ASSUME NEW c \in Cpu, \A d \in Cpu : d # c => job'[d] = job[d],
             \A s \in Slot : key[s] # 0 => key'[s] = key[s],
             job'[c].pc = "update" => key'[job'[c].slot] = Tgid(job'[c].thread)
      PROVE  UpdatesOwnElement'
  <2>1. ASSUME NEW d \in Cpu, d # c, job'[d].pc = "update"
        PROVE  key'[job'[d].slot] = Tgid(job'[d].thread)
        BY <1>o, <2>1, <1>t, <1>j DEF UpdatesOwnElement
  <2> QED BY <1>o, <2>1 DEF UpdatesOwnElement
<1>1. ASSUME NEW p \in Pid, Fork(p) \/ Reap(p) PROVE UpdatesOwnElement'
      BY <1>1, <1>q DEF Fork, Reap
<1>2. ASSUME NEW t \in Thread, Spawn(t) PROVE UpdatesOwnElement'
      BY <1>2, <1>q DEF Spawn
<1>3. ASSUME NEW t \in Thread, SchedProcessExit(t) PROVE UpdatesOwnElement'
  <2>1. CASE UNCHANGED key
        BY <1>3, <2>1, <1>q DEF SchedProcessExit
  <2>2. CASE ~ UNCHANGED key
    <3>1. /\ ThreadsOf(threads, Tgid(t)) = {t} /\ call[t] = NoCall /\ UNCHANGED job
          /\ key' = [s \in Slot |-> IF key[s] = Tgid(t) THEN 0 ELSE key[s]]
          BY <1>3, <2>2 DEF SchedProcessExit, DeleteKey
    <3>2. ASSUME NEW c \in Cpu, job[c].pc = "update"
          PROVE  key'[job[c].slot] = Tgid(job[c].thread)
      <4>1. job[c].thread # t /\ job[c].thread \in threads
            BY <3>1, <3>2, <1>j
      <4>2. Tgid(job[c].thread) # Tgid(t)
            BY <3>1, <4>1 DEF ThreadsOf
      <4> QED BY <3>1, <3>2, <4>2, <1>t DEF UpdatesOwnElement
    <3> QED BY <3>1, <3>2 DEF UpdatesOwnElement
  <2> QED BY <2>1, <2>2
<1>4. ASSUME NEW t \in Thread, NEW op \in Bracketed, NEW a \in Addr, ProbeEntry(t, op, a)
      PROVE  UpdatesOwnElement'
      BY <1>4, <1>q DEF ProbeEntry
<1>5. ASSUME NEW t \in Thread, NEW c \in Cpu, ProbeExit(t, c) PROVE UpdatesOwnElement'
  <2>1. CASE UNCHANGED job
        BY <1>5, <2>1, <1>q DEF ProbeExit
  <2>2. CASE StartAccount(c, t, call[t].op, saved[call[t].op][t])
    <3>1. job'[c].pc = "lookup" /\ \A d \in Cpu : d # c => job'[d] = job[d]
          BY <2>2, StartFacts
    <3>2. UNCHANGED key
          BY <1>5 DEF ProbeExit
    <3> QED BY <3>1, <3>2, <1>o
  <2> QED BY <1>5, <2>1, <2>2 DEF ProbeExit
<1>6. ASSUME NEW t \in Thread, NEW c \in Cpu, NEW a \in Addr, TcpCleanupRbuf(t, c, a)
      PROVE  UpdatesOwnElement'
  <2>1. job'[c].pc = "lookup" /\ \A d \in Cpu : d # c => job'[d] = job[d]
        BY <1>6, StartFacts DEF TcpCleanupRbuf
  <2>2. UNCHANGED key
        BY <1>6 DEF TcpCleanupRbuf
  <2> QED BY <2>1, <2>2, <1>o
<1>g. ASSUME NEW c \in Cpu, job[c] # Idle, NEW s \in Found(c), Goto(c, "update", s), UNCHANGED key
      PROVE  UpdatesOwnElement'
  <2>1. /\ job'[c].slot = s /\ job'[c].thread = job[c].thread
        /\ \A d \in Cpu : d # c => job'[d] = job[d]
        BY <1>g, GotoMore
  <2>2. key'[s] = Tgid(job[c].thread)
        BY <1>g DEF Found
  <2> QED BY <1>g, <2>1, <2>2, <1>o
<1>7. ASSUME NEW c \in Cpu, Lookup(c) PROVE UpdatesOwnElement'
  <2>1. job[c] # Idle /\ UNCHANGED key
        BY <1>7, <1>j DEF Lookup
  <2>2. CASE Goto(c, "insert", 0)
    <3>1. job'[c].pc = "insert" /\ \A d \in Cpu : d # c => job'[d] = job[d]
          BY <2>1, <2>2, GotoMore
    <3> QED BY <2>1, <3>1, <1>o
  <2> QED BY <1>7, <2>1, <2>2, <1>g DEF Lookup
<1>8. ASSUME NEW c \in Cpu, Update(c) \/ Emit(c) PROVE UpdatesOwnElement'
  <2>1. job[c] # Idle /\ UNCHANGED key /\ Return(c)
        BY <1>8, <1>j DEF Update, Emit
  <2>2. job'[c].pc = "idle" /\ \A d \in Cpu : d # c => job'[d] = job[d]
        BY <2>1, ReturnFacts DEF Idle
  <2> QED BY <2>1, <2>2, <1>o
<1>9. ASSUME NEW c \in Cpu, Insert(c) PROVE UpdatesOwnElement'
  <2>1. job[c] # Idle
        BY <1>9, <1>j DEF Insert
  <2>2. \/ \E s \in Slot : /\ key[s] = 0 /\ key' = [key EXCEPT ![s] = Tgid(job[c].thread)]
                             /\ Goto(c, "emit", s)
        \/ Goto(c, "relookup", 0) /\ UNCHANGED key
        BY <1>9 DEF Insert
  <2>3. \A s \in Slot : key[s] # 0 => key'[s] = key[s]
        BY <2>2, <1>t
  <2>4. job'[c].pc # "update" /\ \A d \in Cpu : d # c => job'[d] = job[d]
        BY <2>1, <2>2, GotoMore
  <2> QED BY <2>3, <2>4, <1>o
<1>10. ASSUME NEW c \in Cpu, Relookup(c) PROVE UpdatesOwnElement'
  <2>1. job[c] # Idle /\ UNCHANGED key
        BY <1>10, <1>j DEF Relookup
  <2>2. CASE Return(c)
    <3>1. job'[c].pc = "idle" /\ \A d \in Cpu : d # c => job'[d] = job[d]
          BY <2>1, <2>2, ReturnFacts DEF Idle
    <3> QED BY <2>1, <3>1, <1>o
  <2> QED BY <1>10, <2>1, <2>2, <1>g DEF Relookup
<1>11. CASE Consume \/ UNCHANGED vars
      BY <1>11, <1>q DEF Consume, vars
<1> QED BY <1>1, <1>2, <1>3, <1>4, <1>5, <1>6, <1>7, <1>8, <1>9, <1>10, <1>11
        DEF Next, Machine, Probes, AccountBytes

LEMMA ShownType ==
    ASSUME TypeOK, NEW p PROVE Shown(p) \in ProcStats /\ \A k \in Op : Shown(p).bytes[k] \in Nat
<1>1. \A s \in Slot : MergeValues(value[s]) \in ProcStats
      BY LoopType DEF TypeOK
<1>2. Linked(p) => Element(p) \in Slot
      BY DEF Linked, Element
<1>3. Shown(p) \in ProcStats
      BY <1>1, <1>2, EmptyStatsType DEF Shown
<1> QED BY <1>3 DEF ProcStats

LEMMA ConservedStep ==
    ASSUME LeaderExitsLast, TypeOK, TypeOK', EndpointOfThisCall, Owned, OneElementPerPid,
           OneElementPerPid', UpdatesOwnElement, BytesConserved, [Next]_vars
    PROVE  BytesConserved'
<1> USE DEF procVars, statsVars, ringVars, countVars
<1> SUFFICES ASSUME NEW q \in Pid, NEW k \in Op, phase'[q] = "running"
             PROVE  moved'[q][k] = Shown(q)'.bytes[k] + InFlight(q, k)' + missed'[q][k]
    BY DEF BytesConserved
<1> DEFINE Goal == moved'[q][k] = Shown(q)'.bytes[k] + InFlight(q, k)' + missed'[q][k]
<1> SUFFICES Goal
    OBVIOUS
<1>t. /\ phase \in [Pid -> {"free", "running", "exiting"}] /\ gen \in [Pid -> Nat]
      /\ key \in [Slot -> Pid \cup {0}] /\ job \in [Cpu -> Job \cup {Idle}]
      /\ moved \in [Pid -> [Op -> Nat]] /\ missed \in [Pid -> [Op -> Nat]]
      /\ q # 0
      BY AccountingAssumption DEF TypeOK
<1>n. /\ Shown(q).bytes[k] \in Nat /\ InFlight(q, k) \in Nat
      /\ moved[q][k] \in Nat /\ missed[q][k] \in Nat
      BY <1>t, ShownType, FlightType
<1>j. \A c \in Cpu : job[c].pc # "idle" =>
          /\ job[c] # Idle /\ job[c].thread \in threads /\ call[job[c].thread] # NoCall
          /\ job[c].op \in Op /\ Tgid(job[c].thread) \in Pid /\ Tgid(job[c].thread) # 0
          /\ phase[Tgid(job[c].thread)] = "running"
      BY JobFacts DEF Owned, CallersRun
<1>b. phase[q] = "running" =>
          moved[q][k] = Shown(q).bytes[k] + InFlight(q, k) + missed[q][k]
      BY DEF BytesConserved
<1>k. UNCHANGED statsVars => Shown(q)' = Shown(q)
      BY <1>t, ShownSame
<1>f. UNCHANGED job => InFlight(q, k)' = InFlight(q, k)
      BY FlightStays
\* Nothing of q changes.
<1>s. ASSUME phase[q] = "running", moved'[q] = moved[q], missed'[q] = missed[q],
             Shown(q)' = Shown(q), InFlight(q, k)' = InFlight(q, k)
      PROVE  Goal
      BY <1>s, <1>b
<1>1. ASSUME NEW p \in Pid, Fork(p) PROVE Goal
  <2>1. CASE q = p
    <3>1. /\ phase[p] = "free" /\ moved'[q] = NoUnits /\ missed'[q] = NoUnits
          /\ UNCHANGED job /\ UNCHANGED statsVars
          BY <1>1, <2>1, <1>t DEF Fork
    <3>2. Shown(q).bytes[k] = 0
      <4>1. \A s \in Slot : key[s] # q
            BY <2>1, <3>1, <1>t DEF Owned, NoEntryOutlivesProcess
      <4> QED BY <4>1, ShownNone, EmptyStatsType
    <3>3. InFlight(q, k) = 0
      <4>1. Flight(q, k) = {}
            BY <2>1, <3>1, <1>j DEF Flight, Counting
      <4> QED BY <4>1, FS_EmptySet DEF InFlight
    <3> QED BY <3>1, <3>2, <3>3, <1>k, <1>f DEF NoUnits
  <2>2. CASE q # p
        BY <1>1, <2>2, <1>s, <1>k, <1>f, <1>t DEF Fork
  <2> QED BY <2>1, <2>2
<1>2. ASSUME NEW p \in Pid, Reap(p) PROVE Goal
      BY <1>2, <1>s, <1>k, <1>f, <1>t DEF Reap
<1>3. ASSUME NEW t \in Thread, Spawn(t) PROVE Goal
      BY <1>3, <1>s, <1>k, <1>f, <1>t DEF Spawn
<1>4. ASSUME NEW t \in Thread, SchedProcessExit(t) PROVE Goal
  <2>1. UNCHANGED <<job, moved, missed>>
        BY <1>4 DEF SchedProcessExit
  <2>2. CASE UNCHANGED phase /\ UNCHANGED statsVars
        BY <2>1, <2>2, <1>s, <1>k, <1>f
  <2>3. CASE phase' = [phase EXCEPT ![Tgid(t)] = "exiting"] /\ DeleteKey(Tgid(t))
    <3>1. Tgid(t) \in Pid /\ q # Tgid(t) /\ phase[q] = "running"
          BY <2>3, <1>t DEF Thread, Tgid
    <3>2. /\ \A s \in Slot : key'[s] = q <=> key[s] = q
          /\ \A s \in Slot : key[s] = q => value'[s] = value[s] /\ owner'[s] = owner[s]
          BY <2>3, <3>1, <1>t DEF DeleteKey
    <3>3. Shown(q)' = Shown(q)
          BY <3>2, <1>t, ShownSame
    <3> QED BY <2>1, <3>1, <3>3, <1>s, <1>f
  <2> QED BY <1>4, <2>2, <2>3 DEF SchedProcessExit
<1>5. ASSUME NEW t \in Thread, NEW op \in Bracketed, NEW a \in Addr, ProbeEntry(t, op, a)
      PROVE  Goal
      BY <1>5, <1>s, <1>k, <1>f DEF ProbeEntry
\* A unit moves and is in hand.
<1>m. ASSUME NEW p \in Pid, NEW op \in Op, NEW c \in Cpu, Move(p, op), UNCHANGED missed,
             UNCHANGED statsVars, UNCHANGED phase,
             ~InHand(job[c]), InHand(job'[c]), \A d \in Cpu : d # c => job'[d] = job[d],
             Tgid(job'[c].thread) = p, job'[c].op = op
      PROVE  Goal
  <2>1. InFlight(q, k)' = InFlight(q, k) + (IF q = p /\ k = op THEN 1 ELSE 0)
        BY <1>m, FlightStarts
  <2>2. moved'[q][k] = moved[q][k] + (IF q = p /\ k = op THEN 1 ELSE 0)
        BY <1>m, <1>t, TallyFacts DEF Move
  <2>3. phase[q] = "running" /\ missed' = missed /\ Shown(q)' = Shown(q)
        BY <1>m, <1>k
  <2> QED BY <2>1, <2>2, <2>3, <1>b, <1>n
<1>6. ASSUME NEW t \in Thread, NEW c \in Cpu, ProbeExit(t, c) PROVE Goal
  <2> DEFINE op == call[t].op
  <2>0. /\ op \in Op /\ Tgid(t) \in Pid /\ UNCHANGED phase /\ UNCHANGED statsVars
        BY <1>6, NoneIsNoOp DEF ProbeExit, Thread, Tgid
  <2>1. CASE UNCHANGED <<job, countVars>>
        BY <2>0, <2>1, <1>s, <1>k, <1>f
  <2>2. CASE UNCHANGED job /\ Move(Tgid(t), op) /\ missed' = Tally(missed, Tgid(t), op)
    <3> HIDE DEF op
    <3>1. /\ moved'[q][k] = moved[q][k] + (IF q = Tgid(t) /\ k = op THEN 1 ELSE 0)
          /\ missed'[q][k] = missed[q][k] + (IF q = Tgid(t) /\ k = op THEN 1 ELSE 0)
      <4>1. /\ Tally(moved, Tgid(t), op)[q][k] =
                  moved[q][k] + (IF q = Tgid(t) /\ k = op THEN 1 ELSE 0)
            /\ Tally(missed, Tgid(t), op)[q][k] =
                  missed[q][k] + (IF q = Tgid(t) /\ k = op THEN 1 ELSE 0)
        <5>1. /\ moved \in [Pid -> [Op -> Nat]] /\ missed \in [Pid -> [Op -> Nat]]
              /\ Tgid(t) \in Pid /\ op \in Op
              BY <2>0, <1>t
        <5>2. Tally(moved, Tgid(t), op)[q][k] =
                  moved[q][k] + (IF q = Tgid(t) /\ k = op THEN 1 ELSE 0)
          <6>1. moved \in [Pid -> [Op -> Nat]] /\ Tgid(t) \in Pid /\ op \in Op
                BY <5>1
          <6> QED BY <6>1, TallyFacts
        <5>3. Tally(missed, Tgid(t), op)[q][k] =
                  missed[q][k] + (IF q = Tgid(t) /\ k = op THEN 1 ELSE 0)
              BY <5>1, TallyFacts
        <5> QED BY <5>2, <5>3
      <4> QED BY <2>2, <4>1 DEF Move
    <3>2. phase[q] = "running" /\ Shown(q)' = Shown(q) /\ InFlight(q, k)' = InFlight(q, k)
          BY <2>0, <2>2, <1>k, <1>f
    <3> QED BY <3>1, <3>2, <1>b, <1>n
  <2>3. CASE Move(Tgid(t), op) /\ StartAccount(c, t, op, saved[op][t]) /\ UNCHANGED missed
    <3>1. /\ ~InHand(job[c]) /\ InHand(job'[c]) /\ job'[c].thread = t /\ job'[c].op = op
          /\ \A d \in Cpu : d # c => job'[d] = job[d]
          BY <2>3, StartFacts
    <3> HIDE DEF op
    <3> QED BY <2>0, <2>3, <3>1, <1>m
  <2> QED BY <1>6, <2>1, <2>2, <2>3 DEF ProbeExit
<1>7. ASSUME NEW t \in Thread, NEW c \in Cpu, NEW a \in Addr, TcpCleanupRbuf(t, c, a)
      PROVE  Goal
  <2>1. /\ "tcp_recv" \in Op /\ Tgid(t) \in Pid /\ UNCHANGED phase /\ UNCHANGED statsVars
        /\ Move(Tgid(t), "tcp_recv") /\ UNCHANGED missed
        BY <1>7 DEF TcpCleanupRbuf, Thread, Tgid
  <2>2. /\ ~InHand(job[c]) /\ InHand(job'[c]) /\ job'[c].thread = t
        /\ job'[c].op = "tcp_recv" /\ \A d \in Cpu : d # c => job'[d] = job[d]
        BY <1>7, StartFacts DEF TcpCleanupRbuf
  <2> QED BY <2>1, <2>2, <1>m
\* The program on c keeps its unit.
<1>g. ASSUME NEW c \in Cpu, InHand(job[c]), job[c] # Idle,
             NEW x \in {"update", "insert", "relookup"}, NEW s, Goto(c, x, s)
      PROVE  InFlight(q, k)' = InFlight(q, k)
  <2>1. /\ job'[c].pc = x /\ job'[c].thread = job[c].thread /\ job'[c].op = job[c].op
        /\ \A d \in Cpu : d # c => job'[d] = job[d]
        BY <1>g, GotoMore
  <2>2. InHand(job'[c])
        BY <2>1 DEF InHand
  <2>3. \A d \in Cpu : InHand(job'[d]) <=> InHand(job[d])
        BY <1>g, <2>1, <2>2
  <2> QED BY <2>1, <2>3, FlightStays
<1>8. ASSUME NEW c \in Cpu, Lookup(c) PROVE Goal
  <2>1. /\ job[c] # Idle /\ InHand(job[c]) /\ UNCHANGED <<phase, countVars>>
        /\ UNCHANGED statsVars
        BY <1>8, <1>j DEF Lookup, InHand
  <2>2. InFlight(q, k)' = InFlight(q, k)
        BY <1>8, <2>1, <1>g DEF Lookup
  <2> QED BY <2>1, <2>2, <1>s, <1>k
<1>9. ASSUME NEW c \in Cpu, Update(c) PROVE Goal
  <2> DEFINE s == job[c].slot
             p == Tgid(job[c].thread)
  <2>1. /\ job[c] # Idle /\ InHand(job[c]) /\ s \in Slot /\ ~InHand(job'[c])
        /\ \A d \in Cpu : d # c => job'[d] = job[d]
        /\ \A r \in Slot : r # s => value'[r] = value[r]
        /\ MergeValues(value'[s]).bytes[k] =
               MergeValues(value[s]).bytes[k] + (IF k = job[c].op THEN 1 ELSE 0)
        BY <1>9, UpdateAdds, JobFacts
  <2>2. /\ UNCHANGED <<phase, moved, missed, key, owner>>
        /\ key[s] = p /\ p # 0
        BY <1>9, <2>1, <1>j DEF Update, UpdatesOwnElement
  <2>3. InFlight(q, k) = InFlight(q, k)' + (IF q = p /\ k = job[c].op THEN 1 ELSE 0)
        BY <2>1, FlightLeaves
  <2>4. InFlight(q, k)' \in Nat
        BY <2>1, FlightLeaves
  <2> HIDE DEF s, p
  <2>5. Shown(q)'.bytes[k] = Shown(q).bytes[k] + (IF q = p /\ k = job[c].op THEN 1 ELSE 0)
    <3>1. CASE q = p
      <4>1. Shown(q) = MergeValues(value[s])
            BY <2>1, <2>2, <3>1, ShownIs
      <4>2. Shown(q)' = MergeValues(value'[s])
        <5>1. s \in Slot /\ key'[s] = q /\ q # 0
              BY <2>1, <2>2, <3>1
        <5>2. Linked(q)' /\ Element(q)' \in Slot /\ key'[Element(q)'] = q
              BY <5>1 DEF Linked, Element
        <5>3. Element(q)' = s
              BY <5>1, <5>2 DEF OneElementPerPid
        <5> QED BY <5>2, <5>3 DEF Shown
      <4> QED BY <2>1, <3>1, <4>1, <4>2
    <3>2. CASE q # p
      <4>1. Shown(q)' = Shown(q)
            BY <2>1, <2>2, <3>2, <1>t, ShownSame
      <4> QED BY <3>2, <4>1, <1>n
    <3> QED BY <3>1, <3>2
  <2>6. phase[q] = "running" /\ moved' = moved /\ missed' = missed
        BY <2>2
  <2> QED BY <2>3, <2>4, <2>5, <2>6, <1>b, <1>n
<1>10. ASSUME NEW c \in Cpu, Insert(c) PROVE Goal
  <2> DEFINE p == Tgid(job[c].thread)
  <2>1. /\ job[c] # Idle /\ InHand(job[c]) /\ UNCHANGED <<phase, countVars>>
        /\ p # 0
        BY <1>10, <1>j DEF Insert, InHand
  <2>2. CASE UNCHANGED statsVars /\ Goto(c, "relookup", 0)
        BY <2>1, <2>2, <1>g, <1>k, <1>s
  <2>3. ASSUME NEW s \in Slot, Found(c) = {}, key[s] = 0, key' = [key EXCEPT ![s] = p],
               owner' = [owner EXCEPT ![s] = gen[p]],
               value' = [value EXCEPT ![s] = [d \in Cpu |->
                  IF d = c THEN UpdateStats(EmptyStats, job[c].op, job[c].addr)
                           ELSE EmptyStats]],
               Goto(c, "emit", s)
        PROVE  Goal
    <3>1. /\ \A r \in Slot : r # s => value'[r] = value[r]
          /\ MergeValues(value'[s]).bytes[k] = IF k = job[c].op THEN 1 ELSE 0
          BY <2>1, <2>3, InsertIsOne
    <3>2. job'[c].pc = "emit" /\ \A d \in Cpu : d # c => job'[d] = job[d]
          BY <2>1, <2>3, GotoMore
    <3>3. ~InHand(job'[c])
          BY <3>2 DEF InHand
    <3>4. /\ InFlight(q, k) = InFlight(q, k)' + (IF q = p /\ k = job[c].op THEN 1 ELSE 0)
          /\ InFlight(q, k)' \in Nat
          BY <2>1, <3>2, <3>3, FlightLeaves
    <3>5. \A r \in Slot : key[r] # p
          BY <2>3 DEF Found
    <3> HIDE DEF p
    <3>6. Shown(q)'.bytes[k] = Shown(q).bytes[k] + (IF q = p /\ k = job[c].op THEN 1 ELSE 0)
      <4>1. CASE q = p
        <5>1. Shown(q).bytes[k] = 0
              BY <3>5, <4>1, ShownNone, EmptyStatsType
        <5>2. key'[s] = q
              BY <2>3, <4>1, <1>t
        <5>3. Linked(q)' /\ Element(q)' \in Slot /\ key'[Element(q)'] = q
              BY <5>2 DEF Linked, Element
        <5>4. Element(q)' = s
              BY <5>2, <5>3, <1>t DEF OneElementPerPid
        <5>5. Shown(q)' = MergeValues(value'[s])
              BY <5>3, <5>4 DEF Shown
        <5> QED BY <3>1, <4>1, <5>1, <5>5
      <4>2. CASE q # p
        <5>1. \A r \in Slot : key'[r] = q <=> key[r] = q
              BY <2>3, <4>2, <1>t
        <5>2. \A r \in Slot : key[r] = q => value'[r] = value[r] /\ owner'[r] = owner[r]
          <6>1. owner \in [Slot -> Nat]
                BY DEF TypeOK
          <6> QED BY <2>3, <3>1, <4>2, <1>t, <6>1
        <5>3. Shown(q)' = Shown(q)
              BY <5>1, <5>2, <1>t, ShownSame
        <5> QED BY <4>2, <5>3, <1>n
      <4> QED BY <4>1, <4>2
    <3>7. phase[q] = "running" /\ moved' = moved /\ missed' = missed
          BY <2>1
    <3> QED BY <3>4, <3>6, <3>7, <1>b, <1>n
  <2> QED BY <1>10, <2>2, <2>3 DEF Insert
<1>11. ASSUME NEW c \in Cpu, Emit(c) PROVE Goal
  <2>1. /\ job[c] # Idle /\ ~InHand(job[c]) /\ UNCHANGED <<phase, countVars>>
        /\ UNCHANGED statsVars /\ Return(c)
        BY <1>11, <1>j DEF Emit, InHand
  <2>2. ~InHand(job'[c]) /\ \A d \in Cpu : d # c => job'[d] = job[d]
        BY <2>1, ReturnFacts, JobFacts
  <2>3. InFlight(q, k)' = InFlight(q, k)
    <3>1. \A d \in Cpu : InHand(job'[d]) <=> InHand(job[d])
          BY <2>1, <2>2
    <3>2. \A d \in Cpu : InHand(job[d]) =>
              job'[d].thread = job[d].thread /\ job'[d].op = job[d].op
          BY <2>1, <2>2
    <3> QED BY <3>1, <3>2, FlightStays
  <2> QED BY <2>1, <2>3, <1>k, <1>s
<1>12. ASSUME NEW c \in Cpu, Relookup(c) PROVE Goal
  <2>1. /\ job[c] # Idle /\ InHand(job[c]) /\ UNCHANGED <<phase, moved>>
        /\ UNCHANGED statsVars /\ Tgid(job[c].thread) \in Pid /\ job[c].op \in Op
        BY <1>12, <1>j DEF Relookup, InHand
  <2>2. ASSUME NEW s, Goto(c, "update", s), UNCHANGED missed PROVE Goal
        BY <2>1, <2>2, <1>g, <1>k, <1>s
  <2>3. CASE missed' = Tally(missed, Tgid(job[c].thread), job[c].op) /\ Return(c)
    <3>1. ~InHand(job'[c]) /\ \A d \in Cpu : d # c => job'[d] = job[d]
          BY <2>1, <2>3, ReturnFacts, JobFacts
    <3>2. /\ InFlight(q, k) = InFlight(q, k)' +
                (IF q = Tgid(job[c].thread) /\ k = job[c].op THEN 1 ELSE 0)
          /\ InFlight(q, k)' \in Nat
          BY <2>1, <3>1, FlightLeaves
    <3>3. missed'[q][k] = missed[q][k] +
                (IF q = Tgid(job[c].thread) /\ k = job[c].op THEN 1 ELSE 0)
      <4>1. missed \in [Pid -> [Op -> Nat]] /\ Tgid(job[c].thread) \in Pid /\ job[c].op \in Op
            BY <2>1, <1>t
      <4>2. Tally(missed, Tgid(job[c].thread), job[c].op)[q][k] = missed[q][k] +
                (IF q = Tgid(job[c].thread) /\ k = job[c].op THEN 1 ELSE 0)
            BY <4>1, TallyFacts
      <4> QED BY <2>3, <4>2
    <3>4. phase[q] = "running" /\ moved' = moved /\ Shown(q)' = Shown(q)
          BY <2>1, <1>k
    <3> QED BY <3>2, <3>3, <3>4, <1>b, <1>n
  <2> QED BY <1>12, <2>2, <2>3 DEF Relookup
<1>13. CASE Consume \/ UNCHANGED vars
  <2>1. UNCHANGED <<phase, moved, missed, job>> /\ UNCHANGED statsVars
        BY <1>13 DEF Consume, vars
  <2> QED BY <2>1, <1>s, <1>k, <1>f
<1> HIDE DEF Goal
<1> QED BY <1>1, <1>2, <1>3, <1>4, <1>5, <1>6, <1>7, <1>8, <1>9, <1>10, <1>11, <1>12,
           <1>13 DEF Next, Machine, Probes, AccountBytes

--------------------------------------------------------------------------------
(* The programs implement StatsFeed, whether or not leaders exit last.     *)

LEMMA AliveStep ==
    ASSUME TypeOK, EndpointOfThisCall, CallersAreAlive, [Next]_vars
    PROVE  CallersAreAlive'
<1> USE DEF procVars, statsVars, ringVars, countVars
<1>t. /\ phase \in [Pid -> {"free", "running", "exiting"}] /\ gen \in [Pid -> Nat]
      /\ threads \subseteq Thread /\ call \in [Thread -> Call \cup {NoCall}]
      BY DEF TypeOK
<1>p. \A t \in Thread : Tgid(t) \in Pid /\ t = <<Tgid(t), t[2]>>
      BY DEF Thread, Tgid
<1>l. \A p \in Pid : <<p, Leader>> \in Thread /\ Tgid(<<p, Leader>>) = p /\ <<p, Leader>>[2] = Leader
      BY AccountingAssumption DEF Thread, Tgid
<1>q. ASSUME UNCHANGED <<phase, gen, threads>>,
             \A t \in Thread : call'[t] # NoCall => call[t] # NoCall \/ t \in threads
      PROVE  CallersAreAlive'
      BY <1>q DEF CallersAreAlive
<1>1. ASSUME NEW p \in Pid, Fork(p) PROVE CallersAreAlive'
  <2>1. /\ phase[p] = "free" /\ phase' = [phase EXCEPT ![p] = "running"]
        /\ gen' = [gen EXCEPT ![p] = gen[p] + 1] /\ threads' = threads \cup {<<p, Leader>>}
        /\ UNCHANGED call
        BY <1>1 DEF Fork
  <2>2. \A t \in threads' : phase'[Tgid(t)] # "free"
        BY <2>1, <1>t, <1>l DEF CallersAreAlive
  <2>3. \A q \in Pid : <<q, Leader>> \in threads' => phase'[q] = "running"
        BY <2>1, <1>t, <1>l DEF CallersAreAlive
  <2>4. \A q \in Pid : phase'[q] # "free" => gen'[q] > 0
        BY <2>1, <1>t DEF CallersAreAlive
  <2>5. \A t \in Thread : call'[t] # NoCall => t \in threads'
        BY <2>1 DEF CallersAreAlive
  <2> QED BY <2>2, <2>3, <2>4, <2>5 DEF CallersAreAlive
<1>2. ASSUME NEW p \in Pid, Reap(p) PROVE CallersAreAlive'
  <2>1. /\ phase[p] = "exiting" /\ phase' = [phase EXCEPT ![p] = "free"]
        /\ \A t \in threads : Tgid(t) # p
        BY <1>2 DEF Reap, ThreadsOf
  <2>2. UNCHANGED <<gen, threads, call>>
        BY <1>2 DEF Reap
  <2>3. \A t \in threads : phase'[Tgid(t)] = phase[Tgid(t)]
        BY <2>1, <1>t
  <2>4. \A q \in Pid : <<q, Leader>> \in threads => phase'[q] = "running"
        BY <2>3, <1>l DEF CallersAreAlive
  <2>5. \A q \in Pid : phase'[q] # "free" => gen[q] > 0
        BY <2>1, <1>t DEF CallersAreAlive
  <2> QED BY <2>2, <2>3, <2>4, <2>5 DEF CallersAreAlive
<1>3. ASSUME NEW t \in Thread, Spawn(t) PROVE CallersAreAlive'
  <2>1. /\ t[2] # Leader /\ threads' = threads \cup {t} /\ UNCHANGED <<phase, gen, call>>
        /\ \E u \in threads : Tgid(u) = Tgid(t)
        BY <1>3 DEF Spawn, ThreadsOf
  <2>2. phase[Tgid(t)] # "free"
        BY <2>1 DEF CallersAreAlive
  <2>3. \A q \in Pid : <<q, Leader>> # t
        BY <2>1, <1>l
  <2> QED BY <2>1, <2>2, <2>3 DEF CallersAreAlive
<1>4. ASSUME NEW t \in Thread, SchedProcessExit(t) PROVE CallersAreAlive'
  <2>1. /\ call[t] = NoCall /\ threads' = threads \ {t} /\ UNCHANGED <<gen, call>>
        /\ \/ UNCHANGED phase
           \/ t[2] = Leader /\ phase' = [phase EXCEPT ![Tgid(t)] = "exiting"]
        /\ t \in threads
        BY <1>4 DEF SchedProcessExit
  <2>2. \A q \in Pid : phase'[q] # "free" <=> phase[q] # "free"
        BY <2>1, <1>t, <1>p DEF CallersAreAlive
  <2>3. \A q \in Pid : <<q, Leader>> \in threads' => phase'[q] = "running"
    <3>1. CASE UNCHANGED phase
          BY <2>1, <3>1 DEF CallersAreAlive
    <3>2. CASE t[2] = Leader /\ phase' = [phase EXCEPT ![Tgid(t)] = "exiting"]
      <4>1. t = <<Tgid(t), Leader>>
            BY <3>2, <1>p
      <4>2. \A q \in Pid : <<q, Leader>> \in threads' => q # Tgid(t)
            BY <2>1, <4>1
      <4> QED BY <2>1, <3>2, <4>2, <1>t DEF CallersAreAlive
    <3> QED BY <2>1, <3>1, <3>2
  <2>4. \A u \in threads' : phase'[Tgid(u)] # "free"
        BY <2>1, <2>2, <1>t, <1>p DEF CallersAreAlive
  <2> QED BY <2>1, <2>2, <2>3, <2>4 DEF CallersAreAlive
<1>5. ASSUME NEW t \in Thread,
             \/ \E op \in Bracketed, a \in Addr : ProbeEntry(t, op, a)
             \/ \E c \in Cpu, a \in Addr : TcpCleanupRbuf(t, c, a)
      PROVE  CallersAreAlive'
  <2>1. /\ t \in threads /\ \E x : call' = [call EXCEPT ![t] = x]
        /\ UNCHANGED <<phase, gen, threads>>
        BY <1>5 DEF ProbeEntry, TcpCleanupRbuf
  <2> QED BY <2>1, <1>q, <1>t
<1>6. ASSUME NEW t \in Thread, NEW c \in Cpu, ProbeExit(t, c) PROVE CallersAreAlive'
  <2>1. /\ UNCHANGED call \/ call' = [call EXCEPT ![t] = NoCall]
        /\ UNCHANGED <<phase, gen, threads>>
        BY <1>6 DEF ProbeExit
  <2> QED BY <2>1, <1>q, <1>t
<1>7. ASSUME NEW c \in Cpu,
             Lookup(c) \/ Update(c) \/ Insert(c) \/ Emit(c) \/ Relookup(c)
      PROVE  CallersAreAlive'
  <2>1. /\ UNCHANGED call \/ call' = [call EXCEPT ![job[c].thread] = NoCall]
        /\ UNCHANGED <<phase, gen, threads>>
        BY <1>7 DEF Lookup, Update, Insert, Emit, Relookup, Return
  <2> QED BY <2>1, <1>q, <1>t
<1>8. CASE Consume \/ UNCHANGED vars
      BY <1>8, <1>q DEF Consume, vars
<1> QED BY <1>1, <1>2, <1>3, <1>4, <1>5, <1>6, <1>7, <1>8
        DEF Next, Machine, Probes, AccountBytes

LEMMA BoundedStep ==
    ASSUME TypeOK, TypeOK', EndpointOfThisCall, CallersAreAlive, ElementsAreBounded,
           [Next]_vars
    PROVE  ElementsAreBounded'
<1> USE DEF procVars, statsVars, ringVars, countVars
<1> DEFINE N == Cardinality(Counting)
           M(s, k) == MergeValues(value[s]).bytes[k]
<1>t. /\ key \in [Slot -> Pid \cup {0}] /\ owner \in [Slot -> Nat] /\ gen \in [Pid -> Nat]
      /\ moves \in Nat /\ inserts \in Nat /\ MaxMoves \in Nat
      BY AccountingAssumption DEF TypeOK
<1>n. N \in Nat /\ \A s \in Slot, k \in Op : M(s, k) \in Nat
  <2>1. \A s \in Slot : MergeValues(value[s]) \in ProcStats
        BY LoopType DEF TypeOK
  <2> QED BY <2>1, FlightType DEF ProcStats
<1>b. /\ \A s \in Slot : key[s] # 0 => owner[s] > 0
      /\ moves <= MaxMoves /\ inserts + N <= moves
      /\ \A s \in Slot, k \in Op : M(s, k) + N <= moves
      BY DEF ElementsAreBounded
<1>i. inserts + N <= moves /\ moves <= MaxMoves
      BY <1>b
<1>x. moves \in Nat /\ inserts \in Nat /\ MaxMoves \in Nat /\ N \in Nat
      BY <1>t, <1>n
<1>j. \A c \in Cpu : job[c].pc # "idle" =>
          /\ job[c] # Idle /\ job[c].op \in Op /\ Tgid(job[c].thread) \in Pid
          /\ gen[Tgid(job[c].thread)] > 0
      BY JobFacts DEF CallersAreAlive
<1>e. ASSUME \A s \in Slot : key'[s] # 0 => owner'[s] > 0,
             moves' <= MaxMoves, inserts' + N' <= moves',
             \A s \in Slot, k \in Op : M(s, k)' + N' <= moves'
      PROVE  ElementsAreBounded'
      BY <1>e DEF ElementsAreBounded
<1>v. UNCHANGED value => \A s \in Slot, k \in Op : M(s, k)' = M(s, k)
      OBVIOUS
<1> HIDE DEF M, N
\* No unit is taken up, counted or given up.
<1>s. ASSUME N' = N, UNCHANGED <<value, moves, inserts>>,
             \A s \in Slot : key'[s] # 0 => key[s] # 0 /\ owner'[s] = owner[s]
      PROVE  ElementsAreBounded'
      BY <1>s, <1>b, <1>v, <1>e
<1>f. UNCHANGED job => N' = N
      BY FlightStays DEF N
\* One unit less in hand makes room for one counted or inserted.
<1>y. ASSUME N' \in Nat, N = N' + 1
      PROVE  inserts + N' <= moves /\ (inserts + 1) + N' <= moves /\ 1 + N' <= moves
  <2>1. \A i, n, m \in Nat : i + (n + 1) <= m => i + n <= m /\ (i + 1) + n <= m /\ 1 + n <= m
        OBVIOUS
  <2>2. inserts + (N' + 1) <= moves
        BY <1>y, <1>i
  <2> QED BY <1>y, <2>1, <2>2, <1>x
<1>1. ASSUME NEW p \in Pid, Fork(p) \/ Reap(p) PROVE ElementsAreBounded'
      BY <1>1, <1>s, <1>f DEF Fork, Reap
<1>2. ASSUME NEW t \in Thread, Spawn(t) PROVE ElementsAreBounded'
      BY <1>2, <1>s, <1>f DEF Spawn
<1>3. ASSUME NEW t \in Thread, SchedProcessExit(t) PROVE ElementsAreBounded'
  <2>1. UNCHANGED <<job, value, moves, inserts>>
        BY <1>3 DEF SchedProcessExit, DeleteKey
  <2>2. \A s \in Slot : key'[s] # 0 => key[s] # 0 /\ owner'[s] = owner[s]
        BY <1>3, <1>t DEF SchedProcessExit, DeleteKey
  <2> QED BY <2>1, <2>2, <1>s, <1>f
<1>4. ASSUME NEW t \in Thread, NEW op \in Bracketed, NEW a \in Addr, ProbeEntry(t, op, a)
      PROVE  ElementsAreBounded'
      BY <1>4, <1>s, <1>f DEF ProbeEntry
<1>m. ASSUME moves < MaxMoves, moves' = moves + 1, N' = N \/ N' = N + 1,
             UNCHANGED <<value, key, owner, inserts>>
      PROVE  ElementsAreBounded'
  <2>1. inserts' + N' <= moves' /\ moves' <= MaxMoves
        BY <1>m, <1>b, <1>n, <1>t
  <2>2. \A s \in Slot, k \in Op : M(s, k)' + N' <= moves'
        BY <1>m, <1>b, <1>n, <1>t, <1>v
  <2> QED BY <1>m, <2>1, <2>2, <1>b, <1>e
<1>a. ASSUME NEW c \in Cpu, NEW t, NEW op, NEW a, StartAccount(c, t, op, a)
      PROVE  N' = N + 1
      BY <1>a, StartFacts, FlightStarts DEF N
<1>5. ASSUME NEW t \in Thread, NEW c \in Cpu, ProbeExit(t, c) PROVE ElementsAreBounded'
  <2>1. UNCHANGED <<value, key, owner, inserts>>
        BY <1>5 DEF ProbeExit
  <2>2. CASE UNCHANGED <<job, countVars>>
        BY <2>1, <2>2, <1>s, <1>f
  <2>3. CASE Move(Tgid(t), call[t].op) /\ UNCHANGED job
        BY <2>1, <2>3, <1>m, <1>f DEF Move
  <2>4. CASE /\ Move(Tgid(t), call[t].op)
             /\ StartAccount(c, t, call[t].op, saved[call[t].op][t])
        BY <2>1, <2>4, <1>m, <1>a DEF Move
  <2> QED BY <1>5, <2>2, <2>3, <2>4 DEF ProbeExit
<1>6. ASSUME NEW t \in Thread, NEW c \in Cpu, NEW a \in Addr, TcpCleanupRbuf(t, c, a)
      PROVE  ElementsAreBounded'
      BY <1>6, <1>m, <1>a DEF TcpCleanupRbuf, Move
\* The program on c keeps its unit.
<1>g. ASSUME NEW c \in Cpu, InHand(job[c]), job[c] # Idle,
             NEW x \in {"update", "insert", "relookup"}, NEW s, Goto(c, x, s)
      PROVE  N' = N
  <2>1. /\ job'[c].pc = x /\ job'[c].thread = job[c].thread /\ job'[c].op = job[c].op
        /\ \A d \in Cpu : d # c => job'[d] = job[d]
        BY <1>g, GotoMore
  <2>2. InHand(job'[c])
        BY <2>1 DEF InHand
  <2>3. \A d \in Cpu : InHand(job'[d]) <=> InHand(job[d])
        BY <1>g, <2>1, <2>2
  <2> QED BY <2>1, <2>3, FlightStays DEF N
\* The program on c counts its unit, or gives it up.
<1>d. ASSUME NEW c \in Cpu, InHand(job[c]), ~InHand(job'[c]),
             \A d \in Cpu : d # c => job'[d] = job[d]
      PROVE  N' \in Nat /\ N = N' + 1
      BY <1>d, FlightLeaves DEF N
<1>7. ASSUME NEW c \in Cpu, Lookup(c) PROVE ElementsAreBounded'
  <2>1. job[c] # Idle /\ InHand(job[c]) /\ UNCHANGED <<value, key, owner, inserts, moves>>
        BY <1>7, <1>j DEF Lookup, InHand
  <2>2. N' = N
        BY <1>7, <2>1, <1>g DEF Lookup
  <2> QED BY <2>1, <2>2, <1>s
<1>8. ASSUME NEW c \in Cpu, Update(c) PROVE ElementsAreBounded'
  <2> DEFINE s == job[c].slot
  <2>1. /\ InHand(job[c]) /\ s \in Slot /\ ~InHand(job'[c]) /\ job[c].op \in Op
        /\ \A d \in Cpu : d # c => job'[d] = job[d]
        /\ \A r \in Slot : r # s => value'[r] = value[r]
        /\ \A k \in Op : MergeValues(value'[s]).bytes[k] =
               MergeValues(value[s]).bytes[k] + (IF k = job[c].op THEN 1 ELSE 0)
        BY <1>8, UpdateAdds, JobFacts
  <2>2. N' \in Nat /\ N = N' + 1 /\ UNCHANGED <<key, owner, inserts, moves>>
        BY <1>8, <2>1, <1>d DEF Update
  <2>3. ASSUME NEW r \in Slot, NEW k \in Op PROVE M(r, k)' + N' <= moves'
    <3>1. M(r, k)' = M(r, k) \/ M(r, k)' = M(r, k) + 1
      <4>1. CASE r = s
        <5>1. M(r, k)' = M(r, k) + (IF k = job[c].op THEN 1 ELSE 0)
          <6> HIDE DEF s
          <6> QED BY <2>1, <4>1 DEF M
        <5>2. M(r, k) \in Nat
              BY <1>n
        <5> QED BY <5>1, <5>2
      <4>2. CASE r # s
            BY <2>1, <4>2 DEF M
      <4> QED BY <4>1, <4>2
    <3>2. M(r, k) \in Nat /\ M(r, k) + N <= moves
          BY <1>n, <1>b
    <3> QED BY <2>2, <3>1, <3>2, <1>t
  <2>4. inserts' + N' <= moves'
    <3>1. N' \in Nat /\ N = N' + 1
          BY <2>2
    <3> QED BY <2>2, <3>1, <1>y
  <2> QED BY <2>2, <2>3, <2>4, <1>b, <1>e
<1>9. ASSUME NEW c \in Cpu, Insert(c) PROVE ElementsAreBounded'
  <2> DEFINE p == Tgid(job[c].thread)
  <2>1. job[c] # Idle /\ InHand(job[c]) /\ UNCHANGED moves /\ gen[p] > 0 /\ p \in Pid
        BY <1>9, <1>j DEF Insert, InHand
  <2>2. CASE UNCHANGED <<statsVars, inserts>> /\ Goto(c, "relookup", 0)
        BY <2>1, <2>2, <1>g, <1>s
  <2>3. ASSUME NEW s \in Slot, key[s] = 0, key' = [key EXCEPT ![s] = p],
               owner' = [owner EXCEPT ![s] = gen[p]],
               value' = [value EXCEPT ![s] = [d \in Cpu |->
                  IF d = c THEN UpdateStats(EmptyStats, job[c].op, job[c].addr)
                           ELSE EmptyStats]],
               Goto(c, "emit", s), inserts' = inserts + 1
        PROVE  ElementsAreBounded'
    <3>1. /\ \A r \in Slot : r # s => value'[r] = value[r]
          /\ \A k \in Op : MergeValues(value'[s]).bytes[k] = IF k = job[c].op THEN 1 ELSE 0
          BY <2>1, <2>3, InsertIsOne
    <3>2. job'[c].pc = "emit" /\ \A d \in Cpu : d # c => job'[d] = job[d]
          BY <2>1, <2>3, GotoMore
    <3>3. ~InHand(job'[c])
          BY <3>2 DEF InHand
    <3>4. N' \in Nat /\ N = N' + 1
          BY <2>1, <3>2, <3>3, <1>d
    <3>5. inserts' + N' <= moves'
      <4>1. inserts' = inserts + 1 /\ moves' = moves
            BY <2>1, <2>3
      <4> QED BY <4>1, <3>4, <1>y
    <3>6. ASSUME NEW r \in Slot, NEW k \in Op PROVE M(r, k)' + N' <= moves'
      <4>1. CASE r = s
        <5>1. M(r, k)' = 0 \/ M(r, k)' = 1
              BY <3>1, <4>1 DEF M
        <5>2. moves' = moves /\ 1 + N' <= moves /\ N' \in Nat
              BY <2>1, <3>4, <1>y
        <5>3. \A n, m \in Nat : 1 + n <= m => 0 + n <= m
              OBVIOUS
        <5> QED BY <5>1, <5>2, <5>3, <1>x
      <4>2. CASE r # s
        <5>1. M(r, k)' = M(r, k)
              BY <3>1, <4>2 DEF M
        <5>2. M(r, k) \in Nat /\ M(r, k) + N <= moves
              BY <1>n, <1>b
        <5> QED BY <2>1, <3>4, <5>1, <5>2, <1>t
      <4> QED BY <4>1, <4>2
    <3> HIDE DEF p
    <3>7. \A r \in Slot : key'[r] # 0 => owner'[r] > 0
          BY <2>1, <2>3, <1>b, <1>t
    <3>8. moves' <= MaxMoves
          BY <2>1, <1>b
    <3> QED BY <3>5, <3>6, <3>7, <3>8, <1>e
  <2> QED BY <1>9, <2>2, <2>3 DEF Insert
<1>10. ASSUME NEW c \in Cpu, Emit(c) PROVE ElementsAreBounded'
  <2>1. /\ job[c] # Idle /\ ~InHand(job[c]) /\ UNCHANGED <<value, key, owner, inserts, moves>>
        /\ Return(c)
        BY <1>10, <1>j DEF Emit, InHand
  <2>2. ~InHand(job'[c]) /\ \A d \in Cpu : d # c => job'[d] = job[d]
        BY <2>1, ReturnFacts, JobFacts
  <2>3. N' = N
    <3>1. \A d \in Cpu : InHand(job'[d]) <=> InHand(job[d])
          BY <2>1, <2>2
    <3>2. \A d \in Cpu : InHand(job[d]) =>
              job'[d].thread = job[d].thread /\ job'[d].op = job[d].op
          BY <2>1, <2>2
    <3> QED BY <3>1, <3>2, FlightStays DEF N
  <2> QED BY <2>1, <2>3, <1>s
<1>11. ASSUME NEW c \in Cpu, Relookup(c) PROVE ElementsAreBounded'
  <2>1. job[c] # Idle /\ InHand(job[c]) /\ UNCHANGED <<value, key, owner, inserts, moves>>
        BY <1>11, <1>j DEF Relookup, InHand
  <2>2. ASSUME NEW s, Goto(c, "update", s) PROVE ElementsAreBounded'
        BY <2>1, <2>2, <1>g, <1>s
  <2>3. CASE Return(c)
    <3>1. ~InHand(job'[c]) /\ \A d \in Cpu : d # c => job'[d] = job[d]
          BY <2>1, <2>3, ReturnFacts, JobFacts
    <3>2. N' \in Nat /\ N = N' + 1
          BY <2>1, <3>1, <1>d
    <3>3. inserts' + N' <= moves' /\ moves' <= MaxMoves
      <4>1. inserts' = inserts /\ moves' = moves
            BY <2>1
      <4> QED BY <4>1, <3>2, <1>i, <1>y
    <3>4. ASSUME NEW r \in Slot, NEW k \in Op PROVE M(r, k)' + N' <= moves'
      <4>1. M(r, k)' = M(r, k) /\ M(r, k) \in Nat /\ M(r, k) + N <= moves
            BY <2>1, <1>v, <1>n, <1>b
      <4> QED BY <2>1, <3>2, <4>1, <1>t
    <3> QED BY <2>1, <3>3, <3>4, <1>b, <1>e
  <2> QED BY <1>11, <2>2, <2>3 DEF Relookup
<1>12. CASE Consume \/ UNCHANGED vars
      BY <1>12, <1>s, <1>f DEF Consume, vars
<1> QED BY <1>1, <1>2, <1>3, <1>4, <1>5, <1>6, <1>7, <1>8, <1>9, <1>10, <1>11, <1>12
        DEF Next, Machine, Probes, AccountBytes

\* The abstract entries and events.
LEMMA EntryFacts ==
    /\ Feed!NoEntry = [owner |-> 0, bytes |-> NoUnits]
    /\ DOMAIN FeedEntry = Pid
    /\ \A p \in Pid :
          /\ FeedEntry[p].owner = (IF Linked(p) THEN owner[Element(p)] ELSE 0)
          /\ FeedEntry[p].bytes = Shown(p).bytes
          /\ FeedEntry[p] = [owner |-> IF Linked(p) THEN owner[Element(p)] ELSE 0,
                             bytes |-> Shown(p).bytes]
          /\ ~Linked(p) => FeedEntry[p] = Feed!NoEntry
<1>1. \A p \in Pid : ~Linked(p) => Shown(p).bytes = NoUnits
      BY EmptyStatsType DEF Shown
<1> QED BY <1>1 DEF FeedEntry, Feed!NoEntry, NoUnits

LEMMA EntryOfElement ==
    ASSUME TypeOK, OneElementPerPid, ElementsAreBounded, NEW s \in Slot, key[s] # 0
    PROVE  /\ key[s] \in Pid /\ FeedEntry[key[s]] # Feed!NoEntry
           /\ FeedEntry[key[s]] = [owner |-> owner[s], bytes |-> MergeValues(value[s]).bytes]
<1>1. key[s] \in Pid /\ owner[s] > 0 /\ owner[s] \in Nat
      BY DEF TypeOK, ElementsAreBounded
<1>2. Linked(key[s]) /\ Element(key[s]) = s /\ Shown(key[s]) = MergeValues(value[s])
      BY ShownIs
<1> QED BY <1>1, <1>2, EntryFacts

LEMMA FeedEntrySame == UNCHANGED statsVars => FeedEntry' = FeedEntry
BY DEF statsVars, FeedEntry, Linked, Element, Shown, EmptyStats, NoUnits

LEMMA FeedPendingSame ==
    ASSUME \A c \in Cpu : job'[c].pc = "emit" <=> job[c].pc = "emit",
           \A c \in Cpu : job[c].pc = "emit" => job'[c].thread = job[c].thread,
           \A c \in Cpu : job[c].pc = "emit" =>
               gen'[Tgid(job[c].thread)] = gen[Tgid(job[c].thread)]
    PROVE  FeedPending' = FeedPending
BY DEF FeedPending

LEMMA FeedStutters ==
    ASSUME UNCHANGED <<phase, gen, ring, lost, inserts>>, UNCHANGED statsVars,
           NEW c \in Cpu, job[c].pc # "emit", job'[c].pc # "emit",
           \A d \in Cpu : d # c => job'[d] = job[d]
    PROVE  UNCHANGED Feed!feedVars
<1>1. FeedEntry' = FeedEntry
      BY FeedEntrySame
<1>2. FeedPending' = FeedPending
      BY FeedPendingSame
<1> QED BY <1>1, <1>2 DEF Feed!feedVars

LEMMA FeedStuttersAll ==
    ASSUME UNCHANGED <<phase, gen, ring, lost, inserts, job>>, UNCHANGED statsVars
    PROVE  UNCHANGED Feed!feedVars
<1>1. FeedEntry' = FeedEntry
      BY FeedEntrySame
<1>2. FeedPending' = FeedPending
      BY FeedPendingSame
<1> QED BY <1>1, <1>2 DEF Feed!feedVars

FeedInv == /\ TypeOK /\ EndpointOfThisCall /\ OneElementPerPid
           /\ CallersAreAlive /\ ElementsAreBounded
           /\ LeaderExitsLast => Owned

LEMMA ForkRefines ==
    ASSUME FeedInv, NEW p \in Pid, Fork(p) PROVE Feed!Fork(p)
<1> USE DEF procVars, statsVars, ringVars, countVars
<1>1. FeedEntry' = FeedEntry
      BY FeedEntrySame DEF Fork
<1>2. FeedPending' = FeedPending
  <2>1. ASSUME NEW c \in Cpu, job[c].pc = "emit"
        PROVE  gen'[Tgid(job[c].thread)] = gen[Tgid(job[c].thread)]
    <3>1. Tgid(job[c].thread) \in Pid /\ phase[Tgid(job[c].thread)] # "free"
          BY <2>1, JobFacts DEF FeedInv, CallersAreAlive
    <3> QED BY <3>1 DEF Fork, FeedInv, TypeOK
  <2> QED BY <2>1, FeedPendingSame DEF Fork
<1> QED BY <1>1, <1>2 DEF Fork, Feed!Fork

LEMMA ReapRefines ==
    ASSUME NEW p \in Pid, Reap(p) PROVE Feed!Reap(p)
<1> USE DEF procVars, statsVars, ringVars, countVars
<1>1. FeedEntry' = FeedEntry
      BY FeedEntrySame DEF Reap
<1>2. FeedPending' = FeedPending
      BY FeedPendingSame DEF Reap
<1> QED BY <1>1, <1>2 DEF Reap, Feed!Reap

\* The exit of a leader deletes the one entry of its process.
LEMMA ExitRefines ==
    ASSUME FeedInv, OneElementPerPid', NEW t \in Thread, SchedProcessExit(t)
    PROVE  Feed!LeaderExit(Tgid(t)) \/ UNCHANGED Feed!feedVars
<1> USE DEF procVars, statsVars, ringVars, countVars
<1> DEFINE p == Tgid(t)
<1>0. p \in Pid /\ t = <<p, t[2]>> /\ t \in threads /\ p # 0
      BY AccountingAssumption DEF Thread, Tgid, SchedProcessExit
<1>1. CASE UNCHANGED phase /\ UNCHANGED statsVars
      BY <1>1, FeedStuttersAll DEF SchedProcessExit
<1>2. CASE /\ t[2] = Leader /\ phase' = [phase EXCEPT ![p] = "exiting"] /\ DeleteKey(p)
  <2>1. phase[p] = "running"
        BY <1>0, <1>2 DEF FeedInv, CallersAreAlive
  <2>2. FeedPending' = FeedPending
        BY FeedPendingSame DEF SchedProcessExit
  <2> HIDE DEF p
  <2>3. FeedEntry' = [FeedEntry EXCEPT ![p] = Feed!NoEntry]
    <3>k. key \in [Slot -> Pid \cup {0}] /\ owner \in [Slot -> Nat]
          BY DEF FeedInv, TypeOK
    <3>1. FeedEntry'[p] = Feed!NoEntry
      <4>1. \A s \in Slot : key'[s] # p
            BY <1>0, <1>2, <3>k DEF DeleteKey
      <4>2. FeedEntry'[p] = [owner |-> 0, bytes |-> NoUnits]
        <5>1. ~Linked(p)'
              BY <4>1, <1>0 DEF Linked, p
        <5>2. Shown(p)' = EmptyStats
              BY <5>1 DEF Shown, EmptyStats, NoUnits
        <5> QED BY <5>1, <5>2, <1>0, EmptyStatsType DEF FeedEntry
      <4> QED BY <4>2, EntryFacts
    <3>2. ASSUME NEW q \in Pid, q # p PROVE FeedEntry'[q] = FeedEntry[q]
      <4>1. /\ \A s \in Slot : key'[s] = q <=> key[s] = q
            /\ \A s \in Slot : key[s] = q => value'[s] = value[s] /\ owner'[s] = owner[s]
            /\ q # 0
            BY <1>2, <3>2, <3>k, AccountingAssumption DEF DeleteKey
      <4>2. /\ Shown(q)' = Shown(q) /\ (Linked(q)' <=> Linked(q))
            /\ Linked(q) => owner'[Element(q)'] = owner[Element(q)]
            BY <4>1, ShownSame DEF FeedInv
      <4> QED BY <4>2 DEF FeedEntry
    <3>3. DOMAIN FeedEntry' = Pid /\ DOMAIN FeedEntry = Pid
          BY DEF FeedEntry
    <3>4. FeedEntry' = [q \in Pid |-> FeedEntry'[q]] /\ FeedEntry = [q \in Pid |-> FeedEntry[q]]
          BY DEF FeedEntry
    <3> HIDE DEF FeedEntry
    <3> QED BY <3>1, <3>2, <3>4, <1>0
  <2>4. UNCHANGED <<gen, ring, lost, inserts>>
        BY DEF SchedProcessExit
  <2> QED BY <1>2, <2>1, <2>2, <2>3, <2>4 DEF Feed!LeaderExit, p
<1> QED BY <1>1, <1>2 DEF SchedProcessExit

\* A program with a unit in hand: the bounds of StatsFeed are not reached.
LEMMA BelowBounds ==
    ASSUME FeedInv, NEW c \in Cpu, InHand(job[c])
    PROVE  /\ inserts < MaxMoves
           /\ \A s \in Slot, k \in Op : MergeValues(value[s]).bytes[k] < MaxMoves
<1> DEFINE N == Cardinality(Counting)
           M(s, k) == MergeValues(value[s]).bytes[k]
<1>1. N \in Nat /\ N > 0
  <2>1. N \in Nat
        BY FlightType
  <2>2. c \in Counting
        BY DEF Counting, InHand
  <2> QED BY <2>1, <2>2, FlightType, FS_EmptySet
<1>2. moves \in Nat /\ inserts \in Nat /\ MaxMoves \in Nat
      BY AccountingAssumption DEF FeedInv, TypeOK
<1>3. \A s \in Slot, k \in Op : M(s, k) \in Nat
  <2>1. \A s \in Slot : MergeValues(value[s]) \in ProcStats
        BY LoopType DEF FeedInv, TypeOK
  <2> QED BY <2>1 DEF ProcStats
<1>4. /\ moves <= MaxMoves /\ inserts + N <= moves
      /\ \A s \in Slot, k \in Op : M(s, k) + N <= moves
      BY DEF FeedInv, ElementsAreBounded
<1> HIDE DEF N, M
<1>5. \A i, n, m, x \in Nat : i + n <= m /\ n > 0 /\ m <= x => i < x
      OBVIOUS
<1>6. inserts < MaxMoves /\ \A s \in Slot, k \in Op : M(s, k) < MaxMoves
      BY <1>1, <1>2, <1>3, <1>4, <1>5
<1> QED BY <1>6 DEF M

\* A write through the pointer counts for whoever has the element, or for nobody.
LEMMA UpdateRefines ==
    ASSUME FeedInv, TypeOK', OneElementPerPid', NEW c \in Cpu, Update(c)
    PROVE  \/ \E p \in Pid, k \in Op : Feed!Account(p, k)
           \/ UNCHANGED Feed!feedVars
<1> USE DEF procVars, statsVars, ringVars, countVars
<1> DEFINE s == job[c].slot
           op == job[c].op
           p == key[s]
<1>1. /\ job[c] # Idle /\ InHand(job[c]) /\ s \in Slot /\ ~InHand(job'[c]) /\ op \in Op
      /\ \A d \in Cpu : d # c => job'[d] = job[d]
      /\ \A r \in Slot : r # s => value'[r] = value[r]
      /\ \A k \in Op : MergeValues(value'[s]).bytes[k] =
               MergeValues(value[s]).bytes[k] + (IF k = op THEN 1 ELSE 0)
      BY UpdateAdds, JobFacts DEF FeedInv
<1>2. UNCHANGED <<phase, gen, ring, lost, inserts, key, owner>>
      BY DEF Update
<1>3. FeedPending' = FeedPending
  <2>1. job[c].pc = "update" /\ job'[c].pc # "emit"
    <3>1. job'[c] = Idle
          BY UpdateAdds DEF FeedInv
    <3> QED BY <3>1 DEF Update, Idle
  <2> QED BY <1>1, <1>2, <2>1, FeedPendingSame
<1>4. \A r \in Slot : /\ MergeValues(value[r]).bytes \in [Op -> Nat]
                       /\ MergeValues(value'[r]).bytes \in [Op -> Nat]
  <2>1. \A r \in Slot : value[r] \in [Cpu -> ProcStats] /\ value'[r] \in [Cpu -> ProcStats]
        BY DEF FeedInv, TypeOK
  <2>2. \A r \in Slot : MergeValues(value[r]) \in ProcStats /\ MergeValues(value'[r]) \in ProcStats
        BY <2>1, LoopType
  <2> QED BY <2>2 DEF ProcStats
<1>5. MergeValues(value[s]).bytes[op] < MaxMoves
      BY <1>1, BelowBounds
<1>6. FeedEntry' = [q \in Pid |-> FeedEntry'[q]] /\ FeedEntry = [q \in Pid |-> FeedEntry[q]]
      BY DEF FeedEntry
<1> HIDE DEF s, op
<1>7. ASSUME NEW q \in Pid, q # p PROVE FeedEntry'[q] = FeedEntry[q]
  <2>1. /\ \A r \in Slot : key'[r] = q <=> key[r] = q
        /\ \A r \in Slot : key[r] = q => value'[r] = value[r] /\ owner'[r] = owner[r]
        /\ q # 0
        BY <1>1, <1>2, <1>7, AccountingAssumption
  <2>2. /\ Shown(q)' = Shown(q) /\ (Linked(q)' <=> Linked(q))
        /\ Linked(q) => owner'[Element(q)'] = owner[Element(q)]
        BY <2>1, ShownSame DEF FeedInv
  <2> QED BY <2>2 DEF FeedEntry
<1>8. CASE p = 0
  <2>1. FeedEntry' = FeedEntry
        BY <1>6, <1>7, <1>8, AccountingAssumption
  <2> QED BY <1>2, <1>3, <2>1 DEF Feed!feedVars
<1>9. CASE p # 0
  <2>1. /\ p \in Pid /\ FeedEntry[p] # Feed!NoEntry
        /\ FeedEntry[p] = [owner |-> owner[s], bytes |-> MergeValues(value[s]).bytes]
        BY <1>1, <1>9, EntryOfElement DEF FeedInv
  <2>2. FeedEntry'[p] = [owner |-> owner'[s], bytes |-> MergeValues(value'[s]).bytes]
    <3>1. PICK q \in Pid : q = p
          BY <2>1
    <3>2. key'[s] = q /\ s \in Slot /\ q # 0
          BY <1>1, <1>2, <1>9, <3>1
    <3>3. Linked(q)' /\ Element(q)' \in Slot /\ key'[Element(q)'] = q
      <4>1. \E r \in Slot : key'[r] = q
            BY <3>2
      <4> QED BY <4>1 DEF Linked, Element
    <3>4. Element(q)' = s
          BY <3>2, <3>3 DEF OneElementPerPid
    <3>5. Shown(q)' = MergeValues(value'[s])
          BY <3>3, <3>4 DEF Shown
    <3>6. FeedEntry'[q] = [owner |-> owner'[s], bytes |-> MergeValues(value'[s]).bytes]
          BY <3>3, <3>4, <3>5 DEF FeedEntry
    <3> QED BY <3>1, <3>6
  <2> DEFINE b == MergeValues(value[s]).bytes
             w == MergeValues(value'[s]).bytes
  <2>3. b \in [Op -> Nat] /\ w \in [Op -> Nat] /\ op \in Op
        /\ \A k \in Op : w[k] = b[k] + (IF k = op THEN 1 ELSE 0)
        BY <1>1, <1>4
  <2>4. b[op] < MaxMoves /\ FeedEntry[p].bytes = b /\ FeedEntry[p].owner = owner[s]
        BY <1>5, <2>1
  <2>5. FeedEntry'[p] = [owner |-> owner[s], bytes |-> w]
        BY <1>2, <2>2
  <2> HIDE DEF b, w, p
  <2>6. w = [b EXCEPT ![op] = b[op] + 1]
        BY <2>3
  <2>7. FeedEntry' = [FeedEntry EXCEPT ![p] =
            [owner |-> FeedEntry[p].owner,
             bytes |-> [FeedEntry[p].bytes EXCEPT ![op] = FeedEntry[p].bytes[op] + 1]]]
    <3> DEFINE e == [owner |-> FeedEntry[p].owner,
                     bytes |-> [FeedEntry[p].bytes EXCEPT ![op] = FeedEntry[p].bytes[op] + 1]]
    <3>1. FeedEntry'[p] = e
          BY <2>4, <2>5, <2>6
    <3> HIDE DEF e
    <3>2. FeedEntry' = [FeedEntry EXCEPT ![p] = e]
          BY <1>6, <1>7, <2>1, <3>1
    <3> QED BY <3>2 DEF e
  <2>8. FeedEntry[p].bytes[op] < MaxMoves /\ FeedEntry[p] # Feed!NoEntry
        BY <2>1, <2>4
  <2>9. Feed!Account(p, op)
        BY <1>2, <1>3, <2>7, <2>8 DEF Feed!Account
  <2> QED BY <2>1, <2>3, <2>9
<1> QED BY <1>8, <1>9

\* With an element free, fewer PIDs have an entry than the map has elements.
LEMMA RoomForOne ==
    ASSUME IsFiniteSet(Slot), FeedInv, NEW s \in Slot, key[s] = 0
    PROVE  Cardinality(Feed!Present) < Cardinality(Slot)
<1> DEFINE f == [p \in Feed!Present |-> Element(p)]
<1>1. \A p \in Feed!Present : p \in Pid /\ Linked(p)
      BY EntryFacts DEF Feed!Present
<1>2. \A p \in Feed!Present : Element(p) \in Slot \ {s} /\ key[Element(p)] = p
  <2> SUFFICES ASSUME NEW p \in Feed!Present
               PROVE  Element(p) \in Slot \ {s} /\ key[Element(p)] = p
      OBVIOUS
  <2>1. Element(p) \in Slot /\ key[Element(p)] = p
        BY <1>1 DEF Linked, Element
  <2> QED BY <1>1, <2>1, AccountingAssumption
<1>3. f \in Injection(Feed!Present, Slot \ {s})
  <2>1. f \in [Feed!Present -> Slot \ {s}]
        BY <1>2
  <2>2. \A a, b \in Feed!Present : f[a] = f[b] => a = b
        BY <1>2
  <2> HIDE DEF f
  <2> QED BY <2>1, <2>2 DEF Injection, IsInjective
<1>4. IsFiniteSet(Slot \ {s}) /\ Cardinality(Slot \ {s}) = Cardinality(Slot) - 1
      BY FS_RemoveElement
<1>5. /\ IsFiniteSet(Feed!Present)
      /\ Cardinality(Feed!Present) <= Cardinality(Slot \ {s})
      BY <1>3, <1>4, FS_Injection
<1>6. Cardinality(Slot) \in Nat /\ Cardinality(Feed!Present) \in Nat
      BY <1>5, FS_CardinalityType
<1> QED BY <1>4, <1>5, <1>6

LEMMA InsertRefines ==
    ASSUME IsFiniteSet(Slot), FeedInv, TypeOK', OneElementPerPid', NEW c \in Cpu, Insert(c)
    PROVE  \/ \E p \in Pid, k \in Op : Feed!Insert(c, p, k)
           \/ UNCHANGED Feed!feedVars
<1> USE DEF procVars, statsVars, ringVars, countVars
<1> DEFINE p == Tgid(job[c].thread)
           op == job[c].op
<1>1. /\ job[c] # Idle /\ InHand(job[c]) /\ job[c].pc = "insert" /\ op \in Op
      /\ p \in Pid /\ p # 0 /\ UNCHANGED <<phase, gen, ring>>
      /\ phase[p] # "free" /\ (LeaderExitsLast => phase[p] = "running")
  <2>1. job[c].pc = "insert" /\ UNCHANGED <<phase, gen, ring>>
        BY DEF Insert
  <2>2. job[c] # Idle /\ InHand(job[c]) /\ op \in Op /\ p \in Pid /\ p # 0
        /\ job[c].thread \in threads
        BY <2>1, JobFacts DEF InHand, FeedInv, CallersAreAlive
  <2> QED BY <2>1, <2>2 DEF FeedInv, CallersAreAlive, Owned, CallersRun
<1>2. CASE UNCHANGED <<statsVars, lost, inserts>> /\ Goto(c, "relookup", 0)
  <2>1. job'[c].pc = "relookup" /\ \A d \in Cpu : d # c => job'[d] = job[d]
        BY <1>1, <1>2, GotoMore DEF FeedInv
  <2> QED BY <1>1, <1>2, <2>1, FeedStutters
<1>3. ASSUME NEW s \in Slot, Found(c) = {}, key[s] = 0, key' = [key EXCEPT ![s] = p],
             owner' = [owner EXCEPT ![s] = gen[p]],
             value' = [value EXCEPT ![s] = [d \in Cpu |->
                IF d = c THEN UpdateStats(EmptyStats, job[c].op, job[c].addr)
                         ELSE EmptyStats]],
             Goto(c, "emit", s), lost' = [lost EXCEPT ![p] = FALSE], inserts' = inserts + 1
      PROVE  Feed!Insert(c, p, op)
  <2>t. /\ key \in [Slot -> Pid \cup {0}] /\ owner \in [Slot -> Nat]
        /\ phase \in [Pid -> {"free", "running", "exiting"}]
        /\ gen \in [Pid -> Nat] /\ value' \in [Slot -> [Cpu -> ProcStats]]
        BY DEF FeedInv, TypeOK
  <2>1. /\ \A r \in Slot : r # s => value'[r] = value[r]
        /\ \A k \in Op : MergeValues(value'[s]).bytes[k] = IF k = op THEN 1 ELSE 0
        BY <1>1, <1>3, InsertIsOne DEF FeedInv
  <2>2. /\ job'[c].pc = "emit" /\ job'[c].thread = job[c].thread
        /\ \A d \in Cpu : d # c => job'[d] = job[d]
        BY <1>1, <1>3, GotoMore DEF FeedInv
  <2>3. Feed!CanAccount(p)
        BY <1>1, <2>t DEF Feed!CanAccount
  <2>4. \A r \in Slot : key[r] # p
        BY <1>3 DEF Found
  <2>5. FeedEntry[p] = Feed!NoEntry
        BY <1>1, <2>4, ShownNone, EntryFacts
  <2>6. Cardinality(Feed!Present) < Cardinality(Slot)
        BY <1>3, RoomForOne
  <2>7. inserts < MaxMoves
        BY <1>1, BelowBounds
  <2>8. FeedPending[c] = Feed!NoEvent /\
        FeedPending' = [FeedPending EXCEPT ![c] = [pid |-> p, owner |-> gen[p]]]
    <3>1. FeedPending[c] = Feed!NoEvent
          BY <1>1 DEF FeedPending, Feed!NoEvent
    <3>2. FeedPending'[c] = [pid |-> p, owner |-> gen[p]]
          BY <1>1, <2>2 DEF FeedPending
    <3>3. \A d \in Cpu : d # c => FeedPending'[d] = FeedPending[d]
          BY <1>1, <2>2 DEF FeedPending
    <3>4. FeedPending' = [d \in Cpu |-> FeedPending'[d]] /\ FeedPending = [d \in Cpu |-> FeedPending[d]]
          BY DEF FeedPending
    <3> DEFINE e == [pid |-> p, owner |-> gen[p]]
    <3> HIDE DEF e
    <3>5. FeedPending' = [FeedPending EXCEPT ![c] = e]
          BY <3>2, <3>3, <3>4 DEF e
    <3> QED BY <3>1, <3>5 DEF e
  <2> DEFINE one == [owner |-> gen[p], bytes |-> [k \in Op |-> IF k = op THEN 1 ELSE 0]]
  <2>9. FeedEntry'[p] = one
    <3>1. PICK q \in Pid : q = p
          BY <1>1
    <3>2. key'[s] = q /\ q # 0 /\ owner'[s] = gen[q]
          BY <1>1, <1>3, <2>t, <3>1
    <3>3. Linked(q)' /\ Element(q)' \in Slot /\ key'[Element(q)'] = q
      <4>1. \E r \in Slot : key'[r] = q
            BY <3>2
      <4> QED BY <4>1 DEF Linked, Element
    <3>4. Element(q)' = s
          BY <3>2, <3>3 DEF OneElementPerPid
    <3>5. Shown(q)' = MergeValues(value'[s])
          BY <3>3, <3>4 DEF Shown
    <3>6. FeedEntry'[q] = [owner |-> owner'[s], bytes |-> MergeValues(value'[s]).bytes]
          BY <3>3, <3>4, <3>5 DEF FeedEntry
    <3>7. MergeValues(value'[s]).bytes = [k \in Op |-> IF k = op THEN 1 ELSE 0]
      <4>1. MergeValues(value'[s]) \in ProcStats
            BY <2>t, LoopType
      <4>2. MergeValues(value'[s]).bytes \in [Op -> Nat]
            BY <4>1 DEF ProcStats
      <4> QED BY <4>2, <2>1
    <3> QED BY <3>1, <3>2, <3>6, <3>7
  <2> HIDE DEF one, p, op
  <2>10. ASSUME NEW q \in Pid, q # p PROVE FeedEntry'[q] = FeedEntry[q]
    <3>1. /\ \A r \in Slot : key'[r] = q <=> key[r] = q
          /\ \A r \in Slot : key[r] = q => value'[r] = value[r] /\ owner'[r] = owner[r]
          /\ q # 0
          BY <1>3, <2>1, <2>10, <2>t, AccountingAssumption
    <3>2. /\ Shown(q)' = Shown(q) /\ (Linked(q)' <=> Linked(q))
          /\ Linked(q) => owner'[Element(q)'] = owner[Element(q)]
          BY <3>1, ShownSame DEF FeedInv
    <3> QED BY <3>2 DEF FeedEntry
  <2>11. FeedEntry' = [FeedEntry EXCEPT ![p] = one]
    <3>1. FeedEntry' = [q \in Pid |-> FeedEntry'[q]] /\ FeedEntry = [q \in Pid |-> FeedEntry[q]]
          BY DEF FeedEntry
    <3> QED BY <1>1, <2>9, <2>10, <3>1
  <2>12. /\ lost' = [lost EXCEPT ![p] = FALSE] /\ inserts' = inserts + 1
         /\ UNCHANGED <<phase, gen, ring>>
         BY <1>1, <1>3
  <2>13. FeedEntry' = [FeedEntry EXCEPT ![p] =
             [owner |-> gen[p], bytes |-> [k \in Op |-> IF k = op THEN 1 ELSE 0]]]
         BY <2>11 DEF one
  <2>14. Feed!Cardinality(Feed!Present) = Cardinality(Feed!Present)
         BY DEF Feed!Cardinality, Cardinality
  <2> QED BY <2>3, <2>5, <2>6, <2>7, <2>8, <2>12, <2>13, <2>14 DEF Feed!Insert
<1> HIDE DEF op
<1>4. CASE \E s \in Slot :
             /\ Found(c) = {} /\ key[s] = 0 /\ key' = [key EXCEPT ![s] = p]
             /\ owner' = [owner EXCEPT ![s] = gen[p]]
             /\ value' = [value EXCEPT ![s] = [d \in Cpu |->
                   IF d = c THEN UpdateStats(EmptyStats, job[c].op, job[c].addr)
                            ELSE EmptyStats]]
             /\ Goto(c, "emit", s)
             /\ lost' = [lost EXCEPT ![p] = FALSE] /\ inserts' = inserts + 1
  <2>1. Feed!Insert(c, p, op)
        BY <1>3, <1>4
  <2> QED BY <1>1, <2>1
<1> QED BY <1>2, <1>4 DEF Insert

LEMMA EmitRefines ==
    ASSUME FeedInv, NEW c \in Cpu, Emit(c) PROVE Feed!Emit(c)
<1> USE DEF procVars, statsVars, ringVars, countVars
<1> DEFINE p == Tgid(job[c].thread)
           e == [pid |-> p, owner |-> gen[p]]
<1>1. /\ job[c] # Idle /\ job[c].pc = "emit" /\ p # 0 /\ p \in Pid
      /\ UNCHANGED <<phase, gen, inserts>> /\ Return(c)
      BY JobFacts DEF Emit, FeedInv
<1>2. job'[c].pc = "idle" /\ \A d \in Cpu : d # c => job'[d] = job[d]
      BY <1>1, ReturnFacts DEF FeedInv, Idle
<1>3. FeedPending[c] = e /\ e # Feed!NoEvent /\ e.pid = p
      BY <1>1 DEF FeedPending, Feed!NoEvent
<1>4. FeedPending' = [FeedPending EXCEPT ![c] = Feed!NoEvent]
      BY <1>1, <1>2 DEF FeedPending, Feed!NoEvent
<1>5. FeedEntry' = FeedEntry
      BY FeedEntrySame DEF Emit
<1>6. \/ Len(ring) < RingCap /\ ring' = Append(ring, e) /\ UNCHANGED lost
      \/ Len(ring) >= RingCap /\ lost' = [lost EXCEPT ![p] = TRUE] /\ UNCHANGED ring
      BY DEF Emit
<1> HIDE DEF e, p
<1> QED BY <1>1, <1>3, <1>4, <1>5, <1>6 DEF Feed!Emit

\* A step of the machine or of a program.
LEMMA ProgramStep ==
    ASSUME IsFiniteSet(Slot), FeedInv, TypeOK', OneElementPerPid',
           Machine \/ Probes \/ AccountBytes
    PROVE  Feed!FeedNext \/ UNCHANGED Feed!feedVars
<1> USE DEF procVars, statsVars, ringVars, countVars
<1> DEFINE Goal == Feed!FeedNext \/ UNCHANGED Feed!feedVars
<1> SUFFICES Goal
    OBVIOUS
<1>i. \A c \in Cpu : job[c].pc # "idle" => job[c] # Idle
      BY JobFacts DEF FeedInv
<1>1. ASSUME NEW p \in Pid, Fork(p) \/ Reap(p) PROVE Goal
      BY <1>1, ForkRefines, ReapRefines DEF Feed!FeedNext
<1>2. ASSUME NEW t \in Thread, Spawn(t) PROVE Goal
      BY <1>2, FeedStuttersAll DEF Spawn
<1>3. ASSUME NEW t \in Thread, SchedProcessExit(t) PROVE Goal
  <2>1. Tgid(t) \in Pid
        BY DEF Thread, Tgid
  <2> QED BY <1>3, <2>1, ExitRefines DEF Feed!FeedNext
<1>4. ASSUME NEW t \in Thread, NEW op \in Bracketed, NEW a \in Addr, ProbeEntry(t, op, a)
      PROVE  Goal
      BY <1>4, FeedStuttersAll DEF ProbeEntry
<1>a. ASSUME NEW c \in Cpu, NEW t, NEW op, NEW a, StartAccount(c, t, op, a),
             UNCHANGED <<phase, gen, ring, lost, inserts>>, UNCHANGED statsVars
      PROVE  Goal
  <2>1. /\ job[c].pc # "emit" /\ job'[c].pc # "emit"
        /\ \A d \in Cpu : d # c => job'[d] = job[d]
        BY <1>a, StartFacts DEF Idle, FeedInv
  <2> QED BY <1>a, <2>1, FeedStutters
<1>5. ASSUME NEW t \in Thread, NEW c \in Cpu, ProbeExit(t, c) PROVE Goal
  <2>1. UNCHANGED <<phase, gen, ring, lost, inserts>> /\ UNCHANGED statsVars
        BY <1>5 DEF ProbeExit
  <2>2. CASE UNCHANGED job
        BY <2>1, <2>2, FeedStuttersAll
  <2>3. CASE StartAccount(c, t, call[t].op, saved[call[t].op][t])
        BY <2>1, <2>3, <1>a
  <2> QED BY <1>5, <2>2, <2>3 DEF ProbeExit
<1>6. ASSUME NEW t \in Thread, NEW c \in Cpu, NEW a \in Addr, TcpCleanupRbuf(t, c, a)
      PROVE  Goal
  <2>1. UNCHANGED <<phase, gen, ring, lost, inserts>> /\ UNCHANGED statsVars
        /\ StartAccount(c, t, "tcp_recv", a)
        BY <1>6 DEF TcpCleanupRbuf
  <2> QED BY <2>1, <1>a
<1>g. ASSUME NEW c \in Cpu, job[c].pc \in {"lookup", "relookup"},
             UNCHANGED <<phase, gen, ring, lost, inserts>>, UNCHANGED statsVars,
             Return(c) \/ \E x \in {"update", "insert"} : \E s : Goto(c, x, s)
      PROVE  Goal
  <2>1. job[c] # Idle /\ job[c].pc # "emit"
        BY <1>g, <1>i
  <2>2. job'[c].pc # "emit" /\ \A d \in Cpu : d # c => job'[d] = job[d]
    <3>1. CASE Return(c)
          BY <2>1, <3>1, ReturnFacts DEF Idle, FeedInv
    <3>2. ASSUME NEW x \in {"update", "insert"}, NEW s, Goto(c, x, s)
          PROVE  job'[c].pc # "emit" /\ \A d \in Cpu : d # c => job'[d] = job[d]
          BY <2>1, <3>2, GotoMore DEF FeedInv
    <3> QED BY <1>g, <3>1, <3>2
  <2> QED BY <1>g, <2>1, <2>2, FeedStutters
<1>7. ASSUME NEW c \in Cpu, Lookup(c) PROVE Goal
      BY <1>7, <1>g DEF Lookup
<1>8. ASSUME NEW c \in Cpu, Update(c) PROVE Goal
      BY <1>8, UpdateRefines DEF Feed!FeedNext
<1>9. ASSUME NEW c \in Cpu, Insert(c) PROVE Goal
      BY <1>9, InsertRefines DEF Feed!FeedNext
<1>10. ASSUME NEW c \in Cpu, Emit(c) PROVE Goal
      BY <1>10, EmitRefines DEF Feed!FeedNext
<1>11. ASSUME NEW c \in Cpu, Relookup(c) PROVE Goal
      BY <1>11, <1>g DEF Relookup
<1> HIDE DEF Goal
<1> QED BY <1>1, <1>2, <1>3, <1>4, <1>5, <1>6, <1>7, <1>8, <1>9, <1>10, <1>11
        DEF Machine, Probes, AccountBytes

LEMMA ConsumeRefines == Consume => Feed!Consume
<1> SUFFICES ASSUME Consume PROVE Feed!Consume
    OBVIOUS
<1> USE DEF procVars, statsVars, ringVars, countVars
<1>1. FeedEntry' = FeedEntry
      BY FeedEntrySame DEF Consume
<1>2. FeedPending' = FeedPending
      BY FeedPendingSame DEF Consume
<1> QED BY <1>1, <1>2 DEF Consume, Feed!Consume

LEMMA FeedStep ==
    ASSUME IsFiniteSet(Slot), FeedInv, TypeOK', OneElementPerPid', [Next]_vars
    PROVE  [Feed!FeedNext \/ Feed!Consume]_(Feed!feedVars)
<1>1. CASE Machine \/ Probes \/ AccountBytes
      BY <1>1, ProgramStep
<1>2. CASE Consume
      BY <1>2, ConsumeRefines
<1>3. CASE UNCHANGED vars
      BY <1>3, FeedStuttersAll DEF vars, procVars, statsVars, ringVars, countVars
<1> QED BY <1>1, <1>2, <1>3 DEF Next

--------------------------------------------------------------------------------
(* The theorems.                                                           *)

\* However the programs of the CPUs interleave, each unit a running process moved
\* is in the one counter it belongs to, in hand, or given up: none is lost or
\* counted twice, by a race to insert, a stale pointer or a reused element.
THEOREM UnitsAreConserved ==
    ASSUME LeaderExitsLast PROVE Spec => []BytesConserved
<1> DEFINE Inv == /\ TypeOK /\ EndpointOfThisCall /\ SavedIsCurrent /\ OneElementPerPid
                  /\ Owned /\ UpdatesOwnElement /\ BytesConserved
<1>1. Init => Inv
  <2> SUFFICES ASSUME Init PROVE Inv
      OBVIOUS
  <2>1. UpdatesOwnElement
        BY DEF Init, UpdatesOwnElement, Idle
  <2>2. BytesConserved
        BY DEF Init, BytesConserved
  <2> QED BY <2>1, <2>2, TypeInit, EndpointInit, OneElementInit, OwnedInit
<1>2. Inv /\ [Next]_vars => Inv'
  <2> SUFFICES ASSUME Inv, [Next]_vars PROVE Inv'
      OBVIOUS
  <2>1. TypeOK' /\ EndpointOfThisCall' /\ SavedIsCurrent' /\ OneElementPerPid'
        BY TypeStep, EndpointStep, OneElementStep
  <2>2. Owned' /\ UpdatesOwnElement'
        BY OwnedStep, OwnElementStep
  <2>3. BytesConserved'
        BY <2>1, ConservedStep
  <2> QED BY <2>1, <2>2, <2>3
<1>3. Inv => BytesConserved
      OBVIOUS
<1> QED BY <1>1, <1>2, <1>3, PTL DEF Spec

\* What the refinement needs holds of every reachable state.
LEMMA FeedInvHolds == Spec => [](FeedInv /\ SavedIsCurrent)
<1> DEFINE Inv == FeedInv /\ SavedIsCurrent
<1>1. Init => Inv
  <2> SUFFICES ASSUME Init PROVE Inv
      OBVIOUS
  <2>1. CallersAreAlive
        BY DEF Init, CallersAreAlive
  <2>2. ElementsAreBounded
    <3>1. Counting = {}
          BY DEF Init, Counting, Idle
    <3>2. \A s \in Slot, k \in Op : MergeValues(value[s]).bytes[k] = 0
          BY MergeEmpty DEF Init
    <3> QED BY <3>1, <3>2, FS_EmptySet, AccountingAssumption DEF Init, ElementsAreBounded
  <2> QED BY <2>1, <2>2, TypeInit, EndpointInit, OneElementInit, OwnedInit DEF FeedInv
<1>2. Inv /\ [Next]_vars => Inv'
  <2> SUFFICES ASSUME Inv, [Next]_vars PROVE Inv'
      OBVIOUS
  <2>1. TypeOK' /\ EndpointOfThisCall' /\ SavedIsCurrent' /\ OneElementPerPid'
        BY TypeStep, EndpointStep, OneElementStep DEF FeedInv
  <2>2. CallersAreAlive' /\ (LeaderExitsLast => Owned')
        BY AliveStep, OwnedStep DEF FeedInv
  <2>3. ElementsAreBounded'
        BY <2>1, BoundedStep DEF FeedInv
  <2> QED BY <2>1, <2>2, <2>3 DEF FeedInv
<1> QED BY <1>1, <1>2, PTL DEF Spec

LEMMA FeedStart == Init => Feed!FeedInit
<1> SUFFICES ASSUME Init PROVE Feed!FeedInit
    OBVIOUS
<1>1. FeedEntry = [p \in Pid |-> Feed!NoEntry]
  <2>1. \A p \in Pid : ~Linked(p)
        BY AccountingAssumption DEF Init, Linked
  <2> QED BY <2>1, EntryFacts DEF FeedEntry
<1>2. FeedPending = [c \in Cpu |-> Feed!NoEvent]
      BY DEF Init, FeedPending, Feed!NoEvent, Idle
<1> QED BY <1>1, <1>2 DEF Init, Feed!FeedInit

\* Seen through the merge, the programs on any number of CPUs, with stale pointers,
\* reused elements, full maps and leaders that exit first, do what StatsFeed says.
THEOREM FeedIsImplemented ==
    ASSUME IsFiniteSet(Slot) PROVE Spec => ImplementsFeed
<1>1. /\ FeedInv /\ SavedIsCurrent /\ (FeedInv /\ SavedIsCurrent)' /\ [Next]_vars
      => [Feed!FeedNext \/ Feed!Consume]_(Feed!feedVars)
      BY FeedStep DEF FeedInv
<1> QED BY <1>1, FeedInvHolds, FeedStart, PTL DEF Spec, ImplementsFeed, Feed!FeedSpec
================================================================================
