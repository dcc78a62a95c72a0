----------------------------- MODULE MapReadProofs -----------------------------
(***************************************************************************)
(* Proofs about the readers of the map.  MapRead: a lookup that copies the *)
(* values field by field while the programs run gives figures between      *)
(* those at its start and at its end, never behind those of the lookup     *)
(* before, and endpoints of its own process.  System: the daemon over the  *)
(* programs is the daemon of Collector, so what is proved of that holds of *)
(* it, down to the units the processes moved.                              *)
(***************************************************************************)
EXTENDS MapRead, System, MergeProofs

--------------------------------------------------------------------------------
(* What the loop over the CPUs preserves.                                  *)

\* Greater counters merge to greater counters.
LEMMA MergeMonotone ==
    ASSUME NEW v \in [Cpu -> ProcStats], NEW w \in [Cpu -> ProcStats], NEW k \in Op,
           \A c \in Cpu : v[c].bytes[k] <= w[c].bytes[k]
    PROVE  MergeValues(v).bytes[k] <= MergeValues(w).bytes[k]
<1> DEFINE L(i) == MergeLoop(v)[i].bytes[k]
           M(i) == MergeLoop(w)[i].bytes[k]
           G == {i \in 0 .. Last : L(i) <= M(i)}
<1>t. \A i \in 0 .. Last : L(i) \in Nat /\ M(i) \in Nat
  <2>1. \A i \in 0 .. Last : MergeLoop(v)[i] \in ProcStats /\ MergeLoop(w)[i] \in ProcStats
        BY LoopType
  <2> QED BY <2>1 DEF ProcStats
<1>v. \A i \in Cpu : v[i].bytes[k] \in Nat /\ w[i].bytes[k] \in Nat
      BY DEF ProcStats
<1>1. 0 \in G
      BY <1>t, LoopFacts, Cpus
<1>2. ASSUME NEW i \in Cpu, i \in G PROVE i + 1 \in G
  <2>1. i \in 0 .. Last /\ i + 1 \in 0 .. Last /\ L(i) <= M(i)
        BY <1>2, Cpus
  <2>2. L(i + 1) = L(i) + v[i].bytes[k] /\ M(i + 1) = M(i) + w[i].bytes[k]
    <3>1. /\ MergeLoop(v)[i] \in ProcStats /\ v[i] \in ProcStats
          /\ MergeLoop(w)[i] \in ProcStats /\ w[i] \in ProcStats
          BY <2>1, LoopType
    <3> QED BY <3>1, LoopFacts, MergeStatsType
  <2>3. /\ L(i) \in Nat /\ M(i) \in Nat /\ v[i].bytes[k] \in Nat /\ w[i].bytes[k] \in Nat
        /\ v[i].bytes[k] <= w[i].bytes[k]
        BY <1>t, <1>v, <2>1
  <2> HIDE DEF L, M
  <2>4. L(i + 1) <= M(i + 1)
        BY <2>1, <2>2, <2>3
  <2> QED BY <2>1, <2>4
<1>3. \A i \in 0 .. Last : i \in G
  <2> HIDE DEF G
  <2> QED BY <1>1, <1>2, CpuInduction
<1>4. Last \in G
      BY <1>3, Cpus
<1> QED BY <1>4, LoopFacts

\* The merged endpoint is that of some CPU, and there is one if any CPU has one.
LEMMA MergeAddr ==
    ASSUME NEW v \in [Cpu -> ProcStats], NEW x \in Protocol
    PROVE  /\ MergeValues(v).addr[x] # NoAddr =>
                 \E c \in Cpu : v[c].addr[x] = MergeValues(v).addr[x]
           /\ \A c \in Cpu : v[c].addr[x] # NoAddr => MergeValues(v).addr[x] # NoAddr
<1> DEFINE L(i) == MergeLoop(v)[i].addr[x]
           G == {i \in 0 .. Last :
                   /\ L(i) # NoAddr => \E c \in Cpu : v[c].addr[x] = L(i)
                   /\ \A c \in Cpu : c < i /\ v[c].addr[x] # NoAddr => L(i) # NoAddr}
<1>1. 0 \in G
      BY LoopFacts, Cpus, EmptyStatsType
<1>2. ASSUME NEW i \in Cpu, i \in G PROVE i + 1 \in G
  <2>1. i \in 0 .. Last /\ i + 1 \in 0 .. Last
        BY Cpus
  <2>2. L(i + 1) = IF L(i) = NoAddr THEN v[i].addr[x] ELSE L(i)
    <3>1. MergeLoop(v)[i] \in ProcStats /\ v[i] \in ProcStats
          BY <2>1, LoopType
    <3> QED BY <3>1, LoopFacts, MergeStatsType
  <2>3. \A c \in Cpu : c < i + 1 => c < i \/ c = i
        BY Cpus
  <2> HIDE DEF L
  <2> QED BY <1>2, <2>1, <2>2, <2>3
<1>3. \A i \in 0 .. Last : i \in G
  <2> HIDE DEF G
  <2> QED BY <1>1, <1>2, CpuInduction
<1>4. Last \in G /\ \A c \in Cpu : c < Last
      BY <1>3, Cpus
<1> QED BY <1>4, LoopFacts

--------------------------------------------------------------------------------
(* What a step of the programs does to the values of an element.           *)

\* One CPU's value of a linked or unlinked element gets one more unit.
Touched(s, c) ==
    /\ job[c] # Idle /\ job[c].pc = "update" /\ s = job[c].slot
    /\ value'[s][c] = UpdateStats(value[s][c], job[c].op, job[c].addr)
    /\ \A d \in Cpu : d # c => value'[s][d] = value[s][d]
    /\ UNCHANGED <<key, gen>>

\* A free element is linked, with one unit on one CPU.
Filled(s, c) ==
    /\ job[c] # Idle /\ key[s] = 0 /\ key'[s] = Tgid(job[c].thread)
    /\ value'[s][c] = UpdateStats(EmptyStats, job[c].op, job[c].addr)
    /\ \A d \in Cpu : d # c => value'[s][d] = EmptyStats
    /\ UNCHANGED gen

LEMMA ValueStep ==
    ASSUME TypeOK, EndpointOfThisCall, [Next]_vars, NEW s \in Slot
    PROVE  \/ value'[s] = value[s] /\ key'[s] \in {key[s], 0}
           \/ \E c \in Cpu : Touched(s, c)
           \/ \E c \in Cpu : Filled(s, c)
<1> USE DEF procVars, statsVars, ringVars, countVars
<1> DEFINE Goal == \/ value'[s] = value[s] /\ key'[s] \in {key[s], 0}
                   \/ \E c \in Cpu : Touched(s, c)
                   \/ \E c \in Cpu : Filled(s, c)
<1> SUFFICES Goal
    OBVIOUS
<1>t. key \in [Slot -> Pid \cup {0}] /\ value \in [Slot -> [Cpu -> ProcStats]]
      BY DEF TypeOK
<1>1. CASE UNCHANGED statsVars
      BY <1>1
<1>2. ASSUME NEW t \in Thread, SchedProcessExit(t) PROVE Goal
  <2>1. value' = value /\ key'[s] \in {key[s], 0}
        BY <1>2 DEF SchedProcessExit, DeleteKey
  <2> QED BY <2>1
<1>3. ASSUME NEW c \in Cpu, Update(c) PROVE Goal
  <2>1. job[c] # Idle /\ job[c].pc = "update" /\ job[c].slot \in Slot
        BY <1>3, UpdateAdds DEF Update
  <2>2. CASE s # job[c].slot
    <3>1. value'[s] = value[s] /\ key' = key
          BY <1>3, <2>2, UpdateAdds DEF Update
    <3> QED BY <3>1
  <2>3. CASE s = job[c].slot
    <3> DEFINE new == UpdateStats(value[s][c], job[c].op, job[c].addr)
    <3>1. /\ value' = [value EXCEPT ![s] = [value[s] EXCEPT ![c] = new]]
          /\ UNCHANGED <<key, gen>>
          BY <1>3, <2>3 DEF Update
    <3> HIDE DEF new
    <3>2. value'[s][c] = new /\ \A d \in Cpu : d # c => value'[s][d] = value[s][d]
          BY <1>t, <3>1
    <3>3. Touched(s, c)
          BY <2>1, <2>3, <3>1, <3>2 DEF Touched, new
    <3> QED BY <3>3
  <2> QED BY <2>2, <2>3
<1>4. ASSUME NEW c \in Cpu, Insert(c) PROVE Goal
  <2> DEFINE new == UpdateStats(EmptyStats, job[c].op, job[c].addr)
             p == Tgid(job[c].thread)
  <2>1. job[c] # Idle /\ UNCHANGED gen
        BY <1>4, JobFacts DEF Insert
  <2>2. ASSUME NEW r \in Slot, key[r] = 0, key' = [key EXCEPT ![r] = p],
               value' = [value EXCEPT ![r] = [d \in Cpu |-> IF d = c THEN new ELSE EmptyStats]]
        PROVE  Goal
    <3> HIDE DEF new, p
    <3>1. CASE s # r
      <4>1. value'[s] = value[s] /\ key'[s] = key[s]
            BY <1>t, <2>2, <3>1
      <4> QED BY <4>1
    <3>2. CASE s = r
      <4>1. /\ key[s] = 0 /\ key'[s] = p /\ value'[s][c] = new
            /\ \A d \in Cpu : d # c => value'[s][d] = EmptyStats
            BY <1>t, <2>2, <3>2
      <4>2. Filled(s, c)
            BY <2>1, <4>1 DEF Filled, new, p
      <4> QED BY <4>2
    <3> QED BY <3>1, <3>2
  <2> QED BY <1>4, <1>1, <2>2 DEF Insert
<1>5. \/ UNCHANGED statsVars
      \/ \E t \in Thread : SchedProcessExit(t)
      \/ \E c \in Cpu : Update(c) \/ Insert(c)
      BY DEF Next, Machine, Probes, AccountBytes, Fork, Reap, Spawn, ProbeEntry,
         ProbeExit, TcpCleanupRbuf, Lookup, Emit, Relookup, Consume, vars
<1> HIDE DEF Goal
<1> QED BY <1>1, <1>2, <1>3, <1>4, <1>5

\* While an element is not linked anew, its counters only grow and no endpoint in
\* it becomes empty.
LEMMA ValuesGrow ==
    ASSUME TypeOK, EndpointOfThisCall, [Next]_vars, NEW s \in Slot, key'[s] \in {0, key[s]}
    PROVE  NoMore(value[s], value'[s])
<1>t. value[s] \in [Cpu -> ProcStats]
      BY DEF TypeOK
<1>v. \A c \in Cpu, k \in Op : value[s][c].bytes[k] \in Nat
      BY <1>t DEF ProcStats
<1>1. CASE value'[s] = value[s]
      BY <1>1, <1>v DEF NoMore
<1>2. ASSUME NEW c \in Cpu, Touched(s, c) PROVE NoMore(value[s], value'[s])
  <2> DEFINE op == job[c].op
             a == job[c].addr
  <2>1. op \in Op /\ a \in Addr /\ a # NoAddr
        BY <1>2, JobFacts, AccountingAssumption DEF Touched
  <2>2. /\ \A k \in Op : value'[s][c].bytes[k] =
                             value[s][c].bytes[k] + (IF k = op THEN 1 ELSE 0)
        /\ \A x \in Protocol : value'[s][c].addr[x] =
              IF x = ProtocolOf(op) THEN a ELSE value[s][c].addr[x]
        BY <1>2, <1>t, <2>1, UpdateStatsFacts DEF Touched
  <2>3. \A d \in Cpu : d # c => value'[s][d] = value[s][d]
        BY <1>2 DEF Touched
  <2> HIDE DEF op, a
  <2>4. \A d \in Cpu, k \in Op : value[s][d].bytes[k] <= value'[s][d].bytes[k]
        BY <1>v, <2>2, <2>3
  <2>5. \A d \in Cpu, x \in Protocol :
            value[s][d].addr[x] # NoAddr => value'[s][d].addr[x] # NoAddr
        BY <2>1, <2>2, <2>3
  <2> QED BY <2>4, <2>5 DEF NoMore
<1>3. ASSUME NEW c \in Cpu, Filled(s, c) PROVE FALSE
  <2>1. Tgid(job[c].thread) # 0
        BY <1>3, JobFacts DEF Filled
  <2> QED BY <1>3, <2>1 DEF Filled
<1> QED BY <1>1, <1>2, <1>3, ValueStep

LEMMA UnusedStep ==
    ASSUME TypeOK, EndpointOfThisCall, UnusedIsEmpty, [Next]_vars PROVE UnusedIsEmpty'
<1> SUFFICES ASSUME NEW s \in Slot, NEW d \in Cpu, NEW x \in Protocol,
                    value'[s][d].addr[x] # NoAddr
             PROVE  x \in InUse
    BY DEF UnusedIsEmpty, InUse
<1>t. value[s] \in [Cpu -> ProcStats] /\ EmptyStats \in ProcStats
      BY EmptyStatsType DEF TypeOK
<1>0. value[s][d].addr[x] # NoAddr => x \in InUse
      BY DEF UnusedIsEmpty
<1>1. CASE value'[s] = value[s]
      BY <1>0, <1>1
<1>2. ASSUME NEW c \in Cpu, Touched(s, c) \/ Filled(s, c) PROVE x \in InUse
  <2>1. job[c].op \in Op /\ job[c].addr \in Addr
        BY <1>2, JobFacts DEF Touched, Filled
  <2>2. ProtocolOf(job[c].op) \in InUse
        BY <2>1 DEF InUse
  <2>3. CASE d # c
        BY <1>0, <1>2, <2>3, EmptyStatsType DEF Touched, Filled
  <2>4. CASE d = c
    <3>1. PICK v \in {value[s][d], EmptyStats} :
              value'[s][d] = UpdateStats(v, job[c].op, job[c].addr)
          BY <1>2, <2>4 DEF Touched, Filled
    <3>2. v \in ProcStats /\ (v.addr[x] # NoAddr => x \in InUse)
          BY <1>0, <1>t, <3>1, EmptyStatsType
    <3>3. value'[s][d].addr[x] = IF x = ProtocolOf(job[c].op) THEN job[c].addr ELSE v.addr[x]
          BY <2>1, <3>1, <3>2, UpdateStatsFacts
    <3> QED BY <2>2, <3>2, <3>3
  <2> QED BY <2>3, <2>4
<1> QED BY <1>1, <1>2, ValueStep

--------------------------------------------------------------------------------
(* The steps of the lookup.                                                *)

LEMMA LookFacts ==
    ASSUME ReadTypeOK, look # NoLook
    PROVE  look.pid \in Pid /\ look.slot \in Slot /\ look.owner \in Nat
BY DEF ReadTypeOK

LEMMA EmptyValuesType == EmptyValues \in [Cpu -> ProcStats]
BY EmptyStatsType DEF EmptyValues

LEMMA LookupFacts ==
    ASSUME TypeOK, NEW p \in Pid, LookupPercpu(p)
    PROVE  /\ look = NoLook /\ look' # NoLook /\ left' = AllFields
           /\ look' \in [pid : Pid, slot : Slot, owner : Nat]
           /\ look'.pid = p /\ key[look'.slot] = p /\ look'.owner = owner[look'.slot]
           /\ floor' = value[look'.slot] /\ floor' \in [Cpu -> ProcStats]
           /\ UNCHANGED <<vars, copy, relinked, last, dest>>
<1>1. PICK s \in Slot : /\ key[s] = p /\ floor' = value[s]
                        /\ look' = [pid |-> p, slot |-> s, owner |-> owner[s]]
      BY DEF LookupPercpu
<1>2. /\ look' \in [pid : Pid, slot : Slot, owner : Nat] /\ look'.pid = p
      /\ look'.slot = s /\ look'.owner = owner[s] /\ value[s] \in [Cpu -> ProcStats]
      BY <1>1 DEF TypeOK
<1>3. look' # NoLook
      BY <1>2, AccountingAssumption DEF NoLook
<1> QED BY <1>1, <1>2, <1>3 DEF LookupPercpu

\* One field of the copy becomes what it is in the element now.
Copied(g) ==
    /\ look # NoLook /\ look.slot \in Slot
    /\ g \in left /\ left' = left \ {g}
    /\ copy' \in [Cpu -> ProcStats]
    /\ \A d \in Cpu, k \in Op : copy'[d].bytes[k] =
          IF <<d, k>> = g THEN value[look.slot][d].bytes[k] ELSE copy[d].bytes[k]
    /\ \A d \in Cpu, x \in Protocol : copy'[d].addr[x] =
          IF <<d, x>> = g THEN value[look.slot][d].addr[x] ELSE copy[d].addr[x]
    /\ UNCHANGED <<vars, look, floor, relinked, last, dest>>

LEMMA CopyFacts ==
    ASSUME TypeOK, ReadTypeOK, CopyField PROVE \E g : Copied(g)
<1> DEFINE New(c, f, v) ==
             [bytes |-> [op \in Op |-> IF f = op THEN v.bytes[op] ELSE copy[c].bytes[op]],
              addr  |-> [x \in Protocol |-> IF f = x THEN v.addr[x] ELSE copy[c].addr[x]]]
<1>1. PICK g \in left :
        /\ left' = left \ {g}
        /\ copy' = [copy EXCEPT ![g[1]] = New(g[1], g[2], value[look.slot][g[1]])]
      BY DEF CopyField
<1>2. look # NoLook /\ look.slot \in Slot
      BY <1>1, LookFacts DEF ReadTypeOK
<1> DEFINE c == g[1]
           f == g[2]
           v == value[look.slot][c]
<1>3. /\ c \in Cpu /\ g = <<c, f>> /\ copy \in [Cpu -> ProcStats]
      /\ value[look.slot] \in [Cpu -> ProcStats]
      BY <1>1, <1>2 DEF ReadTypeOK, AllFields, TypeOK
<1>4. v \in ProcStats /\ copy[c] \in ProcStats
      BY <1>3
<1> HIDE DEF c, f, v
<1>5. /\ v.bytes \in [Op -> Nat] /\ v.addr \in [Protocol -> Addr \cup {NoAddr}]
      /\ copy[c].bytes \in [Op -> Nat]
      /\ copy[c].addr \in [Protocol -> Addr \cup {NoAddr}]
      BY <1>4 DEF ProcStats
<1>6. /\ New(c, f, v) \in ProcStats
      /\ \A k \in Op : New(c, f, v).bytes[k] = IF f = k THEN v.bytes[k] ELSE copy[c].bytes[k]
      /\ \A x \in Protocol : New(c, f, v).addr[x] = IF f = x THEN v.addr[x] ELSE copy[c].addr[x]
  <2>1. /\ New(c, f, v).bytes \in [Op -> Nat]
        /\ New(c, f, v).addr \in [Protocol -> Addr \cup {NoAddr}]
        BY <1>5
  <2> QED BY <2>1 DEF ProcStats
<1>7. copy' = [copy EXCEPT ![c] = New(c, f, v)]
      BY <1>1 DEF c, f, v
<1> HIDE DEF New
<1>8. copy' \in [Cpu -> ProcStats] /\ \A d \in Cpu : copy'[d] = IF d = c THEN New(c, f, v) ELSE copy[d]
      BY <1>3, <1>6, <1>7
<1>9. \A d \in Cpu, k \in Op : copy'[d].bytes[k] =
          IF <<d, k>> = g THEN value[look.slot][d].bytes[k] ELSE copy[d].bytes[k]
  <2> SUFFICES ASSUME NEW d \in Cpu, NEW k \in Op
               PROVE  copy'[d].bytes[k] =
                        IF <<d, k>> = g THEN value[look.slot][d].bytes[k] ELSE copy[d].bytes[k]
      OBVIOUS
  <2>1. <<d, k>> = g <=> d = c /\ k = f
        BY <1>3
  <2>2. CASE d = c
        BY <1>6, <1>8, <2>1, <2>2 DEF v
  <2>3. CASE d # c
        BY <1>8, <2>1, <2>3
  <2> QED BY <2>2, <2>3
<1>10. \A d \in Cpu, x \in Protocol : copy'[d].addr[x] =
          IF <<d, x>> = g THEN value[look.slot][d].addr[x] ELSE copy[d].addr[x]
  <2> SUFFICES ASSUME NEW d \in Cpu, NEW x \in Protocol
               PROVE  copy'[d].addr[x] =
                        IF <<d, x>> = g THEN value[look.slot][d].addr[x] ELSE copy[d].addr[x]
      OBVIOUS
  <2>1. <<d, x>> = g <=> d = c /\ x = f
        BY <1>3
  <2>2. CASE d = c
        BY <1>6, <1>8, <2>1, <2>2 DEF v
  <2>3. CASE d # c
        BY <1>8, <2>1, <2>3
  <2> QED BY <2>2, <2>3
<1>11. UNCHANGED <<vars, look, floor, relinked, last, dest>>
       BY DEF CopyField
<1> QED BY <1>1, <1>2, <1>8, <1>9, <1>10, <1>11 DEF Copied

LEMMA ReadTypeStep ==
    ASSUME TypeOK, ReadTypeOK, [ReadNext]_<<vars, readVars>> PROVE ReadTypeOK'
<1>1. CASE KernelStep
  <2>1. relinked' \in BOOLEAN /\ (look = NoLook => relinked' = relinked)
        BY <1>1, Zenon DEF KernelStep, ReadTypeOK
  <2> QED BY <1>1, <2>1 DEF KernelStep, ReadTypeOK, AllFields, InUse, EmptyValues, EmptyStats, NoUnits
<1>2. ASSUME NEW p \in Pid, LookupPercpu(p) PROVE ReadTypeOK'
      BY <1>2, LookupFacts DEF ReadTypeOK, AllFields, InUse
<1>3. CASE CopyField
  <2>1. PICK g : Copied(g)
        BY <1>3, CopyFacts
  <2> QED BY <2>1 DEF Copied, ReadTypeOK, AllFields, InUse
<1>4. CASE TakeRow
  <2>1. MergedRow.bytes \in [Op -> Nat] /\ NoUnits \in [Op -> Nat]
    <3>1. MergedRow \in ProcStats
          BY LoopType DEF MergedRow, ReadTypeOK
    <3> QED BY <3>1 DEF ProcStats, NoUnits
  <2>2. last' \in [Pid -> [owner : Nat, bytes : [Op -> Nat]]]
    <3> DEFINE new == IF relinked THEN NoRow ELSE [owner |-> look.owner, bytes |-> MergedRow.bytes]
    <3>1. new \in [owner : Nat, bytes : [Op -> Nat]] /\ last' = [last EXCEPT ![look.pid] = new]
          BY <1>4, <2>1, LookFacts DEF TakeRow, Complete, NoRow
    <3> HIDE DEF new
    <3> QED BY <3>1 DEF ReadTypeOK
  <2> QED BY <1>4, <2>2, EmptyValuesType
          DEF TakeRow, Complete, ReadTypeOK, AllFields, InUse, EmptyValues
<1>5. CASE UNCHANGED readVars
      BY <1>5 DEF readVars, ReadTypeOK, AllFields, InUse, EmptyValues, EmptyStats, NoUnits
<1> QED BY <1>1, <1>2, <1>3, <1>4, <1>5 DEF ReadNext

\* The lookup leaves the programs alone.
LEMMA ReadSteps == [ReadNext]_<<vars, readVars>> => [Next]_vars
BY DEF ReadNext, KernelStep, LookupPercpu, CopyField, TakeRow

\* What ~relinked says of a step of the programs.
LEMMA NotRelinked ==
    ASSUME ReadTypeOK, KernelStep, look' # NoLook, ~relinked'
    PROVE  /\ look # NoLook /\ ~relinked /\ look.slot \in Slot
           /\ key'[look.slot] \in {0, key[look.slot]}
           /\ UNCHANGED <<look, left, copy, floor>>
<1>1. UNCHANGED <<look, left, copy, floor>> /\ look # NoLook
      BY DEF KernelStep
<1>2. ~(relinked \/ (look # NoLook /\ key'[look.slot] \notin {0, key[look.slot]}))
      BY Zenon DEF KernelStep
<1> QED BY <1>1, <1>2, LookFacts

LEMMA BetweenStep ==
    ASSUME TypeOK, TypeOK', EndpointOfThisCall, ReadTypeOK, UnusedIsEmpty, CopiedIsBetween,
           [ReadNext]_<<vars, readVars>>
    PROVE  CopiedIsBetween'
<1> SUFFICES ASSUME look' # NoLook, ~relinked' PROVE CopiedIsBetween'
    BY DEF CopiedIsBetween
<1>t. /\ \A s \in Slot, c \in Cpu, k \in Op :
             value[s][c].bytes[k] \in Nat /\ value'[s][c].bytes[k] \in Nat
      /\ \A c \in Cpu, k \in Op : floor[c].bytes[k] \in Nat /\ copy[c].bytes[k] \in Nat
  <2>1. /\ value \in [Slot -> [Cpu -> ProcStats]] /\ value' \in [Slot -> [Cpu -> ProcStats]]
        /\ floor \in [Cpu -> ProcStats] /\ copy \in [Cpu -> ProcStats]
        BY DEF TypeOK, ReadTypeOK
  <2> QED BY <2>1 DEF ProcStats
<1>1. CASE KernelStep
  <2>1. /\ look # NoLook /\ ~relinked /\ look.slot \in Slot
        /\ key'[look.slot] \in {0, key[look.slot]} /\ UNCHANGED <<look, left, copy, floor>>
        BY <1>1, NotRelinked
  <2>2. NoMore(value[look.slot], value'[look.slot])
        BY <1>1, <2>1, ValuesGrow DEF KernelStep
  <2> DEFINE v == value[look.slot]
             w == value'[look.slot]
  <2>3. /\ NoMore(floor, v)
        /\ \A c \in Cpu, k \in Op : <<c, k>> \notin left =>
              floor[c].bytes[k] <= copy[c].bytes[k] /\ copy[c].bytes[k] <= v[c].bytes[k]
        /\ \A c \in Cpu, x \in Protocol :
              <<c, x>> \notin left /\ floor[c].addr[x] # NoAddr => copy[c].addr[x] # NoAddr
        BY <2>1 DEF CopiedIsBetween
  <2>4. \A c \in Cpu, k \in Op : v[c].bytes[k] \in Nat /\ w[c].bytes[k] \in Nat
        BY <1>t, <2>1
  <2>5. NoMore(v, w)
        BY <2>2
  <2> HIDE DEF v, w
  <2>6. NoMore(floor, w)
    <3>1. \A c \in Cpu, k \in Op : floor[c].bytes[k] <= w[c].bytes[k]
          BY <1>t, <2>3, <2>4, <2>5 DEF NoMore
    <3> QED BY <3>1, <2>3, <2>5 DEF NoMore
  <2>7. \A c \in Cpu, k \in Op : <<c, k>> \notin left =>
              floor[c].bytes[k] <= copy[c].bytes[k] /\ copy[c].bytes[k] <= w[c].bytes[k]
        BY <1>t, <2>3, <2>4, <2>5 DEF NoMore
  <2>8. value'[look'.slot] = w /\ floor' = floor /\ copy' = copy /\ left' = left
        BY <2>1 DEF w
  <2> QED BY <2>3, <2>6, <2>7, <2>8 DEF CopiedIsBetween, NoMore
<1>2. ASSUME NEW p \in Pid, LookupPercpu(p) PROVE CopiedIsBetween'
  <2>1. /\ look'.slot \in Slot /\ floor' = value[look'.slot] /\ value' = value
        /\ left' = AllFields
        BY <1>2, LookupFacts DEF vars, statsVars
  <2>2. NoMore(floor', value'[look'.slot])
        BY <1>t, <2>1 DEF NoMore
  <2>3. \A c \in Cpu, k \in Op : <<c, k>> \in left'
        BY <2>1 DEF AllFields, InUse
  <2>4. ASSUME NEW c \in Cpu, NEW x \in Protocol, <<c, x>> \notin left', floor'[c].addr[x] # NoAddr
        PROVE  FALSE
    <3>1. x \in InUse
          BY <2>1, <2>4 DEF UnusedIsEmpty
    <3> QED BY <2>1, <2>4, <3>1 DEF AllFields
  <2> QED BY <2>2, <2>3, <2>4 DEF CopiedIsBetween, NoMore
<1>3. CASE CopyField
  <2>1. PICK g : Copied(g)
        BY <1>3, CopyFacts
  <2>2. /\ look' = look /\ floor' = floor /\ value' = value /\ look # NoLook /\ ~relinked
        /\ look.slot \in Slot /\ left' = left \ {g}
        BY <2>1 DEF Copied, vars, statsVars
  <2> DEFINE v == value[look.slot]
  <2>3. /\ NoMore(floor, v)
        /\ \A c \in Cpu, k \in Op : <<c, k>> \notin left =>
              floor[c].bytes[k] <= copy[c].bytes[k] /\ copy[c].bytes[k] <= v[c].bytes[k]
        /\ \A c \in Cpu, x \in Protocol :
              <<c, x>> \notin left /\ floor[c].addr[x] # NoAddr => copy[c].addr[x] # NoAddr
        BY <2>2 DEF CopiedIsBetween
  <2>4. /\ \A d \in Cpu, k \in Op : copy'[d].bytes[k] =
              IF <<d, k>> = g THEN v[d].bytes[k] ELSE copy[d].bytes[k]
        /\ \A d \in Cpu, x \in Protocol : copy'[d].addr[x] =
              IF <<d, x>> = g THEN v[d].addr[x] ELSE copy[d].addr[x]
        BY <2>1 DEF Copied
  <2>5. \A c \in Cpu, k \in Op : v[c].bytes[k] \in Nat
        BY <1>t, <2>2
  <2>6. value'[look'.slot] = v
        BY <2>2
  <2> HIDE DEF v
  <2>7. \A c \in Cpu, k \in Op : <<c, k>> \notin left' =>
              floor[c].bytes[k] <= copy'[c].bytes[k] /\ copy'[c].bytes[k] <= v[c].bytes[k]
        BY <1>t, <2>2, <2>3, <2>4, <2>5 DEF NoMore
  <2>8. \A c \in Cpu, x \in Protocol :
              <<c, x>> \notin left' /\ floor[c].addr[x] # NoAddr => copy'[c].addr[x] # NoAddr
        BY <2>2, <2>3, <2>4 DEF NoMore
  <2> QED BY <2>2, <2>3, <2>6, <2>7, <2>8 DEF CopiedIsBetween, NoMore
<1>4. CASE TakeRow
      BY <1>4 DEF TakeRow
<1>5. CASE UNCHANGED <<vars, readVars>>
  <2>1. UNCHANGED <<value, look, left, copy, floor, relinked>>
        BY <1>5 DEF vars, statsVars, readVars
  <2> QED BY <2>1 DEF CopiedIsBetween, NoMore
<1> QED BY <1>1, <1>2, <1>3, <1>4, <1>5 DEF ReadNext

--------------------------------------------------------------------------------
(* Endpoints of the process itself, when leaders exit last.                *)

\* A program in progress keeps its thread, operation and endpoint.
LEMMA JobStep ==
    ASSUME TypeOK, EndpointOfThisCall, [Next]_vars, NEW d \in Cpu,
           job[d] # Idle, job'[d] # Idle
    PROVE  /\ job'[d].thread = job[d].thread /\ job'[d].op = job[d].op
           /\ job'[d].addr = job[d].addr
<1> USE DEF procVars, statsVars, ringVars, countVars
<1> DEFINE Goal == /\ job'[d].thread = job[d].thread /\ job'[d].op = job[d].op
                   /\ job'[d].addr = job[d].addr
<1> SUFFICES Goal
    OBVIOUS
<1>1. CASE UNCHANGED job
      BY <1>1
<1>2. ASSUME NEW c \in Cpu, NEW t, NEW op, NEW a, StartAccount(c, t, op, a) PROVE Goal
  <2>1. job[c] = Idle /\ \A e \in Cpu : e # c => job'[e] = job[e]
        BY <1>2, StartFacts
  <2> QED BY <2>1
<1>3. ASSUME NEW c \in Cpu, job[c] # Idle, Return(c) PROVE Goal
  <2>1. job'[c] = Idle /\ \A e \in Cpu : e # c => job'[e] = job[e]
        BY <1>3, ReturnFacts
  <2> QED BY <2>1
<1>4. ASSUME NEW c \in Cpu, job[c] # Idle, NEW x, NEW s, Goto(c, x, s) PROVE Goal
  <2> DEFINE next == [job[c] EXCEPT !.pc = x, !.slot = s]
  <2>1. job' = [job EXCEPT ![c] = next] /\ job \in [Cpu -> Job \cup {Idle}] /\ job[c] \in Job
        BY <1>4 DEF Goto, TypeOK
  <2>2. next.thread = job[c].thread /\ next.op = job[c].op /\ next.addr = job[c].addr
        BY <2>1 DEF Job
  <2> HIDE DEF next
  <2> QED BY <2>1, <2>2
<1>5. \A c \in Cpu : job[c].pc # "idle" => job[c] # Idle
      BY JobFacts
<1> HIDE DEF Goal
<1>6. ASSUME NEW t \in Thread, NEW c \in Cpu, ProbeExit(t, c) PROVE Goal
      BY <1>1, <1>2, <1>6 DEF ProbeExit
<1>7. ASSUME NEW t \in Thread, NEW c \in Cpu, NEW a \in Addr, TcpCleanupRbuf(t, c, a)
      PROVE  Goal
      BY <1>2, <1>7 DEF TcpCleanupRbuf
<1>8. ASSUME NEW c \in Cpu, Lookup(c) PROVE Goal
      BY <1>4, <1>5, <1>8 DEF Lookup
<1>9. ASSUME NEW c \in Cpu, Update(c) \/ Emit(c) PROVE Goal
      BY <1>3, <1>5, <1>9 DEF Update, Emit
<1>10. ASSUME NEW c \in Cpu, Insert(c) PROVE Goal
      BY <1>4, <1>5, <1>10 DEF Insert
<1>11. ASSUME NEW c \in Cpu, Relookup(c) PROVE Goal
      BY <1>3, <1>4, <1>5, <1>11 DEF Relookup
<1>12. \/ UNCHANGED job
       \/ \E t \in Thread, c \in Cpu : ProbeExit(t, c) \/ \E a \in Addr : TcpCleanupRbuf(t, c, a)
       \/ \E c \in Cpu : Lookup(c) \/ Update(c) \/ Insert(c) \/ Emit(c) \/ Relookup(c)
       BY DEF Next, Machine, Probes, AccountBytes, Fork, Reap, Spawn, SchedProcessExit,
          ProbeEntry, Consume, vars
<1> QED BY <1>1, <1>6, <1>7, <1>8, <1>9, <1>10, <1>11, <1>12

\* Only a free PID is given to another process.
LEMMA GenStep ==
    ASSUME TypeOK, [Next]_vars, NEW p \in Pid
    PROVE  gen[p] \in Nat /\ gen'[p] \in Nat /\ gen[p] <= gen'[p]
           /\ (phase[p] # "free" => gen'[p] = gen[p])
<1>1. gen \in [Pid -> Nat]
      BY DEF TypeOK
<1>2. ASSUME NEW q \in Pid, Fork(q)
      PROVE  gen' = [gen EXCEPT ![q] = gen[q] + 1] /\ phase[q] = "free"
      BY <1>2 DEF Fork
<1>3. UNCHANGED gen \/ \E q \in Pid : Fork(q)
      BY DEF Next, Machine, Probes, AccountBytes, Reap, Spawn, SchedProcessExit, ProbeEntry,
         ProbeExit, TcpCleanupRbuf, Lookup, Update, Insert, Emit, Relookup, Consume,
         vars, procVars
<1> QED BY <1>1, <1>2, <1>3

\* A program's process runs and keeps its generation.
LEMMA CallerStays ==
    ASSUME TypeOK, EndpointOfThisCall, Owned, [Next]_vars, NEW c \in Cpu, job[c] # Idle
    PROVE  /\ Tgid(job[c].thread) \in Pid
           /\ gen'[Tgid(job[c].thread)] = gen[Tgid(job[c].thread)]
<1>1. job[c].thread \in Thread /\ Tgid(job[c].thread) \in Pid /\ call[job[c].thread] # NoCall
      BY JobFacts
<1>2. phase[Tgid(job[c].thread)] = "running"
      BY <1>1 DEF Owned, CallersRun
<1> QED BY <1>1, <1>2, GenStep

\* What the history dest makes of a step.
LEMMA DestFacts ==
    ASSUME KernelStep
    PROVE  /\ \A p \in Pid : gen'[p] = gen[p] => dest[p] \subseteq dest'[p]
           /\ \A c \in Cpu :
                 job[c] = Idle /\ job'[c] # Idle /\ Tgid(job'[c].thread) \in Pid =>
                    <<ProtocolOf(job'[c].op), job'[c].addr>> \in dest'[Tgid(job'[c].thread)]
<1> DEFINE Started(p) == {<<ProtocolOf(job'[c].op), job'[c].addr>> :
               c \in {d \in Cpu : job[d] = Idle /\ job'[d] # Idle
                                    /\ Tgid(job'[d].thread) = p}}
<1>1. \A p \in Pid : dest'[p] =
          (IF gen'[p] = gen[p] THEN dest[p] ELSE {}) \cup Started(p)
      BY DEF KernelStep
<1>2. ASSUME NEW c \in Cpu, job[c] = Idle, job'[c] # Idle
      PROVE  <<ProtocolOf(job'[c].op), job'[c].addr>> \in Started(Tgid(job'[c].thread))
      BY <1>2
<1> HIDE DEF Started
<1> QED BY <1>1, <1>2

LEMMA WithinMore ==
    ASSUME NEW v, NEW D, NEW E, Within(v, D), D \subseteq E PROVE Within(v, E)
BY DEF Within

\* The values of an element a program has just written hold its endpoint and
\* those they held before.
LEMMA WrittenWithin ==
    ASSUME TypeOK, EndpointOfThisCall, NEW s \in Slot, NEW c \in Cpu, NEW D,
           \/ Touched(s, c) /\ Within(value[s], D)
           \/ Filled(s, c),
           <<ProtocolOf(job[c].op), job[c].addr>> \in D
    PROVE  Within(value'[s], D)
<1> SUFFICES ASSUME NEW d \in Cpu, NEW x \in Protocol, value'[s][d].addr[x] # NoAddr
             PROVE  <<x, value'[s][d].addr[x]>> \in D
    BY DEF Within
<1>1. job[c].op \in Op /\ job[c].addr \in Addr
      BY JobFacts DEF Touched, Filled
<1>2. value[s][d] \in ProcStats /\ EmptyStats \in ProcStats /\ EmptyStats.addr[x] = NoAddr
      BY EmptyStatsType DEF TypeOK
<1>3. CASE d # c
      BY <1>2, <1>3 DEF Touched, Filled, Within
<1>4. CASE d = c
  <2>1. PICK v \in {value[s][d], EmptyStats} :
            /\ value'[s][d] = UpdateStats(v, job[c].op, job[c].addr)
            /\ v.addr[x] # NoAddr => <<x, v.addr[x]>> \in D
        BY <1>2, <1>4 DEF Touched, Filled, Within
  <2>2. value'[s][d].addr[x] = IF x = ProtocolOf(job[c].op) THEN job[c].addr ELSE v.addr[x]
        BY <1>1, <1>2, <2>1, UpdateStatsFacts
  <2> QED BY <2>1, <2>2
<1> QED BY <1>3, <1>4

LEMMA OwnKernelStep ==
    ASSUME TypeOK, TypeOK', EndpointOfThisCall, Owned, UpdatesOwnElement, ReadTypeOK,
           EndpointsAreOwn, KernelStep
    PROVE  EndpointsAreOwn'
<1>n. [Next]_vars /\ look' = look /\ copy' = copy
      BY DEF KernelStep
<1>d. /\ \A p \in Pid : gen'[p] = gen[p] => dest[p] \subseteq dest'[p]
      /\ \A c \in Cpu :
            job[c] = Idle /\ job'[c] # Idle /\ Tgid(job'[c].thread) \in Pid =>
               <<ProtocolOf(job'[c].op), job'[c].addr>> \in dest'[Tgid(job'[c].thread)]
      BY DestFacts
<1>j. \A c \in Cpu : job[c] # Idle =>
          <<ProtocolOf(job[c].op), job[c].addr>> \in dest'[Tgid(job[c].thread)]
      BY <1>n, <1>d, CallerStays DEF EndpointsAreOwn
<1>1. ASSUME NEW c \in Cpu, job'[c] # Idle
      PROVE  <<ProtocolOf(job'[c].op), job'[c].addr>> \in dest'[Tgid(job'[c].thread)]
  <2>1. CASE job[c] = Idle
    <3>1. job'[c].thread \in Thread
          BY <1>1 DEF TypeOK, Job
    <3>2. Tgid(job'[c].thread) \in Pid
          BY <3>1 DEF Thread, Tgid
    <3> QED BY <1>1, <1>d, <2>1, <3>2
  <2>2. CASE job[c] # Idle
        BY <1>1, <1>j, <1>n, <2>2, JobStep
  <2> QED BY <2>1, <2>2
<1>2. ASSUME NEW s \in Slot, key'[s] # 0 PROVE Within(value'[s], dest'[key'[s]])
  <2>0. key[s] # 0 => key[s] \in Pid /\ gen'[key[s]] = gen[key[s]]
    <3>1. key[s] # 0 => key[s] \in Pid /\ phase[key[s]] = "running"
          BY DEF TypeOK, Owned, NoEntryOutlivesProcess
    <3> QED BY <1>n, <3>1, GenStep
  <2>w. key[s] # 0 => Within(value[s], dest'[key[s]])
    <3>1. key[s] # 0 => Within(value[s], dest[key[s]]) /\ dest[key[s]] \subseteq dest'[key[s]]
          BY <1>d, <2>0 DEF EndpointsAreOwn
    <3> QED BY <3>1, WithinMore
  <2>1. CASE value'[s] = value[s] /\ key'[s] \in {key[s], 0}
        BY <1>2, <2>1, <2>w
  <2>2. ASSUME NEW c \in Cpu, Touched(s, c) PROVE Within(value'[s], dest'[key'[s]])
    <3>1. key'[s] = key[s] /\ key[s] = Tgid(job[c].thread) /\ job[c] # Idle
          BY <2>2 DEF Touched, UpdatesOwnElement
    <3>2. <<ProtocolOf(job[c].op), job[c].addr>> \in dest'[key[s]]
          BY <1>j, <3>1
    <3>3. Within(value[s], dest'[key[s]])
          BY <1>2, <2>w, <3>1
    <3>4. Within(value'[s], dest'[key[s]])
          BY <2>2, <3>2, <3>3, WrittenWithin
    <3> QED BY <3>1, <3>4
  <2>3. ASSUME NEW c \in Cpu, Filled(s, c) PROVE Within(value'[s], dest'[key'[s]])
    <3>1. key'[s] = Tgid(job[c].thread) /\ job[c] # Idle
          BY <2>3 DEF Filled
    <3>2. <<ProtocolOf(job[c].op), job[c].addr>> \in dest'[key'[s]]
          BY <1>j, <3>1
    <3> QED BY <2>3, <3>2, WrittenWithin
  <2> QED BY <1>n, <2>1, <2>2, <2>3, ValueStep
<1>3. look # NoLook => look.pid \in Pid /\ look.slot \in Slot /\ look.owner \in Nat
      BY LookFacts
<1>4. look # NoLook => /\ look.owner <= gen[look.pid] /\ look.owner <= gen'[look.pid]
                       /\ look.owner = gen'[look.pid] => gen'[look.pid] = gen[look.pid]
  <2> SUFFICES ASSUME look # NoLook
               PROVE  /\ look.owner <= gen[look.pid] /\ look.owner <= gen'[look.pid]
                      /\ look.owner = gen'[look.pid] => gen'[look.pid] = gen[look.pid]
      OBVIOUS
  <2>1. look.owner <= gen[look.pid]
        BY DEF EndpointsAreOwn
  <2>2. gen[look.pid] \in Nat /\ gen'[look.pid] \in Nat /\ gen[look.pid] <= gen'[look.pid]
        BY <1>3, <1>n, GenStep
  <2> QED BY <1>3, <2>1, <2>2
<1>5. ASSUME look # NoLook, ~relinked' PROVE key'[look.slot] \in {0, look.pid}
  <2>1. ~relinked /\ key'[look.slot] \in {0, key[look.slot]}
        BY <1>5, <1>n, NotRelinked
  <2> QED BY <1>5, <2>1 DEF EndpointsAreOwn
<1>6. ASSUME look # NoLook, ~relinked', look.owner = gen'[look.pid]
      PROVE  Within(copy, dest'[look.pid]) /\ Within(value'[look.slot], dest'[look.pid])
  <2> DEFINE s == look.slot
             p == look.pid
  <2>1. ~relinked /\ s \in Slot /\ key'[s] \in {0, key[s]} /\ p \in Pid
        BY <1>3, <1>6, <1>n, NotRelinked
  <2>2. look.owner = gen[p] /\ dest[p] \subseteq dest'[p]
        BY <1>4, <1>6, <1>d, <2>1
  <2>3. /\ Within(copy, dest[p]) /\ Within(value[s], dest[p]) /\ key[s] \in {0, p}
        BY <1>6, <2>1, <2>2 DEF EndpointsAreOwn
  <2>4. Within(copy, dest'[p]) /\ Within(value[s], dest'[p])
        BY <2>2, <2>3, WithinMore
  <2> HIDE DEF s, p
  <2>5. ASSUME NEW c \in Cpu, Touched(s, c) PROVE Within(value'[s], dest'[p])
    <3>1. key[s] = Tgid(job[c].thread) /\ job[c] # Idle
          BY <2>5 DEF Touched, UpdatesOwnElement
    <3>2. Tgid(job[c].thread) = p
          BY <2>3, <3>1, JobFacts
    <3>3. <<ProtocolOf(job[c].op), job[c].addr>> \in dest'[p]
          BY <1>j, <3>1, <3>2
    <3> QED BY <2>1, <2>4, <2>5, <3>3, WrittenWithin
  <2>6. ASSUME NEW c \in Cpu, Filled(s, c) PROVE FALSE
    <3>1. key'[s] = Tgid(job[c].thread) /\ job[c] # Idle /\ key[s] = 0
          BY <2>6 DEF Filled
    <3> QED BY <2>1, <3>1, JobFacts
  <2>7. Within(value'[s], dest'[p])
        BY <1>n, <2>1, <2>4, <2>5, <2>6, ValueStep
  <2> QED BY <2>4, <2>7 DEF s, p
<1> QED BY <1>n, <1>1, <1>2, <1>4, <1>5, <1>6 DEF EndpointsAreOwn

LEMMA OwnStep ==
    ASSUME TypeOK, TypeOK', EndpointOfThisCall, Owned, UpdatesOwnElement, ReadTypeOK,
           EndpointsAreOwn, [ReadNext]_<<vars, readVars>>
    PROVE  EndpointsAreOwn'
<1>k. ASSUME UNCHANGED <<vars, dest>>,
             look' # NoLook => look'.owner <= gen[look'.pid],
             look' # NoLook /\ ~relinked' => key[look'.slot] \in {0, look'.pid},
             look' # NoLook /\ ~relinked' /\ look'.owner = gen[look'.pid] =>
                 /\ Within(copy', dest[look'.pid])
                 /\ Within(value[look'.slot], dest[look'.pid])
      PROVE  EndpointsAreOwn'
  <2>1. UNCHANGED <<job, key, value, gen, dest>>
        BY <1>k DEF vars, procVars, statsVars
  <2> QED BY <1>k, <2>1 DEF EndpointsAreOwn
<1>1. CASE KernelStep
      BY <1>1, OwnKernelStep
<1>2. ASSUME NEW p \in Pid, LookupPercpu(p) PROVE EndpointsAreOwn'
  <2> DEFINE s == look'.slot
  <2>1. /\ look' # NoLook /\ s \in Slot /\ key[s] = p /\ look'.pid = p /\ p # 0
        /\ look'.owner = owner[s] /\ UNCHANGED <<vars, copy, relinked, dest>> /\ look = NoLook
        BY <1>2, LookupFacts, AccountingAssumption
  <2>2. owner[s] = gen[p] /\ gen[p] \in Nat
        BY <2>1 DEF Owned, NoEntryOutlivesProcess, TypeOK
  <2>3. Within(value[s], dest[p])
        BY <2>1 DEF EndpointsAreOwn
  <2>4. copy' = EmptyValues
        BY <2>1 DEF ReadTypeOK
  <2>5. Within(copy', dest[p])
        BY <2>4, EmptyStatsType DEF Within, EmptyValues
  <2> HIDE DEF s
  <2>6. look'.owner <= gen[look'.pid]
        BY <2>1, <2>2
  <2> QED BY <1>k, <2>1, <2>3, <2>5, <2>6 DEF s
<1>3. CASE CopyField
  <2>1. PICK g : Copied(g)
        BY <1>3, CopyFacts
  <2>2. look' = look /\ relinked' = relinked /\ UNCHANGED <<vars, dest>> /\ look.slot \in Slot
        BY <2>1 DEF Copied
  <2>3. ASSUME NEW D, Within(copy, D), Within(value[look.slot], D) PROVE Within(copy', D)
        BY <2>1, <2>3 DEF Copied, Within
  <2> QED BY <1>k, <2>2, <2>3 DEF EndpointsAreOwn
<1>4. CASE TakeRow
      BY <1>4, <1>k DEF TakeRow
<1>5. CASE UNCHANGED <<vars, readVars>>
      BY <1>5, <1>k DEF readVars, EndpointsAreOwn
<1> QED BY <1>1, <1>2, <1>3, <1>4, <1>5 DEF ReadNext

\* The copy is complete: every field lies between floor and value, so the merge does.
LEMMA BetweenIsWithin ==
    TypeOK /\ ReadTypeOK /\ CopiedIsBetween => ReadIsWithin
<1> SUFFICES ASSUME TypeOK, ReadTypeOK, CopiedIsBetween, Complete, ~relinked
             PROVE  /\ \A op \in Op :
                          /\ MergeValues(floor).bytes[op] <= MergedRow.bytes[op]
                          /\ MergedRow.bytes[op] <= MergeValues(value[look.slot]).bytes[op]
                    /\ \A x \in Protocol :
                          MergeValues(floor).addr[x] # NoAddr => MergedRow.addr[x] # NoAddr
    BY DEF ReadIsWithin
<1>1. /\ look # NoLook /\ left = {} /\ look.slot \in Slot
      /\ floor \in [Cpu -> ProcStats] /\ copy \in [Cpu -> ProcStats]
      /\ value[look.slot] \in [Cpu -> ProcStats]
      BY LookFacts DEF Complete, ReadTypeOK, TypeOK
<1>2. /\ \A c \in Cpu, op \in Op : /\ floor[c].bytes[op] <= copy[c].bytes[op]
                                   /\ copy[c].bytes[op] <= value[look.slot][c].bytes[op]
      /\ \A c \in Cpu, x \in Protocol : floor[c].addr[x] # NoAddr => copy[c].addr[x] # NoAddr
      BY <1>1 DEF CopiedIsBetween
<1>3. ASSUME NEW op \in Op
      PROVE  /\ MergeValues(floor).bytes[op] <= MergedRow.bytes[op]
             /\ MergedRow.bytes[op] <= MergeValues(value[look.slot]).bytes[op]
      BY <1>1, <1>2, MergeMonotone DEF MergedRow
<1>4. ASSUME NEW x \in Protocol, MergeValues(floor).addr[x] # NoAddr
      PROVE  MergedRow.addr[x] # NoAddr
  <2>1. PICK c \in Cpu : floor[c].addr[x] = MergeValues(floor).addr[x]
        BY <1>1, <1>4, MergeAddr
  <2>2. copy[c].addr[x] # NoAddr
        BY <1>2, <1>4, <2>1
  <2> QED BY <1>1, <2>2, MergeAddr DEF MergedRow
<1> QED BY <1>3, <1>4

--------------------------------------------------------------------------------
(* Rows follow the units their process moved.                              *)

\* A process comes to run under a new generation only.
LEMMA RunningStep ==
    ASSUME TypeOK, [Next]_vars, NEW p \in Pid, phase'[p] = "running", gen'[p] = gen[p]
    PROVE  phase[p] = "running"
<1>t. phase \in [Pid -> {"free", "running", "exiting"}] /\ gen \in [Pid -> Nat]
      BY DEF TypeOK
<1>1. ASSUME NEW q \in Pid, Fork(q) PROVE phase[p] = "running"
  <2>1. /\ gen' = [gen EXCEPT ![q] = gen[q] + 1]
        /\ phase' = [phase EXCEPT ![q] = "running"]
        BY <1>1 DEF Fork
  <2> QED BY <1>t, <2>1
<1>2. ASSUME NEW q \in Pid, Reap(q) PROVE phase[p] = "running"
      BY <1>t, <1>2 DEF Reap
<1>3. ASSUME NEW t \in Thread, SchedProcessExit(t) PROVE phase[p] = "running"
      BY <1>t, <1>3 DEF SchedProcessExit, Thread, Tgid
<1>4. \/ UNCHANGED phase
      \/ \E q \in Pid : Fork(q) \/ Reap(q)
      \/ \E t \in Thread : SchedProcessExit(t)
      BY DEF Next, Machine, Probes, AccountBytes, Spawn, ProbeEntry, ProbeExit,
         TcpCleanupRbuf, Lookup, Update, Insert, Emit, Relookup, Consume, vars, procVars
<1> QED BY <1>1, <1>2, <1>3, <1>4

\* Only the exit of its process unlinks an element.
LEMMA LinkStays ==
    ASSUME TypeOK, [Next]_vars, NEW s \in Slot, key[s] # 0, phase'[key[s]] = "running"
    PROVE  key'[s] = key[s]
<1>t. /\ key \in [Slot -> Pid \cup {0}] /\ key[s] \in Pid
      /\ phase \in [Pid -> {"free", "running", "exiting"}]
      BY DEF TypeOK
<1>1. ASSUME NEW t \in Thread, SchedProcessExit(t) PROVE key'[s] = key[s]
  <2>1. CASE t[2] # Leader
        BY <1>1, <2>1 DEF SchedProcessExit, statsVars
  <2>2. CASE t[2] = Leader
    <3>1. /\ phase' = [phase EXCEPT ![Tgid(t)] = "exiting"]
          /\ key'[s] = IF key[s] = Tgid(t) THEN 0 ELSE key[s]
          BY <1>1, <2>2 DEF SchedProcessExit, DeleteKey
    <3> QED BY <1>t, <3>1
  <2> QED BY <2>1, <2>2
<1>2. ASSUME NEW c \in Cpu, Insert(c) PROVE key'[s] = key[s]
      BY <1>t, <1>2 DEF Insert, statsVars
<1>3. \/ UNCHANGED key
      \/ \E t \in Thread : SchedProcessExit(t)
      \/ \E c \in Cpu : Insert(c)
      BY DEF Next, Machine, Probes, AccountBytes, Fork, Reap, Spawn, ProbeEntry, ProbeExit,
         TcpCleanupRbuf, Lookup, Update, Emit, Relookup, Consume, vars, statsVars
<1> QED BY <1>1, <1>2, <1>3

\* A process that does not run moves nothing and gives nothing up.
LEMMA QuietStep ==
    ASSUME TypeOK, EndpointOfThisCall, Owned, [Next]_vars, NEW p \in Pid,
           phase'[p] # "running"
    PROVE  moved'[p] = moved[p] /\ missed'[p] = missed[p]
<1>t. /\ moved \in [Pid -> [Op -> Nat]] /\ missed \in [Pid -> [Op -> Nat]]
      /\ phase \in [Pid -> {"free", "running", "exiting"}] /\ threads \subseteq Thread
      /\ \A t \in Thread : Tgid(t) \in Pid
      BY DEF TypeOK, Thread, Tgid
<1>o. ASSUME NEW n \in [Pid -> [Op -> Nat]], NEW q \in Pid, NEW op, q # p
      PROVE  Tally(n, q, op)[p] = n[p]
      BY <1>o DEF Tally
<1>r. ASSUME NEW t \in Thread, t \in threads \/ call[t] # NoCall, UNCHANGED procVars
      PROVE  Tgid(t) \in Pid /\ Tgid(t) # p
      BY <1>t, <1>r DEF Owned, CallersRun, procVars
<1>1. ASSUME NEW q \in Pid, Fork(q) PROVE moved'[p] = moved[p] /\ missed'[p] = missed[p]
  <2>1. /\ phase' = [phase EXCEPT ![q] = "running"]
        /\ moved' = [moved EXCEPT ![q] = NoUnits] /\ missed' = [missed EXCEPT ![q] = NoUnits]
        BY <1>1 DEF Fork
  <2> QED BY <1>t, <2>1
<1>2. ASSUME NEW t \in Thread, NEW c \in Cpu, ProbeExit(t, c)
      PROVE  moved'[p] = moved[p] /\ missed'[p] = missed[p]
  <2>1. call[t] # NoCall /\ UNCHANGED procVars
        BY <1>2, NoneIsNoOp DEF ProbeExit, NoCall
  <2>2. Tgid(t) \in Pid /\ Tgid(t) # p
        BY <1>r, <2>1
  <2>3. /\ moved' \in {moved, Tally(moved, Tgid(t), call[t].op)}
        /\ missed' \in {missed, Tally(missed, Tgid(t), call[t].op)}
        BY <1>2 DEF ProbeExit, Move, countVars
  <2> QED BY <1>t, <1>o, <2>2, <2>3
<1>3. ASSUME NEW t \in Thread, NEW c \in Cpu, NEW a \in Addr, TcpCleanupRbuf(t, c, a)
      PROVE  moved'[p] = moved[p] /\ missed'[p] = missed[p]
  <2>1. Tgid(t) \in Pid /\ Tgid(t) # p
        BY <1>r, <1>3 DEF TcpCleanupRbuf
  <2>2. moved' = Tally(moved, Tgid(t), "tcp_recv") /\ missed' = missed
        BY <1>3 DEF TcpCleanupRbuf, Move
  <2> QED BY <1>t, <1>o, <2>1, <2>2
<1>4. ASSUME NEW c \in Cpu, Relookup(c) PROVE moved'[p] = moved[p] /\ missed'[p] = missed[p]
  <2> DEFINE t == job[c].thread
  <2>1. t \in Thread /\ call[t] # NoCall /\ UNCHANGED procVars
        BY <1>4, JobFacts DEF Relookup
  <2>2. Tgid(t) \in Pid /\ Tgid(t) # p
        BY <1>r, <2>1
  <2>3. moved' = moved /\ missed' \in {missed, Tally(missed, Tgid(t), job[c].op)}
        BY <1>4 DEF Relookup
  <2> HIDE DEF t
  <2> QED BY <1>t, <1>o, <2>2, <2>3
<1>5. \/ UNCHANGED <<moved, missed>>
      \/ \E q \in Pid : Fork(q)
      \/ \E t \in Thread, c \in Cpu : ProbeExit(t, c) \/ \E a \in Addr : TcpCleanupRbuf(t, c, a)
      \/ \E c \in Cpu : Relookup(c)
      BY DEF Next, Machine, Probes, AccountBytes, Reap, Spawn, SchedProcessExit, ProbeEntry,
         Lookup, Update, Insert, Emit, Consume, vars, countVars
<1> QED BY <1>1, <1>2, <1>3, <1>4, <1>5

\* An element that keeps its process grows, so a row stays behind it.
LEMMA MergeGrows ==
    ASSUME TypeOK, TypeOK', EndpointOfThisCall, [Next]_vars, NEW s \in Slot,
           key'[s] \in {0, key[s]}, NEW k \in Op
    PROVE  /\ MergeValues(value[s]).bytes[k] <= MergeValues(value'[s]).bytes[k]
           /\ MergeValues(value[s]).bytes[k] \in Nat
           /\ MergeValues(value'[s]).bytes[k] \in Nat
<1>1. value[s] \in [Cpu -> ProcStats] /\ value'[s] \in [Cpu -> ProcStats]
      BY DEF TypeOK
<1>2. MergeValues(value[s]) \in ProcStats /\ MergeValues(value'[s]) \in ProcStats
      BY <1>1, LoopType
<1>3. \A c \in Cpu : value[s][c].bytes[k] <= value'[s][c].bytes[k]
      BY ValuesGrow DEF NoMore
<1> QED BY <1>1, <1>2, <1>3, MergeMonotone DEF ProcStats

LEMMA BehindKernelStep ==
    ASSUME TypeOK, TypeOK', EndpointOfThisCall, Owned', OneElementPerPid', ReadTypeOK,
           EndpointsAreOwn, RowsAreBehind, KernelStep
    PROVE  RowsAreBehind'
<1>n. [Next]_vars /\ UNCHANGED <<look, floor, last>>
      BY DEF KernelStep
<1>t. /\ \A p \in Pid : last[p].owner \in Nat /\ \A op \in Op : last[p].bytes[op] \in Nat
      /\ key \in [Slot -> Pid \cup {0}] /\ 0 \notin Pid
      BY AccountingAssumption DEF ReadTypeOK, TypeOK
<1>g. \A p \in Pid : gen[p] \in Nat /\ gen'[p] \in Nat /\ gen[p] <= gen'[p]
      BY <1>n, GenStep
<1>1. ASSUME NEW p \in Pid PROVE last[p].owner <= gen'[p]
  <2>1. last[p].owner <= gen[p]
        BY DEF RowsAreBehind
  <2> QED BY <1>t, <1>g, <2>1
<1>2. ASSUME NEW p \in Pid, phase'[p] = "running", last[p].owner = gen'[p]
      PROVE  gen'[p] = gen[p] /\ \E s \in Slot : key[s] = p /\ key'[s] = p
  <2>1. last[p].owner <= gen[p]
        BY DEF RowsAreBehind
  <2>2. gen'[p] = gen[p]
        BY <1>2, <1>t, <1>g, <2>1
  <2>3. phase[p] = "running"
        BY <1>2, <1>n, <2>2, RunningStep
  <2>4. PICK s \in Slot : key[s] = p
        BY <1>2, <2>2, <2>3 DEF RowsAreBehind, Linked
  <2>5. key'[s] = p
        BY <1>2, <1>n, <1>t, <2>4, LinkStays
  <2> QED BY <2>2, <2>4, <2>5
<1>3. ASSUME NEW p \in Pid, NEW s \in Slot, NEW k \in Op, key'[s] = p, last[p].owner = gen'[p]
      PROVE  last[p].bytes[k] <= MergeValues(value'[s]).bytes[k]
  <2>1. phase'[p] = "running"
        BY <1>3, <1>t DEF Owned, NoEntryOutlivesProcess
  <2>2. gen'[p] = gen[p] /\ \E r \in Slot : key[r] = p /\ key'[r] = p
        BY <1>2, <1>3, <2>1
  <2>3. key[s] = p
        BY <1>3, <1>t, <2>2 DEF OneElementPerPid
  <2>4. last[p].bytes[k] <= MergeValues(value[s]).bytes[k]
        BY <1>3, <2>2, <2>3 DEF RowsAreBehind
  <2>5. /\ MergeValues(value[s]).bytes[k] <= MergeValues(value'[s]).bytes[k]
        /\ MergeValues(value[s]).bytes[k] \in Nat
        /\ MergeValues(value'[s]).bytes[k] \in Nat
        BY <1>3, <1>n, <2>3, MergeGrows
  <2> QED BY <1>t, <2>4, <2>5
<1>4. ASSUME look # NoLook, ~relinked'
      PROVE  /\ last[look.pid].owner = look.owner => \A op \in Op :
                   last[look.pid].bytes[op] <= MergeValues(floor).bytes[op]
             /\ look.owner = gen'[look.pid] /\ phase'[look.pid] = "running" =>
                   key'[look.slot] = look.pid
  <2>1. ~relinked /\ look.slot \in Slot /\ look.pid \in Pid
        BY <1>4, <1>n, NotRelinked, LookFacts
  <2>2. ASSUME look.owner = gen'[look.pid], phase'[look.pid] = "running"
        PROVE  key'[look.slot] = look.pid
    <3>1. gen'[look.pid] = gen[look.pid]
      <4>1. look.owner <= gen[look.pid] /\ look.owner \in Nat
            BY <1>4, LookFacts DEF EndpointsAreOwn
      <4> QED BY <1>g, <2>1, <2>2, <4>1
    <3>2. phase[look.pid] = "running"
          BY <1>n, <2>1, <2>2, <3>1, RunningStep
    <3>3. key[look.slot] = look.pid
          BY <1>4, <2>1, <2>2, <3>1, <3>2 DEF RowsAreBehind
    <3> QED BY <1>n, <1>t, <2>1, <2>2, <3>3, LinkStays
  <2> QED BY <1>4, <2>1, <2>2 DEF RowsAreBehind
<1> QED BY <1>n, <1>1, <1>2, <1>3, <1>4 DEF RowsAreBehind, Linked

LEMMA BehindStep ==
    ASSUME TypeOK, TypeOK', EndpointOfThisCall, Owned, Owned', OneElementPerPid,
           OneElementPerPid', CallersAreAlive, ReadTypeOK, ReadTypeOK', EndpointsAreOwn,
           CopiedIsBetween, RowsAreBehind, [ReadNext]_<<vars, readVars>>
    PROVE  RowsAreBehind'
<1>t. /\ last \in [Pid -> [owner : Nat, bytes : [Op -> Nat]]]
      /\ key \in [Slot -> Pid \cup {0}] /\ 0 \notin Pid
      BY AccountingAssumption DEF ReadTypeOK, TypeOK
<1>1. CASE KernelStep
      BY <1>1, BehindKernelStep
<1>2. ASSUME NEW p \in Pid, LookupPercpu(p) PROVE RowsAreBehind'
  <2>1. /\ look' # NoLook /\ look'.slot \in Slot /\ key[look'.slot] = p /\ look'.pid = p
        /\ look'.owner = owner[look'.slot] /\ floor' = value[look'.slot]
        /\ UNCHANGED <<vars, last>>
        BY <1>2, LookupFacts
  <2>2. owner[look'.slot] = gen[p]
        BY <1>t, <2>1 DEF Owned, NoEntryOutlivesProcess
  <2>3. UNCHANGED <<key, value, gen, phase, last>>
        BY <2>1 DEF vars, procVars, statsVars
  <2> QED BY <2>1, <2>2, <2>3 DEF RowsAreBehind, Linked
<1>3. CASE CopyField
  <2>1. UNCHANGED <<key, value, gen, phase, last, look, floor, relinked>>
        BY <1>3 DEF CopyField, vars, procVars, statsVars
  <2> QED BY <2>1 DEF RowsAreBehind, Linked
<1>4. CASE TakeRow
  <2> DEFINE new == IF relinked THEN NoRow ELSE [owner |-> look.owner, bytes |-> MergedRow.bytes]
             p == look.pid
  <2>1. /\ Complete /\ look # NoLook /\ look' = NoLook /\ last' = [last EXCEPT ![p] = new]
        /\ UNCHANGED <<key, value, gen, phase>>
        BY <1>4 DEF TakeRow, Complete, vars, procVars, statsVars
  <2>2. p \in Pid /\ look.slot \in Slot /\ look.owner \in Nat /\ gen[p] \in Nat
        BY <2>1, LookFacts DEF TypeOK
  <2>3. CASE relinked
    <3>1. new.owner = 0
          BY <2>3 DEF NoRow
    <3>2. phase[p] = "running" => gen[p] > 0
          BY <2>2 DEF CallersAreAlive
    <3>3. \A s \in Slot : key[s] = p => phase[p] = "running"
          BY <1>t, <2>2 DEF Owned, NoEntryOutlivesProcess
    <3> HIDE DEF new, p
    <3>4. last'[p] = new /\ \A q \in Pid : q # p => last'[q] = last[q]
          BY <1>t, <2>1, <2>2
    <3>5. /\ last'[p].owner <= gen[p] /\ (phase[p] = "running" => last'[p].owner # gen[p])
          BY <2>2, <3>1, <3>2, <3>4
    <3> QED BY <2>1, <2>2, <3>3, <3>4, <3>5 DEF RowsAreBehind, Linked
  <2>4. CASE ~relinked
    <3>1. new.owner = look.owner /\ new.bytes = MergedRow.bytes
          BY <2>4
    <3>2. look.owner <= gen[p]
          BY <2>1 DEF EndpointsAreOwn
    <3>3. look.owner = gen[p] /\ phase[p] = "running" => key[look.slot] = p
          BY <2>1, <2>4 DEF RowsAreBehind
    <3>4. \A s \in Slot : key[s] = p => phase[p] = "running"
          BY <1>t, <2>2 DEF Owned, NoEntryOutlivesProcess
    <3>5. \A op \in Op : MergedRow.bytes[op] <= MergeValues(value[look.slot]).bytes[op]
          BY <2>1, <2>4, BetweenIsWithin DEF ReadIsWithin
    <3> HIDE DEF new, p
    <3>6. last'[p] = new /\ \A q \in Pid : q # p => last'[q] = last[q]
          BY <1>t, <2>1, <2>2
    <3>7. ASSUME NEW s \in Slot, key[s] = p, look.owner = gen[p] PROVE s = look.slot
          BY <1>t, <2>2, <3>3, <3>4, <3>7 DEF OneElementPerPid
    <3> QED BY <2>1, <2>2, <3>1, <3>2, <3>3, <3>5, <3>6, <3>7 DEF RowsAreBehind, Linked
  <2> QED BY <2>3, <2>4
<1>5. CASE UNCHANGED <<vars, readVars>>
  <2>1. UNCHANGED <<key, value, gen, phase, last, look, floor, relinked>>
        BY <1>5 DEF readVars, vars, procVars, statsVars
  <2> QED BY <2>1 DEF RowsAreBehind, Linked
<1> QED BY <1>1, <1>2, <1>3, <1>4, <1>5 DEF ReadNext

\* While the process runs its units are conserved; when it exits they stand still.
LEMMA CopiesStep ==
    ASSUME TypeOK, TypeOK', EndpointOfThisCall, Owned, Owned', OneElementPerPid',
           UpdatesOwnElement, BytesConserved', ReadTypeOK, ReadTypeOK', EndpointsAreOwn,
           RowsAreBehind', CopiesAreMoved, [ReadNext]_<<vars, readVars>>
    PROVE  CopiesAreMoved'
<1> SUFFICES ASSUME look' # NoLook, ~relinked', NEW p, p = look'.pid, NEW s, s = look'.slot,
                    look'.owner = gen'[p], NEW k \in Op
             PROVE  MergeValues(value'[s]).bytes[k] + missed'[p][k] <= moved'[p][k]
    BY DEF CopiesAreMoved
<1>t. p \in Pid /\ s \in Slot /\ p # 0
      BY AccountingAssumption DEF ReadTypeOK
<1>n. [Next]_vars
      BY ReadSteps
<1>1. CASE phase'[p] = "running"
  <2>1. key'[s] = p
        BY <1>1 DEF RowsAreBehind
  <2>2. Shown(p)' = MergeValues(value'[s])
    <3>1. Linked(p)' /\ Element(p)' \in Slot /\ key'[Element(p)'] = p
          BY <1>t, <2>1 DEF Linked, Element
    <3>2. Element(p)' = s
          BY <1>t, <2>1, <3>1 DEF OneElementPerPid
    <3> QED BY <3>1, <3>2 DEF Shown
  <2>3. moved'[p][k] = MergeValues(value'[s]).bytes[k] + InFlight(p, k)' + missed'[p][k]
        BY <1>1, <1>t, <2>2 DEF BytesConserved
  <2>4. InFlight(p, k)' \in Nat
    <3>1. Flight(p, k)' \subseteq Cpu
          BY DEF Flight, Counting
    <3> QED BY <3>1, Cpus, FS_Subset, FS_CardinalityType DEF InFlight
  <2>5. MergeValues(value'[s]).bytes[k] \in Nat /\ missed'[p][k] \in Nat
    <3>1. value'[s] \in [Cpu -> ProcStats]
          BY <1>t DEF TypeOK
    <3>2. MergeValues(value'[s]) \in ProcStats
          BY <3>1, LoopType
    <3> QED BY <1>t, <3>2 DEF TypeOK, ProcStats
  <2> QED BY <2>3, <2>4, <2>5
<1>2. CASE phase'[p] # "running"
  <2>1. moved'[p] = moved[p] /\ missed'[p] = missed[p]
        BY <1>2, <1>n, <1>t, QuietStep
  <2>k. key'[s] # p
        BY <1>2, <1>t DEF Owned, NoEntryOutlivesProcess
  <2>2. CASE KernelStep
    <3>1. /\ look' = look /\ look # NoLook /\ ~relinked /\ key'[s] \in {0, key[s]}
          BY <2>2, NotRelinked
    <3>2. key[s] \in {0, p} /\ key'[s] = 0
          BY <2>k, <3>1 DEF EndpointsAreOwn
    <3>3. gen[p] = look.owner
      <4>1. gen[p] \in Nat /\ gen'[p] \in Nat /\ gen[p] <= gen'[p]
            BY <1>n, <1>t, GenStep
      <4>2. look.owner <= gen[p]
            BY <3>1 DEF EndpointsAreOwn
      <4> QED BY <3>1, <4>1, <4>2
    <3>4. ASSUME NEW c \in Cpu, Touched(s, c) PROVE FALSE
      <4>1. key'[s] = Tgid(job[c].thread) /\ job[c] # Idle
            BY <3>4 DEF Touched, UpdatesOwnElement
      <4> QED BY <3>2, <4>1, JobFacts
    <3>5. ASSUME NEW c \in Cpu, Filled(s, c) PROVE FALSE
      <4>1. key'[s] = Tgid(job[c].thread) /\ job[c] # Idle
            BY <3>5 DEF Filled
      <4> QED BY <3>2, <4>1, JobFacts
    <3>6. value'[s] = value[s]
          BY <1>n, <1>t, <3>4, <3>5, ValueStep
    <3>7. MergeValues(value[s]).bytes[k] + missed[p][k] <= moved[p][k]
          BY <3>1, <3>3 DEF CopiesAreMoved
    <3> QED BY <2>1, <3>6, <3>7
  <2>3. ASSUME NEW q \in Pid, LookupPercpu(q) PROVE FALSE
    <3>1. key[s] = p /\ UNCHANGED vars
          BY <2>3, LookupFacts
    <3> QED BY <2>k, <3>1 DEF vars, statsVars
  <2>4. CASE CopyField \/ UNCHANGED <<vars, readVars>>
    <3>1. UNCHANGED <<vars, look, relinked>>
          BY <2>4 DEF CopyField, readVars
    <3>2. UNCHANGED <<value, gen>>
          BY <3>1 DEF vars, procVars, statsVars
    <3>3. MergeValues(value[s]).bytes[k] + missed[p][k] <= moved[p][k]
          BY <3>1, <3>2 DEF CopiesAreMoved
    <3> QED BY <2>1, <3>2, <3>3
  <2>5. CASE TakeRow
        BY <2>5 DEF TakeRow
  <2> QED BY <2>2, <2>3, <2>4, <2>5 DEF ReadNext
<1> QED BY <1>1, <1>2

--------------------------------------------------------------------------------
(* The theorems.                                                           *)

LEMMA ReadInitial ==
    ReadInit => /\ ReadTypeOK /\ UnusedIsEmpty /\ CopiedIsBetween /\ EndpointsAreOwn
                /\ UpdatesOwnElement /\ RowsAreBehind /\ CopiesAreMoved
                /\ CallersAreAlive /\ BytesConserved
<1> SUFFICES ASSUME ReadInit
             PROVE  /\ ReadTypeOK /\ UnusedIsEmpty /\ CopiedIsBetween /\ EndpointsAreOwn
                    /\ UpdatesOwnElement /\ RowsAreBehind /\ CopiesAreMoved
                    /\ CallersAreAlive /\ BytesConserved
    OBVIOUS
<1>1. ReadTypeOK
      BY EmptyValuesType DEF ReadInit, ReadTypeOK, NoRow, NoUnits
<1>2. UnusedIsEmpty
      BY EmptyStatsType DEF ReadInit, Init, UnusedIsEmpty
<1>3. CopiedIsBetween
      BY DEF ReadInit, CopiedIsBetween
<1>4. EndpointsAreOwn
      BY DEF ReadInit, Init, EndpointsAreOwn
<1>5. UpdatesOwnElement
      BY DEF ReadInit, Init, UpdatesOwnElement, Idle
<1>6. RowsAreBehind
      BY AccountingAssumption DEF ReadInit, Init, RowsAreBehind, NoRow
<1>7. CopiesAreMoved /\ CallersAreAlive /\ BytesConserved
      BY DEF ReadInit, Init, CopiesAreMoved, CallersAreAlive, BytesConserved
<1> QED BY <1>1, <1>2, <1>3, <1>4, <1>5, <1>6, <1>7

\* On any number of CPUs, whichever programs run between the copying of any two
\* fields and whether or not leaders exit last, lookup_percpu and the merge give
\* counters between those at the start and at the end of the lookup.
THEOREM LookupIsWithin == ReadSpec => []ReadIsWithin
<1> DEFINE Inv == /\ TypeOK /\ EndpointOfThisCall /\ SavedIsCurrent /\ ReadTypeOK
                  /\ UnusedIsEmpty /\ CopiedIsBetween
<1>1. ReadInit => Inv
      BY TypeInit, EndpointInit, ReadInitial DEF ReadInit
<1>2. Inv /\ [ReadNext]_<<vars, readVars>> => Inv'
  <2> SUFFICES ASSUME Inv, [ReadNext]_<<vars, readVars>> PROVE Inv'
      OBVIOUS
  <2>1. [Next]_vars
        BY ReadSteps
  <2>2. TypeOK' /\ EndpointOfThisCall' /\ SavedIsCurrent'
        BY <2>1, TypeStep, EndpointStep
  <2>3. ReadTypeOK' /\ UnusedIsEmpty'
        BY <2>1, ReadTypeStep, UnusedStep
  <2>4. CopiedIsBetween'
        BY <2>2, BetweenStep
  <2> QED BY <2>2, <2>3, <2>4
<1>3. Inv => ReadIsWithin
      BY BetweenIsWithin
<1> QED BY <1>1, <1>2, <1>3, PTL DEF ReadSpec

\* If leaders exit last, the endpoint merge_stats keeps for a protocol is one the
\* process used itself, whatever its element held before and whichever CPUs write.
THEOREM EndpointShownIsOwn ==
    ASSUME LeaderExitsLast PROVE ReadSpec => []ShownEndpointIsOwn
<1> DEFINE Inv == /\ TypeOK /\ EndpointOfThisCall /\ SavedIsCurrent /\ Owned
                  /\ UpdatesOwnElement /\ ReadTypeOK /\ EndpointsAreOwn
<1>1. ReadInit => Inv
      BY TypeInit, EndpointInit, OwnedInit, ReadInitial DEF ReadInit
<1>2. Inv /\ [ReadNext]_<<vars, readVars>> => Inv'
  <2> SUFFICES ASSUME Inv, [ReadNext]_<<vars, readVars>> PROVE Inv'
      OBVIOUS
  <2>1. [Next]_vars
        BY ReadSteps
  <2>2. TypeOK' /\ EndpointOfThisCall' /\ SavedIsCurrent'
        BY <2>1, TypeStep, EndpointStep
  <2>3. Owned' /\ UpdatesOwnElement' /\ ReadTypeOK'
        BY <2>1, OwnedStep, OwnElementStep, ReadTypeStep
  <2>4. EndpointsAreOwn'
        BY <2>2, OwnStep
  <2> QED BY <2>2, <2>3, <2>4
<1>3. Inv => ShownEndpointIsOwn
  <2> SUFFICES ASSUME Inv, Complete, ~relinked, look.owner = gen[look.pid],
                      NEW x \in Protocol, MergedRow.addr[x] # NoAddr
               PROVE  <<x, MergedRow.addr[x]>> \in dest[look.pid]
      BY DEF ShownEndpointIsOwn
  <2>1. Within(copy, dest[look.pid]) /\ copy \in [Cpu -> ProcStats]
        BY DEF Complete, EndpointsAreOwn, ReadTypeOK
  <2>2. PICK c \in Cpu : copy[c].addr[x] = MergedRow.addr[x]
        BY <2>1, MergeAddr DEF MergedRow
  <2> QED BY <2>1, <2>2 DEF Within
<1> QED BY <1>1, <1>2, <1>3, PTL DEF ReadSpec

\* If leaders exit last, the rows of a process, each copied while the CPUs count,
\* never show less than the one before, and never more than the process moved.
LEMMA RowsInductive ==
    ASSUME LeaderExitsLast
    PROVE  ReadSpec => []( /\ TypeOK /\ ReadTypeOK /\ CopiedIsBetween
                           /\ RowsAreBehind /\ CopiesAreMoved )
<1> DEFINE Inv == /\ TypeOK /\ EndpointOfThisCall /\ SavedIsCurrent /\ OneElementPerPid
                  /\ Owned /\ UpdatesOwnElement /\ CallersAreAlive /\ BytesConserved
                  /\ ReadTypeOK /\ UnusedIsEmpty /\ CopiedIsBetween /\ EndpointsAreOwn
                  /\ RowsAreBehind /\ CopiesAreMoved
<1>1. ReadInit => Inv
      BY TypeInit, EndpointInit, OneElementInit, OwnedInit, ReadInitial DEF ReadInit
<1>2. Inv /\ [ReadNext]_<<vars, readVars>> => Inv'
  <2> SUFFICES ASSUME Inv, [ReadNext]_<<vars, readVars>> PROVE Inv'
      OBVIOUS
  <2>1. [Next]_vars
        BY ReadSteps
  <2>2. TypeOK' /\ EndpointOfThisCall' /\ SavedIsCurrent' /\ OneElementPerPid'
        BY <2>1, TypeStep, EndpointStep, OneElementStep
  <2>3. Owned' /\ UpdatesOwnElement' /\ CallersAreAlive' /\ BytesConserved'
        BY <2>1, <2>2, OwnedStep, OwnElementStep, AliveStep, ConservedStep
  <2>4. ReadTypeOK' /\ UnusedIsEmpty' /\ CopiedIsBetween' /\ EndpointsAreOwn'
        BY <2>1, <2>2, ReadTypeStep, UnusedStep, BetweenStep, OwnStep
  <2>5. RowsAreBehind'
        BY <2>2, <2>3, <2>4, BehindStep
  <2>6. CopiesAreMoved'
        BY <2>2, <2>3, <2>4, <2>5, CopiesStep
  <2> QED BY <2>2, <2>3, <2>4, <2>5, <2>6
<1> QED BY <1>1, <1>2, PTL DEF ReadSpec

\* If leaders exit last, from one lookup of a process's entry to the next no merged
\* total goes back, so collect_rows never saturates a subtraction for it.
THEOREM TotalsNeverGoBack ==
    ASSUME LeaderExitsLast PROVE ReadSpec => []RowsNeverGoBack
<1>1. TypeOK /\ ReadTypeOK /\ CopiedIsBetween /\ RowsAreBehind => RowsNeverGoBack
  <2> SUFFICES ASSUME TypeOK, ReadTypeOK, CopiedIsBetween, RowsAreBehind, Complete, ~relinked,
                      last[look.pid].owner = look.owner, NEW op \in Op
               PROVE  last[look.pid].bytes[op] <= MergedRow.bytes[op]
      BY DEF RowsNeverGoBack
  <2>1. look # NoLook /\ look.pid \in Pid
        BY LookFacts DEF Complete
  <2>2. last[look.pid].bytes[op] <= MergeValues(floor).bytes[op]
        BY <2>1 DEF RowsAreBehind
  <2>3. MergeValues(floor).bytes[op] <= MergedRow.bytes[op]
        BY BetweenIsWithin DEF ReadIsWithin
  <2>4. /\ last[look.pid].bytes[op] \in Nat /\ MergeValues(floor).bytes[op] \in Nat
        /\ MergedRow.bytes[op] \in Nat
    <3>1. MergeValues(floor) \in ProcStats /\ MergedRow \in ProcStats
          BY LoopType DEF ReadTypeOK, MergedRow
    <3> QED BY <2>1, <3>1 DEF ReadTypeOK, ProcStats
  <2> QED BY <2>2, <2>3, <2>4
<1> QED BY <1>1, RowsInductive, PTL

\* If leaders exit last, a row shows only units its own process moved and that were
\* counted, whatever its element and its PID were used for before.
THEOREM RowsWereMoved ==
    ASSUME LeaderExitsLast PROVE ReadSpec => []RowWasMoved
<1>1. TypeOK /\ ReadTypeOK /\ CopiedIsBetween /\ CopiesAreMoved => RowWasMoved
  <2> SUFFICES ASSUME TypeOK, ReadTypeOK, CopiedIsBetween, CopiesAreMoved, Complete, ~relinked,
                      look.owner = gen[look.pid], NEW op \in Op
               PROVE  MergedRow.bytes[op] + missed[look.pid][op] <= moved[look.pid][op]
      BY DEF RowWasMoved
  <2>1. look # NoLook /\ look.pid \in Pid /\ look.slot \in Slot
        BY LookFacts DEF Complete
  <2> DEFINE now == MergeValues(value[look.slot]).bytes[op]
  <2>2. now + missed[look.pid][op] <= moved[look.pid][op]
        BY <2>1 DEF CopiesAreMoved
  <2>3. MergedRow.bytes[op] <= now
        BY BetweenIsWithin DEF ReadIsWithin
  <2>4. /\ now \in Nat /\ MergedRow.bytes[op] \in Nat
        /\ missed[look.pid][op] \in Nat /\ moved[look.pid][op] \in Nat
    <3>1. MergeValues(value[look.slot]) \in ProcStats /\ MergedRow \in ProcStats
          BY <2>1, LoopType DEF TypeOK, ReadTypeOK, MergedRow
    <3> QED BY <2>1, <3>1 DEF TypeOK, ProcStats
  <2> HIDE DEF now
  <2> QED BY <2>2, <2>3, <2>4
<1> QED BY <1>1, RowsInductive, PTL

--------------------------------------------------------------------------------
(* The daemon over the programs.                                           *)

\* The constants of the daemon, as Collector assumes them, and a map with room for
\* something.
DaemonConstants ==
    /\ DeadProcLimit \in Nat \ {0}
    /\ FrameMax \in Nat /\ RowLen \in Nat /\ DeadLen \in Nat
    /\ LookupMayFail \in BOOLEAN /\ MaxResets \in Nat
    /\ IsFiniteSet(Slot) /\ Slot # {}

\* The theorems about Collector, for the entries and events of the programs.
DaemonProofs == INSTANCE CollectorProofs WITH
    Counter <- Op, Emitter <- Cpu, MapCap <- Cardinality(Slot),
    MaxBytes <- MaxMoves, MaxInserts <- MaxMoves,
    entry <- FeedEntry, pending <- FeedPending

\* StatsFeed means the same in Merge, in Collector and in CollectorProofs.
LEMMA FeedIsDaemons == Feed!FeedNext => Daemon!FeedNext
<1>e. Feed!NoEntry = Daemon!NoEntry /\ Feed!NoEvent = Daemon!NoEvent
      BY DEF Feed!NoEntry, Daemon!NoEntry, Feed!NoEvent, Daemon!NoEvent
<1>1. \A p \in Pid : Feed!Fork(p) \/ Feed!LeaderExit(p) \/ Feed!Reap(p) =>
          Daemon!Fork(p) \/ Daemon!LeaderExit(p) \/ Daemon!Reap(p)
      BY <1>e DEF Feed!Fork, Daemon!Fork, Feed!LeaderExit, Daemon!LeaderExit, Feed!Reap,
         Daemon!Reap
<1>2. \A p \in Pid, c \in Op : Feed!Account(p, c) => Daemon!Account(p, c)
      BY <1>e DEF Feed!Account, Daemon!Account
<1>p. Feed!Present = Daemon!Present
      BY <1>e DEF Feed!Present, Daemon!Present
<1>c. Feed!Cardinality(Feed!Present) = Daemon!Cardinality(Daemon!Present)
      BY <1>p DEF Feed!Cardinality, Daemon!Cardinality
<1>3. ASSUME NEW e \in Cpu, NEW p \in Pid, NEW c \in Op, Feed!Insert(e, p, c)
      PROVE  Daemon!Insert(e, p, c)
      BY <1>3, <1>e, <1>c DEF Feed!Insert, Daemon!Insert, Feed!CanAccount,
         Daemon!CanAccount
<1>4. \A e \in Cpu : Feed!Emit(e) => Daemon!Emit(e)
      BY <1>e DEF Feed!Emit, Daemon!Emit
<1> QED
    BY <1>1, <1>2, <1>3, <1>4 DEF Feed!FeedNext, Daemon!FeedNext

LEMMA DaemonFeedIsProofs == Daemon!FeedNext => DaemonProofs!FeedNext
<1>e. Daemon!NoEntry = DaemonProofs!NoEntry /\ Daemon!NoEvent = DaemonProofs!NoEvent
      BY DEF Daemon!NoEntry, DaemonProofs!NoEntry, Daemon!NoEvent, DaemonProofs!NoEvent
<1>1. \A p \in Pid : Daemon!Fork(p) \/ Daemon!LeaderExit(p) \/ Daemon!Reap(p) =>
          DaemonProofs!Fork(p) \/ DaemonProofs!LeaderExit(p) \/ DaemonProofs!Reap(p)
      BY <1>e DEF Daemon!Fork, DaemonProofs!Fork, Daemon!LeaderExit,
         DaemonProofs!LeaderExit, Daemon!Reap, DaemonProofs!Reap
<1>2. \A p \in Pid, c \in Op : Daemon!Account(p, c) => DaemonProofs!Account(p, c)
      BY <1>e DEF Daemon!Account, DaemonProofs!Account
<1>p. Daemon!Present = DaemonProofs!Present
      BY <1>e DEF Daemon!Present, DaemonProofs!Present
<1>c. Daemon!Cardinality(Daemon!Present) = DaemonProofs!Cardinality(DaemonProofs!Present)
      BY <1>p DEF Daemon!Cardinality, DaemonProofs!Cardinality
<1>3. ASSUME NEW e \in Cpu, NEW p \in Pid, NEW c \in Op, Daemon!Insert(e, p, c)
      PROVE  DaemonProofs!Insert(e, p, c)
      BY <1>3, <1>e, <1>c DEF Daemon!Insert, DaemonProofs!Insert, Daemon!CanAccount,
         DaemonProofs!CanAccount
<1>4. \A e \in Cpu : Daemon!Emit(e) => DaemonProofs!Emit(e)
      BY <1>e DEF Daemon!Emit, DaemonProofs!Emit
<1> QED
    BY <1>1, <1>2, <1>3, <1>4 DEF Daemon!FeedNext, DaemonProofs!FeedNext

\* Collector means the same in System and in CollectorProofs.
LEMMA DaemonIsProofs ==
    /\ Daemon!Init => DaemonProofs!Init
    /\ Daemon!Next => DaemonProofs!Next
    /\ Daemon!vars = DaemonProofs!vars
<1>z. Daemon!Zero = DaemonProofs!Zero
      BY DEF Daemon!Zero, DaemonProofs!Zero
<1>e. Daemon!NoEntry = DaemonProofs!NoEntry /\ Daemon!NoEvent = DaemonProofs!NoEvent
      BY DEF Daemon!NoEntry, DaemonProofs!NoEntry, Daemon!NoEvent, DaemonProofs!NoEvent
<1>v. Daemon!vars = DaemonProofs!vars
      BY DEF Daemon!feedVars, DaemonProofs!feedVars, Daemon!historyVars,
         DaemonProofs!historyVars, Daemon!collectorVars, DaemonProofs!collectorVars,
         Daemon!vars, DaemonProofs!vars
<1>1. Daemon!Init => DaemonProofs!Init
      BY <1>z, <1>e DEF Daemon!Init, DaemonProofs!Init, Daemon!FeedInit,
         DaemonProofs!FeedInit, Daemon!CollectorInit, DaemonProofs!CollectorInit
<1>2. Daemon!Kernel => DaemonProofs!Kernel
      BY DaemonFeedIsProofs DEF Daemon!Kernel, DaemonProofs!Kernel, Daemon!collectorVars,
         DaemonProofs!collectorVars, Daemon!historyVars, DaemonProofs!historyVars
<1>3. Daemon!Wake \/ Daemon!DrainDone \/ Daemon!Publish \/ Daemon!PublishOversized =>
          DaemonProofs!Wake \/ DaemonProofs!DrainDone \/ DaemonProofs!Publish \/ DaemonProofs!PublishOversized
      BY DEF Daemon!Wake, DaemonProofs!Wake, Daemon!DrainDone, DaemonProofs!DrainDone,
         Daemon!Publish, DaemonProofs!Publish, Daemon!PublishOversized,
         DaemonProofs!PublishOversized, Daemon!FrameLen, DaemonProofs!FrameLen,
         Daemon!feedVars, DaemonProofs!feedVars, Daemon!historyVars,
         DaemonProofs!historyVars
<1>4. Daemon!DrainOne => DaemonProofs!DrainOne
      BY DEF Daemon!DrainOne, DaemonProofs!DrainOne, Daemon!Consume,
         DaemonProofs!Consume, Daemon!ApplyEvent, DaemonProofs!ApplyEvent, Daemon!NameOf,
         DaemonProofs!NameOf, Daemon!PidsOf, DaemonProofs!PidsOf, Daemon!Zero,
         DaemonProofs!Zero, Daemon!historyVars, DaemonProofs!historyVars
<1>5. Daemon!CollectRow => DaemonProofs!CollectRow
      BY DEF Daemon!CollectRow, DaemonProofs!CollectRow, Daemon!SaturatingSub,
         DaemonProofs!SaturatingSub, Daemon!Misnamed, DaemonProofs!Misnamed,
         Daemon!Emitting, DaemonProofs!Emitting, Daemon!NoEntry, DaemonProofs!NoEntry,
         Daemon!feedVars, DaemonProofs!feedVars
<1>6. Daemon!CollectDead => DaemonProofs!CollectDead
      BY DEF Daemon!CollectDead, DaemonProofs!CollectDead, Daemon!SwapRemove,
         DaemonProofs!SwapRemove, Daemon!PushDead, DaemonProofs!PushDead, Daemon!NoEntry,
         DaemonProofs!NoEntry, Daemon!feedVars, DaemonProofs!feedVars
<1>7. Daemon!Reset => DaemonProofs!Reset
      BY DEF Daemon!Reset, DaemonProofs!Reset, Daemon!Zero, DaemonProofs!Zero,
         Daemon!feedVars, DaemonProofs!feedVars
<1>8. Daemon!MainLoop => DaemonProofs!MainLoop
      BY <1>3, <1>4, <1>5, <1>6 DEF Daemon!MainLoop, DaemonProofs!MainLoop
<1> QED
    BY <1>1, <1>2, <1>7, <1>8, <1>v DEF Daemon!Next, DaemonProofs!Next

\* The composed system takes only steps of the programs and their environment.
LEMMA SystemRunsPrograms == SystemSpec => Spec
<1>1. SystemInit => Init
      BY DEF SystemInit
<1>2. [SystemNext]_<<vars, daemonVars>> => [Next]_vars
      BY DEF SystemNext, Programs, Drain, Tick, Next
<1> QED BY <1>1, <1>2, PTL DEF SystemSpec, Spec

\* Every step of the composed system is one that Collector allows.
LEMMA DaemonStep ==
    ASSUME IsFiniteSet(Slot), FeedInv, TypeOK', OneElementPerPid',
           [SystemNext]_<<vars, daemonVars>>
    PROVE  [Daemon!Next]_(Daemon!vars)
<1>v. /\ UNCHANGED Feed!feedVars => UNCHANGED Daemon!feedVars
      /\ UNCHANGED daemonVars => UNCHANGED Daemon!collectorVars
      BY DEF Feed!feedVars, Daemon!feedVars, Daemon!collectorVars, Daemon!historyVars,
         daemonVars
<1>1. CASE Programs
  <2>1. Feed!FeedNext \/ UNCHANGED Feed!feedVars
        BY <1>1, ProgramStep DEF Programs
  <2>2. UNCHANGED Daemon!collectorVars
        BY <1>1, <1>v DEF Programs
  <2>3. CASE Feed!FeedNext
        BY <2>2, <2>3, FeedIsDaemons DEF Daemon!Next, Daemon!Kernel
  <2>4. CASE UNCHANGED Feed!feedVars
        BY <2>2, <2>4, <1>v DEF Daemon!vars
  <2> QED BY <2>1, <2>3, <2>4
<1>2. CASE Drain
      BY <1>2 DEF Drain, Daemon!Next, Daemon!MainLoop
<1>3. CASE Tick
      BY <1>3 DEF Tick, Daemon!Next, Daemon!MainLoop
<1>4. CASE UNCHANGED <<vars, daemonVars>>
  <2>1. UNCHANGED Feed!feedVars
        BY <1>4, FeedStuttersAll DEF vars, procVars, statsVars, ringVars, countVars
  <2> QED BY <1>4, <2>1, <1>v DEF Daemon!vars
<1> QED BY <1>1, <1>2, <1>3, <1>4 DEF SystemNext

LEMMA DaemonStart == SystemInit => Daemon!Init
<1>1. Init => Daemon!FeedInit
  <2>1. Feed!FeedInit => Daemon!FeedInit
        BY DEF Feed!FeedInit, Daemon!FeedInit, Feed!NoEntry, Daemon!NoEntry,
           Feed!NoEvent, Daemon!NoEvent
  <2> QED BY <2>1, FeedStart
<1> QED BY <1>1 DEF SystemInit, Daemon!Init

\* The daemon that reads the STATS elements and the ring of the eBPF programs, which
\* run on while it does, behaves as Collector says of a daemon over StatsFeed.
THEOREM CollectorIsImplemented ==
    ASSUME IsFiniteSet(Slot) PROVE SystemSpec => Daemon!Spec
<1>1. FeedInv /\ FeedInv' /\ [SystemNext]_<<vars, daemonVars>> => [Daemon!Next]_(Daemon!vars)
      BY DaemonStep DEF FeedInv
<1> QED BY <1>1, SystemRunsPrograms, FeedInvHolds, DaemonStart, PTL
        DEF SystemSpec, Daemon!Spec

\* The theorems about Collector hold of the composed system.
LEMMA CollectorAssumptionsHold ==
    ASSUME DaemonConstants
    PROVE  /\ Cardinality(Slot) \in Nat \ {0}
           /\ RingCap \in Nat \ {0} /\ MaxGen \in Nat /\ MaxMoves \in Nat
           /\ LeaderExitsLast \in BOOLEAN /\ 0 \notin Pid
           /\ DeadProcLimit \in Nat \ {0}
           /\ FrameMax \in Nat /\ RowLen \in Nat /\ DeadLen \in Nat
           /\ LookupMayFail \in BOOLEAN /\ MaxResets \in Nat
<1>1. Cardinality(Slot) \in Nat /\ Cardinality(Slot) # 0
      BY FS_CardinalityType, FS_EmptySet DEF DaemonConstants
<1> QED BY <1>1, AccountingAssumption DEF DaemonConstants

LEMMA DaemonSpecIsProofs ==
    ASSUME DaemonConstants PROVE SystemSpec => DaemonProofs!Spec
<1>1. IsFiniteSet(Slot)
      BY DEF DaemonConstants
<1>2. SystemSpec => Daemon!Spec
      BY <1>1, CollectorIsImplemented
<1>3. Daemon!Init => DaemonProofs!Init
      BY DaemonIsProofs
<1>4. [Daemon!Next]_(Daemon!vars) => [DaemonProofs!Next]_(DaemonProofs!vars)
      BY DaemonIsProofs DEF Daemon!vars, DaemonProofs!vars, Daemon!feedVars,
         DaemonProofs!feedVars, Daemon!collectorVars, DaemonProofs!collectorVars,
         Daemon!historyVars, DaemonProofs!historyVars
<1> QED BY <1>2, <1>3, <1>4, PTL DEF Daemon!Spec, DaemonProofs!Spec

\* What a record was shown with is what Collector promises, and what its entry holds
\* is what the programs promise.
LEMMA FiguresFollow ==
    ASSUME TypeOK, BytesConserved, DaemonProofs!FirstLife
    PROVE  FiguresWereMoved
<1> SUFFICES ASSUME NEW i \in DOMAIN procs, NEW op \in Op,
                    phase[procs[i].pid] = "running", ~Daemon!Reused(procs[i].pid)
             PROVE  shown[procs[i].pid][op] + missed[procs[i].pid][op]
                        <= base[procs[i].pid][op] + moved[procs[i].pid][op]
    BY DEF FiguresWereMoved
<1> DEFINE p == procs[i].pid
<1>1. ~DaemonProofs!Reused(p)
      BY DEF Daemon!Reused, DaemonProofs!Reused
<1>2. procs[i] \in DaemonProofs!ProcInfo
      BY DEF DaemonProofs!FirstLife, DaemonProofs!TypeOK
<1>3. p \in Pid /\ procs[i].cum \in [Op -> Nat]
      BY <1>2 DEF DaemonProofs!ProcInfo, DaemonProofs!Bytes
<1>4. shown[p] \in [Op -> Nat] /\ base[p] \in [Op -> Nat]
      BY <1>3 DEF DaemonProofs!FirstLife, DaemonProofs!TypeOK, DaemonProofs!Bytes
<1>5. FeedEntry[p] # DaemonProofs!NoEntry
  <2>1. p \in DaemonProofs!PidsOf(procs)
        BY DEF DaemonProofs!PidsOf
  <2>2. DaemonProofs!AnnouncedOnce(p)
        BY <1>1, <1>3 DEF DaemonProofs!FirstLife, DaemonProofs!FirstIsAnnouncedOnce
  <2>3. ~DaemonProofs!Silent(p)
        BY <2>1, <2>2 DEF DaemonProofs!AnnouncedOnce, DaemonProofs!Unseen
  <2> QED BY <2>3 DEF DaemonProofs!Silent
<1>6. /\ procs[i].cum[op] + base[p][op] = shown[p][op]
      /\ procs[i].cum[op] <= FeedEntry[p].bytes[op]
      BY <1>1, <1>5 DEF DaemonProofs!FirstLife, DaemonProofs!RecordsFollow,
         DaemonProofs!Follows
<1>7. FeedEntry[p].bytes[op] = Shown(p).bytes[op]
      BY <1>3, EntryFacts
<1>8. /\ moved[p][op] = Shown(p).bytes[op] + InFlight(p, op) + missed[p][op]
      /\ moved[p][op] \in Nat /\ missed[p][op] \in Nat
      BY <1>3 DEF BytesConserved, TypeOK
<1>9. InFlight(p, op) \in Nat /\ Shown(p).bytes[op] \in Nat
      BY FlightType, ShownType
<1>10. procs[i].cum[op] \in Nat /\ base[p][op] \in Nat /\ shown[p][op] \in Nat
      BY <1>3, <1>4
<1> HIDE DEF p
<1>11. shown[p][op] + missed[p][op] <= base[p][op] + moved[p][op]
      BY <1>6, <1>7, <1>8, <1>9, <1>10
<1> QED BY <1>11 DEF p

\* The figures a client was shown for a process since the last Reset add up to no
\* more than the process moved: through the probes, the per-CPU values, the merge,
\* the record and the saturating subtraction nothing is invented or shown twice, for
\* every number of CPUs, threads and processes, with events dropped and lookups
\* failing.
THEOREM NothingIsInvented ==
    ASSUME LeaderExitsLast, DaemonConstants
    PROVE  SystemSpec => []FiguresWereMoved
<1>1. DaemonProofs!Spec => []DaemonProofs!FirstLife
      BY CollectorAssumptionsHold, DaemonProofs!FirstLifeHolds
<1>2. SystemSpec => DaemonProofs!Spec
      BY DaemonSpecIsProofs
<1>3. SystemSpec => []BytesConserved
      BY SystemRunsPrograms, UnitsAreConserved, PTL
<1>4. SystemSpec => []TypeOK
      BY SystemRunsPrograms, TypeCorrect, PTL
<1> QED BY <1>1, <1>2, <1>3, <1>4, FiguresFollow, PTL

\* Whichever thread of a process exits first, a process with an element in STATS is
\* known to the daemon or announced to it, or its event was dropped by the full ring
\* or its lookup failed.
THEOREM NoElementIsUnknown ==
    ASSUME DaemonConstants
    PROVE  SystemSpec => []ElementsAreKnown
<1>1. DaemonProofs!Spec => []DaemonProofs!NoSilentProcess
      BY CollectorAssumptionsHold, DaemonProofs!EntriesAreKnown
<1>2. SystemSpec => DaemonProofs!Spec
      BY DaemonSpecIsProofs
<1>3. SystemSpec => []FeedInv
      BY SystemRunsPrograms, FeedInvHolds, PTL
<1>4. FeedInv /\ DaemonProofs!NoSilentProcess => ElementsAreKnown
  <2> SUFFICES ASSUME FeedInv, DaemonProofs!NoSilentProcess, NEW s \in Slot, key[s] # 0
               PROVE  Daemon!Announced(key[s]) \/ lost[key[s]] \/ key[s] \in misread
      BY DEF ElementsAreKnown
  <2>1. key[s] \in Pid /\ FeedEntry[key[s]] # Feed!NoEntry
        BY EntryOfElement DEF FeedInv
  <2>2. key[s] \in DaemonProofs!Present
        BY <2>1 DEF DaemonProofs!Present, DaemonProofs!NoEntry, Feed!NoEntry
  <2>3. DaemonProofs!Announced(key[s]) => Daemon!Announced(key[s])
        BY DEF DaemonProofs!Announced, Daemon!Announced, DaemonProofs!PidsOf,
           Daemon!PidsOf, DaemonProofs!Emitting, Daemon!Emitting
  <2> QED BY <2>2, <2>3 DEF DaemonProofs!NoSilentProcess
<1> QED BY <1>1, <1>2, <1>3, <1>4, PTL
================================================================================
