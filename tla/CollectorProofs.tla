---------------------------- MODULE CollectorProofs ----------------------------
(***************************************************************************)
(* Proofs about Collector for every set of PIDs, counters and CPUs, every  *)
(* map and ring capacity, with PID reuse, early leader exits, dropped      *)
(* events, failing lookups and resets.                                     *)
(***************************************************************************)
EXTENDS Collector, SequenceTheorems, TLAPS

\* The kernel-side state keeps its type under every step of the feed.
LEMMA FeedTypeStep ==
    ASSUME FeedTypeOK, FeedNext \/ Consume
    PROVE  FeedTypeOK'
<1> USE FeedAssumption DEF FeedTypeOK, Entry, Event, Bytes
<1>1. ASSUME NEW p \in Pid, Fork(p) PROVE FeedTypeOK'
      BY <1>1 DEF Fork
<1>2. ASSUME NEW p \in Pid, LeaderExit(p) PROVE FeedTypeOK'
      BY <1>2 DEF LeaderExit, NoEntry
<1>3. ASSUME NEW p \in Pid, Reap(p) PROVE FeedTypeOK'
      BY <1>3 DEF Reap
<1>4. ASSUME NEW p \in Pid, NEW c \in Counter, Account(p, c) PROVE FeedTypeOK'
      BY <1>4 DEF Account
<1>5. ASSUME NEW e \in Emitter, NEW p \in Pid, NEW c \in Counter, Insert(e, p, c)
      PROVE  FeedTypeOK'
      BY <1>5 DEF Insert
<1>6. ASSUME NEW e \in Emitter, Emit(e) PROVE FeedTypeOK'
  <2>1. pending[e] \in Event
        BY <1>6 DEF Emit
  <2>2. pending' \in [Emitter -> Event \cup {NoEvent}]
        BY <1>6 DEF Emit
  <2>3. ring' \in Seq(Event)
    <3>1. ring' = ring \/ ring' = Append(ring, pending[e])
          BY <1>6 DEF Emit
    <3>2. Append(ring, pending[e]) \in Seq(Event)
          BY <2>1, AppendProperties
    <3> QED BY <3>1, <3>2
  <2>4. lost' \in [Pid -> BOOLEAN]
        BY <1>6, <2>1 DEF Emit
  <2> QED BY <1>6, <2>2, <2>3, <2>4 DEF Emit
<1>7. CASE Consume
      BY <1>7 DEF Consume
<1> QED BY <1>1, <1>2, <1>3, <1>4, <1>5, <1>6, <1>7 DEF FeedNext

\* swap_remove shortens the sequence by one and keeps its type.
LEMMA SwapRemoveType ==
    ASSUME NEW S, NEW s \in Seq(S), NEW i \in 1 .. Len(s)
    PROVE  /\ SwapRemove(s, i) \in Seq(S)
           /\ Len(SwapRemove(s, i)) = Len(s) - 1
           /\ DOMAIN SwapRemove(s, i) = 1 .. Len(s) - 1
           /\ \A j \in 1 .. Len(s) - 1 :
                 SwapRemove(s, i)[j] = IF j = i THEN s[Len(s)] ELSE s[j]
<1>1. Len(s) \in Nat /\ Len(s) - 1 \in Nat
      OBVIOUS
<1>2. SwapRemove(s, i) \in [1 .. Len(s) - 1 -> S]
      BY <1>1 DEF SwapRemove
<1>3. SwapRemove(s, i) \in Seq(S)
      BY <1>1, <1>2
<1>4. Len(SwapRemove(s, i)) = Len(s) - 1
      BY <1>1, <1>2, <1>3
<1> QED BY <1>1, <1>3, <1>4 DEF SwapRemove

\* apply_event on a typed record list gives one that holds the announced PID and
\* every PID it held before, and keeps PIDs unique.
LEMMA ApplyEventFacts ==
    ASSUME TypeOK, NEW p \in Pid, NEW n \in Nat
    PROVE  /\ ApplyEvent(p, n) \in Seq(ProcInfo)
           /\ PidsOf(ApplyEvent(p, n)) = PidsOf(procs) \cup {p}
<1> DEFINE fresh == [pid |-> p, name |-> n, cum |-> Zero]
           restarted == [i \in DOMAIN procs |->
                            IF procs[i].pid = p THEN fresh ELSE procs[i]]
<1>1. fresh \in ProcInfo
      BY DEF ProcInfo, Zero, Bytes
<1>2. procs \in Seq(ProcInfo) /\ DOMAIN procs = 1 .. Len(procs) /\ Len(procs) \in Nat
      BY DEF TypeOK
<1>3. CASE p \in PidsOf(procs)
  <2>1. ApplyEvent(p, n) = restarted
        BY <1>3 DEF ApplyEvent
  <2>2. restarted \in [1 .. Len(procs) -> ProcInfo]
        BY <1>1, <1>2
  <2>3. restarted \in Seq(ProcInfo)
        BY <1>2, <2>2
  <2>4. \A i \in DOMAIN procs : restarted[i].pid = procs[i].pid
        OBVIOUS
  <2>5. PidsOf(restarted) = PidsOf(procs)
        BY <2>4 DEF PidsOf
  <2> QED BY <1>3, <2>1, <2>3, <2>5
<1>4. CASE p \notin PidsOf(procs)
  <2>1. ApplyEvent(p, n) = Append(procs, fresh)
        BY <1>4 DEF ApplyEvent
  <2>2. Append(procs, fresh) \in Seq(ProcInfo)
        BY <1>1, <1>2
  <2>3. DOMAIN Append(procs, fresh) = 1 .. Len(procs) + 1
        BY <1>1, <1>2
  <2>4. /\ \A i \in 1 .. Len(procs) : Append(procs, fresh)[i] = procs[i]
        /\ Append(procs, fresh)[Len(procs) + 1] = fresh
        BY <1>1, <1>2
  <2>5. PidsOf(Append(procs, fresh)) = PidsOf(procs) \cup {p}
        BY <1>2, <2>3, <2>4 DEF PidsOf
  <2> QED BY <2>1, <2>2, <2>5
<1> QED BY <1>3, <1>4

--------------------------------------------------------------------------------
(* Type correctness.                                                       *)

LEMMA TypeInit == Init => TypeOK
BY CollectorAssumption
   DEF Init, CollectorInit, FeedInit, TypeOK, FeedTypeOK, NoEntry, Entry, Bytes, Zero

\* The dead list stays typed and within its limit whatever record is pushed.
LEMMA PushDeadType ==
    ASSUME TypeOK, NEW r \in ProcInfo
    PROVE  PushDead(r) \in Seq(ProcInfo) /\ Len(PushDead(r)) <= DeadProcLimit
<1> DEFINE longer == Append(deadProcs, r)
<1>1. deadProcs \in Seq(ProcInfo) /\ Len(deadProcs) <= DeadProcLimit
      BY DEF TypeOK
<1>2. longer \in Seq(ProcInfo) /\ Len(longer) = Len(deadProcs) + 1
      BY <1>1, AppendProperties
<1>3. Len(deadProcs) \in Nat /\ DeadProcLimit \in Nat
      BY <1>1, LenProperties, CollectorAssumption
<1>4. longer # << >>
      BY <1>2, <1>3, EmptySeq
<1>5. Tail(longer) \in Seq(ProcInfo) /\ Len(Tail(longer)) = Len(deadProcs)
      BY <1>2, <1>3, <1>4, HeadTailProperties
<1> QED BY <1>1, <1>2, <1>3, <1>5 DEF PushDead

LEMMA TypeStep == TypeOK /\ [Next]_vars => TypeOK'
<1> SUFFICES ASSUME TypeOK, [Next]_vars PROVE TypeOK'
    OBVIOUS
<1>t. FeedTypeOK /\ procs \in Seq(ProcInfo) /\ Len(procs) \in Nat
      BY LenProperties DEF TypeOK
<1>1. CASE Kernel
      BY <1>1, <1>t, FeedTypeStep DEF Kernel, TypeOK, collectorVars, historyVars
<1>2. CASE Wake \/ DrainDone
      BY <1>2, EmptySeq DEF Wake, DrainDone, TypeOK, FeedTypeOK, feedVars, historyVars
<1>3. CASE DrainOne
  <2>1. FeedTypeOK'
        BY <1>3, <1>t, FeedTypeStep DEF DrainOne
  <2>2. Head(ring) \in Event
        BY <1>3, <1>t, HeadTailProperties DEF DrainOne, Consume, FeedTypeOK
  <2>3. Head(ring).pid \in Pid /\ NameOf(Head(ring)) \in Nat
        BY <2>2, <1>t DEF Event, NameOf, FeedTypeOK
  <2>4. procs' \in Seq(ProcInfo)
        BY <1>3, <2>3, ApplyEventFacts DEF DrainOne
  <2> QED BY <1>3, <2>1, <2>4 DEF DrainOne, TypeOK, historyVars
<1>4. CASE CollectRow
  <2> DEFINE proc == procs[idx]
             bytes == entry[proc.pid].bytes
             delta == SaturatingSub(bytes, proc.cum)
             row == [pid |-> proc.pid, name |-> proc.name, delta |-> delta, cum |-> bytes]
  <2>1. idx \in 1 .. Len(procs) /\ idx + 1 \in Nat \ {0}
        BY <1>4, <1>t DEF CollectRow, TypeOK
  <2>2. proc \in ProcInfo
        BY <2>1, <1>t, ElementOfSeq
  <2>3. bytes \in Bytes /\ proc.pid \in Pid /\ proc.name \in Nat /\ proc.cum \in Bytes
        BY <2>2, <1>t DEF ProcInfo, FeedTypeOK, Entry
  <2>4. delta \in Bytes
        BY <2>3 DEF SaturatingSub, Bytes
  <2>5. row \in StatsRow
        BY <2>3, <2>4 DEF StatsRow
  <2>6. rows' \in Seq(StatsRow)
        BY <1>4, <2>5, AppendProperties DEF CollectRow, TypeOK
  <2>7. [proc EXCEPT !.cum = bytes] \in ProcInfo
        BY <2>2, <2>3 DEF ProcInfo
  <2>8. procs' \in Seq(ProcInfo)
        BY <1>4, <1>t, <2>1, <2>7, ExceptSeq DEF CollectRow
  <2>9. [c \in Counter |-> shown[proc.pid][c] + delta[c]] \in Bytes
        BY <2>3, <2>4 DEF TypeOK, Bytes
  <2>10. shown' \in [Pid -> Bytes]
        BY <1>4, <2>3, <2>9 DEF CollectRow, TypeOK
  <2>11. staleTicks' \in [Pid -> [1 .. MaxGen -> 0 .. 2]]
    <3> DEFINE g == entry[proc.pid].owner
               n == staleTicks[proc.pid][g]
               counted == IF Misnamed(proc) /\ n < 2 THEN n + 1 ELSE n
               next == [staleTicks[proc.pid] EXCEPT ![g] = counted]
    <3>1. staleTicks' = [staleTicks EXCEPT ![proc.pid] = next]
          BY <1>4 DEF CollectRow
    <3>2. staleTicks[proc.pid] \in [1 .. MaxGen -> 0 .. 2]
          BY <2>3 DEF TypeOK
    <3>3. ASSUME g \in 1 .. MaxGen PROVE counted \in 0 .. 2
      <4>1. n \in 0 .. 2
            BY <3>2, <3>3
      <4> HIDE DEF n
      <4>2. n + 1 \in 0 .. 2 \/ ~(n < 2)
            BY <4>1
      <4> QED BY <4>1, <4>2
    <3> HIDE DEF counted
    <3>4. next \in [1 .. MaxGen -> 0 .. 2]
          BY <3>2, <3>3
    <3> HIDE DEF next
    <3> QED BY <2>3, <3>1, <3>4 DEF TypeOK
  <2> QED BY <1>4, <1>t, <2>1, <2>6, <2>8, <2>10, <2>11
          DEF CollectRow, TypeOK, FeedTypeOK, feedVars
<1>5. CASE CollectDead
  <2>1. idx \in 1 .. Len(procs)
        BY <1>5, <1>t DEF CollectDead, TypeOK
  <2>2. procs[idx] \in ProcInfo
        BY <2>1, <1>t, ElementOfSeq
  <2>3. procs' \in Seq(ProcInfo)
        BY <1>5, <1>t, <2>1, SwapRemoveType DEF CollectDead
  <2>4. deadProcs' \in Seq(ProcInfo) /\ Len(deadProcs') <= DeadProcLimit
        BY <1>5, <2>2, PushDeadType DEF CollectDead
  <2>5. misread' \subseteq Pid
        BY <1>5, <2>2 DEF CollectDead, TypeOK, ProcInfo
  <2> QED BY <1>5, <1>t, <2>3, <2>4, <2>5
          DEF CollectDead, TypeOK, FeedTypeOK, feedVars
<1>6. CASE Publish \/ PublishOversized
      BY <1>6 DEF Publish, PublishOversized, TypeOK, FeedTypeOK, feedVars, historyVars
<1>7. CASE Reset
  <2>1. \A i \in DOMAIN procs : [procs[i] EXCEPT !.cum = Zero] \in ProcInfo
    <3>1. Zero \in Bytes
          BY DEF Zero, Bytes
    <3>2. ASSUME NEW i \in DOMAIN procs PROVE procs[i] \in ProcInfo
          BY <1>t, LenProperties
    <3> QED BY <3>1, <3>2 DEF ProcInfo
  <2>2. procs' \in [1 .. Len(procs) -> ProcInfo]
        BY <1>7, <1>t, <2>1, LenProperties DEF Reset
  <2>3. procs' \in Seq(ProcInfo)
        BY <1>t, <2>2
  <2>4. deadProcs' \in Seq(ProcInfo) /\ Len(deadProcs') <= DeadProcLimit
        BY <1>7, EmptySeq, CollectorAssumption DEF Reset
  <2> QED BY <1>7, <1>t, <2>3, <2>4 DEF Reset, TypeOK, FeedTypeOK, feedVars
<1>8. CASE UNCHANGED vars
      BY <1>8 DEF vars, feedVars, collectorVars, historyVars, TypeOK, FeedTypeOK
<1> QED BY <1>1, <1>2, <1>3, <1>4, <1>5, <1>6, <1>7, <1>8 DEF Next, MainLoop

--------------------------------------------------------------------------------
(* No process with an entry is unknown to the daemon.                      *)

\* swap_remove loses no PID but that of the removed record.
LEMMA SwapRemoveKeeps ==
    ASSUME NEW s \in Seq(ProcInfo), NEW i \in 1 .. Len(s)
    PROVE  PidsOf(s) \subseteq PidsOf(SwapRemove(s, i)) \cup {s[i].pid}
<1> DEFINE t == SwapRemove(s, i)
<1>1. /\ Len(s) \in Nat /\ DOMAIN s = 1 .. Len(s) /\ DOMAIN t = 1 .. Len(s) - 1
      /\ \A j \in 1 .. Len(s) - 1 : t[j] = IF j = i THEN s[Len(s)] ELSE s[j]
      BY LenProperties, SwapRemoveType
<1>n. Len(s) \in Nat
      BY LenProperties
<1> HIDE DEF t
<1>2. ASSUME NEW k \in 1 .. Len(s), k # i
      PROVE  \E j \in 1 .. Len(s) - 1 : t[j].pid = s[k].pid
  <2>1. CASE k = Len(s)
    <3>1. i \in 1 .. Len(s) - 1
          BY <1>n, <1>2, <2>1
    <3> QED BY <1>1, <2>1, <3>1
  <2>2. CASE k # Len(s)
    <3>1. k \in 1 .. Len(s) - 1
          BY <1>n, <2>2
    <3> QED BY <1>1, <1>2, <3>1
  <2> QED BY <2>1, <2>2
<1>3. PidsOf(s) \subseteq PidsOf(t) \cup {s[i].pid}
      BY <1>1, <1>2 DEF PidsOf
<1> QED BY <1>3 DEF t

\* What a process needs to be announced only grows under Append, and taking the
\* head off a sequence loses no PID but the head's.
LEMMA RingPids ==
    ASSUME NEW s \in Seq(Event)
    PROVE  /\ \A x \in Event : PidsOf(Append(s, x)) = PidsOf(s) \cup {x.pid}
           /\ s # << >> => PidsOf(s) \subseteq PidsOf(Tail(s)) \cup {Head(s).pid}
<1>1. Len(s) \in Nat /\ DOMAIN s = 1 .. Len(s)
      BY LenProperties
<1>2. ASSUME NEW x \in Event
      PROVE  PidsOf(Append(s, x)) = PidsOf(s) \cup {x.pid}
  <2>1. /\ DOMAIN Append(s, x) = 1 .. Len(s) + 1
        /\ \A i \in 1 .. Len(s) : Append(s, x)[i] = s[i]
        /\ Append(s, x)[Len(s) + 1] = x
        BY <1>1, AppendProperties, LenProperties
  <2> QED BY <1>1, <2>1 DEF PidsOf
<1>3. ASSUME s # << >>
      PROVE  PidsOf(s) \subseteq PidsOf(Tail(s)) \cup {Head(s).pid}
  <2>1. /\ DOMAIN Tail(s) = 1 .. Len(s) - 1
        /\ \A i \in 1 .. Len(s) - 1 : Tail(s)[i] = s[i + 1]
        /\ Head(s) = s[1]
        BY <1>1, <1>3, HeadTailProperties, LenProperties
  <2>2. ASSUME NEW k \in 1 .. Len(s), k # 1
        PROVE  \E j \in DOMAIN Tail(s) : s[k].pid = Tail(s)[j].pid
    <3>1. k - 1 \in 1 .. Len(s) - 1 /\ (k - 1) + 1 = k
          BY <1>1, <2>2
    <3> QED BY <2>1, <3>1
  <2>3. ASSUME NEW k \in DOMAIN s
        PROVE  s[k].pid \in PidsOf(Tail(s)) \cup {Head(s).pid}
        BY <1>1, <2>1, <2>2 DEF PidsOf
  <2> QED BY <2>3 DEF PidsOf
<1> QED BY <1>2, <1>3

LEMMA SilentInit == Init => NoSilentProcess
BY DEF Init, CollectorInit, FeedInit, NoSilentProcess, Present

LEMMA SilentStep ==
    TypeOK /\ NoSilentProcess /\ [Next]_vars => NoSilentProcess'
<1> SUFFICES ASSUME TypeOK, NoSilentProcess, [Next]_vars,
                    NEW q \in Pid, q \in Present'
             PROVE  (Announced(q) \/ lost[q] \/ q \in misread)'
    BY DEF NoSilentProcess, Present
<1> DEFINE Known == Announced(q) \/ lost[q] \/ q \in misread
<1>t. /\ entry \in [Pid -> Entry] /\ pending \in [Emitter -> Event \cup {NoEvent}]
      /\ ring \in Seq(Event) /\ lost \in [Pid -> BOOLEAN]
      /\ procs \in Seq(ProcInfo) /\ Len(procs) \in Nat
      BY LenProperties DEF TypeOK, FeedTypeOK
<1>k. q \in Present => Known
      BY DEF NoSilentProcess
\* Steps that leave the entries present and everything that announces alone.
<1>s. ASSUME UNCHANGED <<procs, ring, pending, lost, misread>>, q \in Present
      PROVE  Known'
      BY <1>k, <1>s DEF Announced, Emitting
<1>1. CASE Kernel
  <2>u. UNCHANGED <<procs, misread>>
        BY <1>1 DEF Kernel, collectorVars, historyVars
  <2>1. ASSUME NEW p \in Pid, Fork(p) \/ LeaderExit(p) \/ Reap(p) PROVE Known'
        BY <2>1, <2>u, <1>s, <1>t DEF Fork, LeaderExit, Reap, Present
  <2>2. ASSUME NEW p \in Pid, NEW c \in Counter, Account(p, c) PROVE Known'
        BY <2>2, <2>u, <1>s, <1>t DEF Account, Present
  <2>3. ASSUME NEW e \in Emitter, NEW p \in Pid, NEW c \in Counter, Insert(e, p, c)
        PROVE  Known'
    <3>1. CASE p = q
      <4>1. pending'[e].pid = q
            BY <2>3, <3>1, <1>t DEF Insert
      <4> QED BY <4>1 DEF Announced, Emitting
    <3>2. CASE p # q
      <4>1. Known
            BY <2>3, <3>2, <1>k, <1>t DEF Insert, Present
      <4>2. \A f \in Emitter : pending[f].pid = q => pending'[f].pid = q
            BY <2>3, <1>t, PidAssumption DEF Insert, NoEvent
      <4>3. lost'[q] = lost[q] /\ ring' = ring
            BY <2>3, <3>2, <1>t DEF Insert
      <4> QED BY <2>u, <4>1, <4>2, <4>3 DEF Announced, Emitting
    <3> QED BY <3>1, <3>2
  <2>4. ASSUME NEW e \in Emitter, Emit(e) PROVE Known'
    <3>1. Known /\ pending[e] \in Event
          BY <2>4, <1>k, <1>t DEF Emit, Present
    <3>2. CASE pending[e].pid = q
      <4>1. ring' = Append(ring, pending[e]) \/ lost'[q]
            BY <2>4, <3>2, <1>t DEF Emit
      <4>2. q \in PidsOf(Append(ring, pending[e]))
            BY <3>1, <3>2, <1>t, RingPids
      <4> QED BY <4>1, <4>2 DEF Announced
    <3>3. CASE pending[e].pid # q
      <4>1. \A f \in Emitter : pending[f].pid = q => pending'[f].pid = q
            BY <2>4, <3>3, <1>t DEF Emit
      <4>2. lost[q] => lost'[q]
            BY <2>4, <3>1, <3>3, <1>t DEF Emit
      <4>3. PidsOf(ring) \subseteq PidsOf(ring')
            BY <2>4, <3>1, <1>t, RingPids DEF Emit
      <4> QED BY <2>u, <3>1, <4>1, <4>2, <4>3 DEF Announced, Emitting
    <3> QED BY <3>2, <3>3
  <2> QED BY <1>1, <2>1, <2>2, <2>3, <2>4 DEF Kernel, FeedNext
<1>2. CASE Wake \/ DrainDone \/ CollectRow \/ Publish \/ PublishOversized \/ Reset
  <2>1. UNCHANGED <<entry, ring, pending, lost, misread>> /\ Known
        BY <1>2, <1>k DEF Wake, DrainDone, CollectRow, Publish, PublishOversized,
           Reset, feedVars, historyVars, Present
  <2>2. DOMAIN procs' = DOMAIN procs /\ \A i \in DOMAIN procs : procs'[i].pid = procs[i].pid
    <3>1. CASE CollectRow
          BY <3>1, <1>t, ElementOfSeq, LenProperties DEF CollectRow, TypeOK, ProcInfo
    <3>2. CASE Reset
      <4>1. \A i \in DOMAIN procs : procs[i] \in ProcInfo
            BY <1>t, LenProperties
      <4> QED BY <3>2, <4>1 DEF Reset, ProcInfo
    <3>3. CASE Wake \/ DrainDone \/ Publish \/ PublishOversized
          BY <3>3 DEF Wake, DrainDone, Publish, PublishOversized
    <3> QED BY <1>2, <3>1, <3>2, <3>3
  <2>3. PidsOf(procs') = PidsOf(procs)
        BY <2>2 DEF PidsOf
  <2> QED BY <2>1, <2>3 DEF Announced, Emitting
<1>3. CASE DrainOne
  <2>1. /\ UNCHANGED <<entry, pending, lost, misread>> /\ Known
        /\ ring # << >> /\ ring' = Tail(ring)
        BY <1>3, <1>k DEF DrainOne, Consume, historyVars, Present
  <2>2. Head(ring) \in Event
        BY <2>1, <1>t, HeadTailProperties
  <2>3. Head(ring).pid \in Pid /\ NameOf(Head(ring)) \in Nat
        BY <2>2 DEF Event, NameOf, TypeOK, FeedTypeOK
  <2>4. PidsOf(procs') = PidsOf(procs) \cup {Head(ring).pid}
        BY <1>3, <2>3, ApplyEventFacts DEF DrainOne
  <2>5. PidsOf(ring) \subseteq PidsOf(ring') \cup {Head(ring).pid}
        BY <2>1, <1>t, RingPids
  <2> QED BY <2>1, <2>4, <2>5 DEF Announced, Emitting
<1>4. CASE CollectDead
  <2>1. UNCHANGED <<entry, ring, pending, lost>> /\ Known
        BY <1>4, <1>k DEF CollectDead, feedVars, Present
  <2>2. idx \in 1 .. Len(procs)
        BY <1>4, <1>t DEF CollectDead, TypeOK
  <2>3. PidsOf(procs) \subseteq PidsOf(procs') \cup {procs[idx].pid}
        BY <1>4, <2>2, <1>t, SwapRemoveKeeps DEF CollectDead
  <2>4. misread \subseteq misread' /\ (procs[idx].pid = q => q \in misread')
        BY <1>4, <2>1 DEF CollectDead, Present
  <2> QED BY <2>1, <2>3, <2>4 DEF Announced, Emitting
<1>5. CASE UNCHANGED vars
      BY <1>5, <1>s DEF vars, feedVars, collectorVars, historyVars, Present
<1> QED BY <1>1, <1>2, <1>3, <1>4, <1>5 DEF Next, MainLoop

--------------------------------------------------------------------------------
(* One record per PID.                                                     *)

LEMMA UniqueInit == Init => ProcsUnique
BY DEF Init, CollectorInit, ProcsUnique

LEMMA UniqueStep == TypeOK /\ ProcsUnique /\ [Next]_vars => ProcsUnique'
<1> SUFFICES ASSUME TypeOK, ProcsUnique, [Next]_vars PROVE ProcsUnique'
    OBVIOUS
<1>t. /\ procs \in Seq(ProcInfo) /\ Len(procs) \in Nat /\ DOMAIN procs = 1 .. Len(procs)
      /\ \A i \in DOMAIN procs : procs[i] \in ProcInfo
      BY LenProperties DEF TypeOK
\* Steps after which every record has the PID it had.
<1>s. ASSUME DOMAIN procs' = DOMAIN procs,
             \A i \in DOMAIN procs : procs'[i].pid = procs[i].pid
      PROVE  ProcsUnique'
      BY <1>s DEF ProcsUnique
<1>1. CASE Kernel \/ Wake \/ DrainDone \/ Publish \/ PublishOversized \/ UNCHANGED vars
  <2>1. procs' = procs
        BY <1>1 DEF Kernel, Wake, DrainDone, Publish, PublishOversized, vars, collectorVars
  <2> QED BY <2>1, <1>s
<1>2. CASE CollectRow
  <2>1. idx \in 1 .. Len(procs)
        BY <1>2, <1>t DEF CollectRow, TypeOK
  <2> QED BY <1>2, <1>s, <1>t, <2>1 DEF CollectRow, ProcInfo
<1>3. CASE Reset
      BY <1>3, <1>s, <1>t DEF Reset, ProcInfo
<1>4. CASE DrainOne
  <2> DEFINE p == Head(ring).pid
             fresh == [pid |-> p, name |-> NameOf(Head(ring)), cum |-> Zero]
  <2>1. CASE p \in PidsOf(procs)
    <3>1. procs' = [i \in DOMAIN procs |-> IF procs[i].pid = p THEN fresh ELSE procs[i]]
          BY <1>4, <2>1 DEF DrainOne, ApplyEvent
    <3> QED BY <3>1, <1>s
  <2>2. CASE p \notin PidsOf(procs)
    <3>1. procs' = Append(procs, fresh)
          BY <1>4, <2>2 DEF DrainOne, ApplyEvent
    <3>2. /\ DOMAIN procs' = 1 .. Len(procs) + 1
          /\ \A i \in 1 .. Len(procs) : procs'[i] = procs[i]
          /\ procs'[Len(procs) + 1] = fresh
          BY <3>1, <1>t
    <3>3. \A i \in 1 .. Len(procs) : procs'[i].pid # p
          BY <2>2, <3>2, <1>t DEF PidsOf
    <3>4. fresh.pid = p
          OBVIOUS
    <3> HIDE DEF p, fresh
    <3>5. \A i \in 1 .. Len(procs) + 1 : i \in 1 .. Len(procs) \/ i = Len(procs) + 1
          BY <1>t
    <3> QED BY <3>2, <3>3, <3>4, <3>5, <1>t DEF ProcsUnique
  <2> QED BY <2>1, <2>2
<1>5. CASE CollectDead
  <2> DEFINE n == Len(procs)
  <2>1. idx \in 1 .. n /\ n \in Nat
        BY <1>5, <1>t DEF CollectDead, TypeOK
  <2>2. /\ DOMAIN procs' = 1 .. n - 1
        /\ \A j \in 1 .. n - 1 : procs'[j] = IF j = idx THEN procs[n] ELSE procs[j]
        BY <1>5, <2>1, <1>t, SwapRemoveType DEF CollectDead
  <2>3. \A j \in 1 .. n - 1 : j \in 1 .. n /\ j # n
        BY <2>1
  <2>4. n \in 1 .. n
        BY <2>1
  <2> HIDE DEF n
  <2> QED BY <1>t, <2>1, <2>2, <2>3, <2>4 DEF ProcsUnique, n
<1> QED BY <1>1, <1>2, <1>3, <1>4, <1>5 DEF Next, MainLoop

--------------------------------------------------------------------------------
(* The rows are the records already visited.                               *)

LEMMA MirrorInit == Init => RowsMirrorProcs
BY DEF Init, CollectorInit, RowsMirrorProcs

LEMMA MirrorStep == TypeOK /\ RowsMirrorProcs /\ [Next]_vars => RowsMirrorProcs'
<1> SUFFICES ASSUME TypeOK, RowsMirrorProcs, [Next]_vars, pc' = "collect"
             PROVE  RowsMirrorProcs'
    BY DEF RowsMirrorProcs
<1>t. /\ procs \in Seq(ProcInfo) /\ Len(procs) \in Nat /\ DOMAIN procs = 1 .. Len(procs)
      /\ rows \in Seq(StatsRow) /\ Len(rows) \in Nat /\ DOMAIN rows = 1 .. Len(rows)
      /\ \A i \in DOMAIN procs : procs[i] \in ProcInfo
      BY LenProperties DEF TypeOK
<1>1. CASE Kernel \/ UNCHANGED vars
      BY <1>1 DEF Kernel, vars, collectorVars, RowsMirrorProcs
<1>2. CASE Wake \/ DrainOne \/ Publish \/ PublishOversized \/ Reset
      BY <1>2 DEF Wake, DrainOne, Publish, PublishOversized, Reset
<1>3. CASE DrainDone
      BY <1>3, <1>t DEF DrainDone, RowsMirrorProcs
<1>4. CASE CollectRow
  <2> DEFINE proc == procs[idx]
             bytes == entry[proc.pid].bytes
             row == [pid |-> proc.pid, name |-> proc.name,
                     delta |-> SaturatingSub(bytes, proc.cum), cum |-> bytes]
  <2>1. /\ idx \in 1 .. Len(procs) /\ Len(rows) = idx - 1
        /\ rows' = Append(rows, row) /\ idx' = idx + 1
        /\ procs' = [procs EXCEPT ![idx].cum = bytes]
        BY <1>4, <1>t DEF CollectRow, TypeOK, RowsMirrorProcs
  <2>2. /\ DOMAIN rows' = 1 .. idx /\ Len(rows') = idx /\ rows'[idx] = row
        /\ \A i \in 1 .. idx - 1 : rows'[i] = rows[i]
        BY <2>1, <1>t
  <2>3. /\ Len(procs') = Len(procs)
        /\ \A i \in 1 .. idx - 1 : procs'[i] = procs[i]
        /\ procs'[idx] = [proc EXCEPT !.cum = bytes]
        BY <2>1, <1>t
  <2>4. procs'[idx].pid = row.pid /\ procs'[idx].name = row.name /\ procs'[idx].cum = row.cum
        BY <2>1, <2>3, <1>t DEF ProcInfo
  <2>5. \A i \in 1 .. idx : i \in 1 .. idx - 1 \/ i = idx
        BY <2>1
  <2>6. ASSUME NEW i \in 1 .. idx - 1
        PROVE  /\ rows'[i].pid = procs'[i].pid
               /\ rows'[i].name = procs'[i].name
               /\ rows'[i].cum = procs'[i].cum
        BY <1>4, <1>t, <2>1, <2>2, <2>3 DEF CollectRow, RowsMirrorProcs
  <2> HIDE DEF row
  <2> QED BY <2>1, <2>2, <2>3, <2>4, <2>5, <2>6, <1>t DEF RowsMirrorProcs
<1>5. CASE CollectDead
  <2>1. /\ idx \in 1 .. Len(procs) /\ Len(rows) = idx - 1 /\ UNCHANGED <<rows, idx>>
        BY <1>5, <1>t DEF CollectDead, TypeOK, RowsMirrorProcs
  <2>2. /\ Len(procs') = Len(procs) - 1
        /\ \A j \in 1 .. Len(procs) - 1 : j # idx => procs'[j] = procs[j]
        BY <1>5, <2>1, <1>t, SwapRemoveType DEF CollectDead
  <2>3. \A j \in 1 .. idx - 1 : j \in 1 .. Len(procs) - 1 /\ j # idx
        BY <2>1, <1>t
  <2>4. \A j \in DOMAIN rows : procs'[j] = procs[j]
        BY <2>1, <2>2, <2>3, <1>t
  <2>5. idx <= Len(procs') + 1
        BY <2>1, <2>2, <1>t
  <2> QED BY <1>5, <2>1, <2>4, <2>5 DEF CollectDead, RowsMirrorProcs
<1> QED BY <1>1, <1>2, <1>3, <1>4, <1>5 DEF Next, MainLoop

--------------------------------------------------------------------------------
(* The theorems.                                                           *)

\* Every reachable state of the daemon and its kernel side is well typed, and the
\* dead list never exceeds DEAD_PROC_LIMIT.
THEOREM TypeCorrect == Spec => []TypeOK
BY TypeInit, TypeStep, PTL DEF Spec

\* A process that has an entry in STATS is never forgotten by apply_event and
\* collect_rows: only a full ring or a failed lookup can hide it.
THEOREM EntriesAreKnown == Spec => []NoSilentProcess
BY SilentInit, SilentStep, TypeCorrect, PTL DEF Spec

\* apply_event, collect_rows and reset keep one record per PID.
THEOREM OneRecordPerPid == Spec => []ProcsUnique
BY UniqueInit, UniqueStep, TypeCorrect, PTL DEF Spec

\* collect_rows visits every record exactly once although it removes records
\* from the sequence it walks.
THEOREM EveryRecordVisitedOnce == Spec => []RowsMirrorProcs
BY MirrorInit, MirrorStep, TypeCorrect, PTL DEF Spec

--------------------------------------------------------------------------------
(* The life of a record, from the start event of its process to the dead   *)
(* list: what the rows show of it adds up, its totals survive the exit,    *)
(* and a reused PID bears the wrong name for one tick at most.  All of     *)
(* this supposes that the threads of a process exit before its leader      *)
(* (LeaderExitsLast).  First, what each step does to the records and to    *)
(* the announcements.                                                      *)

\* apply_event restarts the record of the announced PID, or adds it, and leaves
\* every other one where it is.
LEMMA ApplyEventRecords ==
    ASSUME TypeOK, NEW p \in Pid, NEW n \in Nat
    PROVE  /\ \A i \in DOMAIN ApplyEvent(p, n) :
                 \/ ApplyEvent(p, n)[i] = [pid |-> p, name |-> n, cum |-> Zero]
                 \/ /\ i \in DOMAIN procs
                    /\ ApplyEvent(p, n)[i] = procs[i]
                    /\ procs[i].pid # p
           /\ \A i \in DOMAIN procs :
                 procs[i].pid # p =>
                    i \in DOMAIN ApplyEvent(p, n) /\ ApplyEvent(p, n)[i] = procs[i]
<1> DEFINE fresh == [pid |-> p, name |-> n, cum |-> Zero]
           restarted == [i \in DOMAIN procs |->
                            IF procs[i].pid = p THEN fresh ELSE procs[i]]
<1>1. procs \in Seq(ProcInfo) /\ DOMAIN procs = 1 .. Len(procs) /\ Len(procs) \in Nat
      BY LenProperties DEF TypeOK
<1>2. fresh \in ProcInfo
      BY DEF ProcInfo, Zero, Bytes
<1>3. CASE p \in PidsOf(procs)
  <2>1. ApplyEvent(p, n) = restarted
        BY <1>3 DEF ApplyEvent
  <2> QED BY <2>1
<1>4. CASE p \notin PidsOf(procs)
  <2>1. ApplyEvent(p, n) = Append(procs, fresh)
        BY <1>4 DEF ApplyEvent
  <2>2. /\ DOMAIN Append(procs, fresh) = 1 .. Len(procs) + 1
        /\ \A i \in 1 .. Len(procs) : Append(procs, fresh)[i] = procs[i]
        /\ Append(procs, fresh)[Len(procs) + 1] = fresh
        BY <1>1, <1>2
  <2>3. \A i \in 1 .. Len(procs) : procs[i].pid # p
        BY <1>1, <1>4 DEF PidsOf
  <2>4. \A i \in 1 .. Len(procs) + 1 : i \in 1 .. Len(procs) \/ i = Len(procs) + 1
        BY <1>1
  <2>5. \A i \in 1 .. Len(procs) : i \in 1 .. Len(procs) + 1
        BY <1>1
  <2> HIDE DEF fresh
  <2>6. /\ \A i \in DOMAIN Append(procs, fresh) :
              \/ Append(procs, fresh)[i] = fresh
              \/ /\ i \in DOMAIN procs
                 /\ Append(procs, fresh)[i] = procs[i]
                 /\ procs[i].pid # p
        /\ \A i \in DOMAIN procs :
              i \in DOMAIN Append(procs, fresh) /\ Append(procs, fresh)[i] = procs[i]
        BY <1>1, <2>2, <2>3, <2>4, <2>5
  <2> QED BY <2>1, <2>6 DEF fresh
<1> QED BY <1>3, <1>4

\* DrainOne, seen from the event it consumes.
LEMMA DrainOneFacts ==
    ASSUME TypeOK, DrainOne
    PROVE  \E ev \in Event :
              /\ ring # << >> /\ ev = Head(ring) /\ ring' = Tail(ring)
              /\ UNCHANGED <<phase, gen, entry, pending, lost, pc, resets, shown, base,
                            staleTicks>>
              /\ NameOf(ev) \in Nat
              /\ procs' = ApplyEvent(ev.pid, NameOf(ev))
<1>1. ring # << >> /\ ring \in Seq(Event) /\ gen \in [Pid -> Nat]
      BY DEF DrainOne, Consume, TypeOK, FeedTypeOK
<1>2. Head(ring) \in Event
      BY <1>1, HeadTailProperties
<1>3. NameOf(Head(ring)) \in Nat
      BY <1>1, <1>2 DEF Event, NameOf
<1> QED BY <1>1, <1>2, <1>3 DEF DrainOne, Consume, historyVars

\* CollectRow, seen from the record it visits.
LEMMA CollectRowFacts ==
    ASSUME TypeOK, CollectRow
    PROVE  LET p == procs[idx].pid
           IN  /\ idx \in DOMAIN procs /\ procs[idx] \in ProcInfo
               /\ entry[p] # NoEntry /\ entry[p].bytes \in Bytes
               /\ pc = "collect" /\ idx' = idx + 1
               /\ UNCHANGED <<feedVars, pc, deadProcs, resets, base>>
               /\ DOMAIN procs' = DOMAIN procs
               /\ \A i \in DOMAIN procs :
                     /\ procs'[i].pid = procs[i].pid /\ procs'[i].name = procs[i].name
                     /\ i # idx => procs'[i] = procs[i]
               /\ procs'[idx].cum = entry[p].bytes
               /\ \A r \in Pid : r # p => shown'[r] = shown[r] /\ staleTicks'[r] = staleTicks[r]
<1> DEFINE p == procs[idx].pid
<1>1. /\ procs \in Seq(ProcInfo) /\ DOMAIN procs = 1 .. Len(procs) /\ Len(procs) \in Nat
      /\ idx \in DOMAIN procs
      BY LenProperties DEF CollectRow, TypeOK
<1>2. \A i \in DOMAIN procs : procs[i] \in ProcInfo
      BY <1>1
<1>3. p \in Pid /\ entry[p].bytes \in Bytes
      BY <1>1, <1>2 DEF ProcInfo, TypeOK, FeedTypeOK, Entry
<1>4. procs' = [procs EXCEPT ![idx].cum = entry[p].bytes]
      BY DEF CollectRow
<1>5. /\ DOMAIN procs' = DOMAIN procs /\ procs'[idx].cum = entry[p].bytes
      /\ \A i \in DOMAIN procs :
            /\ procs'[i].pid = procs[i].pid /\ procs'[i].name = procs[i].name
            /\ i # idx => procs'[i] = procs[i]
      BY <1>1, <1>2, <1>4 DEF ProcInfo
<1>6. \A r \in Pid : r # p => shown'[r] = shown[r] /\ staleTicks'[r] = staleTicks[r]
      BY <1>3 DEF CollectRow, TypeOK
<1> QED BY <1>1, <1>2, <1>3, <1>5, <1>6 DEF CollectRow

\* CollectDead, seen from the records that stay: the last one may move to idx.
LEMMA CollectDeadFacts ==
    ASSUME TypeOK, CollectDead
    PROVE  /\ idx \in DOMAIN procs /\ Len(procs) \in DOMAIN procs /\ idx <= Len(procs)
           /\ UNCHANGED <<feedVars, pc, idx, resets, shown, base, staleTicks>>
           /\ \A j \in DOMAIN procs' :
                 /\ j \in DOMAIN procs
                 /\ j # idx => procs'[j] = procs[j]
                 /\ j = idx => procs'[j] = procs[Len(procs)]
           /\ \A i \in DOMAIN procs :
                 i # idx => \E j \in DOMAIN procs' : procs'[j] = procs[i]
           /\ deadProcs' = PushDead(procs[idx])
<1>1. /\ procs \in Seq(ProcInfo) /\ DOMAIN procs = 1 .. Len(procs) /\ Len(procs) \in Nat
      /\ idx \in 1 .. Len(procs)
      BY LenProperties DEF CollectDead, TypeOK
<1>2. /\ DOMAIN procs' = 1 .. Len(procs) - 1
      /\ \A j \in 1 .. Len(procs) - 1 : procs'[j] = IF j = idx THEN procs[Len(procs)] ELSE procs[j]
      BY <1>1, SwapRemoveType DEF CollectDead
<1>n. \A n \in Nat : \A k \in 1 .. n :
          /\ n \in 1 .. n /\ k <= n
          /\ \A j \in 1 .. n - 1 : j \in 1 .. n
          /\ \A i \in 1 .. n : i # k => i \in 1 .. n - 1 \/ (i = n /\ k \in 1 .. n - 1)
      OBVIOUS
<1>3. /\ Len(procs) \in 1 .. Len(procs) /\ idx <= Len(procs)
      /\ \A j \in 1 .. Len(procs) - 1 : j \in 1 .. Len(procs)
      /\ \A i \in 1 .. Len(procs) :
            i # idx => i \in 1 .. Len(procs) - 1 \/ (i = Len(procs) /\ idx \in 1 .. Len(procs) - 1)
      BY <1>1, <1>n
<1>4. \A i \in DOMAIN procs : i # idx => \E j \in DOMAIN procs' : procs'[j] = procs[i]
      BY <1>1, <1>2, <1>3
<1> QED BY <1>1, <1>2, <1>3, <1>4 DEF CollectDead

--------------------------------------------------------------------------------
(* An entry is that of the running process.                                *)

LEMMA OwnersInit == Init => EntryIsOwners
BY DEF Init, CollectorInit, FeedInit, EntryIsOwners

LEMMA OwnersStep ==
    ASSUME LeaderExitsLast, TypeOK, EntryIsOwners, [Next]_vars
    PROVE  EntryIsOwners'
<1>t. /\ phase \in [Pid -> {"free", "running", "exiting"}]
      /\ gen \in [Pid -> Nat] /\ entry \in [Pid -> Entry]
      BY DEF TypeOK, FeedTypeOK
<1>1. CASE Kernel
  <2>1. ASSUME NEW p \in Pid, Fork(p) PROVE EntryIsOwners'
        BY <2>1, <1>t DEF Fork, EntryIsOwners
  <2>2. ASSUME NEW p \in Pid, LeaderExit(p) PROVE EntryIsOwners'
        BY <2>2, <1>t DEF LeaderExit, EntryIsOwners
  <2>3. ASSUME NEW p \in Pid, Reap(p) PROVE EntryIsOwners'
        BY <2>3, <1>t DEF Reap, EntryIsOwners
  <2>4. ASSUME NEW p \in Pid, NEW c \in Counter, Account(p, c) PROVE EntryIsOwners'
        BY <2>4, <1>t DEF Account, EntryIsOwners
  <2>5. ASSUME NEW e \in Emitter, NEW p \in Pid, NEW c \in Counter, Insert(e, p, c)
        PROVE  EntryIsOwners'
        BY <2>5, <1>t DEF Insert, CanAccount, EntryIsOwners
  <2>6. ASSUME NEW e \in Emitter, Emit(e) PROVE EntryIsOwners'
        BY <2>6 DEF Emit, EntryIsOwners
  <2> QED BY <1>1, <2>1, <2>2, <2>3, <2>4, <2>5, <2>6 DEF Kernel, FeedNext
<1>2. CASE ~Kernel
      BY <1>2 DEF Next, MainLoop, Wake, DrainOne, Consume, DrainDone, CollectRow,
         CollectDead, Publish, PublishOversized, Reset, vars, feedVars, EntryIsOwners
<1> QED BY <1>1, <1>2

\* A PID that has an entry is in use, by the process the entry belongs to.
LEMMA PresentIsRunning ==
    ASSUME TypeOK, EntryIsOwners, NEW p \in Pid, entry[p] # NoEntry
    PROVE  phase[p] = "running" /\ entry[p].owner = gen[p] /\ gen[p] \in Nat \ {0}
<1>1. phase[p] = "running" /\ entry[p].owner = gen[p] /\ gen[p] \in Nat
      BY DEF TypeOK, FeedTypeOK, EntryIsOwners
<1> QED BY <1>1 DEF EntryIsOwners

--------------------------------------------------------------------------------
(* The first process under a PID is announced once.                        *)

\* The head of a sequence with one element of PID q holds the only one.
LEMMA RingOnce ==
    ASSUME NEW s \in Seq(Event), NEW q,
           \A i, j \in DOMAIN s : s[i].pid = q /\ s[j].pid = q => i = j
    PROVE  /\ s # << >> =>
                /\ \A i, j \in DOMAIN Tail(s) :
                      Tail(s)[i].pid = q /\ Tail(s)[j].pid = q => i = j
                /\ PidsOf(Tail(s)) \subseteq PidsOf(s)
                /\ Head(s).pid \in PidsOf(s)
                /\ Head(s).pid = q => q \notin PidsOf(Tail(s))
           /\ \A x \in Event : (x.pid = q => q \notin PidsOf(s)) =>
                 \A i, j \in DOMAIN Append(s, x) :
                    Append(s, x)[i].pid = q /\ Append(s, x)[j].pid = q => i = j
<1>1. Len(s) \in Nat /\ DOMAIN s = 1 .. Len(s)
      BY LenProperties
<1>2. ASSUME s # << >>
      PROVE  /\ \A i, j \in DOMAIN Tail(s) :
                   Tail(s)[i].pid = q /\ Tail(s)[j].pid = q => i = j
             /\ PidsOf(Tail(s)) \subseteq PidsOf(s)
             /\ Head(s).pid \in PidsOf(s)
             /\ Head(s).pid = q => q \notin PidsOf(Tail(s))
  <2>1. /\ DOMAIN Tail(s) = 1 .. Len(s) - 1
        /\ \A i \in 1 .. Len(s) - 1 : Tail(s)[i] = s[i + 1]
        /\ Head(s) = s[1] /\ Len(s) # 0
        BY <1>1, <1>2, HeadTailProperties, LenProperties, EmptySeq
  <2>2. \A n \in Nat : n # 0 =>
            /\ 1 \in 1 .. n
            /\ \A i \in 1 .. n - 1 : i + 1 \in 1 .. n /\ i + 1 # 1
            /\ \A i, j \in 1 .. n - 1 : i + 1 = j + 1 => i = j
        OBVIOUS
  <2>3. /\ 1 \in DOMAIN s
        /\ \A i \in DOMAIN Tail(s) : i + 1 \in DOMAIN s /\ i + 1 # 1 /\ Tail(s)[i] = s[i + 1]
        /\ \A i, j \in DOMAIN Tail(s) : i + 1 = j + 1 => i = j
        BY <1>1, <2>1, <2>2
  <2>4. \A i, j \in DOMAIN Tail(s) : Tail(s)[i].pid = q /\ Tail(s)[j].pid = q => i = j
        BY <2>3
  <2>5. PidsOf(Tail(s)) \subseteq PidsOf(s) /\ Head(s).pid \in PidsOf(s)
        BY <2>1, <2>3 DEF PidsOf
  <2>6. ASSUME Head(s).pid = q, NEW i \in DOMAIN Tail(s), Tail(s)[i].pid = q
        PROVE  FALSE
        BY <2>1, <2>3, <2>6
  <2> QED BY <2>4, <2>5, <2>6 DEF PidsOf
<1>3. ASSUME NEW x \in Event, x.pid = q => q \notin PidsOf(s),
             NEW i \in DOMAIN Append(s, x), NEW j \in DOMAIN Append(s, x),
             Append(s, x)[i].pid = q, Append(s, x)[j].pid = q
      PROVE  i = j
  <2>1. /\ DOMAIN Append(s, x) = 1 .. Len(s) + 1
        /\ \A k \in 1 .. Len(s) : Append(s, x)[k] = s[k]
        /\ Append(s, x)[Len(s) + 1] = x
        BY <1>1, AppendProperties, LenProperties
  <2>2. \A k \in 1 .. Len(s) + 1 : k \in 1 .. Len(s) \/ k = Len(s) + 1
        BY <1>1
  <2>3. x.pid = q => \A k \in 1 .. Len(s) : s[k].pid # q
        BY <1>1, <1>3 DEF PidsOf
  <2> QED BY <1>1, <1>3, <2>1, <2>2, <2>3
<1> QED BY <1>2, <1>3

LEMMA AnnouncedInit == Init => FirstIsAnnouncedOnce
<1> SUFFICES ASSUME Init, NEW p \in Pid PROVE AnnouncedOnce(p)
    BY DEF FirstIsAnnouncedOnce
<1>1. ~Emitting(p)
      BY PidAssumption DEF Init, CollectorInit, FeedInit, Emitting, NoEvent
<1>2. \A e \in Emitter : pending[e].pid # p
      BY PidAssumption DEF Init, CollectorInit, FeedInit, NoEvent
<1>3. ring = << >> /\ procs = << >> /\ shown[p] = Zero /\ base[p] = Zero
      BY DEF Init, CollectorInit, FeedInit
<1> QED BY <1>1, <1>2, <1>3 DEF AnnouncedOnce, Unseen, PidsOf

LEMMA AnnouncedStep ==
    ASSUME LeaderExitsLast, TypeOK, EntryIsOwners, [Next]_vars,
           NEW q \in Pid, AnnouncedOnce(q), ~Reused(q)'
    PROVE  AnnouncedOnce(q)'
<1>t. /\ phase \in [Pid -> {"free", "running", "exiting"}]
      /\ gen \in [Pid -> Nat] /\ entry \in [Pid -> Entry]
      /\ pending \in [Emitter -> Event \cup {NoEvent}] /\ ring \in Seq(Event)
      /\ procs \in Seq(ProcInfo) /\ shown \in [Pid -> Bytes]
      BY DEF TypeOK, FeedTypeOK
\* Steps that announce nothing and leave an unseen process unseen.
<1>s. ASSUME UNCHANGED <<ring, pending>>, Unseen(q) => Unseen(q)', Silent(q)' => Silent(q)
      PROVE  AnnouncedOnce(q)'
      BY <1>s DEF AnnouncedOnce, Emitting
<1>u. UNCHANGED <<procs, shown, base>> => (Unseen(q) <=> Unseen(q)')
      BY DEF Unseen
<1>1. CASE Kernel
  <2>u. Unseen(q) <=> Unseen(q)'
        BY <1>1, <1>u DEF Kernel, collectorVars, historyVars
  <2>1. ASSUME NEW p \in Pid, Fork(p) PROVE AnnouncedOnce(q)'
    <3>1. Silent(q)' => Silent(q)
      <4>1. CASE p = q
            BY <2>1, <4>1, <1>t DEF Fork, Reused, Silent
      <4>2. CASE p # q
            BY <2>1, <4>2, <1>t DEF Fork, Silent
      <4> QED BY <4>1, <4>2
    <3> QED BY <2>1, <2>u, <3>1, <1>s DEF Fork
  <2>2. ASSUME NEW p \in Pid, LeaderExit(p) \/ Reap(p) PROVE AnnouncedOnce(q)'
    <3>1. Silent(q)' => Silent(q)
          BY <2>2, <1>t DEF LeaderExit, Reap, Silent
    <3> QED BY <2>2, <2>u, <3>1, <1>s DEF LeaderExit, Reap
  <2>3. ASSUME NEW p \in Pid, NEW c \in Counter, Account(p, c) PROVE AnnouncedOnce(q)'
    <3>1. entry[p].owner # 0
          BY <2>3, PresentIsRunning DEF Account
    <3>2. entry'[p] # NoEntry
          BY <2>3, <3>1, <1>t DEF Account, NoEntry
    <3>3. Silent(q)' => Silent(q)
          BY <2>3, <3>2, <1>t DEF Account, Silent
    <3> QED BY <2>3, <2>u, <3>3, <1>s DEF Account
  <2>4. ASSUME NEW e \in Emitter, NEW p \in Pid, NEW c \in Counter, Insert(e, p, c)
        PROVE  AnnouncedOnce(q)'
    <3>1. \A f \in Emitter : f # e => pending'[f] = pending[f]
          BY <2>4, <1>t DEF Insert
    <3>2. pending'[e].pid = p /\ pending[e].pid # q /\ ring' = ring
          BY <2>4, <1>t, PidAssumption DEF Insert, NoEvent
    <3>3. CASE p = q
      <4>1. Silent(q)
            BY <2>4, <3>3 DEF Insert, CanAccount, Silent
      <4>2. ~Emitting(q) /\ q \notin PidsOf(ring) /\ Unseen(q)
            BY <4>1 DEF AnnouncedOnce
      <4>3. gen[q] \in Nat \ {0}
            BY <2>4, <3>3, <1>t DEF Insert, CanAccount, EntryIsOwners
      <4>4. entry'[q].owner # 0 /\ gen' = gen
            BY <2>4, <3>3, <4>3, <1>t DEF Insert
      <4>5. ~Silent(q)'
            BY <4>3, <4>4 DEF Silent, NoEntry
      <4>6. \A f \in Emitter : pending'[f].pid = q => f = e
            BY <3>1, <4>2 DEF Emitting
      <4> QED BY <2>u, <3>2, <4>2, <4>5, <4>6 DEF AnnouncedOnce
    <3>4. CASE p # q
      <4>1. \A f \in Emitter : pending'[f].pid = q <=> pending[f].pid = q
            BY <3>1, <3>2, <3>4
      <4>2. Emitting(q)' <=> Emitting(q)
            BY <4>1 DEF Emitting
      <4>3. Silent(q)' => Silent(q)
            BY <2>4, <3>4, <1>t DEF Insert, Silent
      <4> QED BY <2>u, <3>2, <4>1, <4>2, <4>3 DEF AnnouncedOnce
    <3> QED BY <3>3, <3>4
  <2>5. ASSUME NEW e \in Emitter, Emit(e) PROVE AnnouncedOnce(q)'
    <3>1. /\ pending[e] \in Event /\ pending'[e].pid # q
          /\ \A f \in Emitter : f # e => pending'[f] = pending[f]
          BY <2>5, <1>t, PidAssumption DEF Emit, NoEvent
    <3>2. ring' = ring \/ ring' = Append(ring, pending[e])
          BY <2>5 DEF Emit
    <3>3. Silent(q)' <=> Silent(q)
          BY <2>5 DEF Emit, Silent
    <3>4. pending[e].pid = q => Emitting(q)
          BY DEF Emitting
    <3>5. PidsOf(ring') = PidsOf(ring) \/ PidsOf(ring') = PidsOf(ring) \cup {pending[e].pid}
          BY <3>1, <3>2, <1>t, RingPids
    <3>6. \A i, j \in DOMAIN ring' : ring'[i].pid = q /\ ring'[j].pid = q => i = j
      <4>1. pending[e].pid = q => q \notin PidsOf(ring)
            BY <3>4 DEF AnnouncedOnce
      <4>2. CASE ring' = ring
            BY <4>2 DEF AnnouncedOnce
      <4>3. CASE ring' = Append(ring, pending[e])
        <5>1. \A i, j \in DOMAIN Append(ring, pending[e]) :
                  Append(ring, pending[e])[i].pid = q /\ Append(ring, pending[e])[j].pid = q
                      => i = j
              BY <3>1, <4>1, <1>t, RingOnce DEF AnnouncedOnce
        <5> QED BY <4>3, <5>1
      <4> QED BY <3>2, <4>2, <4>3
    <3>7. \A f \in Emitter : pending'[f].pid = q => pending[f].pid = q
          BY <3>1
    <3>8. Emitting(q)' => Emitting(q) /\ pending[e].pid # q
          BY <3>1, <3>7 DEF Emitting, AnnouncedOnce
    <3> QED BY <2>u, <3>3, <3>4, <3>5, <3>6, <3>7, <3>8 DEF AnnouncedOnce
  <2> QED BY <1>1, <2>1, <2>2, <2>3, <2>4, <2>5 DEF Kernel, FeedNext
<1>2. CASE DrainOne
  <2>1. PICK ev \in Event :
              /\ ring # << >> /\ ev = Head(ring) /\ ring' = Tail(ring)
              /\ UNCHANGED <<phase, gen, entry, pending, lost, pc, resets, shown, base,
                            staleTicks>>
              /\ NameOf(ev) \in Nat
              /\ procs' = ApplyEvent(ev.pid, NameOf(ev))
        BY <1>2, DrainOneFacts
  <2>2. ev.pid \in Pid
        BY DEF Event
  <2>3. PidsOf(procs') = PidsOf(procs) \cup {ev.pid}
        BY <2>1, <2>2, ApplyEventFacts
  <2>4. /\ \A i, j \in DOMAIN ring' : ring'[i].pid = q /\ ring'[j].pid = q => i = j
        /\ PidsOf(ring') \subseteq PidsOf(ring) /\ ev.pid \in PidsOf(ring)
        /\ ev.pid = q => q \notin PidsOf(ring')
        BY <2>1, <1>t, RingOnce DEF AnnouncedOnce
  <2>5. (Silent(q)' <=> Silent(q)) /\ (Emitting(q)' <=> Emitting(q))
        BY <2>1 DEF Silent, Emitting
  <2>6. ev.pid # q /\ Unseen(q) => Unseen(q)'
        BY <2>1, <2>3 DEF Unseen
  <2> QED BY <2>1, <2>4, <2>5, <2>6 DEF AnnouncedOnce
<1>3. CASE CollectRow
  <2>1. /\ idx \in DOMAIN procs /\ DOMAIN procs' = DOMAIN procs
        /\ UNCHANGED <<feedVars, base>>
        /\ \A i \in DOMAIN procs : procs'[i].pid = procs[i].pid
        /\ q # procs[idx].pid => shown'[q] = shown[q]
        BY <1>3, CollectRowFacts
  <2>2. Unseen(q) => Unseen(q)'
        BY <2>1 DEF Unseen, PidsOf
  <2>3. Silent(q)' <=> Silent(q)
        BY <2>1 DEF Silent, feedVars
  <2> QED BY <2>1, <2>2, <2>3, <1>s DEF feedVars
<1>4. CASE CollectDead
  <2>1. /\ UNCHANGED <<feedVars, shown, base>> /\ Len(procs) \in DOMAIN procs
        /\ \A j \in DOMAIN procs' : \E i \in DOMAIN procs : procs'[j] = procs[i]
        BY <1>4, CollectDeadFacts
  <2>2. Unseen(q) => Unseen(q)'
        BY <2>1 DEF Unseen, PidsOf
  <2>3. Silent(q)' <=> Silent(q)
        BY <2>1 DEF Silent, feedVars
  <2> QED BY <2>1, <2>2, <2>3, <1>s DEF feedVars
<1>5. CASE Wake \/ DrainDone \/ Publish \/ PublishOversized \/ UNCHANGED vars
  <2>1. UNCHANGED <<feedVars, procs, shown, base>>
        BY <1>5 DEF Wake, DrainDone, Publish, PublishOversized, vars, collectorVars, historyVars
  <2>2. Silent(q)' <=> Silent(q)
        BY <2>1 DEF Silent, feedVars
  <2> QED BY <2>1, <2>2, <1>u, <1>s DEF feedVars
<1>6. CASE Reset
  <2>1. /\ UNCHANGED <<feedVars, shown>> /\ base' = shown /\ DOMAIN procs' = DOMAIN procs
        /\ \A i \in DOMAIN procs : procs'[i].pid = procs[i].pid
    <3>1. \A i \in DOMAIN procs : procs[i] \in ProcInfo
          BY <1>t, LenProperties
    <3> QED BY <1>6, <3>1 DEF Reset, ProcInfo
  <2>2. Unseen(q) => Unseen(q)'
        BY <2>1 DEF Unseen, PidsOf
  <2>3. Silent(q)' <=> Silent(q)
        BY <2>1 DEF Silent, feedVars
  <2> QED BY <2>1, <2>2, <2>3, <1>s DEF feedVars
<1> QED BY <1>1, <1>2, <1>3, <1>4, <1>5, <1>6 DEF Next, MainLoop

--------------------------------------------------------------------------------
(* The totals of a record follow its entry.                                *)

LEMMA FollowInit == Init => RecordsFollow
BY DEF Init, CollectorInit, RecordsFollow

\* A record that stays as it is still follows when the step leaves its entry
\* and what was shown of it alone.
LEMMA FollowSame ==
    ASSUME TypeOK, NEW r, NEW k, r.pid \in Pid, Follows(r), procs'[k] = r,
           base'[r.pid] = base[r.pid], shown'[r.pid] = shown[r.pid],
           gen'[r.pid] = gen[r.pid], entry'[r.pid] = entry[r.pid]
    PROVE  Follows(procs[k])'
BY DEF Follows, Reused

LEMMA FollowStep ==
    ASSUME LeaderExitsLast, TypeOK, EntryIsOwners, FirstIsAnnouncedOnce, ProcsUnique,
           RecordsFollow, [Next]_vars
    PROVE  RecordsFollow'
<1>t. /\ phase \in [Pid -> {"free", "running", "exiting"}]
      /\ gen \in [Pid -> Nat] /\ entry \in [Pid -> Entry]
      /\ procs \in Seq(ProcInfo) /\ shown \in [Pid -> Bytes] /\ base \in [Pid -> Bytes]
      BY DEF TypeOK, FeedTypeOK
<1>p. \A i \in DOMAIN procs : procs[i] \in ProcInfo /\ procs[i].pid \in Pid /\ procs[i].cum \in Bytes
  <2>1. \A i \in DOMAIN procs : procs[i] \in ProcInfo
        BY <1>t, LenProperties
  <2> QED BY <2>1 DEF ProcInfo
<1>f. \A i \in DOMAIN procs : Follows(procs[i])
      BY DEF RecordsFollow
\* A process that inserts its first entry has no record yet.
<1>i. \A i \in DOMAIN procs : ~Reused(procs[i].pid) => ~Silent(procs[i].pid)
      BY <1>p DEF FirstIsAnnouncedOnce, AnnouncedOnce, Unseen, PidsOf
<1>1. CASE Kernel
  <2>u. UNCHANGED <<procs, shown, base>>
        BY <1>1 DEF Kernel, collectorVars, historyVars
  <2> SUFFICES ASSUME NEW k \in DOMAIN procs PROVE Follows(procs[k])'
      BY <2>u DEF RecordsFollow
  <2> DEFINE r == procs[k]
             q == procs[k].pid
  <2>q. q \in Pid /\ r.cum \in Bytes /\ Follows(r) /\ (~Reused(q) => ~Silent(q))
        BY <1>p, <1>f, <1>i
  <2>s. ASSUME UNCHANGED <<gen, entry>> PROVE Follows(r)'
        BY <2>u, <2>s, <2>q DEF Follows, Reused
  <2>1. ASSUME NEW p \in Pid, Fork(p) PROVE Follows(r)'
    <3>1. Reused(q) => Reused(q)'
          BY <2>1, <2>q, <2>u, <1>t DEF Fork, Reused
    <3> QED BY <2>1, <2>q, <2>u, <3>1 DEF Fork, Follows
  <2>2. ASSUME NEW p \in Pid, LeaderExit(p) PROVE Follows(r)'
        BY <2>2, <2>q, <2>u, <1>t DEF LeaderExit, Follows, Reused
  <2>3. ASSUME NEW p \in Pid, Reap(p) PROVE Follows(r)'
        BY <2>3, <2>s DEF Reap
  <2>4. ASSUME NEW p \in Pid, NEW c \in Counter, Account(p, c) PROVE Follows(r)'
    <3>1. CASE p # q
          BY <2>4, <3>1, <2>q, <2>u, <1>t DEF Account, Follows, Reused
    <3>2. CASE p = q
      <4>1. entry[q].bytes \in Bytes /\ entry[q] # NoEntry /\ gen' = gen
            BY <2>4, <3>2, <2>q, <1>t DEF Account, Entry
      <4>2. entry'[q].bytes = [entry[q].bytes EXCEPT ![c] = @ + 1]
            BY <2>4, <3>2, <2>q, <1>t DEF Account
      <4>3. \A d \in Counter : entry[q].bytes[d] \in Nat /\ entry'[q].bytes[d] \in Nat
                                 /\ entry[q].bytes[d] <= entry'[q].bytes[d]
            BY <4>1, <4>2 DEF Bytes
      <4>4. \A d \in Counter : r.cum[d] \in Nat
            BY <2>q DEF Bytes
      <4>5. ~Reused(q) => \A d \in Counter : r.cum[d] <= entry[q].bytes[d]
            BY <4>1, <2>q DEF Follows
      <4>6. ~Reused(q) => \A d \in Counter : r.cum[d] <= entry'[q].bytes[d]
            BY <4>3, <4>4, <4>5
      <4> QED BY <2>q, <2>u, <4>1, <4>6 DEF Follows, Reused
    <3> QED BY <3>1, <3>2
  <2>5. ASSUME NEW e \in Emitter, NEW p \in Pid, NEW c \in Counter, Insert(e, p, c)
        PROVE  Follows(r)'
    <3>1. CASE p # q
          BY <2>5, <3>1, <2>q, <2>u, <1>t DEF Insert, Follows, Reused
    <3>2. CASE p = q
      <4>1. Reused(q)
            BY <2>5, <3>2, <2>q DEF Insert, CanAccount, Silent
      <4> QED BY <2>5, <2>u, <4>1 DEF Insert, Follows, Reused
    <3> QED BY <3>1, <3>2
  <2>6. ASSUME NEW e \in Emitter, Emit(e) PROVE Follows(r)'
        BY <2>6, <2>s DEF Emit
  <2> QED BY <1>1, <2>1, <2>2, <2>3, <2>4, <2>5, <2>6 DEF Kernel, FeedNext
<1>2. CASE DrainOne
  <2>1. PICK ev \in Event :
              /\ ring # << >> /\ ev = Head(ring) /\ ring' = Tail(ring)
              /\ UNCHANGED <<phase, gen, entry, pending, lost, pc, resets, shown, base,
                            staleTicks>>
              /\ NameOf(ev) \in Nat
              /\ procs' = ApplyEvent(ev.pid, NameOf(ev))
        BY <1>2, DrainOneFacts
  <2>2. ev.pid \in Pid
        BY DEF Event
  <2> SUFFICES ASSUME NEW k \in DOMAIN procs' PROVE Follows(procs[k])'
      BY DEF RecordsFollow
  <2>3. \/ procs'[k] = [pid |-> ev.pid, name |-> NameOf(ev), cum |-> Zero]
        \/ k \in DOMAIN procs /\ procs'[k] = procs[k]
        BY <2>1, <2>2, ApplyEventRecords
  <2>4. CASE procs'[k] = [pid |-> ev.pid, name |-> NameOf(ev), cum |-> Zero]
    <3>1. procs'[k].pid = ev.pid /\ procs'[k].cum = Zero
          BY <2>4
    <3>2. ev.pid \in PidsOf(ring)
          BY <2>1, HeadTailProperties, LenProperties, EmptySeq DEF PidsOf, TypeOK, FeedTypeOK
    <3>3. ~Reused(ev.pid) =>
              \A c \in Counter : Zero[c] + base[ev.pid][c] = shown[ev.pid][c]
      <4>1. ~Reused(ev.pid) => shown[ev.pid] = Zero /\ base[ev.pid] = Zero
            BY <2>2, <3>2 DEF FirstIsAnnouncedOnce, AnnouncedOnce, Unseen
      <4> QED BY <4>1 DEF Zero
    <3>4. \A c \in Counter : Zero[c] <= entry[ev.pid].bytes[c]
          BY <2>2, <1>t DEF Zero, Entry, Bytes
    <3> QED BY <2>1, <3>1, <3>3, <3>4 DEF Follows, Reused
  <2>5. CASE k \in DOMAIN procs /\ procs'[k] = procs[k]
        BY <2>1, <2>5, <1>f, <1>p, FollowSame
  <2> QED BY <2>3, <2>4, <2>5
<1>3. CASE CollectRow
  <2> DEFINE q == procs[idx].pid
             bytes == entry[q].bytes
  <2>1. /\ idx \in DOMAIN procs /\ procs[idx] \in ProcInfo /\ entry[q] # NoEntry
        /\ bytes \in Bytes /\ UNCHANGED <<gen, entry, base>>
        /\ DOMAIN procs' = DOMAIN procs
        /\ procs'[idx].pid = q /\ procs'[idx].cum = bytes
        /\ \A i \in DOMAIN procs : i # idx => procs'[i] = procs[i]
        /\ \A p \in Pid : p # q => shown'[p] = shown[p]
        BY <1>3, CollectRowFacts DEF feedVars
  <2>2. q \in Pid /\ procs[idx].cum \in Bytes
        BY <2>1, <1>p
  <2> SUFFICES ASSUME NEW k \in DOMAIN procs PROVE Follows(procs[k])'
      BY <2>1 DEF RecordsFollow
  <2>3. CASE k # idx
    <3>1. procs[k].pid # q
          BY <2>1, <2>3 DEF ProcsUnique
    <3> QED BY <2>1, <2>3, <3>1, <1>p, <1>f, FollowSame
  <2>4. CASE k = idx
    <3>1. shown'[q] = [c \in Counter |-> shown[q][c] + SaturatingSub(bytes, procs[idx].cum)[c]]
          BY <1>3, <2>2, <1>t DEF CollectRow
    <3>2. ASSUME ~Reused(q), NEW c \in Counter PROVE bytes[c] + base[q][c] = shown'[q][c]
      <4>1. /\ procs[idx].cum[c] + base[q][c] = shown[q][c]
            /\ procs[idx].cum[c] <= bytes[c]
            BY <2>1, <3>2, <1>f DEF Follows
      <4>2. /\ bytes[c] \in Nat /\ procs[idx].cum[c] \in Nat
            /\ base[q][c] \in Nat /\ shown[q][c] \in Nat
            BY <2>1, <2>2, <1>t DEF Bytes
      <4>3. SaturatingSub(bytes, procs[idx].cum)[c] = bytes[c] - procs[idx].cum[c]
            BY <4>1, <4>2 DEF SaturatingSub
      <4>4. shown'[q][c] = shown[q][c] + (bytes[c] - procs[idx].cum[c])
            BY <3>1, <4>3
      <4> QED BY <4>1, <4>2, <4>4
    <3>3. \A c \in Counter : bytes[c] <= bytes[c]
          BY <2>1 DEF Bytes
    <3> QED BY <2>1, <2>4, <3>2, <3>3 DEF Follows, Reused
  <2> QED BY <2>3, <2>4
<1>4. CASE CollectDead
  <2>1. /\ UNCHANGED <<gen, entry, shown, base>> /\ Len(procs) \in DOMAIN procs
        /\ \A j \in DOMAIN procs' : \E i \in DOMAIN procs : procs'[j] = procs[i]
        BY <1>4, CollectDeadFacts DEF feedVars
  <2> SUFFICES ASSUME NEW k \in DOMAIN procs' PROVE Follows(procs[k])'
      BY DEF RecordsFollow
  <2>2. PICK i \in DOMAIN procs : procs'[k] = procs[i]
        BY <2>1
  <2> QED BY <2>1, <2>2, <1>p, <1>f, FollowSame
<1>5. CASE Wake \/ DrainDone \/ Publish \/ PublishOversized \/ UNCHANGED vars
  <2>1. UNCHANGED <<gen, entry, procs, shown, base>>
        BY <1>5 DEF Wake, DrainDone, Publish, PublishOversized, vars, feedVars, collectorVars,
           historyVars
  <2> QED BY <2>1 DEF RecordsFollow, Follows, Reused
<1>6. CASE Reset
  <2>1. /\ UNCHANGED <<gen, entry, shown>> /\ base' = shown /\ DOMAIN procs' = DOMAIN procs
        /\ \A i \in DOMAIN procs : procs'[i].pid = procs[i].pid /\ procs'[i].cum = Zero
        BY <1>6, <1>p DEF Reset, ProcInfo, feedVars
  <2>2. \A p \in Pid, c \in Counter : Zero[c] <= entry[p].bytes[c]
        BY <1>t DEF Zero, Entry, Bytes
  <2>3. \A p \in Pid, c \in Counter : Zero[c] + shown[p][c] = shown[p][c]
        BY <1>t DEF Zero, Bytes
  <2> QED BY <2>1, <2>2, <2>3, <1>p DEF RecordsFollow, Follows
<1> QED BY <1>1, <1>2, <1>3, <1>4, <1>5, <1>6 DEF Next, MainLoop

\* The four parts of the invariant about the first process under a PID.
FirstLife == /\ TypeOK /\ ProcsUnique /\ EntryIsOwners
             /\ FirstIsAnnouncedOnce /\ RecordsFollow

LEMMA FirstLifeHolds ==
    ASSUME LeaderExitsLast
    PROVE  Spec => []FirstLife
<1>1. Init => FirstLife
      BY TypeInit, UniqueInit, OwnersInit, AnnouncedInit, FollowInit DEF FirstLife
<1>2. FirstLife /\ [Next]_vars => FirstLife'
  <2> SUFFICES ASSUME FirstLife, [Next]_vars PROVE FirstLife'
      OBVIOUS
  <2>1. TypeOK' /\ ProcsUnique' /\ EntryIsOwners'
        BY TypeStep, UniqueStep, OwnersStep DEF FirstLife
  <2>2. FirstIsAnnouncedOnce'
    <3> SUFFICES ASSUME NEW q \in Pid, ~Reused(q)' PROVE AnnouncedOnce(q)'
        BY DEF FirstIsAnnouncedOnce
    <3>1. gen[q] \in Nat /\ gen'[q] \in Nat /\ gen[q] <= gen'[q]
      <4>1. gen \in [Pid -> Nat] /\ gen' \in [Pid -> Nat]
            BY <2>1 DEF FirstLife, TypeOK, FeedTypeOK
      <4>2. gen' = gen \/ \E p \in Pid : gen' = [gen EXCEPT ![p] = @ + 1]
            BY DEF Next, Kernel, FeedNext, Fork, LeaderExit, Reap, Account, Insert, Emit,
               MainLoop, Wake, DrainOne, Consume, DrainDone, CollectRow, CollectDead,
               Publish, PublishOversized, Reset, vars, feedVars
      <4> QED BY <4>1, <4>2
    <3>2. ~Reused(q)
          BY <3>1 DEF Reused
    <3> QED BY <3>2, AnnouncedStep DEF FirstLife, FirstIsAnnouncedOnce
  <2>3. RecordsFollow'
        BY FollowStep DEF FirstLife
  <2> QED BY <2>1, <2>2, <2>3 DEF FirstLife
<1> QED BY <1>1, <1>2, PTL DEF Spec

\* The record that was pushed is in the dead list.
LEMMA PushDeadKeeps ==
    ASSUME TypeOK, NEW r \in ProcInfo
    PROVE  \E j \in DOMAIN PushDead(r) : PushDead(r)[j] = r
<1> DEFINE longer == Append(deadProcs, r)
           n == Len(deadProcs)
<1>1. deadProcs \in Seq(ProcInfo) /\ n \in Nat /\ DeadProcLimit \in Nat \ {0}
      BY CollectorAssumption, LenProperties DEF TypeOK
<1>2. longer \in Seq(ProcInfo) /\ Len(longer) = n + 1 /\ longer[n + 1] = r
      BY <1>1, AppendProperties
<1>3. DOMAIN longer = 1 .. n + 1 /\ longer # << >>
      BY <1>1, <1>2, LenProperties, EmptySeq
<1>4. CASE n + 1 > DeadProcLimit
  <2>1. Tail(longer) \in Seq(ProcInfo) /\ Len(Tail(longer)) = n
        BY <1>1, <1>2, <1>3, HeadTailProperties
  <2>2. n \in 1 .. n
        BY <1>1, <1>4
  <2>3. Tail(longer)[n] = longer[n + 1] /\ DOMAIN Tail(longer) = 1 .. n
        BY <1>1, <1>2, <1>3, <2>1, <2>2, HeadTailProperties, LenProperties
  <2> QED BY <1>2, <1>4, <2>2, <2>3 DEF PushDead
<1>5. CASE ~(n + 1 > DeadProcLimit)
  <2>1. n + 1 \in 1 .. n + 1
        BY <1>1
  <2> QED BY <1>2, <1>3, <1>5, <2>1 DEF PushDead
<1> QED BY <1>4, <1>5

\* The step that TotalsSurviveExit speaks of.
RecordSurvives ==
    resets' = resets =>
        \A i \in DOMAIN procs :
            procs[i].cum # Zero /\ ~Reused(procs[i].pid) =>
                \/ \E j \in DOMAIN procs' : SameOrGrown(procs[i], procs'[j])
                \/ \E j \in DOMAIN deadProcs' : deadProcs'[j] = procs[i]

LEMMA SurviveStep == FirstLife /\ [Next]_vars => [RecordSurvives]_vars
<1> SUFFICES ASSUME FirstLife, [Next]_vars, resets' = resets,
                    NEW k \in DOMAIN procs, ~Reused(procs[k].pid)
             PROVE  \/ \E j \in DOMAIN procs' : SameOrGrown(procs[k], procs'[j])
                    \/ \E j \in DOMAIN deadProcs' : deadProcs'[j] = procs[k]
    BY DEF RecordSurvives
<1> USE DEF FirstLife
<1>p. procs[k] \in ProcInfo /\ procs[k].pid \in Pid /\ procs[k].cum \in Bytes
  <2>1. procs[k] \in ProcInfo
        BY LenProperties DEF TypeOK
  <2> QED BY <2>1 DEF ProcInfo
<1>s. ASSUME k \in DOMAIN procs', procs'[k] = procs[k]
      PROVE  \E j \in DOMAIN procs' : SameOrGrown(procs[k], procs'[j])
      BY <1>s, <1>p DEF SameOrGrown, Bytes
<1>1. CASE Kernel \/ Wake \/ DrainDone \/ Publish \/ PublishOversized \/ UNCHANGED vars
  <2>1. procs' = procs
        BY <1>1 DEF Kernel, Wake, DrainDone, Publish, PublishOversized, vars, collectorVars
  <2> QED BY <2>1, <1>s
<1>2. CASE DrainOne
  <2>1. PICK ev \in Event :
              /\ ring # << >> /\ ev = Head(ring) /\ ring' = Tail(ring)
              /\ UNCHANGED <<phase, gen, entry, pending, lost, pc, resets, shown, base,
                            staleTicks>>
              /\ NameOf(ev) \in Nat
              /\ procs' = ApplyEvent(ev.pid, NameOf(ev))
        BY <1>2, DrainOneFacts
  <2>2. ev.pid \in Pid
        BY DEF Event
  <2>3. ev.pid \in PidsOf(ring)
        BY <2>1, HeadTailProperties, LenProperties, EmptySeq DEF PidsOf, TypeOK, FeedTypeOK
  <2>4. procs[k].pid # ev.pid
        BY <2>2, <2>3 DEF FirstIsAnnouncedOnce, AnnouncedOnce, Unseen, PidsOf
  <2>5. k \in DOMAIN procs' /\ procs'[k] = procs[k]
        BY <2>1, <2>2, <2>4, ApplyEventRecords
  <2> QED BY <2>5, <1>s
<1>3. CASE CollectRow
  <2>1. /\ DOMAIN procs' = DOMAIN procs
        /\ procs'[k].pid = procs[k].pid /\ procs'[k].name = procs[k].name
        /\ k # idx => procs'[k] = procs[k]
        /\ k = idx => procs'[k].cum = entry[procs[k].pid].bytes /\ entry[procs[k].pid] # NoEntry
        BY <1>3, CollectRowFacts
  <2>2. CASE k # idx
        BY <2>1, <2>2, <1>s
  <2>3. CASE k = idx
    <3>1. \A c \in Counter : procs[k].cum[c] <= entry[procs[k].pid].bytes[c]
          BY <2>1, <2>3 DEF RecordsFollow, Follows
    <3>2. entry[procs[k].pid].bytes \in Bytes
          BY <1>p DEF TypeOK, FeedTypeOK, Entry
    <3>3. \A c \in Counter : procs'[k].cum[c] >= procs[k].cum[c]
          BY <1>p, <2>1, <2>3, <3>1, <3>2 DEF Bytes
    <3> QED BY <2>1, <3>3 DEF SameOrGrown
  <2> QED BY <2>2, <2>3
<1>4. CASE CollectDead
  <2>1. /\ deadProcs' = PushDead(procs[idx])
        /\ k # idx => \E j \in DOMAIN procs' : procs'[j] = procs[k]
        BY <1>4, CollectDeadFacts
  <2>2. CASE k = idx
        BY <2>1, <2>2, <1>p, PushDeadKeeps
  <2>3. CASE k # idx
        BY <2>1, <2>3, <1>p DEF SameOrGrown, Bytes
  <2> QED BY <2>2, <2>3
<1>5. CASE Reset
      BY <1>5 DEF Reset, TypeOK
<1> QED BY <1>1, <1>2, <1>3, <1>4, <1>5 DEF Next, MainLoop

--------------------------------------------------------------------------------
(* The theorems about totals.                                              *)

\* The per-tick figures collect_rows produced for a process since the last Reset
\* add up to the total in its record, however the kernel's additions fall between
\* the reads and however often a client resets, with events dropped and lookups
\* failing.
THEOREM ShownAddsUp ==
    ASSUME LeaderExitsLast
    PROVE  Spec => []DeltasAddUp
<1>1. FirstLife => DeltasAddUp
      BY DEF FirstLife, RecordsFollow, Follows, DeltasAddUp
<1> QED BY <1>1, FirstLifeHolds, PTL

\* A record stays in procs under its name with totals that only grow until
\* collect_rows moves it, as it is, to the dead list: Reset alone takes totals
\* away from a PID that was not reused.
THEOREM TotalsAreKept ==
    ASSUME LeaderExitsLast
    PROVE  Spec => TotalsSurviveExit
<1>1. [RecordSurvives]_vars <=> [resets' = resets =>
        \A i \in DOMAIN procs :
            procs[i].cum # Zero /\ ~Reused(procs[i].pid) =>
                \/ \E j \in DOMAIN procs' : SameOrGrown(procs[i], procs'[j])
                \/ \E j \in DOMAIN deadProcs' : deadProcs'[j] = procs[i]]_vars
      BY DEF RecordSurvives
<1> QED BY <1>1, SurviveStep, FirstLifeHolds, PTL DEF Spec, TotalsSurviveExit

--------------------------------------------------------------------------------
(* A reused PID gets the name of its new process.                          *)

\* A kernel step takes no announcement of q away, and only the insertion of an
\* entry for q starts one.
LEMMA HeraldKernel ==
    ASSUME TypeOK, FeedNext, NEW q \in Pid
    PROVE  /\ Heralded(q) /\ (entry[q] # NoEntry \/ entry'[q] = NoEntry) => Heralded(q)'
           /\ entry[q] = NoEntry /\ entry'[q] # NoEntry => Heralded(q)'
           /\ entry[q] # NoEntry /\ Emitting(q)' => Emitting(q)
           /\ entry[q] # NoEntry /\ lost[q] => lost'[q]
<1> DEFINE Goal ==
        /\ Heralded(q) /\ (entry[q] # NoEntry \/ entry'[q] = NoEntry) => Heralded(q)'
        /\ entry[q] = NoEntry /\ entry'[q] # NoEntry => Heralded(q)'
        /\ entry[q] # NoEntry /\ Emitting(q)' => Emitting(q)
        /\ entry[q] # NoEntry /\ lost[q] => lost'[q]
<1>t. /\ entry \in [Pid -> Entry] /\ pending \in [Emitter -> Event \cup {NoEvent}]
      /\ ring \in Seq(Event) /\ lost \in [Pid -> BOOLEAN]
      BY DEF TypeOK, FeedTypeOK
\* Steps that insert no entry and leave the announcements alone.
<1>s. ASSUME UNCHANGED <<pending, ring, lost>>, entry[q] = NoEntry => entry'[q] = NoEntry
      PROVE  Goal
      BY <1>s DEF Heralded, Emitting
<1>1. ASSUME NEW p \in Pid, Fork(p) \/ LeaderExit(p) \/ Reap(p) PROVE Goal
  <2>1. entry[q] = NoEntry => entry'[q] = NoEntry
        BY <1>1, <1>t DEF Fork, LeaderExit, Reap
  <2> QED BY <1>1, <1>s, <2>1 DEF Fork, LeaderExit, Reap
<1>2. ASSUME NEW p \in Pid, NEW c \in Counter, Account(p, c) PROVE Goal
  <2>1. entry[q] = NoEntry => entry'[q] = NoEntry
        BY <1>2, <1>t DEF Account
  <2> QED BY <1>2, <1>s, <2>1 DEF Account
<1>3. ASSUME NEW e \in Emitter, NEW p \in Pid, NEW c \in Counter, Insert(e, p, c) PROVE Goal
  <2>1. /\ \A f \in Emitter : f # e => pending'[f] = pending[f]
        /\ pending'[e].pid = p /\ pending[e].pid # q /\ ring' = ring
        BY <1>3, <1>t, PidAssumption DEF Insert, NoEvent
  <2>2. CASE p = q
    <3>1. entry[q] = NoEntry /\ Emitting(q)'
          BY <1>3, <2>1, <2>2 DEF Insert, Emitting
    <3> QED BY <3>1 DEF Heralded
  <2>3. CASE p # q
    <3>1. Emitting(q)' <=> Emitting(q)
          BY <2>1, <2>3 DEF Emitting
    <3>2. lost'[q] = lost[q] /\ entry'[q] = entry[q]
          BY <1>3, <2>3, <1>t DEF Insert
    <3> QED BY <2>1, <3>1, <3>2 DEF Heralded
  <2> QED BY <2>2, <2>3
<1>4. ASSUME NEW e \in Emitter, Emit(e) PROVE Goal
  <2>1. /\ pending[e] \in Event /\ pending'[e].pid # q /\ entry' = entry
        /\ \A f \in Emitter : f # e => pending'[f] = pending[f]
        BY <1>4, <1>t, PidAssumption DEF Emit, NoEvent
  <2>2. Emitting(q)' => Emitting(q)
        BY <2>1 DEF Emitting
  <2>3. lost[q] => lost'[q]
        BY <1>4, <2>1, <1>t DEF Emit, Event
  <2>4. PidsOf(ring) \subseteq PidsOf(ring')
        BY <1>4, <2>1, <1>t, RingPids DEF Emit
  <2>5. Emitting(q) => Heralded(q)'
    <3>1. CASE pending[e].pid = q
      <4>1. ring' = Append(ring, pending[e]) \/ lost'[q]
            BY <1>4, <3>1, <1>t DEF Emit
      <4>2. q \in PidsOf(Append(ring, pending[e]))
            BY <2>1, <3>1, <1>t, RingPids
      <4> QED BY <4>1, <4>2 DEF Heralded
    <3>2. CASE pending[e].pid # q
          BY <2>1, <3>2 DEF Heralded, Emitting
    <3> QED BY <3>1, <3>2
  <2> QED BY <2>1, <2>2, <2>3, <2>4, <2>5 DEF Heralded
<1>5. Goal
  <2> HIDE DEF Goal
  <2> QED BY <1>1, <1>2, <1>3, <1>4 DEF FeedNext
<1> QED BY <1>5

LEMMA NameInit == Init => NameIsComing
BY DEF Init, CollectorInit, NameIsComing

LEMMA NameStep ==
    ASSUME TypeOK, EntryIsOwners, NameIsComing, [Next]_vars
    PROVE  NameIsComing'
<1>p. \A i \in DOMAIN procs : procs[i] \in ProcInfo /\ procs[i].pid \in Pid
  <2>1. \A i \in DOMAIN procs : procs[i] \in ProcInfo
        BY LenProperties DEF TypeOK
  <2> QED BY <2>1 DEF ProcInfo
\* Steps that leave the kernel side alone and add no name.
<1>s. ASSUME UNCHANGED <<gen, entry, pending, ring, lost>>,
             \A j \in DOMAIN procs' : \E i \in DOMAIN procs :
                procs'[j].pid = procs[i].pid /\ procs'[j].name = procs[i].name
      PROVE  NameIsComing'
  <2>1. \A p : Heralded(p)' <=> Heralded(p)
        BY <1>s DEF Heralded, Emitting
  <2> QED BY <1>s, <2>1 DEF NameIsComing
<1>1. CASE Kernel
  <2> SUFFICES ASSUME NEW k \in DOMAIN procs', entry'[procs'[k].pid] # NoEntry,
                      procs'[k].name # gen'[procs'[k].pid]
               PROVE  Heralded(procs[k].pid)'
      BY DEF NameIsComing
  <2> DEFINE q == procs[k].pid
  <2>1. procs' = procs /\ k \in DOMAIN procs /\ q \in Pid
        BY <1>1, <1>p DEF Kernel, collectorVars
  <2>2. CASE entry[q] = NoEntry
        BY <1>1, <2>1, <2>2, HeraldKernel DEF Kernel
  <2>3. CASE entry[q] # NoEntry
    <3>1. phase[q] = "running"
          BY <2>1, <2>3 DEF EntryIsOwners
    <3>2. gen'[q] = gen[q]
      <4>1. gen \in [Pid -> Nat]
            BY DEF TypeOK, FeedTypeOK
      <4> QED BY <1>1, <2>1, <3>1, <4>1 DEF Kernel, FeedNext, Fork, LeaderExit, Reap, Account,
                 Insert, Emit
    <3>3. Heralded(q)
          BY <2>1, <2>3, <3>2 DEF NameIsComing
    <3> QED BY <1>1, <2>1, <2>3, <3>3, HeraldKernel DEF Kernel
  <2> QED BY <2>2, <2>3
<1>2. CASE DrainOne
  <2>1. PICK ev \in Event :
              /\ ring # << >> /\ ev = Head(ring) /\ ring' = Tail(ring)
              /\ UNCHANGED <<phase, gen, entry, pending, lost, pc, resets, shown, base,
                            staleTicks>>
              /\ NameOf(ev) \in Nat
              /\ procs' = ApplyEvent(ev.pid, NameOf(ev))
        BY <1>2, DrainOneFacts
  <2>2. ev.pid \in Pid
        BY DEF Event
  <2> SUFFICES ASSUME NEW k \in DOMAIN procs', entry'[procs'[k].pid] # NoEntry,
                      procs'[k].name # gen'[procs'[k].pid]
               PROVE  Heralded(procs[k].pid)'
      BY DEF NameIsComing
  <2>3. \/ procs'[k] = [pid |-> ev.pid, name |-> NameOf(ev), cum |-> Zero]
        \/ k \in DOMAIN procs /\ procs'[k] = procs[k] /\ procs[k].pid # ev.pid
        BY <2>1, <2>2, ApplyEventRecords
  <2>4. CASE procs'[k] = [pid |-> ev.pid, name |-> NameOf(ev), cum |-> Zero]
    <3>1. procs'[k].pid = ev.pid /\ procs'[k].name = NameOf(ev)
          BY <2>4
    <3>2. phase[ev.pid] = "running"
          BY <2>1, <2>2, <3>1 DEF EntryIsOwners
    <3>3. NameOf(ev) = gen[ev.pid]
          BY <3>2 DEF NameOf
    <3> QED BY <2>1, <3>1, <3>3
  <2>5. CASE k \in DOMAIN procs /\ procs'[k] = procs[k] /\ procs[k].pid # ev.pid
    <3>1. Heralded(procs[k].pid)
          BY <2>1, <2>5 DEF NameIsComing
    <3>2. PidsOf(ring) \subseteq PidsOf(ring') \cup {ev.pid}
          BY <2>1, RingPids DEF TypeOK, FeedTypeOK
    <3> QED BY <2>1, <2>5, <3>1, <3>2 DEF Heralded, Emitting
  <2> QED BY <2>3, <2>4, <2>5
<1>3. CASE CollectRow
      BY <1>3, <1>s, CollectRowFacts DEF feedVars
<1>4. CASE CollectDead
  <2>1. /\ UNCHANGED feedVars /\ Len(procs) \in DOMAIN procs
        /\ \A j \in DOMAIN procs' : \E i \in DOMAIN procs : procs'[j] = procs[i]
        BY <1>4, CollectDeadFacts
  <2> QED BY <2>1, <1>s DEF feedVars
<1>5. CASE Wake \/ DrainDone \/ Publish \/ PublishOversized \/ UNCHANGED vars
  <2>1. UNCHANGED <<gen, entry, pending, ring, lost, procs>>
        BY <1>5 DEF Wake, DrainDone, Publish, PublishOversized, vars, feedVars, collectorVars
  <2> QED BY <2>1, <1>s
<1>6. CASE Reset
  <2>1. /\ UNCHANGED feedVars /\ DOMAIN procs' = DOMAIN procs
        /\ \A i \in DOMAIN procs :
              procs'[i].pid = procs[i].pid /\ procs'[i].name = procs[i].name
        BY <1>6, <1>p DEF Reset, ProcInfo
  <2> QED BY <2>1, <1>s DEF feedVars
<1> QED BY <1>1, <1>2, <1>3, <1>4, <1>5, <1>6 DEF Next, MainLoop

LEMMA StaleInit == Init => StaleIsOver /\ WrongNameOneTick
<1> SUFFICES ASSUME Init, NEW p \in Pid, NEW g \in 1 .. MaxGen PROVE staleTicks[p][g] = 0
    BY DEF Init, CollectorInit, FeedInit, StaleIsOver, StaleOnce, Stale, WrongNameOneTick
<1> QED BY DEF Init, CollectorInit

LEMMA StaleStep ==
    ASSUME LeaderExitsLast, TypeOK, EntryIsOwners, NameIsComing, ProcsUnique,
           WrongNameOneTick, [Next]_vars, NEW q \in Pid, StaleOnce(q)
    PROVE  StaleOnce(q)' /\ \A g \in 1 .. MaxGen : staleTicks'[q][g] <= 1
<1> DEFINE Goal == StaleOnce(q)' /\ \A g \in 1 .. MaxGen : staleTicks'[q][g] <= 1
<1> SUFFICES Goal
    OBVIOUS
<1>t. /\ phase \in [Pid -> {"free", "running", "exiting"}]
      /\ gen \in [Pid -> Nat] /\ entry \in [Pid -> Entry]
      /\ procs \in Seq(ProcInfo) /\ staleTicks \in [Pid -> [1 .. MaxGen -> 0 .. 2]]
      /\ idx \in Nat /\ MaxGen \in Nat
      BY FeedAssumption DEF TypeOK, FeedTypeOK
<1>w. \A g \in 1 .. MaxGen : staleTicks[q][g] \in 0 .. 2 /\ staleTicks[q][g] <= 1
      BY <1>t DEF WrongNameOneTick
<1>p. \A i \in DOMAIN procs : procs[i] \in ProcInfo /\ procs[i].pid \in Pid
  <2>1. \A i \in DOMAIN procs : procs[i] \in ProcInfo
        BY <1>t, LenProperties
  <2> QED BY <2>1 DEF ProcInfo
\* Main loop steps other than a visit of q.
<1>s. ASSUME UNCHANGED <<phase, gen, entry, pending, lost>>, staleTicks'[q] = staleTicks[q],
             entry[q] # NoEntry /\ Stale(q) /\ ~lost[q] /\ pc' = "collect" =>
                \A i \in DOMAIN procs' :
                    procs'[i].pid = q /\ procs'[i].name # gen[q] => i < idx'
      PROVE  Goal
  <2>1. (Stale(q)' <=> Stale(q)) /\ (Emitting(q)' <=> Emitting(q))
        BY <1>s DEF Stale, Emitting
  <2> QED BY <1>s, <2>1, <1>w DEF StaleOnce
<1>1. CASE Kernel
  <2>u. UNCHANGED <<procs, staleTicks, pc, idx>>
        BY <1>1 DEF Kernel, collectorVars, historyVars
  <2>h. /\ entry[q] # NoEntry /\ Emitting(q)' => Emitting(q)
        /\ entry[q] # NoEntry /\ lost[q] => lost'[q]
        BY <1>1, HeraldKernel DEF Kernel
  \* q keeps its process: all that matters is when its entry comes.
  <2>s. ASSUME gen'[q] = gen[q],
               phase'[q] = "running" => phase[q] = "running",
               entry[q] = NoEntry /\ entry'[q] # NoEntry => phase[q] = "running",
               phase'[q] = "running" /\ entry'[q] = NoEntry => entry[q] = NoEntry
        PROVE  Goal
    <3>1. Stale(q)' <=> Stale(q)
          BY <2>u, <2>s DEF Stale
    <3>2. entry[q] = NoEntry /\ entry'[q] # NoEntry => ~Stale(q)
          BY <2>s DEF StaleOnce
    <3> QED BY <2>u, <2>h, <2>s, <3>1, <3>2, <1>w DEF StaleOnce
  <2>1. ASSUME NEW p \in Pid, Fork(p) PROVE Goal
    <3>1. CASE p # q
          BY <2>1, <3>1, <2>s, <1>t DEF Fork
    <3>2. CASE p = q
      <4>1. gen'[q] = gen[q] + 1 /\ entry'[q] = NoEntry
            BY <2>1, <3>2, <1>t DEF Fork, EntryIsOwners
      <4>2. gen[q] \in Nat
            BY <1>t
      <4>3. \A g \in 1 .. MaxGen : g >= gen[q] + 1 => staleTicks[q][g] = 0
            BY <4>2 DEF StaleOnce
      <4>4. ~Stale(q)'
            BY <2>u, <4>1, <4>2, <4>3 DEF Stale
      <4>5. \A g \in 1 .. MaxGen : g > gen'[q] => staleTicks'[q][g] = 0
            BY <2>u, <4>1, <4>2, <4>3
      <4> QED BY <2>u, <4>1, <4>4, <4>5, <1>w DEF StaleOnce
    <3> QED BY <3>1, <3>2
  <2>2. ASSUME NEW p \in Pid, LeaderExit(p) \/ Reap(p) PROVE Goal
        BY <2>2, <2>s, <1>t DEF LeaderExit, Reap
  <2>3. ASSUME NEW p \in Pid, NEW c \in Counter, Account(p, c) PROVE Goal
    <3>1. entry[p].owner # 0
          BY <2>3, PresentIsRunning DEF Account
    <3>2. entry'[p] # NoEntry
          BY <2>3, <3>1, <1>t DEF Account, NoEntry
    <3> QED BY <2>3, <3>2, <2>s, <1>t DEF Account
  <2>4. ASSUME NEW e \in Emitter, NEW p \in Pid, NEW c \in Counter, Insert(e, p, c)
        PROVE  Goal
        BY <2>4, <2>s, <1>t DEF Insert, CanAccount
  <2>5. ASSUME NEW e \in Emitter, Emit(e) PROVE Goal
        BY <2>5, <2>s DEF Emit
  <2> HIDE DEF Goal
  <2> QED BY <1>1, <2>1, <2>2, <2>3, <2>4, <2>5 DEF Kernel, FeedNext
<1>2. CASE DrainOne
  <2>1. UNCHANGED <<phase, gen, entry, pending, lost, pc, staleTicks>> /\ pc = "drain"
        BY <1>2, DrainOneFacts DEF DrainOne
  <2> QED BY <2>1, <1>s
<1>3. CASE DrainDone
  <2>1. /\ UNCHANGED <<phase, gen, entry, pending, lost, staleTicks, procs>>
        /\ ring = << >>
        BY <1>3 DEF DrainDone, feedVars, historyVars
  <2>2. ASSUME entry[q] # NoEntry, Stale(q), ~lost[q],
               NEW i \in DOMAIN procs, procs[i].pid = q, procs[i].name # gen[q]
        PROVE  FALSE
    <3>1. Heralded(q)
          BY <2>2 DEF NameIsComing
    <3>2. ~Emitting(q)
          BY <2>2 DEF StaleOnce
    <3> QED BY <2>1, <2>2, <3>1, <3>2 DEF Heralded, PidsOf
  <2> QED BY <2>1, <2>2, <1>s
<1>4. CASE CollectRow
  <2> DEFINE r == procs[idx]
             p == procs[idx].pid
  <2>1. /\ idx \in DOMAIN procs /\ p \in Pid /\ entry[p] # NoEntry /\ pc = "collect"
        /\ UNCHANGED <<phase, gen, entry, pending, lost, pc>>
        /\ DOMAIN procs' = DOMAIN procs /\ idx' = idx + 1
        /\ \A i \in DOMAIN procs :
              procs'[i].pid = procs[i].pid /\ procs'[i].name = procs[i].name
        /\ q # p => staleTicks'[q] = staleTicks[q]
        BY <1>4, <1>p, CollectRowFacts DEF feedVars
  <2>2. \A i \in DOMAIN procs : i < idx => i < idx'
    <3>1. DOMAIN procs = 1 .. Len(procs) /\ Len(procs) \in Nat
          BY <1>t, LenProperties
    <3> QED BY <2>1, <3>1, <1>t
  <2>3. CASE p # q
    <3>1. ASSUME entry[q] # NoEntry, Stale(q), ~lost[q],
                 NEW i \in DOMAIN procs, procs[i].pid = q, procs[i].name # gen[q]
          PROVE  i < idx'
          BY <2>1, <2>2, <3>1 DEF StaleOnce
    <3> QED BY <2>1, <2>3, <3>1, <1>s
  <2>4. CASE p = q
    <3> DEFINE n == staleTicks[q][gen[q]]
               counted == IF Misnamed(r) /\ n < 2 THEN n + 1 ELSE n
    <3>1. entry[q].owner = gen[q] /\ gen[q] \in Nat \ {0} /\ phase[q] = "running"
          BY <2>1, <2>4, PresentIsRunning
    <3>2. staleTicks' = [staleTicks EXCEPT ![q][gen[q]] = counted]
          BY <1>4, <2>4, <3>1 DEF CollectRow
    <3>3. staleTicks'[q] = [staleTicks[q] EXCEPT ![gen[q]] = counted]
          BY <3>2, <1>t
    <3>4. \A g \in 1 .. MaxGen : g # gen[q] => staleTicks'[q][g] = staleTicks[q][g]
          BY <3>3, <1>t
    <3>5. gen[q] \in 1 .. MaxGen => staleTicks'[q][gen[q]] = counted /\ n \in 0 .. 1
          BY <3>3, <1>t, <1>w
    \* A second wrong row would need the record to be visited twice in a tick.
    <3>6. ASSUME Misnamed(r), Stale(q) PROVE FALSE
      <4>1. r.name # gen[q] /\ ~lost[q] /\ r.pid = q
            BY <2>4, <3>1, <3>6 DEF Misnamed
      <4>2. idx < idx
            BY <2>1, <2>4, <3>6, <4>1 DEF StaleOnce
      <4> QED BY <4>2, <1>t
    <3>7. gen[q] \in 1 .. MaxGen => counted <= 1
      <4>1. ASSUME gen[q] \in 1 .. MaxGen, Misnamed(r) PROVE n = 0
            BY <3>5, <3>6, <4>1 DEF Stale
      <4> HIDE DEF n
      <4> QED BY <3>5, <4>1
    <3>8. \A g \in 1 .. MaxGen : staleTicks'[q][g] <= 1
          BY <3>4, <3>5, <3>7, <1>w
    <3>9. \A g \in 1 .. MaxGen : g > gen'[q] => staleTicks'[q][g] = 0
          BY <2>1, <3>1, <3>4 DEF StaleOnce
    <3>10. Emitting(q)' <=> Emitting(q)
          BY <2>1 DEF Emitting
    <3>11. ASSUME Stale(q)' PROVE Misnamed(r) \/ Stale(q)
      <4>1. gen[q] \in 1 .. MaxGen /\ counted > 0
            BY <2>1, <3>5, <3>11 DEF Stale
      <4> QED BY <4>1 DEF Stale
    <3>12. Stale(q)' => ~Emitting(q)
          BY <2>1, <2>4, <3>11 DEF Misnamed, StaleOnce
    <3>13. ASSUME NEW i \in DOMAIN procs', procs'[i].pid = q PROVE i < idx'
      <4>1. i = idx
            BY <2>1, <2>4, <3>13 DEF ProcsUnique
      <4> QED BY <2>1, <4>1, <1>t
    <3> HIDE DEF n, counted
    <3> QED BY <2>1, <2>4, <3>8, <3>9, <3>10, <3>12, <3>13 DEF StaleOnce
  <2> QED BY <2>3, <2>4
<1>5. CASE CollectDead
  <2>1. /\ UNCHANGED <<phase, gen, entry, pending, lost, pc, idx, staleTicks>>
        /\ idx <= Len(procs) /\ Len(procs) \in DOMAIN procs
        /\ \A j \in DOMAIN procs' :
              /\ j \in DOMAIN procs
              /\ j # idx => procs'[j] = procs[j]
              /\ j = idx => procs'[j] = procs[Len(procs)]
        BY <1>5, CollectDeadFacts DEF feedVars
  <2>2. ASSUME entry[q] # NoEntry, Stale(q), ~lost[q], pc' = "collect",
               NEW j \in DOMAIN procs', procs'[j].pid = q, procs'[j].name # gen[q]
        PROVE  j < idx'
    <3>1. \A i \in DOMAIN procs : procs[i].pid = q /\ procs[i].name # gen[q] => i < idx
          BY <2>1, <2>2 DEF StaleOnce
    <3>2. CASE j # idx
          BY <2>1, <2>2, <3>1, <3>2
    <3>3. CASE j = idx
      <4>1. Len(procs) < idx
            BY <2>1, <2>2, <3>1, <3>3
      <4>2. Len(procs) \in Nat
            BY <1>t, LenProperties
      <4> QED BY <2>1, <4>1, <4>2, <1>t
    <3> QED BY <3>2, <3>3
  <2> QED BY <2>1, <2>2, <1>s
<1>6. CASE Wake \/ Publish \/ PublishOversized \/ Reset
  <2>1. UNCHANGED <<phase, gen, entry, pending, lost, staleTicks>> /\ pc' # "collect"
        BY <1>6 DEF Wake, Publish, PublishOversized, Reset, feedVars, historyVars
  <2> QED BY <2>1, <1>s
<1>7. CASE UNCHANGED vars
  <2>1. UNCHANGED <<phase, gen, entry, pending, lost, staleTicks, pc, procs, idx>>
        BY <1>7 DEF vars, feedVars, collectorVars, historyVars
  <2> QED BY <2>1, <1>s DEF StaleOnce
<1> HIDE DEF Goal
<1> QED BY <1>1, <1>2, <1>3, <1>4, <1>5, <1>6, <1>7 DEF Next, MainLoop

\* Once the start event of a process is in the ring, one row at most bears the
\* name of another: apply_event renames the record before collect_rows comes to
\* it again, whatever number of processes has used the PID, with events dropped
\* for other processes, lookups failing and resets.
THEOREM WrongNameLastsOneTick ==
    ASSUME LeaderExitsLast
    PROVE  Spec => []WrongNameOneTick
<1> DEFINE Life == /\ TypeOK /\ ProcsUnique /\ EntryIsOwners /\ NameIsComing
                   /\ StaleIsOver /\ WrongNameOneTick
<1>1. Init => Life
      BY TypeInit, UniqueInit, OwnersInit, NameInit, StaleInit
<1>2. Life /\ [Next]_vars => Life'
  <2> SUFFICES ASSUME Life, [Next]_vars PROVE Life'
      OBVIOUS
  <2>1. TypeOK' /\ ProcsUnique' /\ EntryIsOwners' /\ NameIsComing'
        BY TypeStep, UniqueStep, OwnersStep, NameStep
  <2>2. StaleIsOver' /\ WrongNameOneTick'
        BY StaleStep DEF StaleIsOver, WrongNameOneTick
  <2> QED BY <2>1, <2>2
<1> QED BY <1>1, <1>2, PTL DEF Spec
================================================================================
