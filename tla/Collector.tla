------------------------------- MODULE Collector -------------------------------
(***************************************************************************)
(* The daemon's main loop (procnetd/src/app.rs) and the StatsCollector it  *)
(* owns (procnet-core/src/stats.rs): every tick it drains the start events *)
(* and reads each known process's entry, against a kernel side (StatsFeed) *)
(* that keeps moving between any two of its steps.                         *)
(*                                                                         *)
(* The state lock is held from Wake to Publish; the threads that execute   *)
(* client commands (Reset) get it only while pc = "idle".                  *)
(***************************************************************************)
EXTENDS StatsFeed

CONSTANTS
    DeadProcLimit,      \* DEAD_PROC_LIMIT
    FrameMax,           \* u16::MAX: the longest payload write_msg can frame
    RowLen, DeadLen,    \* encoded size of a row and of a dead process
    LookupMayFail,      \* can the lookup_percpu system call fail?
    MaxResets           \* bound: Reset commands in one behaviour

ASSUME CollectorAssumption ==
    /\ DeadProcLimit \in Nat \ {0}
    /\ FrameMax \in Nat /\ RowLen \in Nat /\ DeadLen \in Nat
    /\ LookupMayFail \in BOOLEAN
    /\ MaxResets \in Nat

VARIABLES
    pc,         \* "idle" (lock free), "drain", "collect", "exited"
    procs,      \* StatsCollector::procs, a Vec<ProcInfo>
    deadProcs,  \* StatsCollector::dead_procs
    rows,       \* the row buffer; the published rows while pc = "idle"
    idx,        \* collect_rows's index, 1-based
    resets,     \* history: Reset commands executed
    shown,      \* history: units ever displayed as per-tick traffic of p
    base,       \* history: shown at the last Reset
    staleTicks, \* history: rows of p's incarnation g that bear another's name (0..2)
    misread     \* history: PIDs dropped because the lookup failed

historyVars == <<resets, shown, base, staleTicks, misread>>
collectorVars == <<pc, procs, deadProcs, rows, idx, historyVars>>
vars == <<feedVars, collectorVars>>

Zero == [c \in Counter |-> 0]

\* The generation stands for the process name, as in StatsFeed.
ProcInfo == [pid : Pid, name : Nat, cum : Bytes]
StatsRow == [pid : Pid, name : Nat, delta : Bytes, cum : Bytes]

PidsOf(s) == {s[i].pid : i \in DOMAIN s}

CollectorInit ==
    /\ pc = "idle"
    /\ procs = << >>
    /\ deadProcs = << >>
    /\ rows = << >>
    /\ idx = 1
    /\ resets = 0
    /\ shown = [p \in Pid |-> Zero] /\ base = shown
    /\ staleTicks = [p \in Pid |-> [g \in 1 .. MaxGen |-> 0]]
    /\ misread = {}

Init == FeedInit /\ CollectorInit

--------------------------------------------------------------------------------
(* Draining the start events.                                              *)

\* The next iteration of the loop takes the state lock.
Wake ==
    /\ pc = "idle"
    /\ pc' = "drain"
    /\ UNCHANGED <<feedVars, procs, deadProcs, rows, idx, historyVars>>

\* parse_proc_event asks /proc for the name, so the PID's present holder gives
\* the name; the event's own comm is used when there is none.
NameOf(event) ==
    IF phase[event.pid] = "free" THEN event.owner ELSE gen[event.pid]

\* Mutants of ApplyEvent: the record of a reused PID is left as it is; a second
\* record is added for it; an unknown PID is ignored.
ApplyEventKeepsOld(pid, name) ==
    IF pid \in PidsOf(procs) THEN procs
    ELSE Append(procs, [pid |-> pid, name |-> name, cum |-> Zero])
ApplyEventAppends(pid, name) ==
    Append(procs, [pid |-> pid, name |-> name, cum |-> Zero])
ApplyEventKnownOnly(pid, name) ==
    [i \in DOMAIN procs |->
        IF procs[i].pid = pid THEN [pid |-> pid, name |-> name, cum |-> Zero]
                              ELSE procs[i]]

\* apply_event: a record of that PID is renamed and restarted, or one is added.
ApplyEvent(pid, name) ==
    LET fresh == [pid |-> pid, name |-> name, cum |-> Zero]
    IN  IF pid \in PidsOf(procs)
        THEN [i \in DOMAIN procs |-> IF procs[i].pid = pid THEN fresh ELSE procs[i]]
        ELSE Append(procs, fresh)

\* One record is consumed and applied.  The code applies the drained events
\* after the last one is read; only this thread sees procs in between.
DrainOne ==
    /\ pc = "drain"
    /\ Consume
    /\ procs' = ApplyEvent(Head(ring).pid, NameOf(Head(ring)))
    /\ UNCHANGED <<pc, deadProcs, rows, idx, historyVars>>

\* Mutant of DrainDone: the row buffer is not cleared.
DrainDoneKeepsRows ==
    /\ pc = "drain"
    /\ ring = << >>
    /\ pc' = "collect"
    /\ idx' = 1
    /\ UNCHANGED <<feedVars, procs, deadProcs, rows, historyVars>>

\* The ring is found empty; collect_rows starts with a cleared buffer.
DrainDone ==
    /\ pc = "drain"
    /\ ring = << >>
    /\ pc' = "collect"
    /\ rows' = << >>
    /\ idx' = 1
    /\ UNCHANGED <<feedVars, procs, deadProcs, historyVars>>

--------------------------------------------------------------------------------
(* collect_rows.                                                           *)

\* Mutant of SaturatingSub: the row shows the total.
SubNothing(f, g) == f

SaturatingSub(f, g) == [c \in Counter |-> IF f[c] >= g[c] THEN f[c] - g[c] ELSE 0]

\* Mutants of SwapRemove: the last element goes instead; nothing is removed.
PopLast(s, i) == SubSeq(s, 1, Len(s) - 1)
RemoveNothing(s, i) == s

\* Vec::swap_remove: the last element takes the place of the removed one.
SwapRemove(s, i) ==
    [j \in 1 .. Len(s) - 1 |-> IF j = i THEN s[Len(s)] ELSE s[j]]

\* A CPU has inserted the entry of p and not yet emitted its event.
Emitting(p) == \E e \in Emitter : pending[e].pid = p

\* History: the record's name is not its entry's, although the start event is out
\* (neither waiting in account_bytes nor dropped by a full ring).
Misnamed(proc) ==
    /\ proc.name # entry[proc.pid].owner
    /\ ~Emitting(proc.pid)
    /\ ~lost[proc.pid]

\* The entry is there: its counters become a row.
CollectRow ==
    /\ pc = "collect"
    /\ idx <= Len(procs)
    /\ LET proc  == procs[idx]
           bytes == entry[proc.pid].bytes
           delta == SaturatingSub(bytes, proc.cum)
       IN  /\ entry[proc.pid] # NoEntry
           /\ procs' = [procs EXCEPT ![idx].cum = bytes]
           /\ rows' = Append(rows, [pid |-> proc.pid, name |-> proc.name,
                                    delta |-> delta, cum |-> bytes])
           /\ shown' = [shown EXCEPT ![proc.pid] =
                           [c \in Counter |-> @[c] + delta[c]]]
           /\ staleTicks' =
                [staleTicks EXCEPT ![proc.pid][entry[proc.pid].owner] =
                    IF Misnamed(proc) /\ @ < 2 THEN @ + 1 ELSE @]
    /\ idx' = idx + 1
    /\ UNCHANGED <<feedVars, pc, deadProcs, resets, base, misread>>

\* dead_procs.push, then remove(0) beyond the limit.
PushDead(proc) ==
    IF Len(deadProcs) + 1 > DeadProcLimit
    THEN Tail(Append(deadProcs, proc))
    ELSE Append(deadProcs, proc)

\* No entry, or a failed lookup that reads like one (stats_map.rs): the record
\* leaves procs, and idx stays to visit the element swapped into its place.
CollectDead ==
    /\ pc = "collect"
    /\ idx <= Len(procs)
    /\ LET proc == procs[idx]
       IN  /\ \/ entry[proc.pid] = NoEntry /\ UNCHANGED misread
              \/ LookupMayFail /\ misread' = misread \cup {proc.pid}
           /\ procs' = SwapRemove(procs, idx)
           /\ deadProcs' = PushDead(proc)
    /\ UNCHANGED <<feedVars, pc, rows, idx, resets, shown, base, staleTicks>>

--------------------------------------------------------------------------------
(* Publishing, and the command that touches the collector.                 *)

FrameLen == RowLen * Len(rows) + DeadLen * Len(deadProcs)

\* The snapshot is encoded and the state lock released.
Publish ==
    /\ pc = "collect"
    /\ idx > Len(procs)
    /\ FrameLen <= FrameMax
    /\ pc' = "idle"
    /\ UNCHANGED <<feedVars, procs, deadProcs, rows, idx, historyVars>>

\* write_msg refuses the snapshot (Oversized) and run returns the error.
PublishOversized ==
    /\ pc = "collect"
    /\ idx > Len(procs)
    /\ FrameLen > FrameMax
    /\ pc' = "exited"
    /\ UNCHANGED <<feedVars, procs, deadProcs, rows, idx, historyVars>>

\* DaemonState::update(Reset), on a connection thread.
Reset ==
    /\ pc = "idle"
    /\ resets < MaxResets
    /\ procs' = [i \in DOMAIN procs |-> [procs[i] EXCEPT !.cum = Zero]]
    /\ deadProcs' = << >>
    /\ resets' = resets + 1 /\ base' = shown
    /\ UNCHANGED <<feedVars, pc, rows, idx, shown, staleTicks, misread>>

Kernel == FeedNext /\ UNCHANGED collectorVars

MainLoop ==
    Wake \/ DrainOne \/ DrainDone \/ CollectRow \/ CollectDead
        \/ Publish \/ PublishOversized

Next == Kernel \/ MainLoop \/ Reset

Spec == Init /\ [][Next]_vars

\* The main thread keeps running, and so does a CPU inside account_bytes.
FairSpec ==
    /\ Spec
    /\ WF_vars(MainLoop)
    /\ \A e \in Emitter : WF_vars(Emit(e) /\ UNCHANGED collectorVars)

--------------------------------------------------------------------------------
(* Properties.                                                             *)

TypeOK ==
    /\ FeedTypeOK
    /\ pc \in {"idle", "drain", "collect", "exited"}
    /\ procs \in Seq(ProcInfo)
    /\ deadProcs \in Seq(ProcInfo) /\ Len(deadProcs) <= DeadProcLimit
    /\ rows \in Seq(StatsRow)
    /\ idx \in Nat \ {0}
    /\ resets \in Nat
    /\ shown \in [Pid -> Bytes] /\ base \in [Pid -> Bytes]
    /\ staleTicks \in [Pid -> [1 .. MaxGen -> 0 .. 2]]
    /\ misread \subseteq Pid

\* A PID has at most one record: apply_event's find sees the one to restart,
\* and swap_remove never duplicates the element it moves.
ProcsUnique ==
    \A i, j \in DOMAIN procs : procs[i].pid = procs[j].pid => i = j

\* While collect_rows runs, the rows pushed so far are exactly the records it
\* has passed, in order and with the totals just read: removing a dead record in
\* the middle neither skips nor repeats one.
RowsMirrorProcs ==
    pc = "collect" =>
        /\ Len(rows) = idx - 1
        /\ idx <= Len(procs) + 1
        /\ \A i \in DOMAIN rows :
              /\ rows[i].pid = procs[i].pid
              /\ rows[i].name = procs[i].name
              /\ rows[i].cum = procs[i].cum

\* No process with an entry in STATS is unknown to the daemon, unless its event
\* is still on the way (in the ring, or pending inside account_bytes), was
\* dropped by a full ring, or its lookup failed once.
Announced(p) ==
    \/ p \in PidsOf(procs)
    \/ p \in PidsOf(ring)
    \/ Emitting(p)
NoSilentProcess ==
    \A p \in Present : Announced(p) \/ lost[p] \/ p \in misread

\* The PID has had a second holder, whose event restarts the record.
Reused(p) == gen[p] > 1

\* The per-tick figures a client was shown for a process since the last Reset add
\* up to the total of its record: no unit is displayed twice and none is skipped
\* between two ticks, however the kernel's additions fall between the reads, whenever
\* a Reset comes and whatever happens to other PIDs.
DeltasAddUp ==
    \A i \in DOMAIN procs :
        LET p == procs[i].pid
        IN  ~Reused(p) => \A c \in Counter :
                procs[i].cum[c] + base[p][c] = shown[p][c]

\* No unit of traffic appears in the per-tick figures of two snapshots: what was
\* shown for a process so far never exceeds what the kernel counted for it.
NothingShownTwice ==
    \A p \in Present, c \in Counter : shown[p][c] <= entry[p].bytes[c]

\* Totals of a process that used the network are never thrown away: a record
\* stays, with totals that only grow, until it is moved to the dead list.
SameOrGrown(old, new) ==
    /\ new.pid = old.pid
    /\ new.name = old.name
    /\ \A c \in Counter : new.cum[c] >= old.cum[c]
TotalsSurviveExit ==
    [][resets' = resets =>
        \A i \in DOMAIN procs :
            procs[i].cum # Zero /\ ~Reused(procs[i].pid) =>
                \/ \E j \in DOMAIN procs' : SameOrGrown(procs[i], procs'[j])
                \/ \E j \in DOMAIN deadProcs' : deadProcs'[j] = procs[i]]_vars

\* The known quirk of docs/plan.md: after a PID is reused, the old name is shown
\* with the new process's traffic for one tick at most, counted over the whole
\* life of that process and from the moment its start event is in the ring.
WrongNameOneTick ==
    \A p \in Pid, g \in 1 .. MaxGen : staleTicks[p][g] <= 1

\* A process whose event was not dropped gets a row, unless it is gone first.
StartedIsShown ==
    \A p \in Pid :
        p \in Present ~> \/ p \in PidsOf(rows)
                         \/ p \notin Present \/ lost[p] \/ p \in misread

\* The record of a process whose entry was deleted leaves procs, unless the PID
\* is in use again by then.
ExitIsNoticed ==
    \A p \in Pid :
        p \in PidsOf(procs) /\ p \notin Present ~>
            p \notin PidsOf(procs) \/ p \in Present

--------------------------------------------------------------------------------
(* What the proofs of the properties need besides, when all threads of a   *)
(* process exit before its leader.                                         *)

\* An entry is that of the process that runs under its PID.
EntryIsOwners ==
    \A p \in Pid :
        /\ gen[p] = 0 => phase[p] = "free"
        /\ entry[p] # NoEntry =>
              /\ phase[p] = "running"
              /\ entry[p].owner = gen[p]

\* The first process under a PID inserts one entry, so it is announced at most
\* once, and nothing is known of it to the daemon before the announcement.
Unseen(p) == p \notin PidsOf(procs) /\ shown[p] = Zero /\ base[p] = Zero
Silent(p) == gen[p] = 0 \/ (phase[p] = "running" /\ entry[p] = NoEntry)
AnnouncedOnce(p) ==
    /\ Silent(p) => ~Emitting(p) /\ p \notin PidsOf(ring) /\ Unseen(p)
    /\ Emitting(p) => p \notin PidsOf(ring) /\ Unseen(p)
    /\ p \in PidsOf(ring) => Unseen(p)
    /\ \A e, f \in Emitter : pending[e].pid = p /\ pending[f].pid = p => e = f
    /\ \A i, j \in DOMAIN ring : ring[i].pid = p /\ ring[j].pid = p => i = j
FirstIsAnnouncedOnce == \A p \in Pid : ~Reused(p) => AnnouncedOnce(p)

\* The totals of a record are those of the last read: never ahead of the entry
\* and what was shown since the last Reset.
Follows(proc) ==
    ~Reused(proc.pid) =>
        /\ \A c \in Counter : proc.cum[c] + base[proc.pid][c] = shown[proc.pid][c]
        /\ entry[proc.pid] # NoEntry =>
              \A c \in Counter : proc.cum[c] <= entry[proc.pid].bytes[c]
RecordsFollow == \A i \in DOMAIN procs : Follows(procs[i])

\* A record without the name of the running process will get it.
Heralded(p) == Emitting(p) \/ p \in PidsOf(ring) \/ lost[p]
NameIsComing ==
    \A i \in DOMAIN procs :
        entry[procs[i].pid] # NoEntry /\ procs[i].name # gen[procs[i].pid] =>
            Heralded(procs[i].pid)

\* After a row under a wrong name the event of that process is on its way, and
\* the rest of the tick does not visit the record again.
Stale(p) == gen[p] \in 1 .. MaxGen /\ staleTicks[p][gen[p]] > 0
StaleOnce(p) ==
    /\ \A g \in 1 .. MaxGen : g > gen[p] => staleTicks[p][g] = 0
    /\ phase[p] = "running" /\ entry[p] = NoEntry => ~Stale(p)
    /\ entry[p] # NoEntry /\ Stale(p) =>
          /\ ~Emitting(p)
          /\ pc = "collect" /\ ~lost[p] =>
                \A i \in DOMAIN procs :
                    procs[i].pid = p /\ procs[i].name # gen[p] => i < idx
StaleIsOver == \A p \in Pid : StaleOnce(p)
================================================================================
