-------------------------------- MODULE MapRead --------------------------------
(***************************************************************************)
(* The daemon's lookup_percpu (procnetd/src/stats_map.rs) running against  *)
(* the eBPF programs.  The system call finds the element and copies its    *)
(* values CPU after CPU, without a lock: a program may update a value      *)
(* while it is copied, and the element may be deleted and linked under     *)
(* another PID before the copy is complete.  Collector takes a lookup to   *)
(* be one step; the properties here say how far that is so.                *)
(***************************************************************************)
EXTENDS Merge

VARIABLES
    look,       \* the lookup in progress: PID, element, and who inserted it
    left,       \* the fields of the per-CPU values still to be copied
    copy,       \* copy[c]: what was copied of CPU c's value
    floor,      \* history: the values when the lookup found the element
    relinked,   \* history: was the element linked again since?
    last,       \* history: last[p]: whose totals the last row of p showed, and them
    dest        \* history: dest[p]: endpoints the present process p used

readVars == <<look, left, copy, floor, relinked, last, dest>>

NoLook == [pid |-> 0, slot |-> 0, owner |-> 0]
NoRow == [owner |-> 0, bytes |-> NoUnits]
EmptyValues == [c \in Cpu |-> EmptyStats]

\* The fields of struct ProcStats that are in use, and their order in it.
InUse == Op \cup {ProtocolOf(op) : op \in Op}
Offset == [tcp_send |-> 0, tcp_recv |-> 1, tcp |-> 2,
           udp_send |-> 3, udp_recv |-> 4, udp |-> 5]

\* lookup_percpu receives the values CPU after CPU.
AllFields == Cpu \X InUse
Before(g, h) == g[1] < h[1] \/ (g[1] = h[1] /\ Offset[g[2]] < Offset[h[2]])

ReadInit ==
    /\ Init
    /\ look = NoLook /\ left = {}
    /\ copy = EmptyValues /\ floor = EmptyValues /\ relinked = FALSE
    /\ last = [p \in Pid |-> NoRow] /\ dest = [p \in Pid |-> {}]

\* The element of PID p is found (without one, the process has left).
LookupPercpu(p) ==
    /\ look = NoLook
    /\ \E s \in Slot :
        /\ key[s] = p
        /\ look' = [pid |-> p, slot |-> s, owner |-> owner[s]]
        /\ floor' = value[s]
    /\ left' = AllFields
    /\ UNCHANGED <<vars, copy, relinked, last, dest>>

\* The longs of a value are copied in ascending order: an update can fall between
\* any two of them.
CopyField ==
    /\ \E g \in left :
          /\ \A h \in left \ {g} : Before(g, h)
          /\ left' = left \ {g}
          /\ LET c == g[1]
                 f == g[2]
                 v == value[look.slot][c]
             IN  copy' = [copy EXCEPT ![c] =
                    [bytes |-> [op \in Op |->
                        IF f = op THEN v.bytes[op] ELSE copy[c].bytes[op]],
                     addr  |-> [x \in Protocol |->
                        IF f = x THEN v.addr[x] ELSE copy[c].addr[x]]]]
    /\ UNCHANGED <<vars, look, floor, relinked, last, dest>>

\* The copied values are complete and merged into the row of look.pid.
Complete == look # NoLook /\ left = {}
MergedRow == MergeValues(copy)

TakeRow ==
    /\ Complete
    /\ look' = NoLook
    /\ last' = [last EXCEPT ![look.pid] =
          IF relinked THEN NoRow ELSE [owner |-> look.owner, bytes |-> MergedRow.bytes]]
    /\ copy' = EmptyValues /\ floor' = EmptyValues /\ relinked' = FALSE
    /\ UNCHANGED <<vars, left, dest>>

\* A step of the kernel, with what the histories make of it.
KernelStep ==
    /\ Next
    /\ relinked' = \/ relinked
                   \/ look # NoLook /\ key'[look.slot] \notin {0, key[look.slot]}
    /\ dest' = [p \in Pid |->
          (IF gen'[p] = gen[p] THEN dest[p] ELSE {}) \cup
          {<<ProtocolOf(job'[c].op), job'[c].addr>> :
               c \in {d \in Cpu : job[d] = Idle /\ job'[d] # Idle
                                    /\ Tgid(job'[d].thread) = p}}]
    /\ UNCHANGED <<look, left, copy, floor, last>>

ReadNext ==
    \/ KernelStep
    \/ \E p \in Pid : LookupPercpu(p)
    \/ CopyField \/ TakeRow

ReadSpec == ReadInit /\ [][ReadNext]_<<vars, readVars>>

--------------------------------------------------------------------------------
(* Properties.                                                             *)

\* A lookup that runs while several CPUs count shows, for each counter, no less
\* than a lookup in one step would have shown when it began and no more than one
\* would show when it ends, and an endpoint where there was one: so the totals
\* collect_rows compares never go back.  (An element that is linked again under way
\* may give anything.)
ReadIsWithin ==
    Complete /\ ~relinked =>
        /\ \A op \in Op :
              /\ MergeValues(floor).bytes[op] <= MergedRow.bytes[op]
              /\ MergedRow.bytes[op] <= MergeValues(value[look.slot]).bytes[op]
        /\ \A x \in Protocol :
              MergeValues(floor).addr[x] # NoAddr => MergedRow.addr[x] # NoAddr

\* From one row of a process to the next no total goes back, whatever is counted
\* while either is copied: the saturating subtraction of collect_rows loses nothing.
RowsNeverGoBack ==
    Complete /\ ~relinked /\ last[look.pid].owner = look.owner =>
        \A op \in Op : last[look.pid].bytes[op] <= MergedRow.bytes[op]

\* A row shows no unit its process has not moved, or that was given up: nothing of
\* an earlier process under that PID or in that element, and nothing twice.
RowWasMoved ==
    Complete /\ ~relinked /\ look.owner = gen[look.pid] =>
        \A op \in Op :
            MergedRow.bytes[op] + missed[look.pid][op] <= moved[look.pid][op]

\* The endpoint a row shows for a protocol is one the process itself used with that
\* protocol, not one left in the element by an earlier process or another CPU.
ShownEndpointIsOwn ==
    Complete /\ ~relinked /\ look.owner = gen[look.pid] =>
        \A x \in Protocol :
            MergedRow.addr[x] # NoAddr => <<x, MergedRow.addr[x]>> \in dest[look.pid]

--------------------------------------------------------------------------------
(* What the proofs add to make these inductive.                            *)

ReadTypeOK ==
    /\ look \in [pid : Pid, slot : Slot, owner : Nat] \cup {NoLook}
    /\ left \subseteq AllFields /\ relinked \in BOOLEAN
    /\ copy \in [Cpu -> ProcStats] /\ floor \in [Cpu -> ProcStats]
    /\ look = NoLook => left = {} /\ copy = EmptyValues /\ ~relinked
    /\ last \in [Pid -> [owner : Nat, bytes : [Op -> Nat]]]

\* An endpoint is recorded for the protocols of the operations only.
UnusedIsEmpty ==
    \A s \in Slot, c \in Cpu, x \in Protocol :
        value[s][c].addr[x] # NoAddr => x \in InUse

\* Every counter of v is at most that of w, and w has an endpoint where v has one.
NoMore(v, w) ==
    /\ \A c \in Cpu, op \in Op : v[c].bytes[op] <= w[c].bytes[op]
    /\ \A c \in Cpu, x \in Protocol : v[c].addr[x] # NoAddr => w[c].addr[x] # NoAddr

\* A field that was copied lies between what it was and what it is.
CopiedIsBetween ==
    look # NoLook /\ ~relinked =>
        /\ NoMore(floor, value[look.slot])
        /\ \A c \in Cpu, op \in Op : <<c, op>> \notin left =>
              /\ floor[c].bytes[op] <= copy[c].bytes[op]
              /\ copy[c].bytes[op] <= value[look.slot][c].bytes[op]
        /\ \A c \in Cpu, x \in Protocol :
              <<c, x>> \notin left /\ floor[c].addr[x] # NoAddr => copy[c].addr[x] # NoAddr

\* A process inserts its element once: while it runs, the one a row was or is being
\* read from is linked and ahead of that row (LeaderExitsLast).
RowsAreBehind ==
    /\ \A p \in Pid :
          /\ last[p].owner <= gen[p]
          /\ phase[p] = "running" /\ last[p].owner = gen[p] => Linked(p)
          /\ \A s \in Slot, op \in Op : key[s] = p /\ last[p].owner = gen[p] =>
                last[p].bytes[op] <= MergeValues(value[s]).bytes[op]
    /\ look # NoLook /\ ~relinked =>
          /\ last[look.pid].owner = look.owner => \A op \in Op :
                last[look.pid].bytes[op] <= MergeValues(floor).bytes[op]
          /\ look.owner = gen[look.pid] /\ phase[look.pid] = "running" =>
                key[look.slot] = look.pid

\* The counters being copied are units of the process, also after its exit.
CopiesAreMoved ==
    look # NoLook /\ ~relinked /\ look.owner = gen[look.pid] => \A op \in Op :
        MergeValues(value[look.slot]).bytes[op] + missed[look.pid][op] <= moved[look.pid][op]

\* The endpoints in the values v are among those of D.
Within(v, D) ==
    \A c \in Cpu, x \in Protocol : v[c].addr[x] # NoAddr => <<x, v[c].addr[x]>> \in D

\* Programs, elements and copies hold endpoints of their own process only, as
\* long as that lives and its element is not linked again (LeaderExitsLast).
EndpointsAreOwn ==
    /\ \A c \in Cpu : job[c] # Idle =>
          <<ProtocolOf(job[c].op), job[c].addr>> \in dest[Tgid(job[c].thread)]
    /\ \A s \in Slot : key[s] # 0 => Within(value[s], dest[key[s]])
    /\ look # NoLook => look.owner <= gen[look.pid]
    /\ look # NoLook /\ ~relinked => key[look.slot] \in {0, look.pid}
    /\ look # NoLook /\ ~relinked /\ look.owner = gen[look.pid] =>
          Within(copy, dest[look.pid]) /\ Within(value[look.slot], dest[look.pid])
================================================================================
