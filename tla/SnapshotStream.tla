----------------------------- MODULE SnapshotStream ----------------------------
(***************************************************************************)
(* What the daemon promises a client that asked for snapshots: it is sent  *)
(* each snapshot at most once, in the order they were taken; it misses one *)
(* only while Lag of them are waiting for it, never has more than Room     *)
(* waiting, and once cut off it is sent nothing more.  The threads,        *)
(* channels and sockets are in module Server, which implements this one.   *)
(***************************************************************************)
EXTENDS Naturals, Sequences

CONSTANTS
    Client,
    TickCap,            \* bound: the tick counter saturates here
    Lag, Room           \* how many snapshots may wait for a client

VARIABLES
    latest,             \* the last snapshot taken
    fresh,              \* is it still to be sent?
    stage,              \* stage[k]: "new", "attached", "cut"
    queue,              \* queue[k]: snapshots on their way to client k
    seen                \* seen[k]: the last snapshot client k received

streamVars == <<latest, fresh, stage, queue, seen>>

Snapshot == [epoch : Nat, tick : 0 .. TickCap]
NoSnapshot == [epoch |-> 0, tick |-> 0]

\* Resets start a new epoch; ticks grow within one (up to the bound).
Before(a, b) ==
    \/ a.epoch < b.epoch
    \/ a.epoch = b.epoch /\ (a.tick < b.tick \/ b.tick = TickCap)

StreamInit ==
    /\ latest = NoSnapshot /\ fresh = FALSE
    /\ stage = [k \in Client |-> "new"]
    /\ queue = [k \in Client |-> << >>]
    /\ seen = [k \in Client |-> NoSnapshot]

Publish ==
    /\ ~fresh /\ fresh' = TRUE
    /\ latest' \in Snapshot /\ Before(latest, latest')
    /\ UNCHANGED <<stage, queue, seen>>

\* The latest snapshot is put on its way to some clients; the others miss it.
Distribute ==
    /\ fresh /\ fresh' = FALSE
    /\ \E sent \in SUBSET Client :
        /\ \A k \in sent : stage[k] = "attached" /\ Len(queue[k]) < Room
        /\ \A k \in Client \ sent : stage[k] = "attached" => Len(queue[k]) >= Lag
        /\ queue' = [k \in Client |->
                        IF k \in sent THEN Append(queue[k], latest) ELSE queue[k]]
    /\ UNCHANGED <<latest, stage, seen>>

Attach(k) ==
    /\ stage[k] = "new"
    /\ stage' = [stage EXCEPT ![k] = "attached"]
    /\ UNCHANGED <<latest, fresh, queue, seen>>

Receive(k) ==
    /\ queue[k] # << >>
    /\ seen' = [seen EXCEPT ![k] = Head(queue[k])]
    /\ queue' = [queue EXCEPT ![k] = Tail(@)]
    /\ UNCHANGED <<latest, fresh, stage>>

\* The connection is given up: the end of the queue, perhaps all of it, is lost.
Cut(k) ==
    /\ stage' = [stage EXCEPT ![k] = "cut"]
    /\ \E n \in 0 .. Len(queue[k]) :
          queue' = [queue EXCEPT ![k] = SubSeq(@, 1, n)]
    /\ UNCHANGED <<latest, fresh, seen>>

StreamNext ==
    \/ Publish \/ Distribute
    \/ \E k \in Client : Attach(k) \/ Receive(k) \/ Cut(k)

StreamSpec == StreamInit /\ [][StreamNext]_streamVars
================================================================================
