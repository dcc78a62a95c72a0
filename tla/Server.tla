--------------------------------- MODULE Server --------------------------------
(***************************************************************************)
(* The daemon's side of the IPC socket (procnetd/src/server.rs, state.rs   *)
(* and the publishing half of app.rs) and the clients on the other side    *)
(* (procnet/src/main.rs, cli.rs).  For every connection the daemon runs a  *)
(* worker thread, which reads the first command and then writes snapshots, *)
(* and for a TUI a reader thread, which executes its later commands.       *)
(*                                                                         *)
(* The two mutexes (daemon state, sender list) are each taken for a single *)
(* step here: their critical sections contain no access to other shared    *)
(* state.  A snapshot is its tick, with the number of resets before it.    *)
(* Intervals count steps of 100 ms.                                        *)
(***************************************************************************)
EXTENDS Integers, Sequences, FiniteSets

CONSTANTS
    Client,             \* the client processes that may connect, each once
    ChanCap,            \* sync_channel(4): snapshots queued for a writer
    SockCap,            \* snapshots the socket buffer towards a client holds
    MinInterval, MaxInterval, DefaultInterval,  \* 100, 5000, 1000 ms
    TickCap,            \* bound: the tick counter saturates here
    MaxCommands,        \* bound: commands sent to the daemon in one behaviour
    CliCommands,        \* what `procnet daemon ...' sends
    ClientsMayStall,    \* can a client fail to read for 200 ms?
    TickMayFail         \* can a tick end in an error?

ASSUME ServerAssumption ==
    /\ ChanCap \in Nat \ {0} /\ SockCap \in Nat \ {0}
    /\ MinInterval \in Nat \ {0} /\ MaxInterval \in Nat /\ DefaultInterval \in Nat
    /\ MinInterval <= DefaultInterval /\ DefaultInterval <= MaxInterval
    /\ TickCap \in Nat /\ MaxCommands \in Nat
    /\ ClientsMayStall \in BOOLEAN /\ TickMayFail \in BOOLEAN

VARIABLES
    interval, tick,     \* DaemonState
    poisoned,           \* has update panicked while holding the state lock?
    pc,                 \* main thread: "tick", "send", "sleep", "exited"
    snap,               \* the encoded snapshot
    signalled,          \* has SIGINT or SIGTERM been handled (shutdown_tx)?
    senders,            \* SenderList: the clients whose channels are fed (a Vec,
                        \* whose order nothing depends on)
    chan,               \* chan[k]: the sync_channel of client k
    worker,             \* worker[k]: "none", "first", "attach", "writer", "done"
    reader,             \* reader[k]: "none", "run", "done"
    toDaemon,           \* toDaemon[k]: commands in the socket, unread
    toClient,           \* toClient[k]: snapshots in the socket, unread
    client,             \* client[k]: "off", "open", "tui", "gone"
    seen,               \* seen[k]: the last snapshot client k received
    commands,           \* history: commands sent
    resets              \* history: Reset commands executed

stateVars == <<interval, tick, poisoned, resets>>
mainVars == <<pc, snap, signalled>>
connVars == <<chan, worker, reader, toDaemon, toClient>>
clientVars == <<client, seen, commands>>
vars == <<stateVars, mainVars, senders, connVars, clientVars>>

\* DaemonCommand
Command == [op : {"run", "increase", "decrease", "reset", "interval"},
            millis : 0 .. MaxInterval]
Cmd(op) == [op |-> op, millis |-> 0]

ASSUME CliAssumption == CliCommands \subseteq Command

\* SnapshotData; tick 0 is none.
Snapshot == [epoch : Nat, tick : 0 .. TickCap]
NoSnapshot == [epoch |-> 0, tick |-> 0]

TypeOK ==
    /\ interval \in MinInterval .. MaxInterval
    /\ tick \in 0 .. TickCap /\ snap \in Snapshot
    /\ poisoned \in BOOLEAN /\ signalled \in BOOLEAN
    /\ pc \in {"tick", "send", "sleep", "exited"}
    /\ senders \subseteq Client
    /\ chan \in [Client -> Seq(Snapshot)]
    /\ worker \in [Client -> {"none", "first", "attach", "writer", "done"}]
    /\ reader \in [Client -> {"none", "run", "done"}]
    /\ toDaemon \in [Client -> Seq(Command)]
    /\ toClient \in [Client -> Seq(Snapshot)]
    /\ client \in [Client -> {"off", "open", "tui", "gone"}]
    /\ seen \in [Client -> Snapshot]
    /\ commands \in Nat /\ resets \in Nat

Init ==
    /\ interval = DefaultInterval /\ tick = 0 /\ poisoned = FALSE
    /\ pc = "tick" /\ snap = NoSnapshot /\ signalled = FALSE
    /\ senders = {}
    /\ chan = [k \in Client |-> << >>]
    /\ worker = [k \in Client |-> "none"]
    /\ reader = [k \in Client |-> "none"]
    /\ toDaemon = [k \in Client |-> << >>]
    /\ toClient = [k \in Client |-> << >>]
    /\ client = [k \in Client |-> "off"]
    /\ seen = [k \in Client |-> NoSnapshot]
    /\ commands = 0 /\ resets = 0

--------------------------------------------------------------------------------
(* The main thread.                                                        *)

\* Under the state lock: advance_tick, and the snapshot of this tick.  A poisoned
\* lock, a failing drain_available or an oversized snapshot ends run.
Tick ==
    /\ pc = "tick"
    /\ \/ /\ ~poisoned
          /\ tick' = IF tick < TickCap THEN tick + 1 ELSE tick
          /\ snap' = [epoch |-> resets, tick |-> tick']
          /\ pc' = "send"
       \/ /\ poisoned \/ TickMayFail
          /\ pc' = "exited"
          /\ UNCHANGED <<tick, snap>>
    /\ UNCHANGED <<interval, poisoned, resets, signalled, senders, connVars, clientVars>>

\* Mutant of Receiving: a dropped receiver is not noticed.
AlwaysReceiving(k) == TRUE

\* The receiver lives as long as the worker thread is in its write loop.
Receiving(k) == worker[k] = "writer"

\* Mutant of Send: a full channel counts as a dropped receiver.
SendEvictsFull ==
    LET HasRoom(k) == Receiving(k) /\ Len(chan[k]) < ChanCap
    IN  /\ pc = "send"
        /\ chan' = [k \in Client |->
                      IF k \in senders /\ HasRoom(k)
                      THEN Append(chan[k], snap) ELSE chan[k]]
        /\ senders' = {k \in senders : HasRoom(k)}
        /\ pc' = "sleep"
        /\ UNCHANGED <<stateVars, snap, signalled, worker, reader, toDaemon, toClient,
                       clientVars>>

\* update_streams: try_send to each sender; one whose receiver is gone is dropped,
\* one whose channel is full misses this snapshot.
Send ==
    /\ pc = "send"
    /\ chan' = [k \in Client |->
                  IF k \in senders /\ Receiving(k) /\ Len(chan[k]) < ChanCap
                  THEN Append(chan[k], snap) ELSE chan[k]]
    /\ senders' = {k \in senders : Receiving(k)}
    /\ pc' = "sleep"
    /\ UNCHANGED <<stateVars, snap, signalled, worker, reader, toDaemon, toClient,
                   clientVars>>

\* Mutant of Sleep: the shutdown message is not looked at.
SleepOnly ==
    /\ pc = "sleep"
    /\ pc' = "tick"
    /\ UNCHANGED <<stateVars, snap, signalled, senders, connVars, clientVars>>

\* recv_timeout: the shutdown message, or the interval has passed.
Sleep ==
    /\ pc = "sleep"
    /\ pc' = IF signalled THEN "exited" ELSE "tick"
    /\ UNCHANGED <<stateVars, snap, signalled, senders, connVars, clientVars>>

\* The signal thread's shutdown_tx.send (the socket file is in module Socket).
Signal ==
    /\ pc # "exited" /\ ~signalled
    /\ signalled' = TRUE
    /\ UNCHANGED <<stateVars, pc, snap, senders, connVars, clientVars>>

--------------------------------------------------------------------------------
(* The connection threads.                                                 *)

\* Mutant of Clamp: the interval is taken as it is.
ClampNothing(n) == n

Clamp(n) == IF n < MinInterval THEN MinInterval
            ELSE IF n > MaxInterval THEN MaxInterval ELSE n

\* DaemonState::update: Run is unreachable!(), a panic that poisons the lock.  A
\* poisoned lock is ignored by the caller.
Execute(cmd) ==
    /\ interval' = IF poisoned THEN interval
                   ELSE CASE cmd.op = "increase" -> Clamp(interval + 1)
                          [] cmd.op = "decrease" -> Clamp(interval - 1)
                          [] cmd.op = "interval" -> Clamp(cmd.millis)
                          [] OTHER               -> interval
    /\ tick' = IF cmd.op = "reset" /\ ~poisoned THEN 0 ELSE tick
    /\ resets' = IF cmd.op = "reset" /\ ~poisoned THEN resets + 1 ELSE resets
    /\ poisoned' = (poisoned \/ cmd.op = "run")

Running == pc # "exited"

\* accept_loop takes the connection and spawns its thread.
Accept(k) ==
    /\ Running
    /\ client[k] # "off" /\ worker[k] = "none"
    /\ worker' = [worker EXCEPT ![k] = "first"]
    /\ UNCHANGED <<stateVars, mainVars, senders, chan, reader, toDaemon, toClient,
                   clientVars>>

\* A first command other than Run: executed, and the connection is closed.
FirstCommand(k) ==
    /\ Running
    /\ worker[k] = "first"
    /\ toDaemon[k] # << >> /\ Head(toDaemon[k]).op # "run"
    /\ Execute(Head(toDaemon[k]))
    /\ worker' = [worker EXCEPT ![k] = "done"]
    /\ toDaemon' = [toDaemon EXCEPT ![k] = << >>]
    /\ UNCHANGED <<mainVars, senders, chan, reader, toClient, clientVars>>

\* Mutant of FirstRun: the reader thread reads the stream from its beginning.
FirstRunPeeks(k) ==
    /\ Running
    /\ worker[k] = "first"
    /\ toDaemon[k] # << >> /\ Head(toDaemon[k]).op = "run"
    /\ worker' = [worker EXCEPT ![k] = "attach"]
    /\ reader' = [reader EXCEPT ![k] = "run"]
    /\ UNCHANGED <<stateVars, mainVars, senders, chan, toDaemon, toClient, clientVars>>

\* Mutant of FirstRun: no thread reads the later commands.
FirstRunNoReader(k) ==
    /\ Running
    /\ worker[k] = "first"
    /\ toDaemon[k] # << >> /\ Head(toDaemon[k]).op = "run"
    /\ worker' = [worker EXCEPT ![k] = "attach"]
    /\ toDaemon' = [toDaemon EXCEPT ![k] = << >>]
    /\ UNCHANGED <<stateVars, mainVars, senders, chan, reader, toClient, clientVars>>

\* Run: the reader thread is spawned on what into_inner returns.  The BufReader
\* had read everything in the socket, and what it had beyond Run goes with it.
FirstRun(k) ==
    /\ Running
    /\ worker[k] = "first"
    /\ toDaemon[k] # << >> /\ Head(toDaemon[k]).op = "run"
    /\ worker' = [worker EXCEPT ![k] = "attach"]
    /\ reader' = [reader EXCEPT ![k] = "run"]
    /\ toDaemon' = [toDaemon EXCEPT ![k] = << >>]
    /\ UNCHANGED <<stateVars, mainVars, senders, chan, toClient, clientVars>>

\* The first read ends in EOF or in the 2 s timeout: the connection is dropped.
FirstFails(k) ==
    /\ Running
    /\ worker[k] = "first"
    /\ toDaemon[k] = << >>
    /\ client[k] = "gone" \/ ClientsMayStall
    /\ worker' = [worker EXCEPT ![k] = "done"]
    /\ UNCHANGED <<stateVars, mainVars, senders, chan, reader, toDaemon, toClient,
                   clientVars>>

\* Mutant of Attach: the sender is not pushed.
AttachUnlisted(k) ==
    /\ Running
    /\ worker[k] = "attach"
    /\ worker' = [worker EXCEPT ![k] = "writer"]
    /\ UNCHANGED <<stateVars, mainVars, senders, chan, reader, toDaemon, toClient,
                   clientVars>>

\* The channel is created and its sender pushed; the write loop starts.
Attach(k) ==
    /\ Running
    /\ worker[k] = "attach"
    /\ senders' = senders \cup {k}
    /\ worker' = [worker EXCEPT ![k] = "writer"]
    /\ UNCHANGED <<stateVars, mainVars, chan, reader, toDaemon, toClient, clientVars>>

\* Mutant of Read: every message is read through a BufReader of its own.
ReadFresh(k) ==
    /\ Running
    /\ reader[k] = "run"
    /\ \/ /\ toDaemon[k] # << >>
          /\ Execute(Head(toDaemon[k]))
          /\ toDaemon' = [toDaemon EXCEPT ![k] = << >>]
          /\ reader' = [reader EXCEPT ![k] = IF poisoned' THEN "done" ELSE "run"]
       \/ /\ toDaemon[k] = << >> /\ client[k] = "gone"
          /\ reader' = [reader EXCEPT ![k] = "done"]
          /\ UNCHANGED <<stateVars, toDaemon>>
    /\ UNCHANGED <<mainVars, senders, chan, worker, toClient, clientVars>>

\* The reader thread executes a command, or ends at EOF or on a poisoned lock.
Read(k) ==
    /\ Running
    /\ reader[k] = "run"
    /\ \/ /\ toDaemon[k] # << >>
          /\ Execute(Head(toDaemon[k]))
          /\ toDaemon' = [toDaemon EXCEPT ![k] = Tail(@)]
          /\ reader' = [reader EXCEPT ![k] = IF poisoned' THEN "done" ELSE "run"]
       \/ /\ toDaemon[k] = << >> /\ client[k] = "gone"
          /\ reader' = [reader EXCEPT ![k] = "done"]
          /\ UNCHANGED <<stateVars, toDaemon>>
    /\ UNCHANGED <<mainVars, senders, chan, worker, toClient, clientVars>>

\* Mutant of Write: the newest queued snapshot is written first.
WriteNewest(k) ==
    /\ Running
    /\ Receiving(k) /\ chan[k] # << >>
    /\ client[k] # "gone" /\ Len(toClient[k]) < SockCap
    /\ toClient' = [toClient EXCEPT ![k] = Append(@, chan[k][Len(chan[k])])]
    /\ chan' = [chan EXCEPT ![k] = SubSeq(@, 1, Len(@) - 1)]
    /\ UNCHANGED <<stateVars, mainVars, senders, worker, reader, toDaemon, clientVars>>

\* The worker writes a queued snapshot into the socket.
Write(k) ==
    /\ Running
    /\ Receiving(k) /\ chan[k] # << >>
    /\ client[k] # "gone" /\ Len(toClient[k]) < SockCap
    /\ toClient' = [toClient EXCEPT ![k] = Append(@, Head(chan[k]))]
    /\ chan' = [chan EXCEPT ![k] = Tail(@)]
    /\ UNCHANGED <<stateVars, mainVars, senders, worker, reader, toDaemon, clientVars>>

\* write_all fails, because the client is gone or did not make room in 200 ms: the
\* worker ends and drops the receiver and its half of the stream.
WriteFails(k) ==
    /\ Running
    /\ Receiving(k) /\ chan[k] # << >>
    /\ \/ client[k] = "gone"
       \/ ClientsMayStall /\ Len(toClient[k]) >= SockCap
    /\ worker' = [worker EXCEPT ![k] = "done"]
    /\ chan' = [chan EXCEPT ![k] = << >>]
    /\ UNCHANGED <<stateVars, mainVars, senders, reader, toDaemon, toClient, clientVars>>

--------------------------------------------------------------------------------
(* The clients.                                                            *)

\* Both of the daemon's descriptors of the connection are closed.
Closed(k) == ~Running \/ (worker[k] = "done" /\ reader[k] # "run")

SendCommand(k, cmd) ==
    /\ toDaemon' = [toDaemon EXCEPT ![k] = IF Closed(k) THEN @ ELSE Append(@, cmd)]
    /\ UNCHANGED <<stateVars, mainVars, senders, chan, worker, reader, toClient, seen>>

Connect(k) ==
    /\ Running
    /\ client[k] = "off"
    /\ client' = [client EXCEPT ![k] = "open"]
    /\ UNCHANGED <<stateVars, mainVars, senders, connVars, seen, commands>>

\* The TUI asks for the snapshot stream.
StartTui(k) ==
    /\ client[k] = "open"
    /\ client' = [client EXCEPT ![k] = "tui"]
    /\ SendCommand(k, Cmd("run"))
    /\ UNCHANGED commands

\* `procnet daemon ...' sends one command and exits.
OneShot(k, cmd) ==
    /\ client[k] = "open"
    /\ commands < MaxCommands
    /\ commands' = commands + 1
    /\ client' = [client EXCEPT ![k] = "gone"]
    /\ SendCommand(k, cmd)

\* The + and - keys of the TUI; a failed write is ignored.
PressKey(k, op) ==
    /\ client[k] = "tui"
    /\ commands < MaxCommands
    /\ commands' = commands + 1
    /\ SendCommand(k, Cmd(op))
    /\ UNCHANGED client

\* The receiver thread of the TUI reads a snapshot.
Receive(k) ==
    /\ client[k] = "tui"
    /\ toClient[k] # << >>
    /\ seen' = [seen EXCEPT ![k] = Head(toClient[k])]
    /\ toClient' = [toClient EXCEPT ![k] = Tail(@)]
    /\ UNCHANGED <<stateVars, mainVars, senders, chan, worker, reader, toDaemon, client,
                   commands>>

Leave(k) ==
    /\ client' = [client EXCEPT ![k] = "gone"]
    /\ toClient' = [toClient EXCEPT ![k] = << >>]
    /\ UNCHANGED <<stateVars, mainVars, senders, chan, worker, reader, toDaemon, seen,
                   commands>>

\* The receiver thread reads EOF: main returns DaemonHangup.
Hangup(k) ==
    /\ client[k] = "tui"
    /\ toClient[k] = << >> /\ Closed(k)
    /\ Leave(k)

\* The user quits or the client is killed (or was a starting daemon's probe).
Quit(k) == client[k] \in {"open", "tui"} /\ Leave(k)

Main == Tick \/ Send \/ Sleep
FirstMessage(k) == FirstCommand(k) \/ FirstRun(k) \/ FirstFails(k)
Writer(k) == Write(k) \/ WriteFails(k)

Next ==
    \/ Main \/ Signal
    \/ \E k \in Client :
        \/ Accept(k) \/ FirstMessage(k) \/ Attach(k) \/ Read(k) \/ Writer(k)
        \/ Connect(k) \/ StartTui(k) \/ Receive(k) \/ Hangup(k) \/ Quit(k)
        \/ \E cmd \in CliCommands : OneShot(k, cmd)
        \/ \E op \in {"increase", "decrease"} : PressKey(k, op)

Spec == Init /\ [][Next]_vars

\* Every thread of the daemon and the receiver thread of a TUI keep running; the
\* user, the signal and the start of a client are never forced.
FairSpec ==
    /\ Spec
    /\ WF_vars(Main)
    /\ \A k \in Client :
        /\ WF_vars(Accept(k)) /\ WF_vars(FirstMessage(k)) /\ WF_vars(Attach(k))
        /\ WF_vars(Read(k)) /\ WF_vars(Writer(k))
        /\ WF_vars(Receive(k)) /\ WF_vars(Hangup(k))

--------------------------------------------------------------------------------
(* Properties.                                                             *)

\* A client sees its snapshots in the order they were taken, none twice: what it
\* has seen, what is in its socket and what is queued for its writer is increasing
\* (strictly, up to the bound on ticks).  Full channels only leave gaps, and a reset
\* between encoding and sending never lets an older snapshot follow a newer one.
OnTheWay(k) ==
    (IF seen[k] = NoSnapshot THEN << >> ELSE <<seen[k]>>) \o toClient[k] \o chan[k]
Before(a, b) ==
    \/ a.epoch < b.epoch
    \/ a.epoch = b.epoch /\ (a.tick < b.tick \/ b.tick = TickCap)
SnapshotsInOrder ==
    \A k \in Client : \A i \in 2 .. Len(OnTheWay(k)) : Before(OnTheWay(k)[i-1], OnTheWay(k)[i])

\* What SnapshotStream says of client k: is it fed, and what is on its way.
StageOf(k) ==
    IF client[k] = "gone" \/ worker[k] = "done" THEN "cut"
    ELSE IF Receiving(k) THEN "attached" ELSE "new"
QueueOf(k) == IF client[k] = "gone" THEN << >> ELSE toClient[k] \o chan[k]

Stream == INSTANCE SnapshotStream WITH
    Lag <- ChanCap,
    Room <- ChanCap + SockCap,
    latest <- snap,
    fresh <- (pc = "send"),
    stage <- [k \in Client |-> StageOf(k)],
    queue <- [k \in Client |-> QueueOf(k)]

\* The connection threads, channels and sockets implement SnapshotStream: whatever
\* the clients do, each is sent the snapshots in order, without repetition, missing
\* one only while its channel is full, and none after its writer has given up.
ImplementsStream == Stream!StreamSpec

\* update never meets Run, so the state lock is never poisoned: the first message
\* of a connection is consumed before the reader thread starts.
NeverPoisoned == ~poisoned

\* Once a TUI has received a snapshot no key is lost: a command leaves its socket
\* only by being executed, in the order the keys were pressed, even if the client
\* has quit meanwhile.  (A key pressed before may go with the first BufReader.)
LaterKeysAreExecuted ==
    [][\A k \in Client :
         seen[k] # NoSnapshot /\ Len(toDaemon'[k]) < Len(toDaemon[k]) =>
             Execute(Head(toDaemon[k])) /\ toDaemon'[k] = Tail(toDaemon[k])]_vars

\* Such a key is executed soon, also when its client has stopped reading.
LaterKeysAreHeard ==
    \A k \in Client :
        seen[k] # NoSnapshot /\ toDaemon[k] # << >> ~> toDaemon[k] = << >> \/ ~Running

\* A client that is gone is eventually out of the sender list.
DepartedIsEvicted ==
    \A k \in Client :
        client[k] = "gone" ~> k \notin senders \/ ~Running

\* A TUI that stays gets a first snapshot, or learns that the daemon is gone.
AttachedIsServed ==
    \A k \in Client : client[k] = "tui" ~> seen[k] # NoSnapshot \/ client[k] = "gone"

\* A handled signal ends the daemon, whatever the clients do.
SignalEnds == signalled ~> pc = "exited"

\* The daemon has stopped writing to a TUI that waits for snapshots.
Frozen(k) ==
    /\ client[k] = "tui" /\ toClient[k] = << >>
    /\ worker[k] = "done" /\ ~Closed(k)
\* A TUI that the daemon no longer serves is told so (it sees EOF and reports
\* "The daemon is not responding").
UnservedIsTold == \A k \in Client : Frozen(k) ~> ~Frozen(k)

--------------------------------------------------------------------------------
(* What the proofs add to make these inductive.                            *)

\* Nothing is sent before the first command, and Run is not sent after it: what the
\* reader thread finds is never Run.
RunComesFirst ==
    \A k \in Client :
        /\ client[k] \in {"off", "open"} => toDaemon[k] = << >>
        /\ reader[k] = "run" =>
              /\ client[k] \in {"tui", "gone"}
              /\ \A i \in DOMAIN toDaemon[k] : toDaemon[k][i].op # "run"

\* The buffers keep to their limits, and every write loop is fed.
BuffersBounded ==
    \A k \in Client :
        /\ Len(chan[k]) <= ChanCap /\ Len(toClient[k]) <= SockCap
        /\ Receiving(k) => k \in senders

\* A client has nothing from the daemon before its write loop runs.
FedByWriter ==
    \A k \in Client :
        worker[k] \in {"none", "first", "attach"} => toClient[k] = << >> /\ seen[k] = NoSnapshot

\* The next tick gives a later snapshot than the last one.
NextIsLater == snap.epoch < resets \/ (snap.epoch = resets /\ snap.tick <= tick)

\* Every snapshot on its way is older than the last one, which is not yet on its
\* way while it is still to be sent; and they are ordered, pair by pair.
Older(a) == Before(a, snap) \/ (a = snap /\ pc # "send")
AfterSeen(k, a) == seen[k] = NoSnapshot \/ Before(seen[k], a)
InOrder(k) ==
    /\ seen[k] # NoSnapshot => Older(seen[k])
    /\ \A i \in DOMAIN toClient[k] : Older(toClient[k][i]) /\ AfterSeen(k, toClient[k][i])
    /\ \A i \in DOMAIN chan[k] : Older(chan[k][i]) /\ AfterSeen(k, chan[k][i])
    /\ \A i, j \in DOMAIN toClient[k] : i < j => Before(toClient[k][i], toClient[k][j])
    /\ \A i, j \in DOMAIN chan[k] : i < j => Before(chan[k][i], chan[k][j])
    /\ \A i \in DOMAIN toClient[k], j \in DOMAIN chan[k] : Before(toClient[k][i], chan[k][j])
PairsInOrder == \A k \in Client : InOrder(k)
================================================================================
