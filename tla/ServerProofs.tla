------------------------------ MODULE ServerProofs -----------------------------
(***************************************************************************)
(* Theorems about Server, for any number of clients, any capacities and    *)
(* any interval range: type correctness (with the interval's range), the   *)
(* state lock that is never poisoned, the order of snapshots, the          *)
(* refinement of SnapshotStream, and the keys that are not lost.           *)
(***************************************************************************)
EXTENDS Server, SequenceTheorems, TLAPS

\* The clamp of set_interval keeps the range.
LEMMA ClampInRange ==
    ASSUME NEW n \in Int
    PROVE  Clamp(n) \in MinInterval .. MaxInterval
BY ServerAssumption DEF Clamp

\* DaemonState::update keeps the types of the state.
LEMMA ExecuteTypes ==
    ASSUME TypeOK, NEW cmd \in Command, Execute(cmd)
    PROVE  /\ interval' \in MinInterval .. MaxInterval
           /\ tick' \in 0 .. TickCap
           /\ resets' \in Nat
           /\ poisoned' \in BOOLEAN
<1>1. interval \in Int /\ interval + 1 \in Int /\ interval - 1 \in Int /\ cmd.millis \in Int
      BY ServerAssumption DEF TypeOK, Command
<1>2. /\ Clamp(interval + 1) \in MinInterval .. MaxInterval
      /\ Clamp(interval - 1) \in MinInterval .. MaxInterval
      /\ Clamp(cmd.millis) \in MinInterval .. MaxInterval
      BY <1>1, ClampInRange
<1>3. interval' \in MinInterval .. MaxInterval
      BY <1>2 DEF Execute, TypeOK
<1>4. tick' \in 0 .. TickCap /\ resets' \in Nat
      BY ServerAssumption DEF Execute, TypeOK
<1>5. poisoned' \in BOOLEAN
      BY DEF Execute, TypeOK
<1> QED BY <1>3, <1>4, <1>5

\* A command is put into the socket of its client, or goes nowhere.
LEMMA SendCommandTypes ==
    ASSUME TypeOK, NEW k \in Client, NEW cmd \in Command, SendCommand(k, cmd)
    PROVE  toDaemon' \in [Client -> Seq(Command)]
<1>1. toDaemon[k] \in Seq(Command) /\ Append(toDaemon[k], cmd) \in Seq(Command)
      BY DEF TypeOK
<1> QED BY <1>1 DEF SendCommand, TypeOK

LEMMA CmdTypes ==
    ASSUME NEW op \in {"run", "increase", "decrease", "reset", "interval"}
    PROVE  Cmd(op) \in Command /\ Cmd(op).op = op
BY ServerAssumption DEF Cmd, Command

LEMMA InitTypes == Init => TypeOK
<1> SUFFICES ASSUME Init PROVE TypeOK
    OBVIOUS
<1>1. NoSnapshot \in Snapshot
      BY ServerAssumption DEF NoSnapshot, Snapshot
<1>2. << >> \in Seq(Snapshot) /\ << >> \in Seq(Command)
      OBVIOUS
<1>3. interval \in MinInterval .. MaxInterval /\ tick \in 0 .. TickCap
      BY ServerAssumption DEF Init
<1> QED BY <1>1, <1>2, <1>3 DEF Init, TypeOK

LEMMA NextTypes == TypeOK /\ [Next]_vars => TypeOK'
<1> SUFFICES ASSUME TypeOK, [Next]_vars PROVE TypeOK'
    OBVIOUS
<1> USE DEF stateVars, mainVars, connVars, clientVars
<1>1. CASE Tick
  <2>1. tick' \in 0 .. TickCap
        BY <1>1, ServerAssumption DEF Tick, TypeOK
  <2>2. snap' \in Snapshot
        BY <1>1, <2>1 DEF Tick, TypeOK, Snapshot
  <2> QED BY <1>1, <2>1, <2>2 DEF Tick, TypeOK
<1>2. CASE Send
  <2>1. \A k \in Client : Append(chan[k], snap) \in Seq(Snapshot) /\ chan[k] \in Seq(Snapshot)
        BY DEF TypeOK
  <2>2. chan' \in [Client -> Seq(Snapshot)]
        BY <1>2, <2>1 DEF Send
  <2>3. senders' \subseteq Client
        BY <1>2 DEF Send, TypeOK
  <2> QED BY <1>2, <2>2, <2>3 DEF Send, TypeOK
<1>3. CASE Sleep
      BY <1>3 DEF Sleep, TypeOK
<1>4. CASE Signal
      BY <1>4 DEF Signal, TypeOK
<1>5. ASSUME NEW k \in Client, Accept(k) PROVE TypeOK'
      BY <1>5 DEF Accept, TypeOK
<1>6. ASSUME NEW k \in Client, FirstCommand(k) PROVE TypeOK'
  <2>1. Head(toDaemon[k]) \in Command
        BY <1>6 DEF FirstCommand, TypeOK
  <2>2. << >> \in Seq(Command)
        OBVIOUS
  <2>3. Execute(Head(toDaemon[k]))
        BY <1>6 DEF FirstCommand
  <2>4. /\ interval' \in MinInterval .. MaxInterval /\ tick' \in 0 .. TickCap
        /\ resets' \in Nat /\ poisoned' \in BOOLEAN
        BY <2>1, <2>3, ExecuteTypes
  <2> QED BY <1>6, <2>2, <2>4 DEF FirstCommand, TypeOK
<1>7. ASSUME NEW k \in Client, FirstRun(k) PROVE TypeOK'
  <2>1. << >> \in Seq(Command)
        OBVIOUS
  <2> QED BY <1>7, <2>1 DEF FirstRun, TypeOK
<1>8. ASSUME NEW k \in Client, FirstFails(k) PROVE TypeOK'
      BY <1>8 DEF FirstFails, TypeOK
<1>9. ASSUME NEW k \in Client, Attach(k) PROVE TypeOK'
      BY <1>9 DEF Attach, TypeOK
<1>10. ASSUME NEW k \in Client, Read(k) PROVE TypeOK'
  <2>1. CASE toDaemon[k] # << >> /\ Execute(Head(toDaemon[k]))
                /\ toDaemon' = [toDaemon EXCEPT ![k] = Tail(@)]
                /\ reader' = [reader EXCEPT ![k] = IF poisoned' THEN "done" ELSE "run"]
    <3>1. Head(toDaemon[k]) \in Command /\ Tail(toDaemon[k]) \in Seq(Command)
          BY <2>1 DEF TypeOK
    <3>2. /\ interval' \in MinInterval .. MaxInterval /\ tick' \in 0 .. TickCap
          /\ resets' \in Nat /\ poisoned' \in BOOLEAN
          BY <2>1, <3>1, ExecuteTypes
    <3> QED BY <1>10, <2>1, <3>1, <3>2 DEF Read, TypeOK
  <2>2. CASE UNCHANGED <<stateVars, toDaemon>> /\ reader' = [reader EXCEPT ![k] = "done"]
        BY <1>10, <2>2 DEF Read, TypeOK
  <2> QED BY <1>10, <2>1, <2>2 DEF Read
<1>11. ASSUME NEW k \in Client, Write(k) PROVE TypeOK'
  <2>1. /\ Append(toClient[k], Head(chan[k])) \in Seq(Snapshot)
        /\ Tail(chan[k]) \in Seq(Snapshot)
        BY <1>11 DEF Write, TypeOK
  <2> QED BY <1>11, <2>1 DEF Write, TypeOK
<1>12. ASSUME NEW k \in Client, WriteFails(k) PROVE TypeOK'
  <2>1. << >> \in Seq(Snapshot)
        OBVIOUS
  <2> QED BY <1>12, <2>1 DEF WriteFails, TypeOK
<1>13. ASSUME NEW k \in Client, Connect(k) PROVE TypeOK'
      BY <1>13 DEF Connect, TypeOK
<1>14. ASSUME NEW k \in Client, StartTui(k) PROVE TypeOK'
  <2>1. toDaemon' \in [Client -> Seq(Command)]
        BY <1>14, CmdTypes, SendCommandTypes DEF StartTui
  <2> QED BY <1>14, <2>1 DEF StartTui, SendCommand, TypeOK
<1>15. ASSUME NEW k \in Client, Receive(k) PROVE TypeOK'
  <2>1. Head(toClient[k]) \in Snapshot /\ Tail(toClient[k]) \in Seq(Snapshot)
        BY <1>15 DEF Receive, TypeOK
  <2> QED BY <1>15, <2>1 DEF Receive, TypeOK
<1>16. ASSUME NEW k \in Client, Leave(k) PROVE TypeOK'
  <2>1. << >> \in Seq(Snapshot)
        OBVIOUS
  <2> QED BY <1>16, <2>1 DEF Leave, TypeOK
<1>17. ASSUME NEW k \in Client, NEW cmd \in CliCommands, OneShot(k, cmd) PROVE TypeOK'
  <2>1. toDaemon' \in [Client -> Seq(Command)]
        BY <1>17, CliAssumption, SendCommandTypes DEF OneShot
  <2> QED BY <1>17, <2>1 DEF OneShot, SendCommand, TypeOK
<1>18. ASSUME NEW k \in Client, NEW op \in {"increase", "decrease"}, PressKey(k, op)
       PROVE  TypeOK'
  <2>1. toDaemon' \in [Client -> Seq(Command)]
        BY <1>18, CmdTypes, SendCommandTypes DEF PressKey
  <2> QED BY <1>18, <2>1 DEF PressKey, SendCommand, TypeOK
<1>19. CASE UNCHANGED vars
      BY <1>19 DEF vars, TypeOK
<1> QED
    BY <1>1, <1>2, <1>3, <1>4, <1>5, <1>6, <1>7, <1>8, <1>9, <1>10, <1>11, <1>12, <1>13,
       <1>14, <1>15, <1>16, <1>17, <1>18, <1>19
    DEF Next, Main, FirstMessage, Writer, Hangup, Quit

\* Whatever clients send, the interval stays between its limits and the threads,
\* channels and sockets keep their types.
THEOREM TypeCorrect == Spec => []TypeOK
BY InitTypes, NextTypes, PTL DEF Spec

--------------------------------------------------------------------------------
(* The state lock is never poisoned.                                       *)

\* What a client sends when it has not sent its first command, or is past it.
LEMMA SentCommands ==
    ASSUME TypeOK, RunComesFirst, NEW k \in Client, NEW cmd \in Command, SendCommand(k, cmd),
           \/ client[k] = "open" /\ client'[k] \in {"tui", "gone"}
           \/ client[k] = "tui" /\ client'[k] = "tui" /\ cmd.op # "run",
           \A j \in Client \ {k} : client'[j] = client[j],
           client'[k] \in {"tui", "gone"}
    PROVE  RunComesFirst'
<1> USE DEF stateVars, mainVars, connVars, clientVars
<1>1. toDaemon[k] \in Seq(Command) /\ \A j \in Client \ {k} : toDaemon'[j] = toDaemon[j]
      BY DEF TypeOK, SendCommand
<1>2. reader' = reader
      BY DEF SendCommand
<1>3. toDaemon'[k] = toDaemon[k] \/ toDaemon'[k] = Append(toDaemon[k], cmd)
      BY DEF TypeOK, SendCommand
<1>4. reader[k] = "run" => client[k] = "tui" /\ cmd.op # "run"
      BY DEF RunComesFirst
<1>5. ASSUME reader[k] = "run", NEW i \in DOMAIN toDaemon'[k]
      PROVE  toDaemon'[k][i].op # "run"
  <2>1. \A n \in DOMAIN toDaemon[k] : toDaemon[k][n].op # "run"
        BY <1>5 DEF RunComesFirst
  <2>2. CASE toDaemon'[k] = toDaemon[k]
        BY <1>5, <2>1, <2>2
  <2>3. CASE toDaemon'[k] = Append(toDaemon[k], cmd)
        BY <1>1, <1>4, <1>5, <2>1, <2>3
  <2> QED BY <1>3, <2>2, <2>3
<1> QED BY <1>1, <1>2, <1>5 DEF RunComesFirst

LEMMA NextNeverPoisoned ==
    TypeOK /\ NeverPoisoned /\ RunComesFirst /\ [Next]_vars
        => NeverPoisoned' /\ RunComesFirst'
<1> SUFFICES ASSUME TypeOK, NeverPoisoned, RunComesFirst, [Next]_vars
             PROVE  NeverPoisoned' /\ RunComesFirst'
    OBVIOUS
<1> USE DEF stateVars, mainVars, connVars, clientVars
<1>1. CASE Tick \/ Send \/ Sleep \/ Signal
      BY <1>1 DEF Tick, Send, Sleep, Signal, NeverPoisoned, RunComesFirst
<1>2. ASSUME NEW k \in Client,
             Accept(k) \/ FirstFails(k) \/ Attach(k) \/ Write(k) \/ WriteFails(k) \/ Receive(k)
      PROVE  NeverPoisoned' /\ RunComesFirst'
      BY <1>2 DEF Accept, FirstFails, Attach, Write, WriteFails, Receive, NeverPoisoned,
                  RunComesFirst
<1>3. ASSUME NEW k \in Client, FirstCommand(k) PROVE NeverPoisoned' /\ RunComesFirst'
  <2>1. NeverPoisoned'
        BY <1>3 DEF FirstCommand, Execute, NeverPoisoned
  <2>2. RunComesFirst'
        BY <1>3 DEF FirstCommand, RunComesFirst, TypeOK
  <2> QED BY <2>1, <2>2
<1>4. ASSUME NEW k \in Client, FirstRun(k) PROVE NeverPoisoned' /\ RunComesFirst'
  <2>1. client[k] \in {"tui", "gone"}
        BY <1>4 DEF FirstRun, RunComesFirst, TypeOK
  <2>2. NeverPoisoned'
        BY <1>4 DEF FirstRun, NeverPoisoned
  <2>3. RunComesFirst'
        BY <1>4, <2>1 DEF FirstRun, RunComesFirst, TypeOK
  <2> QED BY <2>2, <2>3
<1>5. ASSUME NEW k \in Client, Read(k) PROVE NeverPoisoned' /\ RunComesFirst'
  <2>1. CASE toDaemon[k] # << >> /\ Execute(Head(toDaemon[k]))
                /\ toDaemon' = [toDaemon EXCEPT ![k] = Tail(@)]
                /\ reader' = [reader EXCEPT ![k] = IF poisoned' THEN "done" ELSE "run"]
    <3>1. toDaemon[k] \in Seq(Command) /\ \A i \in DOMAIN toDaemon[k] : toDaemon[k][i].op # "run"
          BY <1>5 DEF Read, RunComesFirst, TypeOK
    <3>2. Head(toDaemon[k]).op # "run"
          BY <2>1, <3>1
    <3>3. \A i \in DOMAIN Tail(toDaemon[k]) : Tail(toDaemon[k])[i].op # "run"
          BY <2>1, <3>1
    <3>4. client' = client /\ client[k] \in {"tui", "gone"}
          BY <1>5 DEF Read, RunComesFirst
    <3>5. NeverPoisoned'
          BY <2>1, <3>2 DEF Execute, NeverPoisoned
    <3>6. \A j \in Client \ {k} : toDaemon'[j] = toDaemon[j] /\ reader'[j] = reader[j]
          BY <2>1 DEF TypeOK
    <3>7. toDaemon'[k] = Tail(toDaemon[k])
          BY <2>1 DEF TypeOK
    <3>8. RunComesFirst'
          BY <3>3, <3>4, <3>6, <3>7 DEF RunComesFirst
    <3> QED BY <3>5, <3>8
  <2>2. CASE UNCHANGED <<stateVars, toDaemon>> /\ reader' = [reader EXCEPT ![k] = "done"]
        BY <1>5, <2>2 DEF Read, NeverPoisoned, RunComesFirst, TypeOK
  <2> QED BY <1>5, <2>1, <2>2 DEF Read
<1>6. ASSUME NEW k \in Client, Connect(k) PROVE NeverPoisoned' /\ RunComesFirst'
  <2>1. toDaemon[k] = << >> /\ reader[k] # "run"
        BY <1>6 DEF Connect, RunComesFirst
  <2> QED BY <1>6, <2>1 DEF Connect, NeverPoisoned, RunComesFirst, TypeOK
<1>7. ASSUME NEW k \in Client, StartTui(k) PROVE NeverPoisoned' /\ RunComesFirst'
  <2>1. Cmd("run") \in Command
        BY CmdTypes
  <2>2. SendCommand(k, Cmd("run")) /\ client[k] = "open" /\ client'[k] = "tui"
        /\ \A j \in Client \ {k} : client'[j] = client[j]
        BY <1>7 DEF StartTui, TypeOK
  <2>3. RunComesFirst'
        BY <2>1, <2>2, SentCommands
  <2> QED BY <1>7, <2>3 DEF StartTui, SendCommand, NeverPoisoned
<1>8. ASSUME NEW k \in Client, NEW cmd \in CliCommands, OneShot(k, cmd)
      PROVE  NeverPoisoned' /\ RunComesFirst'
  <2>1. cmd \in Command
        BY CliAssumption
  <2>2. SendCommand(k, cmd) /\ client[k] = "open" /\ client'[k] = "gone"
        /\ \A j \in Client \ {k} : client'[j] = client[j]
        BY <1>8 DEF OneShot, TypeOK
  <2>3. RunComesFirst'
        BY <2>1, <2>2, SentCommands
  <2> QED BY <1>8, <2>3 DEF OneShot, SendCommand, NeverPoisoned
<1>9. ASSUME NEW k \in Client, NEW op \in {"increase", "decrease"}, PressKey(k, op)
      PROVE  NeverPoisoned' /\ RunComesFirst'
  <2>1. Cmd(op) \in Command /\ Cmd(op).op # "run"
        BY CmdTypes
  <2>2. SendCommand(k, Cmd(op)) /\ client[k] = "tui" /\ client'[k] = "tui"
        /\ \A j \in Client \ {k} : client'[j] = client[j]
        BY <1>9 DEF PressKey, TypeOK
  <2>3. RunComesFirst'
        BY <2>1, <2>2, SentCommands
  <2> QED BY <1>9, <2>3 DEF PressKey, SendCommand, NeverPoisoned
<1>10. ASSUME NEW k \in Client, Leave(k) PROVE NeverPoisoned' /\ RunComesFirst'
      BY <1>10 DEF Leave, NeverPoisoned, RunComesFirst, TypeOK
<1>11. CASE UNCHANGED vars
      BY <1>11 DEF vars, NeverPoisoned, RunComesFirst
<1> QED
    BY <1>1, <1>2, <1>3, <1>4, <1>5, <1>6, <1>7, <1>8, <1>9, <1>10, <1>11
    DEF Next, Main, FirstMessage, Writer, Hangup, Quit

\* DaemonState::update never meets Run, for any number of clients in any order: its
\* unreachable!() is unreachable and the state lock is never poisoned.
THEOREM LockNeverPoisoned == Spec => []NeverPoisoned
<1>1. Init => NeverPoisoned /\ RunComesFirst
      BY DEF Init, NeverPoisoned, RunComesFirst
<1> QED BY <1>1, TypeCorrect, NextNeverPoisoned, PTL DEF Spec

--------------------------------------------------------------------------------
(* The order of snapshots.                                                 *)

LEMMA BeforeTransitive ==
    ASSUME NEW a \in Snapshot, NEW b \in Snapshot, NEW c \in Snapshot,
           Before(a, b), Before(b, c)
    PROVE  Before(a, c)
BY ServerAssumption DEF Before, Snapshot

\* A step that leaves a client's snapshots and the last one alone.
LEMMA SameOrder ==
    ASSUME NEW k \in Client, InOrder(k), snap' = snap, pc = "send" <=> pc' = "send",
           seen'[k] = seen[k], toClient'[k] = toClient[k], chan'[k] = chan[k]
    PROVE  InOrder(k)'
BY DEF InOrder, Older, AfterSeen

\* The step of tick takes a later snapshot than all the others.
LEMMA TickInOrder ==
    ASSUME TypeOK, TypeOK', NextIsLater, PairsInOrder, Tick
    PROVE  NextIsLater' /\ PairsInOrder'
<1> USE DEF stateVars, mainVars, connVars, clientVars
<1>1. CASE pc' = "exited" /\ UNCHANGED <<tick, snap>>
      BY <1>1 DEF Tick, NextIsLater, PairsInOrder, InOrder, Older, AfterSeen
<1>2. CASE /\ tick' = IF tick < TickCap THEN tick + 1 ELSE tick
           /\ snap' = [epoch |-> resets, tick |-> tick']
           /\ pc' = "send"
  <2>1. snap \in Snapshot /\ snap' \in Snapshot /\ tick \in 0 .. TickCap /\ resets \in Nat
        BY DEF TypeOK
  <2>2. resets' = resets
        BY DEF Tick
  <2>3. NextIsLater'
        BY <1>2, <2>1, <2>2 DEF NextIsLater, Snapshot
  <2>4. Before(snap, snap')
        BY <1>2, <2>1, ServerAssumption DEF Before, NextIsLater, Snapshot
  <2>5. ASSUME NEW a \in Snapshot, Older(a) PROVE Older(a)'
        BY <2>1, <2>4, <2>5, BeforeTransitive DEF Older
  <2>6. ASSUME NEW k \in Client PROVE InOrder(k)'
    <3>1. InOrder(k)
          BY DEF PairsInOrder
    <3>2. seen' = seen /\ toClient' = toClient /\ chan' = chan
          BY DEF Tick
    <3>3. seen[k] \in Snapshot /\ toClient[k] \in Seq(Snapshot) /\ chan[k] \in Seq(Snapshot)
          BY DEF TypeOK
    <3>4. seen'[k] # NoSnapshot => Older(seen[k])'
          BY <2>5, <3>1, <3>2, <3>3 DEF InOrder
    <3>5. \A i \in DOMAIN toClient'[k] : Older(toClient[k][i])'
          BY <2>5, <3>1, <3>2, <3>3 DEF InOrder
    <3>6. \A i \in DOMAIN chan'[k] : Older(chan[k][i])'
          BY <2>5, <3>1, <3>2, <3>3 DEF InOrder
    <3> QED BY <3>1, <3>2, <3>4, <3>5, <3>6 DEF InOrder, AfterSeen
  <2> QED BY <2>3, <2>6 DEF PairsInOrder
<1> QED BY <1>1, <1>2 DEF Tick

\* update_streams puts the last snapshot behind the others.
LEMMA SendInOrder ==
    ASSUME TypeOK, PairsInOrder, Send
    PROVE  PairsInOrder'
<1> USE DEF stateVars, mainVars, connVars, clientVars
<1>1. ASSUME NEW a, Older(a) PROVE Before(a, snap) /\ Older(a)'
      BY <1>1 DEF Send, Older
<1>2. Older(snap)'
      BY DEF Send, Older
<1>3. ASSUME NEW k \in Client PROVE InOrder(k)'
  <2>1. InOrder(k) /\ chan[k] \in Seq(Snapshot) /\ snap \in Snapshot
        BY DEF PairsInOrder, TypeOK
  <2>2. seen' = seen /\ toClient' = toClient
        BY DEF Send
  <2>3. chan'[k] = chan[k] \/ chan'[k] = Append(chan[k], snap)
        BY DEF Send
  <2>4. CASE chan'[k] = chan[k]
        BY <1>1, <2>1, <2>2, <2>4 DEF InOrder, AfterSeen
  <2>5. CASE chan'[k] = Append(chan[k], snap)
    <3>1. \A i \in DOMAIN chan'[k] :
             \/ i \in DOMAIN chan[k] /\ chan'[k][i] = chan[k][i]
             \/ i = Len(chan[k]) + 1 /\ chan'[k][i] = snap
          BY <2>1, <2>5
    <3>2. \A i \in DOMAIN toClient'[k] :
             Older(toClient[k][i])' /\ AfterSeen(k, toClient[k][i])'
          BY <1>1, <2>1, <2>2 DEF InOrder, AfterSeen
    <3>3. AfterSeen(k, snap)'
          BY <1>1, <2>1, <2>2 DEF InOrder, AfterSeen, Send
    <3>4. \A i \in DOMAIN chan'[k] : Older(chan[k][i])' /\ AfterSeen(k, chan[k][i])'
      <4> SUFFICES ASSUME NEW i \in DOMAIN chan'[k]
                   PROVE  Older(chan[k][i])' /\ AfterSeen(k, chan[k][i])'
          OBVIOUS
      <4>1. CASE i \in DOMAIN chan[k] /\ chan'[k][i] = chan[k][i]
            BY <1>1, <2>1, <2>2, <4>1 DEF InOrder, AfterSeen
      <4>2. CASE chan'[k][i] = snap
        <5>1. snap' = snap
              BY DEF Send
        <5> QED BY <1>2, <3>3, <4>2, <5>1
      <4> QED BY <3>1, <4>1, <4>2
    <3>5. \A i, j \in DOMAIN chan'[k] : i < j => Before(chan'[k][i], chan'[k][j])
          BY <1>1, <2>1, <3>1 DEF InOrder
    <3>6. \A i \in DOMAIN toClient'[k], j \in DOMAIN chan'[k] :
             Before(toClient'[k][i], chan'[k][j])
          BY <1>1, <2>1, <2>2, <3>1 DEF InOrder
    <3> QED BY <1>1, <2>1, <2>2, <3>2, <3>4, <3>5, <3>6 DEF InOrder
  <2> QED BY <2>3, <2>4, <2>5
<1> QED BY <1>3 DEF PairsInOrder

\* The writer moves the oldest queued snapshot behind those in the socket.
LEMMA WriteInOrder ==
    ASSUME TypeOK, PairsInOrder, NEW k \in Client, Write(k)
    PROVE  PairsInOrder'
<1> USE DEF stateVars, mainVars, connVars, clientVars
<1>1. snap' = snap /\ pc' = pc /\ seen' = seen /\ chan[k] # << >>
      BY DEF Write
<1>2. /\ chan[k] \in Seq(Snapshot) /\ toClient[k] \in Seq(Snapshot)
      /\ chan'[k] = Tail(chan[k]) /\ toClient'[k] = Append(toClient[k], Head(chan[k]))
      BY DEF Write, TypeOK
<1>3. \A j \in Client \ {k} : chan'[j] = chan[j] /\ toClient'[j] = toClient[j]
      BY DEF Write, TypeOK
<1>4. \A j \in Client \ {k} : InOrder(j)'
      BY <1>1, <1>3, SameOrder DEF PairsInOrder
<1>5. \A i \in DOMAIN chan'[k] :
         i + 1 \in DOMAIN chan[k] /\ i \in Nat \ {0} /\ chan'[k][i] = chan[k][i + 1]
      BY <1>1, <1>2
<1>6. \A i \in DOMAIN toClient'[k] :
         \/ i \in DOMAIN toClient[k] /\ toClient'[k][i] = toClient[k][i]
         \/ i = Len(toClient[k]) + 1 /\ toClient'[k][i] = chan[k][1]
      BY <1>1, <1>2
<1>7. 1 \in DOMAIN chan[k] /\ Len(toClient[k]) \in Nat /\ DOMAIN toClient[k] = 1 .. Len(toClient[k])
      BY <1>1, <1>2
<1>8. InOrder(k)
      BY DEF PairsInOrder
<1>9. InOrder(k)'
  <2>1. seen'[k] # NoSnapshot => Older(seen[k])'
        BY <1>1, <1>8 DEF InOrder, Older
  <2>2. \A i \in DOMAIN toClient'[k] : Older(toClient[k][i])' /\ AfterSeen(k, toClient[k][i])'
        BY <1>1, <1>6, <1>7, <1>8 DEF InOrder, Older, AfterSeen
  <2>3. \A i \in DOMAIN chan'[k] : Older(chan[k][i])' /\ AfterSeen(k, chan[k][i])'
        BY <1>1, <1>5, <1>8 DEF InOrder, Older, AfterSeen
  <2>4. \A i, j \in DOMAIN toClient'[k] : i < j => Before(toClient'[k][i], toClient'[k][j])
        BY <1>6, <1>7, <1>8 DEF InOrder
  <2>5. \A i, j \in DOMAIN chan'[k] : i < j => Before(chan'[k][i], chan'[k][j])
        BY <1>5, <1>8 DEF InOrder
  <2>6. \A i \in DOMAIN toClient'[k], j \in DOMAIN chan'[k] : Before(toClient'[k][i], chan'[k][j])
        BY <1>5, <1>6, <1>7, <1>8 DEF InOrder
  <2> QED BY <2>1, <2>2, <2>3, <2>4, <2>5, <2>6 DEF InOrder
<1> QED BY <1>4, <1>9 DEF PairsInOrder

\* The client takes the oldest snapshot in its socket.
LEMMA ReceiveInOrder ==
    ASSUME TypeOK, PairsInOrder, NEW k \in Client, Receive(k)
    PROVE  PairsInOrder'
<1> USE DEF stateVars, mainVars, connVars, clientVars
<1>1. snap' = snap /\ pc' = pc /\ chan' = chan /\ toClient[k] # << >>
      BY DEF Receive
<1>2. /\ toClient[k] \in Seq(Snapshot)
      /\ toClient'[k] = Tail(toClient[k]) /\ seen'[k] = Head(toClient[k])
      BY DEF Receive, TypeOK
<1>3. \A j \in Client \ {k} : seen'[j] = seen[j] /\ toClient'[j] = toClient[j]
      BY DEF Receive, TypeOK
<1>4. \A j \in Client \ {k} : InOrder(j)'
      BY <1>1, <1>3, SameOrder DEF PairsInOrder
<1>5. \A i \in DOMAIN toClient'[k] :
         i + 1 \in DOMAIN toClient[k] /\ i \in Nat \ {0} /\ toClient'[k][i] = toClient[k][i + 1]
      BY <1>1, <1>2
<1>6. 1 \in DOMAIN toClient[k] /\ seen'[k] = toClient[k][1]
      BY <1>1, <1>2
<1>7. InOrder(k)
      BY DEF PairsInOrder
<1>8. InOrder(k)'
  <2>1. seen'[k] # NoSnapshot => Older(seen[k])'
        BY <1>1, <1>6, <1>7 DEF InOrder, Older
  <2>2. \A i \in DOMAIN toClient'[k] : Older(toClient[k][i])' /\ AfterSeen(k, toClient[k][i])'
        BY <1>1, <1>5, <1>6, <1>7 DEF InOrder, Older, AfterSeen
  <2>3. \A i \in DOMAIN chan'[k] : Older(chan[k][i])' /\ AfterSeen(k, chan[k][i])'
        BY <1>1, <1>6, <1>7 DEF InOrder, Older, AfterSeen
  <2>4. \A i, j \in DOMAIN toClient'[k] : i < j => Before(toClient'[k][i], toClient'[k][j])
        BY <1>5, <1>7 DEF InOrder
  <2>5. \A i \in DOMAIN toClient'[k], j \in DOMAIN chan'[k] : Before(toClient'[k][i], chan'[k][j])
        BY <1>1, <1>5, <1>7 DEF InOrder
  <2> QED BY <1>1, <1>7, <2>1, <2>2, <2>3, <2>4, <2>5 DEF InOrder
<1> QED BY <1>4, <1>8 DEF PairsInOrder

LEMMA NextInOrder ==
    TypeOK /\ TypeOK' /\ NextIsLater /\ PairsInOrder /\ [Next]_vars
        => NextIsLater' /\ PairsInOrder'
<1> SUFFICES ASSUME TypeOK, TypeOK', NextIsLater, PairsInOrder, [Next]_vars
             PROVE  NextIsLater' /\ PairsInOrder'
    OBVIOUS
<1> USE DEF stateVars, mainVars, connVars, clientVars
<1>1. ASSUME snap' = snap, pc = "send" <=> pc' = "send",
             seen' = seen, toClient' = toClient, chan' = chan
      PROVE  PairsInOrder'
      BY <1>1, SameOrder DEF PairsInOrder
<1>2. ASSUME NEW cmd, Execute(cmd), snap' = snap PROVE NextIsLater'
      BY <1>2 DEF Execute, NextIsLater, TypeOK, Snapshot
<1>3. ASSUME snap' = snap, UNCHANGED stateVars PROVE NextIsLater'
      BY <1>3 DEF NextIsLater
<1>4. CASE Tick
      BY <1>4, TickInOrder
<1>5. CASE Send
      BY <1>3, <1>5, SendInOrder DEF Send
<1>6. CASE Sleep \/ Signal
      BY <1>1, <1>3, <1>6 DEF Sleep, Signal
<1>7. ASSUME NEW k \in Client, Accept(k) \/ FirstRun(k) \/ FirstFails(k) \/ Attach(k)
      PROVE  NextIsLater' /\ PairsInOrder'
      BY <1>1, <1>3, <1>7 DEF Accept, FirstRun, FirstFails, Attach
<1>8. ASSUME NEW k \in Client, FirstCommand(k) PROVE NextIsLater' /\ PairsInOrder'
  <2>1. /\ snap' = snap /\ pc' = pc /\ seen' = seen /\ toClient' = toClient /\ chan' = chan
        /\ Execute(Head(toDaemon[k]))
        BY <1>8 DEF FirstCommand
  <2> QED BY <1>1, <1>2, <2>1
<1>9. ASSUME NEW k \in Client, Read(k) PROVE NextIsLater' /\ PairsInOrder'
  <2>1. snap' = snap /\ pc' = pc /\ seen' = seen /\ toClient' = toClient /\ chan' = chan
        BY <1>9 DEF Read
  <2>2. Execute(Head(toDaemon[k])) \/ UNCHANGED stateVars
        BY <1>9 DEF Read
  <2> QED BY <1>1, <1>2, <1>3, <2>1, <2>2
<1>10. ASSUME NEW k \in Client, Write(k) PROVE NextIsLater' /\ PairsInOrder'
       BY <1>3, <1>10, WriteInOrder DEF Write
<1>11. ASSUME NEW k \in Client, WriteFails(k) PROVE NextIsLater' /\ PairsInOrder'
  <2>1. /\ snap' = snap /\ pc' = pc /\ seen' = seen /\ toClient' = toClient
        /\ chan'[k] = << >> /\ \A j \in Client \ {k} : chan'[j] = chan[j]
        BY <1>11 DEF WriteFails, TypeOK
  <2>2. \A j \in Client \ {k} : InOrder(j)'
        BY <2>1, SameOrder DEF PairsInOrder
  <2>3. InOrder(k)'
        BY <2>1 DEF PairsInOrder, InOrder, Older, AfterSeen
  <2> QED BY <1>3, <1>11, <2>2, <2>3 DEF PairsInOrder, WriteFails
<1>12. ASSUME NEW k \in Client, Receive(k) PROVE NextIsLater' /\ PairsInOrder'
       BY <1>3, <1>12, ReceiveInOrder DEF Receive
<1>13. ASSUME NEW k \in Client, Connect(k) PROVE NextIsLater' /\ PairsInOrder'
       BY <1>1, <1>3, <1>13 DEF Connect
<1>14. ASSUME NEW k \in Client, NEW cmd, SendCommand(k, cmd) PROVE NextIsLater' /\ PairsInOrder'
       BY <1>1, <1>3, <1>14 DEF SendCommand
<1>15. ASSUME NEW k \in Client, Leave(k) PROVE NextIsLater' /\ PairsInOrder'
  <2>1. /\ snap' = snap /\ pc' = pc /\ seen' = seen /\ chan' = chan
        /\ toClient'[k] = << >> /\ \A j \in Client \ {k} : toClient'[j] = toClient[j]
        BY <1>15 DEF Leave, TypeOK
  <2>2. \A j \in Client \ {k} : InOrder(j)'
        BY <2>1, SameOrder DEF PairsInOrder
  <2>3. InOrder(k)'
        BY <2>1 DEF PairsInOrder, InOrder, Older, AfterSeen
  <2> QED BY <1>3, <1>15, <2>2, <2>3 DEF PairsInOrder, Leave
<1>16. CASE UNCHANGED vars
       BY <1>1, <1>3, <1>16 DEF vars
<1> QED
    BY <1>4, <1>5, <1>6, <1>7, <1>8, <1>9, <1>10, <1>11, <1>12, <1>13, <1>14, <1>15, <1>16
    DEF Next, Main, FirstMessage, Writer, Hangup, Quit, StartTui, OneShot, PressKey

\* Two ordered sequences, the second after the first, are ordered one after the other.
Ascending(s) == \A i \in 2 .. Len(s) : Before(s[i-1], s[i])
LEMMA AscendingConcat ==
    ASSUME NEW s \in Seq(Snapshot), NEW t \in Seq(Snapshot), Ascending(s), Ascending(t),
           \A i \in DOMAIN s, j \in DOMAIN t : Before(s[i], t[j])
    PROVE  Ascending(s \o t) /\ s \o t \in Seq(Snapshot)
<1>1. s \o t \in Seq(Snapshot) /\ Len(s \o t) = Len(s) + Len(t)
      OBVIOUS
<1>2. \A i \in 1 .. Len(s) : (s \o t)[i] = s[i]
      OBVIOUS
<1>3. \A i \in Len(s) + 1 .. Len(s) + Len(t) : (s \o t)[i] = t[i - Len(s)]
      OBVIOUS
<1>4. Len(s) \in Nat /\ Len(t) \in Nat /\ DOMAIN s = 1 .. Len(s) /\ DOMAIN t = 1 .. Len(t)
      OBVIOUS
<1>5. ASSUME NEW i \in 2 .. Len(s) + Len(t) PROVE Before((s \o t)[i-1], (s \o t)[i])
  <2>1. CASE i <= Len(s)
        BY <1>2, <1>4, <2>1 DEF Ascending
  <2>2. CASE i = Len(s) + 1
        BY <1>2, <1>3, <1>4, <2>2
  <2>3. CASE i > Len(s) + 1
    <3>1. i - Len(s) \in 2 .. Len(t) /\ (i - 1) - Len(s) = (i - Len(s)) - 1
          BY <1>4, <2>3
    <3>2. (s \o t)[i-1] = t[(i - Len(s)) - 1] /\ (s \o t)[i] = t[i - Len(s)]
          BY <1>3, <1>4, <2>3
    <3> QED BY <3>1, <3>2 DEF Ascending
  <2> QED BY <1>4, <2>1, <2>2, <2>3
<1> QED BY <1>1, <1>5 DEF Ascending

LEMMA PairsGiveOrder == TypeOK /\ PairsInOrder => SnapshotsInOrder
<1> SUFFICES ASSUME TypeOK, PairsInOrder, NEW k \in Client PROVE Ascending(OnTheWay(k))
    BY DEF SnapshotsInOrder, Ascending
<1> DEFINE s == IF seen[k] = NoSnapshot THEN << >> ELSE <<seen[k]>>
<1>1. InOrder(k) /\ seen[k] \in Snapshot
      /\ toClient[k] \in Seq(Snapshot) /\ chan[k] \in Seq(Snapshot)
      BY DEF PairsInOrder, TypeOK
<1>2. s \in Seq(Snapshot) /\ Ascending(s)
      BY <1>1 DEF Ascending
<1>3. \A i \in DOMAIN s : seen[k] # NoSnapshot /\ s[i] = seen[k]
      OBVIOUS
<1>4. Ascending(toClient[k]) /\ Ascending(chan[k])
      BY <1>1 DEF Ascending, InOrder
<1> DEFINE t == s \o toClient[k]
<1>5. Ascending(t) /\ t \in Seq(Snapshot)
  <2>1. \A i \in DOMAIN s, j \in DOMAIN toClient[k] : Before(s[i], toClient[k][j])
        BY <1>1, <1>3 DEF InOrder, AfterSeen
  <2> HIDE DEF s
  <2> QED BY <1>1, <1>2, <1>4, <2>1, AscendingConcat
<1>6. \A i \in DOMAIN t, j \in DOMAIN chan[k] : Before(t[i], chan[k][j])
  <2>1. \A i \in DOMAIN s, j \in DOMAIN chan[k] : Before(s[i], chan[k][j])
        BY <1>1, <1>3 DEF InOrder, AfterSeen
  <2> HIDE DEF s
  <2>2. \A i \in DOMAIN t :
           \/ i \in DOMAIN s /\ t[i] = s[i]
           \/ i - Len(s) \in DOMAIN toClient[k] /\ t[i] = toClient[k][i - Len(s)]
        BY <1>1, <1>2
  <2> QED BY <1>1, <2>1, <2>2 DEF InOrder
<1>7. Ascending(t \o chan[k])
  <2> HIDE DEF t, s
  <2> QED BY <1>1, <1>4, <1>5, <1>6, AscendingConcat
<1> QED BY <1>7 DEF OnTheWay

\* Every client is sent its snapshots in the order they were taken and none twice,
\* for any number of clients and any capacities, whatever full channels skip and
\* resets that fall between taking and sending a snapshot.
THEOREM SnapshotOrder == Spec => []SnapshotsInOrder
<1>1. Init => NextIsLater /\ PairsInOrder
      BY DEF Init, NextIsLater, PairsInOrder, InOrder, NoSnapshot
<1>2. TypeOK /\ PairsInOrder => SnapshotsInOrder
      BY PairsGiveOrder
<1> QED BY <1>1, <1>2, TypeCorrect, NextInOrder, PTL DEF Spec

--------------------------------------------------------------------------------
(* The refinement of SnapshotStream.                                       *)

\* The queues keep to their limits and every write loop is fed.
LEMMA NextBounded == TypeOK /\ BuffersBounded /\ [Next]_vars => BuffersBounded'
<1> SUFFICES ASSUME TypeOK, BuffersBounded, [Next]_vars PROVE BuffersBounded'
    OBVIOUS
<1> USE DEF stateVars, mainVars, connVars, clientVars
<1> \A k \in Client : chan[k] \in Seq(Snapshot) /\ toClient[k] \in Seq(Snapshot)
    BY DEF TypeOK
<1>1. ASSUME chan' = chan, toClient' = toClient, worker' = worker, senders' = senders
      PROVE  BuffersBounded'
      BY <1>1 DEF BuffersBounded, Receiving
<1>2. CASE Tick \/ Sleep \/ Signal
      BY <1>1, <1>2 DEF Tick, Sleep, Signal
<1>3. CASE Send
  <2>1. \A k \in Client : Len(chan'[k]) <= ChanCap
    <3> SUFFICES ASSUME NEW k \in Client PROVE Len(chan'[k]) <= ChanCap
        OBVIOUS
    <3>1. \/ chan'[k] = chan[k]
          \/ chan'[k] = Append(chan[k], snap) /\ Len(chan[k]) < ChanCap
          BY <1>3 DEF Send
    <3> QED BY <3>1, ServerAssumption DEF BuffersBounded
  <2> QED BY <1>3, <2>1 DEF Send, BuffersBounded, Receiving
<1>4. ASSUME NEW k \in Client,
             Accept(k) \/ FirstCommand(k) \/ FirstRun(k) \/ FirstFails(k) \/ Attach(k)
      PROVE  BuffersBounded'
      BY <1>4 DEF Accept, FirstCommand, FirstRun, FirstFails, Attach, BuffersBounded,
                  Receiving, TypeOK
<1>5. ASSUME NEW k \in Client, Read(k) PROVE BuffersBounded'
      BY <1>1, <1>5 DEF Read
<1>6. ASSUME NEW k \in Client, Write(k) PROVE BuffersBounded'
  <2>1. /\ chan'[k] = Tail(chan[k]) /\ toClient'[k] = Append(toClient[k], Head(chan[k]))
        /\ chan[k] # << >> /\ Len(toClient[k]) < SockCap
        BY <1>6 DEF Write, TypeOK
  <2>2. Len(chan'[k]) <= ChanCap /\ Len(toClient'[k]) <= SockCap
        BY <2>1, ServerAssumption DEF BuffersBounded
  <2>3. \A j \in Client \ {k} : chan'[j] = chan[j] /\ toClient'[j] = toClient[j]
        BY <1>6 DEF Write, TypeOK
  <2> QED BY <1>6, <2>2, <2>3 DEF Write, BuffersBounded, Receiving
<1>7. ASSUME NEW k \in Client, WriteFails(k) PROVE BuffersBounded'
      BY <1>7, ServerAssumption DEF WriteFails, BuffersBounded, Receiving, TypeOK
<1>8. ASSUME NEW k \in Client, Connect(k) PROVE BuffersBounded'
      BY <1>1, <1>8 DEF Connect
<1>9. ASSUME NEW k \in Client, NEW cmd, SendCommand(k, cmd) PROVE BuffersBounded'
      BY <1>1, <1>9 DEF SendCommand
<1>10. ASSUME NEW k \in Client, Receive(k) PROVE BuffersBounded'
  <2>1. toClient'[k] = Tail(toClient[k]) /\ toClient[k] # << >>
        BY <1>10 DEF Receive, TypeOK
  <2>2. Len(toClient'[k]) <= SockCap
        BY <2>1, ServerAssumption DEF BuffersBounded
  <2> QED BY <1>10, <2>2 DEF Receive, BuffersBounded, Receiving, TypeOK
<1>11. ASSUME NEW k \in Client, Leave(k) PROVE BuffersBounded'
      BY <1>11, ServerAssumption DEF Leave, BuffersBounded, Receiving, TypeOK
<1>12. CASE UNCHANGED vars
      BY <1>1, <1>12 DEF vars
<1> QED
    BY <1>2, <1>3, <1>4, <1>5, <1>6, <1>7, <1>8, <1>9, <1>10, <1>11, <1>12
    DEF Next, Main, FirstMessage, Writer, Hangup, Quit, StartTui, OneShot, PressKey

\* Sequences: appending and taking on the two sides of a concatenation.
LEMMA AppendToConcat ==
    ASSUME NEW s \in Seq(Snapshot), NEW t \in Seq(Snapshot), NEW x \in Snapshot
    PROVE  s \o Append(t, x) = Append(s \o t, x)
<1>1. <<x>> \in Seq(Snapshot) /\ s \o t \in Seq(Snapshot)
      BY ConcatProperties
<1>2. Append(t, x) = t \o <<x>> /\ Append(s \o t, x) = (s \o t) \o <<x>>
      BY <1>1, AppendIsConcat
<1> QED BY <1>1, <1>2, ConcatAssociative

LEMMA MoveHead ==
    ASSUME NEW s \in Seq(Snapshot), NEW t \in Seq(Snapshot), t # << >>
    PROVE  Append(s, Head(t)) \o Tail(t) = s \o t
<1>1. Len(t) \in Nat \ {0} /\ Head(t) = t[1] /\ Head(t) \in Snapshot
      /\ Tail(t) \in Seq(Snapshot)
      BY EmptySeq, HeadTailProperties
<1>2. t = <<Head(t)>> \o Tail(t)
  <2>1. SubSeq(t, 1, Len(t)) = <<t[1]>> \o SubSeq(t, 2, Len(t))
        BY <1>1, SubSeqRecursiveFirst
  <2> QED BY <1>1, <2>1, SubSeqFull, TailIsSubSeq
<1>3. Append(s, Head(t)) = s \o <<Head(t)>> /\ <<Head(t)>> \in Seq(Snapshot)
      BY <1>1, AppendIsConcat
<1> QED BY <1>1, <1>2, <1>3, ConcatAssociative

LEMMA HeadTailOfConcat ==
    ASSUME NEW s \in Seq(Snapshot), NEW t \in Seq(Snapshot), s # << >>
    PROVE  /\ s \o t # << >>
           /\ Head(s \o t) = Head(s)
           /\ Tail(s \o t) = Tail(s) \o t
<1>1. Len(s) \in Nat \ {0} /\ Len(t) \in Nat /\ Tail(s) \in Seq(Snapshot)
      /\ Len(Tail(s)) = Len(s) - 1
      BY EmptySeq, HeadTailProperties, LenProperties
<1>2. s \o t \in Seq(Snapshot) /\ Len(s \o t) = Len(s) + Len(t)
      /\ \A i \in 1 .. Len(s) + Len(t) :
            (s \o t)[i] = IF i <= Len(s) THEN s[i] ELSE t[i - Len(s)]
      BY ConcatProperties
<1>3. s \o t # << >>
      BY ConcatEqualIffEmpty
<1>4. Head(s \o t) = Head(s)
      BY <1>1, <1>2, <1>3
<1>5. /\ Tail(s \o t) \in Seq(Snapshot) /\ Len(Tail(s \o t)) = Len(s) + Len(t) - 1
      /\ \A i \in 1 .. Len(s) + Len(t) - 1 : Tail(s \o t)[i] = (s \o t)[i + 1]
      BY <1>2, <1>3, HeadTailProperties
<1>6. /\ Tail(s) \o t \in Seq(Snapshot) /\ Len(Tail(s) \o t) = Len(s) - 1 + Len(t)
      /\ \A i \in 1 .. (Len(s) - 1) + Len(t) :
            (Tail(s) \o t)[i] = IF i <= Len(s) - 1 THEN Tail(s)[i] ELSE t[i - (Len(s) - 1)]
      BY <1>1, ConcatProperties
<1>7. \A i \in 1 .. Len(s) - 1 : Tail(s)[i] = s[i + 1]
      BY <1>1, HeadTailProperties
<1>8. ASSUME NEW i \in 1 .. Len(s) + Len(t) - 1 PROVE Tail(s \o t)[i] = (Tail(s) \o t)[i]
  <2>1. Tail(s \o t)[i] = IF i + 1 <= Len(s) THEN s[i + 1] ELSE t[(i + 1) - Len(s)]
        BY <1>1, <1>2, <1>5
  <2>2. (i + 1) - Len(s) = i - (Len(s) - 1) /\ (i + 1 <= Len(s) <=> i <= Len(s) - 1)
        BY <1>1
  <2> QED BY <1>1, <1>6, <1>7, <2>1, <2>2
<1>9. Tail(s \o t) = Tail(s) \o t
      BY <1>1, <1>5, <1>6, <1>8, SeqEqual
<1> QED BY <1>3, <1>4, <1>9

LEMMA SumBounds ==
    ASSUME NEW n, NEW a \in Nat, NEW b \in Nat, n = a + b, NEW c \in Nat, NEW d \in Nat
    PROVE  /\ a \in 0 .. n
           /\ c <= b => n >= c
           /\ a <= d /\ b < c => n < c + d
OBVIOUS

LEMMA FrontOfConcat ==
    ASSUME NEW s \in Seq(Snapshot), NEW t \in Seq(Snapshot)
    PROVE  /\ SubSeq(s \o t, 1, Len(s)) = s
           /\ Len(s \o t) = Len(s) + Len(t) /\ Len(s) \in Nat /\ Len(t) \in Nat
<1>1. Len(s) \in Nat /\ Len(t) \in Nat
      BY LenProperties
<1>2. Len(s \o t) = Len(s) + Len(t)
      BY ConcatProperties
<1>3. CASE Len(s) = 0
      BY <1>3, EmptySeq, SubSeqEmpty
<1>4. CASE Len(s) # 0
      BY <1>1, <1>4, SubSeqOfConcat1, SubSeqFull
<1> QED BY <1>1, <1>2, <1>3, <1>4

\* What the steps that concern one client leave alone.
Beside(k) ==
    /\ snap' = snap /\ (pc = "send" <=> pc' = "send")
    /\ \A j \in Client \ {k} :
          seen'[j] = seen[j] /\ StageOf(j)' = StageOf(j) /\ QueueOf(j)' = QueueOf(j)

\* A step no client's stream notices.
LEMMA StreamStutters ==
    ASSUME TypeOK, TypeOK', snap' = snap, pc = "send" <=> pc' = "send", seen' = seen,
           \A j \in Client : StageOf(j)' = StageOf(j) /\ QueueOf(j)' = QueueOf(j)
    PROVE  UNCHANGED Stream!streamVars
BY DEF Stream!streamVars

\* A step that ends the stream of client k.
LEMMA StreamCut ==
    ASSUME TypeOK, TypeOK', NEW k \in Client, Beside(k), seen' = seen, StageOf(k)' = "cut",
           NEW n \in 0 .. Len(QueueOf(k)), QueueOf(k)' = SubSeq(QueueOf(k), 1, n)
    PROVE  Stream!Cut(k)
<1>1. [j \in Client |-> StageOf(j)]' = [[j \in Client |-> StageOf(j)] EXCEPT ![k] = "cut"]
      BY DEF Beside
<1>2. [j \in Client |-> QueueOf(j)]'
         = [[j \in Client |-> QueueOf(j)] EXCEPT ![k] = SubSeq(@, 1, n)]
      BY DEF Beside
<1> QED BY <1>1, <1>2 DEF Stream!Cut, Beside

\* tick publishes a snapshot, or fails unnoticed.
LEMMA TickRefines ==
    ASSUME TypeOK, TypeOK', NextIsLater, Tick
    PROVE  Stream!Publish \/ UNCHANGED Stream!streamVars
<1> USE DEF stateVars, mainVars, connVars, clientVars
<1>1. /\ pc = "tick" /\ seen' = seen /\ client' = client /\ worker' = worker
      /\ toClient' = toClient /\ chan' = chan
      BY DEF Tick
<1>2. \A j \in Client : StageOf(j)' = StageOf(j) /\ QueueOf(j)' = QueueOf(j)
      BY <1>1 DEF StageOf, QueueOf, Receiving
<1>3. CASE pc' = "exited" /\ UNCHANGED <<tick, snap>>
      BY <1>1, <1>2, <1>3, StreamStutters
<1>4. CASE /\ tick' = IF tick < TickCap THEN tick + 1 ELSE tick
           /\ snap' = [epoch |-> resets, tick |-> tick']
           /\ pc' = "send"
  <2>1. snap \in Snapshot /\ snap' \in Snapshot /\ tick \in 0 .. TickCap /\ resets \in Nat
        BY DEF TypeOK
  <2>2. Stream!Before(snap, snap') /\ snap' \in Stream!Snapshot
        BY <1>4, <2>1, ServerAssumption DEF Stream!Before, Stream!Snapshot, NextIsLater, Snapshot
  <2> QED BY <1>1, <1>2, <1>4, <2>2 DEF Stream!Publish
<1> QED BY <1>3, <1>4 DEF Tick

\* update_streams distributes the snapshot to the clients whose channels have room.
LEMMA SendRefines ==
    ASSUME TypeOK, TypeOK', BuffersBounded, Send
    PROVE  Stream!Distribute
<1> USE DEF stateVars, mainVars, connVars, clientVars
<1> DEFINE sent == {k \in Client : client[k] # "gone" /\ Receiving(k) /\ Len(chan[k]) < ChanCap}
<1>1. /\ pc = "send" /\ pc' = "sleep" /\ snap' = snap /\ seen' = seen
      /\ worker' = worker /\ client' = client /\ toClient' = toClient
      BY DEF Send
<1>2. \A k \in Client : chan[k] \in Seq(Snapshot) /\ toClient[k] \in Seq(Snapshot)
      BY DEF TypeOK
<1>3. \A k \in Client : QueueOf(k) = << >> \/ Len(QueueOf(k)) = Len(toClient[k]) + Len(chan[k])
      BY <1>2, FrontOfConcat DEF QueueOf
<1>4. \A k \in Client : Len(toClient[k]) \in Nat /\ Len(chan[k]) \in Nat
      BY <1>2, FrontOfConcat
<1>5. \A k \in sent : StageOf(k) = "attached" /\ Len(QueueOf(k)) < ChanCap + SockCap
  <2> SUFFICES ASSUME NEW k \in sent
               PROVE  StageOf(k) = "attached" /\ Len(QueueOf(k)) < ChanCap + SockCap
      OBVIOUS
  <2>1. Len(toClient[k]) <= SockCap /\ Len(chan[k]) < ChanCap
        BY DEF BuffersBounded
  <2>2. Len(QueueOf(k)) < ChanCap + SockCap
    <3>1. QueueOf(k) = << >> => Len(QueueOf(k)) = 0
          OBVIOUS
    <3>2. CASE QueueOf(k) = << >>
          BY <3>1, <3>2, ServerAssumption
    <3>3. CASE Len(QueueOf(k)) = Len(toClient[k]) + Len(chan[k])
          BY <1>4, <2>1, <3>3, SumBounds, ServerAssumption
    <3> QED BY <1>3, <3>2, <3>3
  <2> QED BY <2>2 DEF StageOf, Receiving
<1>6. \A k \in Client \ sent : StageOf(k) = "attached" => Len(QueueOf(k)) >= ChanCap
  <2> SUFFICES ASSUME NEW k \in Client, k \notin sent, StageOf(k) = "attached"
               PROVE  Len(QueueOf(k)) >= ChanCap
      OBVIOUS
  <2>1. client[k] # "gone" /\ Receiving(k)
        BY DEF StageOf
  <2>2. ChanCap <= Len(chan[k])
        BY <1>2, <2>1, ServerAssumption
  <2>3. Len(QueueOf(k)) = Len(toClient[k]) + Len(chan[k])
        BY <1>2, <2>1, FrontOfConcat DEF QueueOf
  <2> QED BY <1>4, <2>2, <2>3, SumBounds, ServerAssumption
<1>7. \A k \in Client : StageOf(k)' = StageOf(k)
      BY <1>1 DEF StageOf, Receiving
<1>8. \A k \in Client :
         QueueOf(k)' = IF k \in sent THEN Append(QueueOf(k), snap) ELSE QueueOf(k)
  <2> SUFFICES ASSUME NEW k \in Client
               PROVE  QueueOf(k)' = IF k \in sent THEN Append(QueueOf(k), snap) ELSE QueueOf(k)
      OBVIOUS
  <2>1. CASE client[k] = "gone"
        BY <1>1, <2>1 DEF QueueOf
  <2>2. CASE client[k] # "gone" /\ k \in sent
    <3>1. Receiving(k) /\ k \in senders /\ Len(chan[k]) < ChanCap
          BY <2>2 DEF BuffersBounded
    <3>2. chan'[k] = Append(chan[k], snap)
          BY <3>1 DEF Send
    <3>3. snap \in Snapshot
          BY DEF TypeOK
    <3>4. toClient[k] \o Append(chan[k], snap) = Append(toClient[k] \o chan[k], snap)
          BY <1>2, <3>3, AppendToConcat
    <3> QED BY <1>1, <2>2, <3>2, <3>4 DEF QueueOf
  <2>3. CASE client[k] # "gone" /\ k \notin sent
    <3>1. chan'[k] = chan[k]
          BY <2>3 DEF Send
    <3> QED BY <1>1, <2>3, <3>1 DEF QueueOf
  <2> QED BY <2>1, <2>2, <2>3
<1>9. sent \in SUBSET Client
      OBVIOUS
<1>10. [k \in Client |-> QueueOf(k)]'
         = [k \in Client |-> IF k \in sent THEN Append([j \in Client |-> QueueOf(j)][k], snap)
                                           ELSE [j \in Client |-> QueueOf(j)][k]]
      BY <1>8
<1>11. [k \in Client |-> StageOf(k)]' = [k \in Client |-> StageOf(k)]
      BY <1>7
<1> HIDE DEF sent
<1> QED BY <1>1, <1>5, <1>6, <1>9, <1>10, <1>11 DEF Stream!Distribute

\* The client takes the head of its stream.
LEMMA ReceiveRefines ==
    ASSUME TypeOK, TypeOK', NEW k \in Client, Receive(k)
    PROVE  Stream!Receive(k)
<1> USE DEF stateVars, mainVars, connVars, clientVars
<1>1. /\ snap' = snap /\ pc' = pc /\ chan' = chan /\ worker' = worker /\ client' = client
      /\ client[k] = "tui" /\ toClient[k] # << >>
      BY DEF Receive
<1>2. chan[k] \in Seq(Snapshot) /\ toClient[k] \in Seq(Snapshot)
      BY DEF TypeOK
<1>3. toClient'[k] = Tail(toClient[k]) /\ \A j \in Client \ {k} : toClient'[j] = toClient[j]
      BY DEF Receive, TypeOK
<1>4. \A j \in Client : StageOf(j)' = StageOf(j)
      BY <1>1 DEF StageOf, Receiving
<1>5. \A j \in Client \ {k} : QueueOf(j)' = QueueOf(j)
      BY <1>1, <1>3 DEF QueueOf
<1>6. /\ toClient[k] \o chan[k] # << >>
      /\ Head(toClient[k] \o chan[k]) = Head(toClient[k])
      /\ Tail(toClient[k] \o chan[k]) = Tail(toClient[k]) \o chan[k]
      BY <1>1, <1>2, HeadTailOfConcat
<1>7. QueueOf(k) # << >> /\ Head(QueueOf(k)) = Head(toClient[k]) /\ QueueOf(k)' = Tail(QueueOf(k))
      BY <1>1, <1>3, <1>6 DEF QueueOf
<1>8. [j \in Client |-> QueueOf(j)]' = [[j \in Client |-> QueueOf(j)] EXCEPT ![k] = Tail(@)]
      BY <1>5, <1>7
<1>9. seen' = [seen EXCEPT ![k] = Head([j \in Client |-> QueueOf(j)][k])]
      BY <1>7 DEF Receive
<1> QED BY <1>1, <1>4, <1>7, <1>8, <1>9 DEF Stream!Receive

\* A failed write leaves what is already in the socket.
LEMMA WriteFailsRefines ==
    ASSUME TypeOK, TypeOK', NEW k \in Client, WriteFails(k)
    PROVE  Stream!Cut(k)
<1> USE DEF stateVars, mainVars, connVars, clientVars
<1>1. /\ snap' = snap /\ pc' = pc /\ seen' = seen /\ client' = client /\ toClient' = toClient
      /\ worker'[k] = "done" /\ chan'[k] = << >>
      /\ \A j \in Client \ {k} : worker'[j] = worker[j] /\ chan'[j] = chan[j]
      BY DEF WriteFails, TypeOK
<1>2. Beside(k) /\ StageOf(k)' = "cut"
      BY <1>1 DEF Beside, StageOf, QueueOf, Receiving
<1>3. chan[k] \in Seq(Snapshot) /\ toClient[k] \in Seq(Snapshot)
      BY DEF TypeOK
<1>4. CASE client[k] = "gone"
  <2>1. QueueOf(k) = << >> /\ QueueOf(k)' = << >>
        BY <1>1, <1>4 DEF QueueOf
  <2>2. 0 \in 0 .. Len(QueueOf(k)) /\ QueueOf(k)' = SubSeq(QueueOf(k), 1, 0)
        BY <2>1
  <2> QED BY <1>1, <1>2, <2>2, StreamCut
<1>5. CASE client[k] # "gone"
  <2>1. QueueOf(k) = toClient[k] \o chan[k] /\ QueueOf(k)' = toClient[k] \o << >>
        BY <1>1, <1>5 DEF QueueOf
  <2>2. SubSeq(toClient[k] \o chan[k], 1, Len(toClient[k])) = toClient[k]
        BY <1>3, FrontOfConcat
  <2>3. toClient[k] \o << >> = toClient[k]
        BY <1>3, ConcatEmptySeq
  <2>4. Len(toClient[k]) \in 0 .. Len(QueueOf(k))
    <3>1. /\ Len(QueueOf(k)) = Len(toClient[k]) + Len(chan[k])
          /\ Len(toClient[k]) \in Nat /\ Len(chan[k]) \in Nat
          BY <1>3, <2>1, FrontOfConcat
    <3> QED BY <3>1, SumBounds
  <2> QED BY <1>1, <1>2, <2>1, <2>2, <2>3, <2>4, StreamCut
<1> QED BY <1>4, <1>5

\* A worker that ends without having written loses nothing.
LEMMA EndedRefines ==
    ASSUME TypeOK, TypeOK', NEW k \in Client, snap' = snap, pc' = pc, seen' = seen,
           client' = client, toClient' = toClient, chan' = chan,
           worker' = [worker EXCEPT ![k] = "done"]
    PROVE  Stream!Cut(k)
<1>1. Beside(k) /\ StageOf(k)' = "cut" /\ QueueOf(k)' = QueueOf(k)
      BY DEF Beside, StageOf, QueueOf, Receiving, TypeOK
<1>2. QueueOf(k) \in Seq(Snapshot)
      BY DEF QueueOf, TypeOK
<1>3. Len(QueueOf(k)) \in 0 .. Len(QueueOf(k)) /\ QueueOf(k) = SubSeq(QueueOf(k), 1, Len(QueueOf(k)))
      BY <1>2
<1> QED BY <1>1, <1>3, StreamCut

\* A client that goes loses all that is on its way.
LEMMA GoneRefines ==
    ASSUME TypeOK, TypeOK', NEW k \in Client, snap' = snap, pc' = pc, seen' = seen,
           chan' = chan, worker' = worker, client' = [client EXCEPT ![k] = "gone"],
           \A j \in Client \ {k} : toClient'[j] = toClient[j]
    PROVE  Stream!Cut(k)
<1>1. Beside(k) /\ StageOf(k)' = "cut" /\ QueueOf(k)' = << >>
      BY DEF Beside, StageOf, QueueOf, Receiving, TypeOK
<1>2. QueueOf(k) \in Seq(Snapshot)
      BY DEF QueueOf, TypeOK
<1>3. 0 \in 0 .. Len(QueueOf(k)) /\ << >> = SubSeq(QueueOf(k), 1, 0)
      BY <1>2
<1> QED BY <1>1, <1>3, StreamCut

\* Writing moves a snapshot from the channel to the socket: its client's stream is
\* the same.
LEMMA WriteRefines ==
    ASSUME TypeOK, TypeOK', NEW k \in Client, Write(k)
    PROVE  UNCHANGED Stream!streamVars
<1> USE DEF stateVars, mainVars, connVars, clientVars
<1>1. snap' = snap /\ pc' = pc /\ seen' = seen /\ client' = client /\ worker' = worker
      BY DEF Write
<1>2. /\ chan[k] \in Seq(Snapshot) /\ toClient[k] \in Seq(Snapshot) /\ chan[k] # << >>
      /\ chan'[k] = Tail(chan[k]) /\ toClient'[k] = Append(toClient[k], Head(chan[k]))
      /\ \A j \in Client \ {k} : chan'[j] = chan[j] /\ toClient'[j] = toClient[j]
      BY DEF Write, TypeOK
<1>3. Append(toClient[k], Head(chan[k])) \o Tail(chan[k]) = toClient[k] \o chan[k]
      BY <1>2, MoveHead
<1>4. \A j \in Client : StageOf(j)' = StageOf(j) /\ QueueOf(j)' = QueueOf(j)
      BY <1>1, <1>2, <1>3 DEF StageOf, QueueOf, Receiving
<1> QED BY <1>1, <1>4, StreamStutters

\* A client whose sender has been pushed is attached, unless it has gone meanwhile.
LEMMA AttachRefines ==
    ASSUME TypeOK, TypeOK', NEW k \in Client, Attach(k)
    PROVE  Stream!Attach(k) \/ UNCHANGED Stream!streamVars
<1> USE DEF stateVars, mainVars, connVars, clientVars
<1>1. /\ snap' = snap /\ pc' = pc /\ seen' = seen /\ client' = client
      /\ toClient' = toClient /\ chan' = chan /\ worker[k] = "attach" /\ worker'[k] = "writer"
      /\ \A j \in Client \ {k} : worker'[j] = worker[j]
      BY DEF Attach, TypeOK
<1>2. \A j \in Client : QueueOf(j)' = QueueOf(j)
      BY <1>1 DEF QueueOf
<1>3. \A j \in Client \ {k} : StageOf(j)' = StageOf(j)
      BY <1>1 DEF StageOf, Receiving
<1>4. CASE client[k] = "gone"
  <2>1. StageOf(k)' = StageOf(k)
        BY <1>1, <1>4 DEF StageOf
  <2> QED BY <1>1, <1>2, <1>3, <2>1, StreamStutters
<1>5. CASE client[k] # "gone"
  <2>1. StageOf(k) = "new" /\ StageOf(k)' = "attached"
        BY <1>1, <1>5 DEF StageOf, Receiving
  <2> QED BY <1>1, <1>2, <1>3, <2>1 DEF Stream!Attach
<1> QED BY <1>4, <1>5

LEMMA NextRefines ==
    TypeOK /\ TypeOK' /\ BuffersBounded /\ NextIsLater /\ [Next]_vars
        => [Stream!StreamNext]_(Stream!streamVars)
<1> SUFFICES ASSUME TypeOK, TypeOK', BuffersBounded, NextIsLater, [Next]_vars
             PROVE  Stream!StreamNext \/ UNCHANGED Stream!streamVars
    OBVIOUS
<1> USE DEF stateVars, mainVars, connVars, clientVars
<1>1. ASSUME snap' = snap, pc = "send" <=> pc' = "send", seen' = seen,
             toClient' = toClient, chan' = chan,
             \A j \in Client :
                /\ client'[j] = "gone" <=> client[j] = "gone"
                /\ worker'[j] = "done" <=> worker[j] = "done"
                /\ worker'[j] = "writer" <=> worker[j] = "writer"
      PROVE  UNCHANGED Stream!streamVars
  <2>1. \A j \in Client : StageOf(j)' = StageOf(j) /\ QueueOf(j)' = QueueOf(j)
        BY <1>1 DEF StageOf, QueueOf, Receiving
  <2> QED BY <1>1, <2>1, StreamStutters
<1>2. CASE Tick
      BY <1>2, TickRefines DEF Stream!StreamNext
<1>3. CASE Send
      BY <1>3, SendRefines DEF Stream!StreamNext
<1>4. CASE Sleep \/ Signal
      BY <1>1, <1>4 DEF Sleep, Signal
<1>5. ASSUME NEW k \in Client, Accept(k) \/ FirstRun(k) PROVE UNCHANGED Stream!streamVars
  <2>1. \A j \in Client : /\ worker'[j] = "done" <=> worker[j] = "done"
                          /\ worker'[j] = "writer" <=> worker[j] = "writer"
        BY <1>5 DEF Accept, FirstRun, TypeOK
  <2> QED BY <1>1, <1>5, <2>1 DEF Accept, FirstRun
<1>6. ASSUME NEW k \in Client, FirstCommand(k) \/ FirstFails(k) PROVE Stream!Cut(k)
      BY <1>6, EndedRefines DEF FirstCommand, FirstFails
<1>7. ASSUME NEW k \in Client, Attach(k) PROVE Stream!Attach(k) \/ UNCHANGED Stream!streamVars
      BY <1>7, AttachRefines
<1>8. ASSUME NEW k \in Client, Read(k) PROVE UNCHANGED Stream!streamVars
      BY <1>1, <1>8 DEF Read
<1>9. ASSUME NEW k \in Client, Write(k) PROVE UNCHANGED Stream!streamVars
      BY <1>9, WriteRefines
<1>10. ASSUME NEW k \in Client, WriteFails(k) PROVE Stream!Cut(k)
      BY <1>10, WriteFailsRefines
<1>11. ASSUME NEW k \in Client, Connect(k) \/ StartTui(k) PROVE UNCHANGED Stream!streamVars
  <2>1. \A j \in Client : client'[j] = "gone" <=> client[j] = "gone"
        BY <1>11 DEF Connect, StartTui, TypeOK
  <2> QED BY <1>1, <1>11, <2>1 DEF Connect, StartTui, SendCommand
<1>12. ASSUME NEW k \in Client, NEW op, PressKey(k, op) PROVE UNCHANGED Stream!streamVars
      BY <1>1, <1>12 DEF PressKey, SendCommand
<1>13. ASSUME NEW k \in Client, NEW cmd, OneShot(k, cmd) PROVE Stream!Cut(k)
      BY <1>13, GoneRefines DEF OneShot, SendCommand
<1>14. ASSUME NEW k \in Client, Receive(k) PROVE Stream!Receive(k)
      BY <1>14, ReceiveRefines
<1>15. ASSUME NEW k \in Client, Leave(k) PROVE Stream!Cut(k)
  <2>1. \A j \in Client \ {k} : toClient'[j] = toClient[j]
        BY <1>15 DEF Leave, TypeOK
  <2> QED BY <1>15, <2>1, GoneRefines DEF Leave
<1>16. CASE UNCHANGED vars
      BY <1>1, <1>16 DEF vars
<1>17. ASSUME NEW k \in Client, Stream!Attach(k) \/ Stream!Receive(k) \/ Stream!Cut(k)
       PROVE  Stream!StreamNext
       BY <1>17 DEF Stream!StreamNext
<1> QED
    BY <1>2, <1>3, <1>4, <1>5, <1>6, <1>7, <1>8, <1>9, <1>10, <1>11, <1>12, <1>13, <1>14,
       <1>15, <1>16, <1>17
    DEF Next, Main, FirstMessage, Writer, Hangup, Quit

\* The threads, channels and sockets of any number of connections implement the
\* stream of snapshots: in order, without repetition, with gaps only where a channel
\* was full, and nothing after the writer gave up.
THEOREM StreamImplemented == Spec => ImplementsStream
<1>1. Init => Stream!StreamInit
  <2> SUFFICES ASSUME Init PROVE Stream!StreamInit
      OBVIOUS
  <2>1. \A k \in Client : StageOf(k) = "new" /\ QueueOf(k) = << >>
        BY DEF Init, StageOf, QueueOf, Receiving
  <2> QED BY <2>1 DEF Init, Stream!StreamInit, NoSnapshot, Stream!NoSnapshot
<1>2. Init => BuffersBounded /\ NextIsLater /\ PairsInOrder
      BY ServerAssumption DEF Init, BuffersBounded, Receiving, NextIsLater, PairsInOrder, InOrder,
         NoSnapshot
<1>3. Spec => []BuffersBounded
      BY <1>2, TypeCorrect, NextBounded, PTL DEF Spec
<1>4. Spec => []NextIsLater
      BY <1>2, TypeCorrect, NextInOrder, PTL DEF Spec
<1> QED BY <1>1, <1>3, <1>4, TypeCorrect, NextRefines, PTL
        DEF Spec, ImplementsStream, Stream!StreamSpec

--------------------------------------------------------------------------------
(* No key is lost once snapshots arrive.                                   *)

LEMMA NextFed == TypeOK /\ FedByWriter /\ [Next]_vars => FedByWriter'
<1> SUFFICES ASSUME TypeOK, FedByWriter, [Next]_vars PROVE FedByWriter'
    OBVIOUS
<1> USE DEF stateVars, mainVars, connVars, clientVars
<1>1. ASSUME worker' = worker, toClient' = toClient, seen' = seen PROVE FedByWriter'
      BY <1>1 DEF FedByWriter
<1>2. CASE Tick \/ Send \/ Sleep \/ Signal
      BY <1>1, <1>2 DEF Tick, Send, Sleep, Signal
<1>3. ASSUME NEW k \in Client,
             \/ Accept(k) \/ FirstCommand(k) \/ FirstRun(k) \/ FirstFails(k) \/ Attach(k)
             \/ WriteFails(k)
      PROVE  FedByWriter'
      BY <1>3 DEF Accept, FirstCommand, FirstRun, FirstFails, Attach, WriteFails, FedByWriter,
                  TypeOK
<1>4. ASSUME NEW k \in Client, Read(k) \/ Connect(k) PROVE FedByWriter'
      BY <1>1, <1>4 DEF Read, Connect
<1>5. ASSUME NEW k \in Client, NEW cmd, SendCommand(k, cmd) PROVE FedByWriter'
      BY <1>1, <1>5 DEF SendCommand
<1>6. ASSUME NEW k \in Client, Write(k) PROVE FedByWriter'
      BY <1>6 DEF Write, Receiving, FedByWriter, TypeOK
<1>7. ASSUME NEW k \in Client, Receive(k) PROVE FedByWriter'
      BY <1>7 DEF Receive, FedByWriter, TypeOK
<1>8. ASSUME NEW k \in Client, Leave(k) PROVE FedByWriter'
      BY <1>8 DEF Leave, FedByWriter, TypeOK
<1>9. CASE UNCHANGED vars
      BY <1>1, <1>9 DEF vars
<1> QED
    BY <1>2, <1>3, <1>4, <1>5, <1>6, <1>7, <1>8, <1>9
    DEF Next, Main, FirstMessage, Writer, Hangup, Quit, StartTui, OneShot, PressKey

\* What LaterKeysAreExecuted says of one step.
KeysExecuted ==
    \A k \in Client :
        seen[k] # NoSnapshot /\ Len(toDaemon'[k]) < Len(toDaemon[k]) =>
            Execute(Head(toDaemon[k])) /\ toDaemon'[k] = Tail(toDaemon[k])

LEMMA NextExecutesKeys == TypeOK /\ FedByWriter /\ [Next]_vars => [KeysExecuted]_vars
<1> SUFFICES ASSUME TypeOK, FedByWriter, Next, NEW j \in Client,
                    seen[j] # NoSnapshot, Len(toDaemon'[j]) < Len(toDaemon[j])
             PROVE  Execute(Head(toDaemon[j])) /\ toDaemon'[j] = Tail(toDaemon[j])
    BY DEF KeysExecuted
<1> USE DEF stateVars, mainVars, connVars, clientVars
<1>1. toDaemon[j] \in Seq(Command) /\ Len(toDaemon[j]) \in Nat /\ worker[j] # "first"
      BY DEF TypeOK, FedByWriter
<1>2. toDaemon'[j] # toDaemon[j]
      BY <1>1
<1>3. CASE Tick \/ Send \/ Sleep \/ Signal
      BY <1>2, <1>3 DEF Tick, Send, Sleep, Signal
<1>4. ASSUME NEW k \in Client, FirstCommand(k) \/ FirstRun(k) PROVE FALSE
      BY <1>1, <1>2, <1>4 DEF FirstCommand, FirstRun, TypeOK
<1>5. ASSUME NEW k \in Client,
             \/ Accept(k) \/ FirstFails(k) \/ Attach(k) \/ Write(k) \/ WriteFails(k)
             \/ Connect(k) \/ Receive(k) \/ Leave(k)
      PROVE  FALSE
      BY <1>2, <1>5 DEF Accept, FirstFails, Attach, Write, WriteFails, Connect, Receive, Leave
<1>6. ASSUME NEW k \in Client, NEW cmd, SendCommand(k, cmd) PROVE FALSE
  <2>1. j = k /\ toDaemon'[j] = Append(toDaemon[j], cmd)
        BY <1>2, <1>6 DEF SendCommand, TypeOK
  <2> QED BY <1>1, <2>1
<1>7. ASSUME NEW k \in Client, Read(k)
      PROVE  Execute(Head(toDaemon[j])) /\ toDaemon'[j] = Tail(toDaemon[j])
  <2>1. Execute(Head(toDaemon[k])) /\ toDaemon' = [toDaemon EXCEPT ![k] = Tail(@)]
        BY <1>2, <1>7 DEF Read
  <2> QED BY <1>2, <2>1 DEF TypeOK
<1> QED
    BY <1>3, <1>4, <1>5, <1>6, <1>7
    DEF Next, Main, FirstMessage, Writer, Hangup, Quit, StartTui, OneShot, PressKey

\* Once a TUI has received a snapshot, every command it sends leaves its socket by
\* being executed, in order: the first BufReader is long gone by then.
THEOREM KeysAreExecuted == Spec => LaterKeysAreExecuted
<1>1. Init => FedByWriter
      BY DEF Init, FedByWriter
<1>2. Spec => [][KeysExecuted]_vars
      BY <1>1, TypeCorrect, NextFed, NextExecutesKeys, PTL DEF Spec
<1> QED BY <1>2 DEF LaterKeysAreExecuted, KeysExecuted
================================================================================
