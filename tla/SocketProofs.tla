----------------------------- MODULE SocketProofs ------------------------------
(***************************************************************************)
(* What the socket protocol guarantees for any number of daemons, starts   *)
(* and crashes: as long as startups have not overlapped, that a live       *)
(* daemon keeps its path and that no stale file refuses a start it need    *)
(* not; always, that established daemons are safe.                         *)
(***************************************************************************)
EXTENDS Socket, TLAPS

\* The states of a daemon that owns the path; of one that has found it unserved.
Owning == {"bound", "chmod"}
Clearing == {"unlink", "rebind"}

\* What non-overlapping starts maintain.  The last two conjuncts are what makes the
\* probe's answer still true when the path is removed and when it is bound again.
AloneStarting ==
    \A d, e \in Daemon : Starting(d) /\ Starting(e) => d = e
OwnerHasPath == \A d \in Daemon : pc[d] \in Owning => file = d
ClearedIsUnserved ==
    \A d, e \in Daemon : pc[d] \in Clearing => pc[e] # "up"
RebindFindsNone == \A d \in Daemon : pc[d] = "rebind" => file = NoFile

Serial ==
    /\ AloneStarting
    /\ LiveIsReachable
    /\ OwnerHasPath
    /\ ClearedIsUnserved
    /\ RebindFindsNone

SerialInv == TypeOK /\ (~overlapped => Serial)

\* What overlapping starts maintain: a daemon seen up has not started again, and
\* a startup about to remove the path does not find it there.
SeenInv ==
    /\ TypeOK
    /\ \A d \in Daemon : \A e \in seen[d] : ~Starting(e)
    /\ \A d \in Daemon : \A e \in seen[d] :
            pc[d] = "unlink" /\ pc[e] = "up" => file # e

--------------------------------------------------------------------------------
\* Nobody has started: the types hold and every daemon is off.
LEMMA InitFacts == Init => /\ TypeOK
                           /\ \A d \in Daemon : pc[d] = "off" /\ seen[d] = {}
<1> SUFFICES ASSUME Init PROVE TypeOK /\ \A d \in Daemon : pc[d] = "off" /\ seen[d] = {}
  OBVIOUS
<1>1. public \in BOOLEAN
  BY Zenon DEF Init
<1>3. overlapped \in BOOLEAN
  BY Zenon DEF Init
<1>2. /\ file \in Daemon \cup {NoFile}
      /\ pc \in [Daemon -> State]
      /\ starts \in Nat
      /\ seen \in [Daemon -> SUBSET Daemon]
      /\ \A d \in Daemon : pc[d] = "off" /\ seen[d] = {}
  BY DEF Init, State
<1> QED
  BY <1>1, <1>2, <1>3 DEF TypeOK

\* Every step of the startup, shutdown and crash code keeps the types.
LEMMA TypeStep == TypeOK /\ [Next]_vars => TypeOK'
<1> SUFFICES ASSUME TypeOK, [Next]_vars PROVE TypeOK'
  OBVIOUS
<1> USE SocketAssumption DEF TypeOK, State, Goto, historyVars
<1>1. ASSUME NEW d \in Daemon, Start(d) PROVE TypeOK'
  BY <1>1 DEF Start
<1>2. ASSUME NEW d \in Daemon, Bind(d) PROVE TypeOK'
  BY <1>2 DEF Bind, TakePath
<1>3. ASSUME NEW d \in Daemon, Listen(d) PROVE TypeOK'
  BY <1>3 DEF Listen
<1>4. ASSUME NEW d \in Daemon, SetPermissions(d) PROVE TypeOK'
  BY <1>4 DEF SetPermissions
<1>5. ASSUME NEW d \in Daemon, Probe(d) PROVE TypeOK'
  BY <1>5 DEF Probe
<1>6. ASSUME NEW d \in Daemon, Unlink(d) PROVE TypeOK'
  BY <1>6 DEF Unlink, RemoveFile
<1>7. ASSUME NEW d \in Daemon, Rebind(d) PROVE TypeOK'
  BY <1>7 DEF Rebind, TakePath
<1>8. ASSUME NEW d \in Daemon, Signal(d) PROVE TypeOK'
  BY <1>8 DEF Signal, RemoveFile
<1>9. ASSUME NEW d \in Daemon, Exit(d) \/ Crash(d) PROVE TypeOK'
  BY <1>9 DEF Exit, Crash
<1>10. CASE UNCHANGED vars
  BY <1>10 DEF vars
<1> QED
  BY <1>1, <1>2, <1>3, <1>4, <1>5, <1>6, <1>7, <1>8, <1>9, <1>10 DEF Next, Startup

--------------------------------------------------------------------------------
\* A step after which startups still have not overlapped keeps the invariant.
LEMMA SerialStep ==
    ASSUME TypeOK, Serial, ~overlapped, [Next]_vars, ~overlapped'
    PROVE  Serial'
<1> USE SocketAssumption DEF Serial, TypeOK, State, Goto, AloneStarting, Starting,
        LiveIsReachable, OwnerHasPath, ClearedIsUnserved, RebindFindsNone, Owning,
        Clearing, historyVars
<1>1. ASSUME NEW d \in Daemon, Start(d) PROVE Serial'
  BY <1>1 DEF Start
<1>2. ASSUME NEW d \in Daemon, Bind(d) PROVE Serial'
  BY <1>2 DEF Bind, TakePath
<1>3. ASSUME NEW d \in Daemon, Listen(d) PROVE Serial'
  BY <1>3 DEF Listen
<1>4. ASSUME NEW d \in Daemon, SetPermissions(d) PROVE Serial'
  BY <1>4 DEF SetPermissions
<1>5. ASSUME NEW d \in Daemon, Probe(d) PROVE Serial'
  <2>1. CASE Served
    BY <1>5, <2>1 DEF Probe
  <2>2. CASE ~Served
    <3>1. \A e \in Daemon : pc[e] # "up"
      BY <2>2 DEF Served, Listening
    <3> QED
      BY <1>5, <3>1 DEF Probe
  <2> QED
    BY <2>1, <2>2
<1>6. ASSUME NEW d \in Daemon, Unlink(d) PROVE Serial'
  BY <1>6 DEF Unlink, RemoveFile
<1>7. ASSUME NEW d \in Daemon, Rebind(d) PROVE Serial'
  BY <1>7 DEF Rebind, TakePath
<1>8. ASSUME NEW d \in Daemon, Signal(d) PROVE Serial'
  BY <1>8 DEF Signal, RemoveFile
<1>9. ASSUME NEW d \in Daemon, Exit(d) \/ Crash(d) PROVE Serial'
  BY <1>9 DEF Exit, Crash, Listening
<1>10. CASE UNCHANGED vars
  BY <1>10 DEF vars
<1> QED
  BY <1>1, <1>2, <1>3, <1>4, <1>5, <1>6, <1>7, <1>8, <1>9, <1>10 DEF Next, Startup

\* The inductive invariant of serial starts.
LEMMA SerialStarts == Spec => []SerialInv
<1>1. Init => SerialInv
  BY InitFacts
     DEF Init, SerialInv, Serial, AloneStarting, Starting, LiveIsReachable,
         OwnerHasPath, Owning, ClearedIsUnserved, Clearing, RebindFindsNone
<1>2. SerialInv /\ [Next]_vars => SerialInv'
  <2>1. overlapped /\ [Next]_vars => overlapped'
    BY DEF Next, Startup, Start, Bind, Listen, SetPermissions, Probe, Unlink, Rebind,
           TakePath, Signal, Exit, Crash, historyVars, vars
  <2> QED
    BY <2>1, TypeStep, SerialStep DEF SerialInv
<1> QED
  BY <1>1, <1>2, PTL DEF Spec

\* bind_unix_listener and the signal handler: as long as startups have not
\* overlapped, a daemon that is up owns the path, open to every user, whatever the
\* others do.
THEOREM LiveKeepsPath == Spec => []SerialKeepsPath
<1>1. SerialInv => SerialKeepsPath
  BY DEF SerialInv, Serial, SerialKeepsPath
<1> QED
  BY <1>1, SerialStarts, PTL

\* probe_and_bind: as long as startups have not overlapped, only a listening daemon,
\* or another user's file that was never opened, refuses a start.
THEOREM StaleNeverRefuses == Spec => RefusedOnlyForLive
<1> DEFINE Reason(d) == \/ \E e \in Daemon \ {d} : Listening(e)
                        \/ LeftPrivate /\ ~SameUser
           Refusal == \A d \in Daemon :
                        ~overlapped /\ pc'[d] = "refused" /\ pc[d] # "refused" =>
                            \/ \E e \in Daemon \ {d} : Listening(e)
                            \/ LeftPrivate /\ ~SameUser
<1>1. ASSUME SerialInv, [Next]_vars PROVE [Refusal]_vars
  <2> SUFFICES ASSUME Next,
                      NEW d \in Daemon, ~overlapped,
                      pc'[d] = "refused", pc[d] # "refused"
               PROVE  Reason(d)
    BY <1>1
  <2>1. Probe(d) \/ Rebind(d)
    <3> USE <1>1 DEF SerialInv, TypeOK, Goto
    <3>1. PICK x \in Daemon : \/ Start(x) \/ Startup(x) \/ Signal(x)
                              \/ Exit(x) \/ Crash(x)
      BY DEF Next
    <3>2. x = d
      BY <3>1 DEF Start, Startup, Bind, Listen, SetPermissions, Probe, Unlink,
                  Rebind, TakePath, Signal, Exit, Crash
    <3> QED
      BY <3>1, <3>2 DEF Start, Startup, Bind, Listen, SetPermissions, Unlink,
                        TakePath, Signal, Exit, Crash
  <2>2. CASE Probe(d) /\ Served
    <3>1. pc[d] = "probe"
      BY <2>2 DEF Probe
    <3> QED
      BY <2>2, <3>1 DEF Served, Listening
  <2>3. CASE Probe(d) /\ ~Served
    <3>1. ~MayConnect(d)
      BY <1>1, <2>3 DEF Probe, SerialInv, TypeOK, Goto
    <3>2. file \in Daemon /\ ~public /\ ~SameUser
      BY <1>1, <3>1 DEF MayConnect, SerialInv, TypeOK
    <3> QED
      BY <2>3, <3>2 DEF Served, LeftPrivate
  <2>4. CASE Rebind(d)
    <3>1. file = NoFile /\ pc[d] = "rebind"
      BY <1>1, <2>4 DEF Rebind, SerialInv, Serial, RebindFindsNone
    <3> QED
      BY <1>1, <2>4, <3>1 DEF Rebind, TakePath, SerialInv, TypeOK, Goto
  <2> QED
    BY <2>1, <2>2, <2>3, <2>4
<1> QED
  BY <1>1, SerialStarts, PTL DEF Spec, RefusedOnlyForLive

--------------------------------------------------------------------------------
\* Even overlapping starts keep the invariant on the daemons seen up.
LEMMA SeenStep == SeenInv /\ [Next]_vars => SeenInv'
<1> SUFFICES ASSUME SeenInv, [Next]_vars PROVE SeenInv'
  OBVIOUS
<1>0. TypeOK'
  BY TypeStep DEF SeenInv
<1> USE <1>0 DEF SeenInv, TypeOK, State, Goto, Starting, historyVars
<1>1. ASSUME NEW d \in Daemon, Start(d) PROVE SeenInv'
  <2>1. \A x \in Daemon : \A e \in seen'[x] : e # d
    BY <1>1 DEF Start
  <2>2. \A x \in Daemon : \A e \in seen'[x] : ~Starting(e)
    BY <1>1 DEF Start
  <2> QED
    BY <1>1, <2>1, <2>2 DEF Start
<1>2. ASSUME NEW d \in Daemon, Bind(d) PROVE SeenInv'
  BY <1>2 DEF Bind, TakePath
<1>3. ASSUME NEW d \in Daemon, Listen(d) PROVE SeenInv'
  BY <1>3 DEF Listen
<1>4. ASSUME NEW d \in Daemon, SetPermissions(d) PROVE SeenInv'
  BY <1>4 DEF SetPermissions
<1>5. ASSUME NEW d \in Daemon, Probe(d) PROVE SeenInv'
  BY <1>5 DEF Probe, Served, Listening
<1>6. ASSUME NEW d \in Daemon, Unlink(d) PROVE SeenInv'
  BY <1>6, SocketAssumption DEF Unlink, RemoveFile
<1>7. ASSUME NEW d \in Daemon, Rebind(d) PROVE SeenInv'
  BY <1>7 DEF Rebind, TakePath
<1>8. ASSUME NEW d \in Daemon, Signal(d) PROVE SeenInv'
  BY <1>8, SocketAssumption DEF Signal, RemoveFile
<1>9. ASSUME NEW d \in Daemon, Exit(d) \/ Crash(d) PROVE SeenInv'
  BY <1>9 DEF Exit, Crash, Listening
<1>10. CASE UNCHANGED vars
  BY <1>10 DEF vars
<1> QED
  BY <1>1, <1>2, <1>3, <1>4, <1>5, <1>6, <1>7, <1>8, <1>9, <1>10 DEF Next, Startup

\* probe_and_bind: however starts overlap, a startup never removes the socket of a
\* daemon that was up before it began.
THEOREM ProbeProtectsEstablished == Spec => EstablishedIsSafe
<1> DEFINE Safe == \A d, e \in Daemon : /\ pc[d] = "unlink" /\ pc'[d] = "rebind"
                                        /\ file = e /\ pc[e] = "up"
                                        => e \notin seen[d]
<1>1. Init => SeenInv
  BY InitFacts DEF SeenInv
<1>2. SeenInv /\ [Next]_vars => SeenInv'
  BY SeenStep
<1>3. SeenInv => [Safe]_vars
  BY DEF SeenInv, TypeOK
<1> QED
  BY <1>1, <1>2, <1>3, PTL DEF Spec, EstablishedIsSafe
================================================================================
