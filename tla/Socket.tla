--------------------------------- MODULE Socket --------------------------------
(***************************************************************************)
(* The life of the IPC socket file: daemons that start, probe the path,    *)
(* bind it, crash or are told to stop (procnetd/src/server.rs, signals.rs, *)
(* and the startup and exit of app.rs).  Every system call that reads or   *)
(* changes the path is one step.                                           *)
(***************************************************************************)
EXTENDS Naturals, FiniteSets

CONSTANTS
    Daemon,             \* daemon processes, each may be started repeatedly
    NoFile,             \* the path does not exist
    MaxStarts,          \* bound: starts in one behaviour
    SameUser            \* do all daemons run as one user (or as root)?

ASSUME SocketAssumption ==
    /\ NoFile \notin Daemon
    /\ MaxStarts \in Nat
    /\ SameUser \in BOOLEAN

VARIABLES
    file,       \* the daemon whose bind created the file at the path, or NoFile
    public,     \* has the file at the path mode 0666 (bind creates it narrower)
    pc,         \* pc[d]: where daemon d is, see State
    starts,     \* history: number of starts
    seen,       \* history: seen[d] are the daemons up when d started, and since
    overlapped  \* history: has a daemon started while another was starting?

vars == <<file, public, pc, starts, seen, overlapped>>
historyVars == <<starts, seen, overlapped>>

\* "bound" is between bind and listen in UnixListener::bind; "chmod" is before
\* set_permissions; "up" serves clients; "stopping" has removed the path on a
\* signal; "refused" has returned a ListenerError.
State == {"off", "bind", "probe", "unlink", "rebind", "bound", "chmod", "up",
          "stopping", "refused"}
Starting(d) == pc[d] \in {"bind", "probe", "unlink", "rebind", "bound", "chmod"}
Listening(d) == pc[d] \in {"chmod", "up", "stopping"}

\* Whether connect(path) by daemon d has the permission, and meets a listener.
MayConnect(d) == file # NoFile => file = d \/ SameUser \/ public
Served == \E e \in Daemon : file = e /\ Listening(e)

TypeOK ==
    /\ file \in Daemon \cup {NoFile}
    /\ public \in BOOLEAN
    /\ pc \in [Daemon -> State]
    /\ starts \in Nat
    /\ seen \in [Daemon -> SUBSET Daemon]
    /\ overlapped \in BOOLEAN

Init ==
    /\ file = NoFile
    /\ public = FALSE
    /\ pc = [d \in Daemon |-> "off"]
    /\ starts = 0
    /\ seen = [d \in Daemon |-> {}]
    /\ overlapped = FALSE

Goto(d, s) == pc' = [pc EXCEPT ![d] = s]

Start(d) ==
    /\ pc[d] \in {"off", "refused"}
    /\ starts < MaxStarts
    /\ starts' = starts + 1
    /\ overlapped' = (overlapped \/ \E e \in Daemon : Starting(e))
    /\ seen' = [e \in Daemon |-> IF e = d THEN {u \in Daemon : pc[u] = "up"}
                                 ELSE seen[e] \ {d}]
    /\ Goto(d, "bind")
    /\ UNCHANGED <<file, public>>

\* bind(2) creates the file; an existing one is EADDRINUSE and sends d to s.
TakePath(d, s) ==
    /\ \/ /\ file = NoFile
          /\ file' = d
          /\ public' = FALSE
          /\ Goto(d, "bound")
       \/ /\ file # NoFile
          /\ Goto(d, s)
          /\ UNCHANGED <<file, public>>
    /\ UNCHANGED historyVars

\* bind_unix_listener: the path is taken, or AddrInUse leads to the probe.
Bind(d) == pc[d] = "bind" /\ TakePath(d, "probe")

\* The second half of UnixListener::bind; only now a connect can succeed.
Listen(d) ==
    /\ pc[d] = "bound"
    /\ Goto(d, "chmod")
    /\ UNCHANGED <<file, public, historyVars>>

\* set_permissions follows the path; a failure is logged and ignored.
SetPermissions(d) ==
    /\ pc[d] = "chmod"
    /\ public' = (public \/ file = d \/ (SameUser /\ file # NoFile))
    /\ Goto(d, "up")
    /\ UNCHANGED <<file, historyVars>>

\* Mutants of Probe: the path is taken for stale unasked; a stale path is waited for.
ProbeNobody(d) ==
    /\ pc[d] = "probe"
    /\ Goto(d, "unlink")
    /\ UNCHANGED <<file, public, historyVars>>
ProbeWaits(d) ==
    /\ pc[d] = "probe"
    /\ Served /\ Goto(d, "refused")
    /\ UNCHANGED <<file, public, historyVars>>

\* probe_and_bind: connect is denied or reaches a listener (both InUse), or finds
\* no file or nobody listening (NotFound, ConnectionRefused).
Probe(d) ==
    /\ pc[d] = "probe"
    /\ \/ ~MayConnect(d) /\ Goto(d, "refused")
       \/ MayConnect(d) /\ Served /\ Goto(d, "refused")
       \/ MayConnect(d) /\ ~Served /\ Goto(d, "unlink")
    /\ UNCHANGED <<file, public, historyVars>>

\* remove_file takes whatever is at the path by now.
RemoveFile == file' = NoFile /\ public' = FALSE

\* Mutant of Unlink: the stale file is not removed.
UnlinkNothing(d) ==
    /\ pc[d] = "unlink"
    /\ Goto(d, "rebind")
    /\ UNCHANGED <<file, public, historyVars>>

Unlink(d) ==
    /\ pc[d] = "unlink"
    /\ RemoveFile
    /\ Goto(d, "rebind")
    /\ UNCHANGED historyVars

\* The second bind; AddrInUse is final this time.
Rebind(d) == pc[d] = "rebind" /\ TakePath(d, "refused")

\* SIGINT or SIGTERM: the signal thread removes the path, then run returns.
Signal(d) ==
    /\ pc[d] = "up"
    /\ RemoveFile
    /\ Goto(d, "stopping")
    /\ UNCHANGED historyVars

Exit(d) ==
    /\ pc[d] = "stopping"
    /\ Goto(d, "off")
    /\ UNCHANGED <<file, public, historyVars>>

\* The process dies: it is killed (a signal before the handler is installed kills
\* too), or run returns an error.  The file stays.
Crash(d) ==
    /\ Starting(d) \/ Listening(d)
    /\ Goto(d, "off")
    /\ UNCHANGED <<file, public, historyVars>>

Startup(d) ==
    \/ Bind(d) \/ Listen(d) \/ SetPermissions(d)
    \/ Probe(d) \/ Unlink(d) \/ Rebind(d)

Next ==
    \E d \in Daemon : Start(d) \/ Startup(d) \/ Signal(d) \/ Exit(d) \/ Crash(d)

Spec == Init /\ [][Next]_vars

\* A started daemon runs through its startup, and a signalled one exits.
FairSpec == Spec /\ \A d \in Daemon : WF_vars(Startup(d)) /\ WF_vars(Exit(d))

--------------------------------------------------------------------------------
(* Properties.                                                             *)

\* A live daemon stays reachable by clients of every user: no other daemon's probe,
\* startup, crash or shutdown takes the path from it or leaves it private.
LiveIsReachable == \A d \in Daemon : pc[d] = "up" => file = d /\ public

\* That holds as long as no two startups have overlapped.
SerialKeepsPath == ~overlapped => LiveIsReachable

\* What the probe guarantees even when starts overlap: a startup never removes the
\* socket of a daemon that was up before that startup began ("a live daemon we
\* must not clobber").  Only daemons that start together can take it from another.
EstablishedIsSafe ==
    [][\A d, e \in Daemon : /\ pc[d] = "unlink" /\ pc'[d] = "rebind"
                            /\ file = e /\ pc[e] = "up"
                            => e \notin seen[d]]_vars

\* The file was left by a daemon that died before set_permissions.
LeftPrivate == \E e \in Daemon : file = e /\ ~Listening(e) /\ ~public

\* As long as startups have not overlapped, a start is refused only because another
\* daemon listens.  A stale file left by a crash is no reason, at whatever step the
\* crash came, save for another user's file that was never opened to others.
RefusedOnlyForLive ==
    [][\A d \in Daemon : ~overlapped /\ pc'[d] = "refused" /\ pc[d] # "refused" =>
            \/ \E e \in Daemon \ {d} : Listening(e)
            \/ LeftPrivate /\ ~SameUser]_vars

\* After any history of crashes, a start by a daemon that does not itself die ends
\* with a daemon serving the path, its own or the one that made it give up, under
\* the same two exceptions.
StartComesUp ==
    \A d \in Daemon :
        Starting(d) ~> pc[d] = "off" \/ Served \/ overlapped \/ LeftPrivate
================================================================================
