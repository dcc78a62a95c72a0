------------------------------- MODULE MCServer --------------------------------
(***************************************************************************)
(* Small instances of Server for TLC.                                      *)
(***************************************************************************)
EXTENDS Server, TLC

\* Client names are interchangeable.
ClientSymmetry == Permutations(Client)

\* The one-shot commands of the CLI: every DaemonCommand, `daemon run' included.
AllCli == {Cmd(op) : op \in {"run", "increase", "decrease", "reset"}} \cup
          {[op |-> "interval", millis |-> n] : n \in {MinInterval, MaxInterval}}
NoCli == {}
================================================================================
