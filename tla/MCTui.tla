--------------------------------- MODULE MCTui ---------------------------------
(***************************************************************************)
(* A small instance of Tui for TLC: three processes that come, go, change  *)
(* places and return under a used PID, and a dead list with a PID twice.   *)
(***************************************************************************)
EXTENDS Tui

MCRow(p, n, s) == [pid |-> p, name |-> n, sent |-> s, recv |-> 1]
MCEmpty == [rows |-> <<>>, dead |-> <<>>]

MCSnapshots ==
    { [rows |-> <<MCRow(1, 1, 0), MCRow(2, 2, 2), MCRow(3, 3, 1)>>, dead |-> <<>>],
      [rows |-> <<MCRow(3, 3, 2), MCRow(1, 1, 1)>>, dead |-> <<MCRow(2, 2, 2)>>],
      [rows |-> <<>>,
       dead |-> <<MCRow(2, 2, 2), MCRow(2, 3, 2), MCRow(1, 1, 1)>>] }

MCUnits == <<"Auto", "B">>

\* Names, all in lower case: 1 and 3 hold an a, 2 does not; PID 1 holds a 1.
MCChars == {"a", "A", "1"}
MCLower == [c \in MCChars |-> IF c = "A" THEN "a" ELSE c]
MCNameHas == [n \in 1..3 |-> IF n = 2 THEN {} ELSE {<<"a">>}]
MCPidHas == [p \in 1..3 |-> IF p = 1 THEN {<<"1">>} ELSE {}]
================================================================================
