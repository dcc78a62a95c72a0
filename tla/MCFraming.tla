------------------------------- MODULE MCFraming -------------------------------
(***************************************************************************)
(* A small instance of Framing for TLC: bits for bytes, so that a prefix   *)
(* announces 1 to 3 of them; the last snapshot is too long for it.         *)
(***************************************************************************)
EXTENDS Framing

MCSnapshots == {<<1>>, <<0, 1>>, <<1, 1, 0>>, <<0, 1, 0, 1>>}
MCCommands == {<<1>>, <<0, 1>>}
================================================================================
