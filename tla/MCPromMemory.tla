---------------------------- MODULE MCPromMemory ----------------------------
(***************************************************************************)
(* PromMemory for TLC: the layout of the DIM-1003 board in small, two      *)
(* chips with RAM between and after them.                                  *)
(***************************************************************************)
EXTENDS PromMemory

MCSpan == <<{0, 1}, {3}>>
MCChip == [a \in Addr |-> IF a = 0 THEN 1 ELSE 0]
=============================================================================
