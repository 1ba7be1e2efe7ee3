----------------------------- MODULE MCBoardIo -----------------------------
(***************************************************************************)
(* BoardIo for TLC: a run is about the registers, or about the channels.   *)
(***************************************************************************)
EXTENDS BoardIo

MCBudgets == {[programs |-> 3, messages |-> 1, subscriptions |-> 0],
              [programs |-> 0, messages |-> 2, subscriptions |-> 2],
              [programs |-> 0, messages |-> 3, subscriptions |-> 1],
              [programs |-> 0, messages |-> 1, subscriptions |-> 3]}
=============================================================================
