---------------------------- MODULE MCPtySession ----------------------------
(***************************************************************************)
(* PtySession for TLC: all three ports, and the ways to start.            *)
(***************************************************************************)
EXTENDS PtySession

MCPorts == <<"console", "aux", "debug">>

ByFile == [console_tty |-> "console-emu", aux_tty |-> "aux-emu", debug_console |-> "debug-emu"]
Elsewhere == [board |-> "dim-1001", console_tty |-> Tty, aux_tty |-> Tty, debug_console |-> Tty]

MCCommands == {
  [given |-> Announced, toml |-> Elsewhere],
  [given |-> Nothing, toml |-> ByFile],
  [given |-> [ti |-> Tty, embedded_console |-> Empty], toml |-> ByFile],
  [given |-> [t |-> Tty, to |-> "console-emu", aux |-> Empty, embedded_console |-> "debug-emu"],
   toml |-> [board |-> "no such board"]],
  [given |-> [to |-> Tty], toml |-> [aux_tty |-> Tty]]}
=============================================================================
