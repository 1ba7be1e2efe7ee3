------------------------------- MODULE Config -------------------------------
(***************************************************************************)
(* What the emulator is told to open: the command line (cli/mycron.py),    *)
(* config.toml (config.py), and app.py's make_config, which merges them.   *)
(* A command line and a configuration file are functions on the options    *)
(* and keys that they give; argparse and tomllib are taken at their word.  *)
(***************************************************************************)
EXTENDS Sequences

None == "none"
Empty == ""

\* Python's truth of an argument.
Truthy(x) == x \notin {None, Empty}

Options == {"t", "ti", "to", "aux", "embedded_console"}
build_parser(given) == [o \in Options |-> IF o \in DOMAIN given THEN given[o] ELSE None]

Keys == {"board", "console_tty", "aux_tty", "debug_console"}
read_config(toml) ==
  [k \in Keys |-> IF k \in DOMAIN toml THEN toml[k] ELSE IF k = "board" THEN "dim-1003" ELSE None]

\* Mutant: the file's terminal before the command line's.
OrConfiguredFirst(arg, configured) == IF Truthy(configured) THEN configured ELSE arg
OrConfigured(arg, configured) == IF Truthy(arg) \/ ~Truthy(configured) THEN arg ELSE configured

\* -t sets both; a terminal that is still missing is the file's.  An empty -ec is an
\* answer: no debug console.
make_config(args, config) ==
  LET both(arg) == IF Truthy(args.t) THEN args.t ELSE arg
  IN  [console_in  |-> OrConfigured(both(args.ti), config.console_tty),
       console_out |-> OrConfigured(both(args.to), config.console_tty),
       aux         |-> OrConfigured(args.aux, config.aux_tty),
       embedded_console |-> IF args.embedded_console = None THEN config.debug_console
                                                            ELSE args.embedded_console,
       board       |-> config.board]

\* Without both the emulator does not start.
HasConsole(conf) == Truthy(conf.console_in) /\ Truthy(conf.console_out)

\* What run_emulator opens, in order.
Streams(conf) ==
  <<conf.console_in, conf.console_out>> \o (IF Truthy(conf.aux) THEN <<conf.aux, conf.aux>> ELSE <<>>)
=============================================================================
