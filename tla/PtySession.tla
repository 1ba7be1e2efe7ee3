----------------------------- MODULE PtySession -----------------------------
(***************************************************************************)
(* tools/setup-socat.py and an emulator that is started at any time, with  *)
(* the command line the script announces or another: run_emulator's way to *)
(* its run loop, and the debug console's thread, which waits for its link. *)
(*                                                                         *)
(* A path is one of the emulator's links, or a terminal that is always     *)
(* there.                                                                  *)
(***************************************************************************)
EXTENDS SocatPairs, Config

CONSTANT Commands  \* [given, toml]: a command line and a config.toml

PathOf == [console |-> "console-emu", aux |-> "aux-emu", debug |-> "debug-emu"]
Tty == "tty"
Nothing == [o \in {} |-> None]
NoCommand == [given |-> Nothing, toml |-> Nothing]
ConfOf == [c \in Commands \cup {NoCommand} |-> make_config(build_parser(c.given), read_config(c.toml))]

\* What main prints for the emulator, whatever the ports.
Announced == [t |-> "console-emu", aux |-> "aux-emu", embedded_console |-> "debug-emu"]

ASSUME CommandsAssumption ==
  \A c \in Commands : \A k \in {"console_in", "console_out", "aux", "embedded_console"} :
    ConfOf[c][k] \in {PathOf[p] : p \in Port} \cup {Tty, None, Empty}

VARIABLES epc,     \* where run_emulator is
          command, \* how the emulator was started
          opened,  \* how many of its streams it has opened
          dpc      \* where the debug console's thread is

emulator == <<epc, command, opened, dpc>>
vars == <<svars, emulator>>

conf == ConfOf[command]

\* What is at a path, and whether open finds something there.
At(path) == IF path = Tty THEN Tty ELSE LET p == CHOOSE p \in Port : PathOf[p] = path IN link[p].emu
There(path) == At(path) \in {"made", "old", "file", Tty}

-----------------------------------------------------------------------------
(***************************************************************************)
(* run_emulator.                                                           *)
(***************************************************************************)
\* The end of the process: the streams are closed, and its daemon thread is gone.
Gone(why) == epc' = why /\ command' = NoCommand /\ opened' = 0 /\ dpc' = "off"

Start ==
  /\ epc = "off"
  /\ \E c \in Commands :
       IF HasConsole(ConfOf[c]) THEN epc' = "images" /\ command' = c /\ UNCHANGED <<opened, dpc>>
                              ELSE Gone("gone")
  /\ UNCHANGED svars

LoadDiskImages == epc = "images" /\ epc' = "open" /\ UNCHANGED <<svars, command, opened, dpc>>

Opening == epc = "open" /\ opened < Len(Streams(conf))
NextPath == Streams(conf)[opened + 1]
ForOutput == opened % 2 = 1

Opened == opened' = opened + 1 /\ UNCHANGED <<epc, command, dpc>>

OpenStream ==
  /\ Opening /\ There(NextPath)
  /\ Opened
  /\ UNCHANGED svars

\* Opening for output makes a file where there is nothing.
OpenCreates ==
  /\ Opening /\ ForOutput /\ At(NextPath) = "absent"
  /\ link' = [p \in Port |-> IF PathOf[p] = NextPath THEN [link[p] EXCEPT !.emu = "file"] ELSE link[p]]
  /\ Opened
  /\ UNCHANGED <<script, user, socat>>

\* No such file, or somebody else's terminal.
OpenFails ==
  /\ Opening
  /\ \/ At(NextPath) \in {"old", "dangling"}
     \/ At(NextPath) = "absent" /\ ~ForOutput
  /\ Gone("unopened")
  /\ UNCHANGED svars

\* The board, its devices and listeners, and start_pty_console.
EnterRunLoop ==
  /\ epc = "open" /\ opened = Len(Streams(conf)) /\ conf.board \in {"dim-1001", "dim-1003"}
  /\ epc' = "run"
  /\ dpc' = IF Truthy(conf.embedded_console) THEN "waiting" ELSE "off"
  /\ UNCHANGED <<svars, command, opened>>

\* Ctrl-C, an exception of the run loop, a bad disk image, no such board.
Dies == epc \in {"images", "open", "run"} /\ Gone("gone") /\ UNCHANGED svars

Emulator == Start \/ LoadDiskImages \/ OpenStream \/ OpenCreates \/ OpenFails \/ EnterRunLoop \/ Dies

-----------------------------------------------------------------------------
(***************************************************************************)
(* start_pty_console's thread.                                             *)
(***************************************************************************)
DebugPath == conf.embedded_console
Debug(next) == dpc' = next /\ UNCHANGED <<svars, epc, command, opened>>

\* Mutant: a look at the path, and no wait.
LinkExistsOnce == dpc = "waiting" /\ Debug(IF There(DebugPath) THEN "open" ELSE "dead")
LinkExists == dpc = "waiting" /\ There(DebugPath) /\ Debug("open")

\* The link may be another's or gone since it was looked at.
OpenLink ==
  /\ dpc = "open"
  /\ \/ There(DebugPath) /\ Debug(IF At(DebugPath) = "old" THEN "elsewhere" ELSE "prompt")
     \/ (At(DebugPath) = "old" \/ ~There(DebugPath)) /\ Debug("dead")

DebugThread == LinkExists \/ OpenLink

-----------------------------------------------------------------------------
Init ==
  /\ SocatInit
  /\ epc = "off" /\ command = NoCommand /\ opened = 0
  /\ dpc = "off"

Next == (SocatNext /\ UNCHANGED emulator) \/ Emulator \/ DebugThread

\* Nothing is assumed of the emulator's process; a thread it has started runs.
Spec == Init /\ [][Next]_vars /\ SocatFairness /\ WF_vars(DebugThread)

-----------------------------------------------------------------------------
(***************************************************************************)
(* Properties.                                                             *)
(***************************************************************************)
TypeOK ==
  /\ SocatTypeOK
  /\ epc \in {"off", "images", "open", "run", "gone", "unopened"}
  /\ IF epc \in {"off", "gone", "unopened"}
     THEN command = NoCommand /\ opened = 0 /\ dpc = "off"
     ELSE command \in Commands /\ opened <= Len(Streams(conf))
  /\ dpc \in {"off", "waiting", "open", "prompt", "elsewhere", "dead"}

\* While the pairs stand as they were announced.
Standing == spc = "supervise" /\ ~SomeExited

\* What make_config promises: the command line's answer before the file's.
FirstGiven(s) == LET i == CHOOSE i \in DOMAIN s : Truthy(s[i]) /\ \A j \in 1 .. i - 1 : ~Truthy(s[j]) IN s[i]
AskedOf == [c \in Commands |->
  LET args == build_parser(c.given)
      file == read_config(c.toml)
      aux  == FirstGiven(<<args.aux, file.aux_tty, Tty>>)
  IN  <<FirstGiven(<<args.t, args.ti, file.console_tty>>),
        FirstGiven(<<args.t, args.to, file.console_tty>>), aux, aux>>]

\* Every stream is opened where the user said, on the command line before the file,
\* and while the pairs stand an emulator started with the announced command, or
\* another that names them, gets them, all of them, and nothing else: it does not
\* fail to open one, and neither finds another's terminal nor makes a file.
\* Likewise its debug console.
AnnouncedTerminalsOpen ==
  [][/\ opened' > opened =>
          NextPath = AskedOf[command][opened'] /\ (Standing => At(NextPath) \in {"made", Tty})
     /\ epc = "open" /\ Standing => epc' # "unopened"
     /\ Standing /\ dpc = "open" => dpc' \notin {"elsewhere", "dead"}]_vars

\* A debug console that is waiting for its link when the link is made, and stays, is
\* connected to it, however late that is, or dies with the emulator.
DebugConsoleAttaches ==
  <>[](link["debug"].emu = "made") =>
    ((dpc = "waiting" /\ link["debug"].emu # "old") ~> (dpc = "prompt" \/ epc = "gone"))
=============================================================================
