--------------------------- MODULE MCConsoleInput ---------------------------
(***************************************************************************)
(* ConsoleInput for TLC: scripts.  A unit of time is the 0.3 s of --send   *)
(* in ConsoleInput.cfg, a tenth of a second in ConsoleInputNaN.cfg.        *)
(***************************************************************************)
EXTENDS ConsoleInput

Command(delay, text) == [delay |-> delay, send |-> text]

MCSendText == <<66>>

\* Two messages due with that of --send, one before them and one after them.
MCScript == <<Command(0, <<67, 68>>), Command(1, <<69, 70>>), Command(0, <<71>>), Command(1, <<72>>)>>

\* A command with a good delay, and one whose delay is NaN.
MCNaNScript == <<Command(0, <<67>>), Command(4, <<69>>), Command(NaN, <<70>>)>>
=============================================================================
