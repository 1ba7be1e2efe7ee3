------------------------------ MODULE RunLoop ------------------------------
(***************************************************************************)
(* The run loop (run_sim of app.py), the bridge between the C core and the *)
(* Python callbacks (z80.py), and the debug console's thread, which shares *)
(* the bridge and the pause flag with it.                                  *)
(*                                                                         *)
(* An exception cannot cross the C core: a callback that raises leaves it  *)
(* in _pending_callback_exception, callbacks do nothing from then on, and  *)
(* _call_c raises it when the core returns.  The core runs without the     *)
(* interpreter lock, so the console's thread runs beside it.               *)
(***************************************************************************)
EXTENDS Integers

CONSTANTS STEPS,       \* steps_per_chunk of run_sim: n_steps of run_steps
          CHUNK,       \* chunk_size of run_steps
          ConsoleWaits \* whether the user of the console touches the core only
                       \* when the simulator is paused and the run loop rests

ASSUME ChunkAssumption == STEPS \in Nat \ {0} /\ CHUNK \in Nat \ {0}
ASSUME ConsoleAssumption == ConsoleWaits \in BOOLEAN

VARIABLES pc,         \* where the main thread is
          remaining,  \* run_steps: instructions still to run
          left,       \* z80emu_run_steps: instructions left of this call
          pending,    \* _pending_callback_exception
          signal,     \* Ctrl-C was pressed; Python has not raised it yet
          sim_paused,
          cpc,        \* where the console's thread is
          old_state,  \* sim_paused_context: the flag as it found it
          first,      \* history: the first exception a callback of the core left
          dropped,    \* history: an IN or OUT of the guest was not performed
          late,       \* history: a device worked after an exception had been left
          torn        \* history: the core ran while a snapshot was being copied

bridge  == <<remaining, left, pending>>
console == <<cpc, old_state>>
history == <<first, dropped, late, torn>>
vars == <<pc, bridge, signal, sim_paused, console, history>>

None == "none"
Exceptions == {"error", "interrupt"}

\* nested: in a C function that a device called from its callback.
MainPCs    == {"top", "asleep", "poll", "enter", "core", "callback", "nested", "exit", "dead"}
ConsolePCs == {"idle", "call", "dump", "dumpcall", "copying", "restore"}

InCore == pc \in {"core", "callback", "nested"}

Init ==
  /\ pc = "top"
  /\ remaining = 0 /\ left = 0
  /\ pending = None
  /\ signal = FALSE
  /\ sim_paused = FALSE
  /\ cpc = "idle" /\ old_state = FALSE
  /\ first = None
  /\ dropped = FALSE /\ late = FALSE /\ torn = FALSE

-----------------------------------------------------------------------------
(***************************************************************************)
(* The bridge.                                                             *)
(***************************************************************************)
\* _record_pending_exception: the first one stays.  One step, although a second
\* Ctrl-C at the handler's entry would lose both: cffi prints what a handler raises.
Record(e) ==
  /\ pending' = IF pending = None THEN e ELSE pending
  /\ first' = IF first = None THEN e ELSE first

\* Python raises KeyboardInterrupt in the main thread.
Deliver == signal /\ signal' = FALSE

\* An exception leaves run_sim and with it the emulator.
Die == pc' = "dead" /\ UNCHANGED <<remaining, left>>

\* Mutant: the pending exception is cleared and not raised.
ExitForgets ==
  /\ pc = "exit"
  /\ pending' = None
  /\ IF remaining = 0 THEN pc' = "top" ELSE pc' = "enter"
  /\ UNCHANGED <<remaining, left, signal, sim_paused, console, history>>

\* The second _raise_pending_callback_exception() of _call_c, and the loop of
\* run_steps.
Exit ==
  /\ pc = "exit"
  /\ pending' = None
  /\ pc' = IF pending # None THEN "dead" ELSE IF remaining = 0 THEN "top" ELSE "enter"
  /\ UNCHANGED <<remaining, left, signal, sim_paused, console, history>>

\* Mutant: the last chunk is as long as the others.
ChunkLengthFull == CHUNK

\* min(remaining, chunk_size)
ChunkLength == IF remaining < CHUNK THEN remaining ELSE CHUNK

\* The first _raise_pending_callback_exception() of _call_c, and the call.
Enter ==
  /\ pc = "enter"
  /\ pending' = None
  /\ IF pending # None
     THEN Die
     ELSE /\ pc' = "core"
          /\ left' = ChunkLength
          /\ remaining' = remaining - ChunkLength
  /\ UNCHANGED <<signal, sim_paused, console, history>>

-----------------------------------------------------------------------------
(***************************************************************************)
(* The core: an instruction, and what it may call.                         *)
(***************************************************************************)
Instruction ==
  /\ pc = "core" /\ left > 0
  /\ left' = left - 1
  /\ torn' = (torn \/ cpc = "copying")
  /\ UNCHANGED <<pc, remaining, pending, signal, sim_paused, console, first, dropped, late>>

CoreReturns ==
  /\ pc = "core" /\ left = 0
  /\ pc' = "exit"
  /\ UNCHANGED <<bridge, signal, sim_paused, console, history>>

\* A callback takes the interpreter lock, which the copying of memory holds.
LockFree == cpc # "copying"

\* Mutant: callbacks work on although an exception is pending.
CallbackUnguarded ==
  /\ pc = "core" /\ left > 0 /\ LockFree
  /\ pc' = "callback"
  /\ UNCHANGED <<bridge, signal, sim_paused, console, history>>

\* _c_io_in, _c_io_out: nothing happens while an exception is pending.
Callback ==
  /\ pc = "core" /\ left > 0 /\ LockFree
  /\ \/ /\ pending = None
        /\ pc' = "callback"
        /\ UNCHANGED <<left, dropped>>
     \/ /\ pending # None
        /\ dropped' = TRUE
        /\ left' = left - 1
        /\ UNCHANGED pc
  /\ UNCHANGED <<remaining, pending, signal, sim_paused, console, first, late, torn>>

CallbackReturns ==
  /\ pc = "callback" /\ LockFree
  /\ pc' = "core"
  /\ left' = left - 1
  /\ late' = (late \/ first # None)
  /\ UNCHANGED <<remaining, pending, signal, sim_paused, console, first, dropped, torn>>

\* The device raises, or Ctrl-C does in it: onerror.
CallbackRaises ==
  /\ pc = "callback" /\ LockFree
  /\ \/ Record("error") /\ UNCHANGED signal
     \/ Deliver /\ Record("interrupt")
  /\ pc' = "core"
  /\ left' = left - 1
  /\ UNCHANGED <<remaining, sim_paused, console, dropped, late, torn>>

\* IOP14's write calls mem_set_prot and raw_memory: _call_c once more.  What it
\* raises, here or when the call returns, leaves the device's callback and is
\* recorded again by its onerror handler.
CallNested ==
  /\ pc = "callback" /\ LockFree
  /\ IF pending # None
     THEN pc' = "core" /\ left' = left - 1
     ELSE pc' = "nested" /\ UNCHANGED left
  /\ UNCHANGED <<remaining, pending, signal, sim_paused, console, history>>

NestedReturns ==
  /\ pc = "nested" /\ LockFree
  /\ \/ pending = None /\ pc' = "callback" /\ UNCHANGED left
     \/ pending # None /\ pc' = "core" /\ left' = left - 1
  /\ UNCHANGED <<remaining, pending, signal, sim_paused, console, history>>

\* Logging by the core itself is part of an instruction; mem_set_prot, called
\* by a device, logs once.
Logs ==
  \/ pc = "core" /\ left > 0 /\ left' = left - 1
  \/ pc = "nested" /\ pending = None /\ UNCHANGED left

\* Mutant: the logging callback swallows KeyboardInterrupt with the rest.
LogInterruptSwallowed ==
  /\ LockFree /\ Logs
  /\ Deliver
  /\ UNCHANGED <<pc, remaining, pending, sim_paused, console, history>>

\* _c_log_callback and _log_callback_error: Ctrl-C in a logging callback is
\* recorded; an ordinary failure of logging is printed, and changes nothing.
LogInterrupt ==
  /\ LockFree /\ Logs
  /\ Deliver
  /\ Record("interrupt")
  /\ UNCHANGED <<pc, remaining, sim_paused, console, dropped, late, torn>>

Core ==
  \/ Instruction \/ CoreReturns \/ Callback \/ CallbackReturns \/ CallbackRaises
  \/ CallNested \/ NestedReturns \/ LogInterrupt

-----------------------------------------------------------------------------
(***************************************************************************)
(* run_sim.                                                                *)
(***************************************************************************)
\* Mutant: the flag is not looked at.
TopUnpaused ==
  /\ pc = "top"
  /\ pc' = "poll"
  /\ UNCHANGED <<bridge, signal, sim_paused, console, history>>

Top ==
  /\ pc = "top"
  /\ pc' = IF sim_paused THEN "asleep" ELSE "poll"
  /\ UNCHANGED <<bridge, signal, sim_paused, console, history>>

Wake ==
  /\ pc = "asleep"
  /\ pc' = "top"
  /\ UNCHANGED <<bridge, signal, sim_paused, console, history>>

\* scheduled_input.poll() and poll_inputs(), either of which may raise.
Poll ==
  /\ pc = "poll"
  /\ \/ pc' = "enter" /\ remaining' = STEPS /\ UNCHANGED left
     \/ Die
  /\ UNCHANGED <<pending, signal, sim_paused, console, history>>

\* Ctrl-C while the main thread runs Python.
Interrupt ==
  /\ pc \notin {"dead", "core", "callback", "nested"} /\ LockFree
  /\ Deliver
  /\ Die
  /\ UNCHANGED <<pending, sim_paused, console, history>>

Main ==
  \/ LockFree /\ (Top \/ Wake \/ Poll \/ Enter \/ Exit)
  \/ Interrupt
  \/ Core

\* The user presses Ctrl-C.
CtrlC ==
  /\ pc # "dead" /\ ~signal
  /\ signal' = TRUE
  /\ UNCHANGED <<pc, bridge, sim_paused, console, history>>

-----------------------------------------------------------------------------
(***************************************************************************)
(* The debug console: sim_pause, sim_cont, any function of z80.py that     *)
(* goes through _call_c, and dump_mem.                                     *)
(***************************************************************************)
SimPause ==
  /\ cpc = "idle"
  /\ sim_paused' = TRUE
  /\ UNCHANGED <<pc, bridge, signal, console, history>>

SimCont ==
  /\ cpc = "idle"
  /\ sim_paused' = FALSE
  /\ UNCHANGED <<pc, bridge, signal, console, history>>

MayTouchCore == ConsoleWaits => sim_paused /\ pc \in {"top", "asleep"}

\* The console's thread raises what is pending, whoever left it, at its prompt;
\* inside dump_mem the pause state is restored on the way.
TakePending(from, to, onRaise) ==
  /\ cpc = from
  /\ pending' = None
  /\ cpc' = IF pending = None THEN to ELSE onRaise
  /\ UNCHANGED <<pc, remaining, left, signal, sim_paused, old_state, history>>

\* Any call but reset(), which drops the exception, and run_steps.
ConsoleCall    == MayTouchCore /\ TakePending("idle", "call", "idle")
ConsoleReturn  == TakePending("call", "idle", "idle")

\* dump_mem: sim_paused_context, memory_snapshot, and the finally clause.
DumpPause ==
  /\ cpc = "idle" /\ MayTouchCore
  /\ cpc' = "dump"
  /\ old_state' = sim_paused
  /\ sim_paused' = TRUE
  /\ UNCHANGED <<pc, bridge, signal, history>>
DumpCall   == TakePending("dump", "dumpcall", "restore")
DumpReturn == TakePending("dumpcall", "copying", "restore")

\* bytes(raw_memory()) has copied the last byte.
DumpCopied ==
  /\ cpc = "copying"
  /\ cpc' = "restore"
  /\ UNCHANGED <<pc, bridge, signal, sim_paused, old_state, history>>

DumpRestore ==
  /\ cpc = "restore"
  /\ cpc' = "idle"
  /\ sim_paused' = (sim_paused /\ old_state)
  /\ UNCHANGED <<pc, bridge, signal, old_state, history>>

Console ==
  /\ pc # "dead"
  /\ \/ SimPause \/ SimCont \/ ConsoleCall \/ ConsoleReturn
     \/ DumpPause \/ DumpCall \/ DumpReturn \/ DumpCopied \/ DumpRestore

Next == Main \/ CtrlC \/ Console

\* The main thread gets the interpreter lock again and again, the operation of a
\* device ends, and so does a dump.  Python looks for signals at every call and
\* loop: one that waits is raised at one of them.
Fairness ==
  /\ SF_vars(Main)
  /\ SF_vars(CallbackReturns \/ CallbackRaises)
  /\ SF_vars(Interrupt)
  /\ WF_vars(DumpCall \/ DumpReturn \/ DumpCopied \/ DumpRestore)

Spec == Init /\ [][Next]_vars
FairSpec == Spec /\ Fairness

-----------------------------------------------------------------------------
(***************************************************************************)
(* Properties.                                                             *)
(***************************************************************************)

\* Every variable has its type; run_steps never asks the core for more
\* instructions than it was told to run.
TypeOK ==
  /\ pc \in MainPCs /\ cpc \in ConsolePCs
  /\ remaining \in 0 .. STEPS
  /\ left \in 0 .. CHUNK
  /\ pending \in Exceptions \cup {None} /\ first \in Exceptions \cup {None}
  /\ signal \in BOOLEAN /\ sim_paused \in BOOLEAN /\ old_state \in BOOLEAN
  /\ dropped \in BOOLEAN /\ late \in BOOLEAN /\ torn \in BOOLEAN

\* Once a callback has left an exception, it stays pending until the run loop
\* dies: a guest that lost an IN or OUT to it never runs on as if nothing had
\* happened.
ExceptionEndsRun == first # None \/ dropped => pending # None \/ pc = "dead"

\* "Control-flow exceptions are raised after the surrounding C call returns"
\* (_log_callback_error): a Ctrl-C that the core's caller has not seen is pending.
InterruptEndsRun == first = "interrupt" => pending # None \/ pc = "dead"

\* After a callback has left an exception no device does anything more.
NoDeviceAfterException == ~late

\* "Returns a snapshot/copy of the full 64 KiB memory" (memory_snapshot) with
\* the simulator paused (dump_mem): a copy of one moment.
SnapshotOfOneMoment == ~torn

\* Ctrl-C ends the emulator, wherever in the core or its callbacks it arrives.
CtrlCStops == signal ~> pc = "dead"

\* A pause that lasts brings the run loop to rest.
PauseParks == []<>(sim_paused => pc \in {"asleep", "dead"})
=============================================================================
