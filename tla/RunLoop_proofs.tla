--------------------------- MODULE RunLoop_proofs ---------------------------
(***************************************************************************)
(* With a console that keeps off the core while it may run, an exception   *)
(* ends the run, no device works after it and a snapshot is of one moment, *)
(* for every chunk length.                                                 *)
(***************************************************************************)
EXTENDS RunLoop, TLAPS

\* An instruction that is in a callback has not been counted yet.
CountInv == pc \in {"callback", "nested"} => left > 0

TInv == TypeOK /\ CountInv

\* Outside the core nothing is pending and nothing has happened that should be;
\* a device at work has not been left an exception.
QuietInv ==
  /\ pc \in {"top", "asleep", "poll", "enter", "callback"} =>
       pending = None /\ first = None /\ ~dropped
  /\ ExceptionEndsRun
  /\ NoDeviceAfterException

\* The console in an operation finds the run loop at rest.
RestInv ==
  /\ cpc # "idle" => sim_paused /\ pc \in {"top", "asleep", "dead"}
  /\ SnapshotOfOneMoment

IInv == TInv /\ QuietInv /\ RestInv

LEMMA Zero == 0 \in 0 .. STEPS /\ 0 \in 0 .. CHUNK
  BY ChunkAssumption

LEMMA InitInv == Init => IInv
  <1> SUFFICES ASSUME Init PROVE IInv
    OBVIOUS
  <1>1. TInv
    BY Zero DEF Init, TInv, TypeOK, CountInv, MainPCs, ConsolePCs, Exceptions, None
  <1>2. QuietInv /\ RestInv
    BY DEF Init, QuietInv, RestInv, ExceptionEndsRun, NoDeviceAfterException,
           SnapshotOfOneMoment, None
  <1> QED BY <1>1, <1>2 DEF IInv

\* The types and the count of instructions need no discipline of the console.
LEMMA LeftCounts ==
  ASSUME TInv, left > 0
  PROVE  left - 1 \in 0 .. CHUNK
  BY ChunkAssumption DEF TInv, TypeOK

LEMMA CoreTInv == TInv /\ Core => TInv'
  <1> SUFFICES ASSUME TInv, Core PROVE TInv'
    OBVIOUS
  <1>1. CASE Instruction \/ CoreReturns \/ Callback
    BY <1>1, LeftCounts
    DEF TInv, TypeOK, CountInv, Instruction, CoreReturns, Callback, MainPCs, bridge,
        console, history
  <1>2. CASE CallbackReturns
    BY <1>2, LeftCounts
    DEF TInv, TypeOK, CountInv, CallbackReturns, MainPCs, console
  <1>3. CASE CallbackRaises
    <2>1. /\ pc = "callback" /\ pc' = "core" /\ left' = left - 1
          /\ UNCHANGED <<remaining, sim_paused, cpc, old_state, dropped, late, torn>>
      BY <1>3 DEF CallbackRaises, console
    <2>2. /\ pending' \in Exceptions \cup {pending} /\ first' \in Exceptions \cup {first}
          /\ signal' = signal \/ signal' = FALSE
      BY <1>3 DEF CallbackRaises, Record, Deliver, Exceptions
    <2>3. left' \in 0 .. CHUNK
      BY <2>1, LeftCounts DEF TInv, CountInv
    <2>4. TypeOK'
      BY <2>1, <2>2, <2>3 DEF TInv, TypeOK, MainPCs
    <2> QED BY <2>1, <2>4 DEF TInv, CountInv
  <1>4. CASE CallNested \/ NestedReturns
    BY <1>4, LeftCounts
    DEF TInv, TypeOK, CountInv, CallNested, NestedReturns, MainPCs, console, history
  <1>5. CASE LogInterrupt
    BY <1>5, LeftCounts
    DEF TInv, TypeOK, CountInv, LogInterrupt, Logs, Record, Deliver, MainPCs, Exceptions,
        console
  <1> QED BY <1>1, <1>2, <1>3, <1>4, <1>5 DEF Core

LEMMA ChunkLengthType ==
  ASSUME TInv
  PROVE  ChunkLength \in 0 .. CHUNK /\ remaining - ChunkLength \in 0 .. STEPS
  BY ChunkAssumption DEF TInv, TypeOK, ChunkLength

LEMMA LoopTInv ==
  TInv /\ (Top \/ Wake \/ Poll \/ Enter \/ Exit \/ Interrupt \/ CtrlC) => TInv'
  <1> SUFFICES ASSUME TInv, Top \/ Wake \/ Poll \/ Enter \/ Exit \/ Interrupt \/ CtrlC
               PROVE  TInv'
    OBVIOUS
  <1>1. CASE Top \/ Wake
    BY <1>1 DEF TInv, TypeOK, CountInv, Top, Wake, MainPCs, bridge, console, history
  <1>2. CASE Interrupt \/ CtrlC
    BY <1>2 DEF TInv, TypeOK, CountInv, Interrupt, CtrlC, Die, Deliver, MainPCs,
                bridge, console, history
  <1>3. CASE Poll
    <2>1. STEPS \in 0 .. STEPS
      BY ChunkAssumption
    <2> QED BY <1>3, <2>1 DEF TInv, TypeOK, CountInv, Poll, Die, MainPCs, console, history
  <1>4. CASE Enter
    BY <1>4, ChunkLengthType
    DEF TInv, TypeOK, CountInv, Enter, Die, MainPCs, console, history
  <1>5. CASE Exit
    BY <1>5 DEF TInv, TypeOK, CountInv, Exit, MainPCs, console, history
  <1> QED BY <1>1, <1>2, <1>3, <1>4, <1>5

LEMMA ConsoleTInv == TInv /\ Console => TInv'
  <1> SUFFICES ASSUME TInv, Console PROVE TInv'
    OBVIOUS
  <1>1. CASE SimPause \/ SimCont
    BY <1>1 DEF TInv, TypeOK, CountInv, SimPause, SimCont, bridge, console, history
  <1>2. CASE ConsoleCall \/ ConsoleReturn \/ DumpCall \/ DumpReturn
    BY <1>2 DEF TInv, TypeOK, CountInv, ConsoleCall, ConsoleReturn, DumpCall, DumpReturn,
                TakePending, ConsolePCs, history
  <1>3. CASE DumpPause \/ DumpCopied
    BY <1>3 DEF TInv, TypeOK, CountInv, DumpPause, DumpCopied, ConsolePCs, bridge, history
  <1>4. CASE DumpRestore
    BY <1>4 DEF TInv, TypeOK, CountInv, DumpRestore, ConsolePCs, bridge, history
  <1> QED BY <1>1, <1>2, <1>3, <1>4 DEF Console

LEMMA NextTInv == TInv /\ [Next]_vars => TInv'
  <1> SUFFICES ASSUME TInv, [Next]_vars PROVE TInv'
    OBVIOUS
  <1>1. CASE UNCHANGED vars
    BY <1>1 DEF vars, bridge, console, history, TInv, TypeOK, CountInv
  <1> QED BY <1>1, CoreTInv, LoopTInv, ConsoleTInv DEF Next, Main

\* Types, for any use of the console, and the bound on a chunk: run_steps never
\* asks the core for more instructions than are left to run.
THEOREM TypeCorrect == Spec => []TypeOK
  <1>1. Init => TInv
    BY InitInv DEF IInv
  <1>2. TInv => TypeOK
    BY DEF TInv
  <1> QED BY <1>1, <1>2, NextTInv, PTL DEF Spec

-----------------------------------------------------------------------------
(***************************************************************************)
(* A console that waits.                                                   *)
(***************************************************************************)
\* The core's steps find the console idle, and only add to what is pending.
LEMMA CoreInv == IInv /\ Core => QuietInv' /\ RestInv'
  <1> SUFFICES ASSUME IInv, Core PROVE QuietInv' /\ RestInv'
    OBVIOUS
  <1>1. pc \in {"core", "callback", "nested"} /\ cpc = "idle" /\ cpc' = "idle"
    BY DEF IInv, RestInv, Core, Instruction, CoreReturns, Callback, CallbackReturns,
           CallbackRaises, CallNested, NestedReturns, Logs, LogInterrupt, console
  <1>2. QuietInv'
    <2>1. CASE Instruction \/ CoreReturns \/ Callback
      BY <2>1 DEF IInv, QuietInv, ExceptionEndsRun, NoDeviceAfterException, Instruction,
                  CoreReturns, Callback, bridge, history
    <2>4. CASE CallbackReturns
      <3>1. first = None /\ ~late /\ late' = (late \/ first # None)
        BY <2>4 DEF IInv, QuietInv, NoDeviceAfterException, CallbackReturns
      <3>2. ~late'
        BY <3>1
      <3> QED
        BY <2>4, <3>2 DEF IInv, QuietInv, ExceptionEndsRun, NoDeviceAfterException,
                          CallbackReturns
    <2>2. CASE CallbackRaises \/ LogInterrupt
      BY <2>2 DEF IInv, QuietInv, ExceptionEndsRun, NoDeviceAfterException, CallbackRaises,
                  LogInterrupt, Logs, Record, None
    <2>3. CASE CallNested \/ NestedReturns
      BY <2>3 DEF IInv, QuietInv, ExceptionEndsRun, NoDeviceAfterException, CallNested,
                  NestedReturns, history
    <2> QED BY <2>1, <2>2, <2>3, <2>4 DEF Core
  <1>3. RestInv'
    <2>1. torn' = torn \/ torn' = (torn \/ cpc = "copying")
      BY DEF Core, Instruction, CoreReturns, Callback, CallbackReturns, CallbackRaises,
             CallNested, NestedReturns, LogInterrupt, history
    <2>2. ~torn'
      BY <1>1, <2>1 DEF IInv, RestInv, SnapshotOfOneMoment
    <2> QED BY <1>1, <2>2 DEF RestInv, SnapshotOfOneMoment
  <1> QED BY <1>2, <1>3

LEMMA LoopInv ==
  IInv /\ (Top \/ Wake \/ Poll \/ Enter \/ Exit \/ Interrupt \/ CtrlC) => QuietInv' /\ RestInv'
  BY DEF IInv, TInv, TypeOK, QuietInv, RestInv, ExceptionEndsRun, NoDeviceAfterException,
         SnapshotOfOneMoment, Top, Wake, Poll, Enter, Exit, Interrupt, CtrlC, Die,
         bridge, console, history

\* A console that waits finds nothing pending, and nobody but itself ends a pause.
LEMMA ConsoleInv ==
  ASSUME ConsoleWaits = TRUE, IInv, Console
  PROVE  QuietInv' /\ RestInv'
  <1>1. CASE SimPause \/ SimCont
    BY <1>1 DEF IInv, QuietInv, RestInv, ExceptionEndsRun, NoDeviceAfterException,
                SnapshotOfOneMoment, SimPause, SimCont, bridge, console, history
  <1>2. CASE ConsoleCall \/ ConsoleReturn \/ DumpCall \/ DumpReturn
    BY <1>2 DEF Console, IInv, QuietInv, RestInv, ExceptionEndsRun, NoDeviceAfterException,
                SnapshotOfOneMoment, ConsoleCall, ConsoleReturn, DumpCall, DumpReturn,
                TakePending, MayTouchCore, history
  <1>3. CASE DumpPause \/ DumpCopied \/ DumpRestore
    BY <1>3 DEF IInv, QuietInv, RestInv, ExceptionEndsRun, NoDeviceAfterException,
                SnapshotOfOneMoment, DumpPause, DumpCopied, DumpRestore, MayTouchCore,
                bridge, history
  <1> QED BY <1>1, <1>2, <1>3 DEF Console

LEMMA NextInv == ConsoleWaits = TRUE /\ IInv /\ [Next]_vars => IInv'
  <1> SUFFICES ASSUME ConsoleWaits = TRUE, IInv, [Next]_vars PROVE IInv'
    OBVIOUS
  <1>1. TInv'
    BY NextTInv DEF IInv
  <1>2. CASE UNCHANGED vars
    BY <1>1, <1>2
    DEF vars, bridge, console, history, IInv, QuietInv, RestInv, ExceptionEndsRun,
        NoDeviceAfterException, SnapshotOfOneMoment
  <1> QED BY <1>1, <1>2, CoreInv, LoopInv, ConsoleInv DEF Next, Main, IInv

\* The inductive invariant holds when the console waits for the run loop to rest.
THEOREM Invariance == ConsoleWaits = TRUE => (Spec => []IInv)
  <1> SUFFICES ASSUME ConsoleWaits = TRUE PROVE Spec => []IInv
    OBVIOUS
  <1>1. IInv /\ [Next]_vars => IInv'
    BY NextInv
  <1> QED BY <1>1, InitInv, PTL DEF Spec

\* An exception that a callback leaves in the bridge ends the run loop.
THEOREM ExceptionsStop == ConsoleWaits = TRUE => (Spec => []ExceptionEndsRun)
  <1> SUFFICES ASSUME ConsoleWaits = TRUE PROVE Spec => []ExceptionEndsRun
    OBVIOUS
  <1>1. IInv => ExceptionEndsRun
    BY DEF IInv, QuietInv
  <1> QED BY <1>1, Invariance, PTL

\* No device works between the exception and the end of the run loop.
THEOREM DevicesStop == ConsoleWaits = TRUE => (Spec => []NoDeviceAfterException)
  <1> SUFFICES ASSUME ConsoleWaits = TRUE PROVE Spec => []NoDeviceAfterException
    OBVIOUS
  <1>1. IInv => NoDeviceAfterException
    BY DEF IInv, QuietInv
  <1> QED BY <1>1, Invariance, PTL

\* A memory dump taken at rest is the memory of one moment.
THEOREM SnapshotsHold == ConsoleWaits = TRUE => (Spec => []SnapshotOfOneMoment)
  <1> SUFFICES ASSUME ConsoleWaits = TRUE PROVE Spec => []SnapshotOfOneMoment
    OBVIOUS
  <1>1. IInv => SnapshotOfOneMoment
    BY DEF IInv, RestInv
  <1> QED BY <1>1, Invariance, PTL
=============================================================================
