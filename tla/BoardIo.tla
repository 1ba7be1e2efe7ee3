------------------------------ MODULE BoardIo ------------------------------
(***************************************************************************)
(* The guest's I/O space: the port table of a board (boards.py), the       *)
(* devices behind it but for the disk controller (serial.py, parallel.py,  *)
(* simple.py), and the channels (channels.py) that carry the serial ports' *)
(* bytes to and from any number of listeners.                              *)
(*                                                                         *)
(* A channel calls its listeners one by one on the thread that sends: the  *)
(* core's callback for output, run_sim for input.  The debug console's     *)
(* thread may subscribe and unsubscribe between any two of these calls, as *)
(* a listener may itself.  A message is known by its number in its channel.*)
(***************************************************************************)
EXTENDS Integers, Sequences

CONSTANTS Boards,   \* the values config['board'] may have
          Registers,\* the write registers of a serial port that the guest programs
          Values,   \* what it writes into registers and latches
          Budgets   \* bounds: OUTs to registers, messages, subscriptions

SerialPorts    == {"console", "aux"}
InputChannels  == {"console_input", "aux_input"}
OutputChannels == {"console_output", "aux_output"}
Channels       == InputChannels \cup OutputChannels
Latches        == {"a_data", "a_ctrl", "b_ctrl", "proms"}

ASSUME BoardAssumption == Boards \subseteq {"dim-1001", "dim-1003"}
ASSUME RegisterAssumption == Registers \subseteq 1 .. 7 /\ Values \subseteq 0 .. 255
ASSUME BudgetAssumption == Budgets \subseteq [programs : Nat, messages : Nat, subscriptions : Nat]

VARIABLES board,
          budget,
          pc,        \* the main thread: in the core, in a send, in run_sim's loop
          guest,     \* where the guest is in the PROM's redirect_print
          serial,    \* selected_wr and write_registers of each SerialPort
          latches,   \* Z80PioPrinter's three, and what the board's PROMs were set to
          ch, todo,  \* Channel.send: its channel, the listeners it has yet to call
          raised,    \* the exception that has left a device or a send
          listeners, \* Channel._listeners: a subscription by its id
          next_id,   \* Channel._next_id
          subs,      \* history: the subscriptions of a channel, in order
          sent,      \* history: how many messages were sent to it
          setting,   \* history: the register the guest has chosen and not yet written
          programmed,\* history: what the guest wrote to each write register
          asked      \* history: and to each latch

devices == <<serial, latches>>
sending == <<ch, todo>>
fanout  == <<listeners, next_id, subs>>
meant   == <<setting, programmed, asked>>
vars == <<board, budget, pc, guest, devices, sending, raised, fanout, sent, meant>>

None == "none"
Open == -1  \* until, of a subscription that has not ended
Least(S) == CHOOSE x \in S : \A y \in S : x <= y
Last(S) == CHOOSE x \in S : \A y \in S : y <= x

-----------------------------------------------------------------------------
(***************************************************************************)
(* The port table.                                                         *)
(***************************************************************************)
Entry(device, ports) == [device |-> device, ports |-> ports]
Disk == Entry("disk", {136, 137, 138, 152, 154})

\* Mutant: the console on port A of the SIO.
RegistrationsSwapped(b) ==
  IF b = "dim-1001" THEN <<Entry("console", {0, 1}), Disk>>
  ELSE <<Entry("console", {12, 13}), Entry("aux", {14, 15}), Entry("pio", 4 .. 7),
         Entry("ctc", 0 .. 3), Entry("iop14", 20 .. 23), Disk>>

\* Mutant: the CTC's registration reaches into the PIO's ports.
RegistrationsOverlap(b) ==
  IF b = "dim-1001" THEN <<Entry("console", {0, 1}), Disk>>
  ELSE <<Entry("console", {14, 15}), Entry("aux", {12, 13}), Entry("pio", 4 .. 7),
         Entry("ctc", 0 .. 4), Entry("iop14", 20 .. 23), Disk>>

\* The devices in the order in which a board registers them.
Registrations(b) ==
  IF b = "dim-1001" THEN <<Entry("console", {0, 1}), Disk>>
  ELSE <<Entry("console", {14, 15}), Entry("aux", {12, 13}), Entry("pio", 4 .. 7),
         Entry("ctc", 0 .. 3), Entry("iop14", 20 .. 23), Disk>>

\* io_ports.get(port, unknown_io): the last device registered there.
DeviceAt(port) ==
  LET table == Registrations(board)
      there == {i \in DOMAIN table : port \in table[i].ports}
  IN  IF there = {} THEN "unknown" ELSE table[Last(there)].device

DataPortOf(device) ==
  LET table == Registrations(board)
      i == CHOOSE i \in DOMAIN table : table[i].device = device
  IN  Least(table[i].ports)

OutputOf(device) == IF device = "console" THEN "console_output" ELSE "aux_output"

\* Mutant: no carrier on the aux port.
StatusMaskNone(device) == 0
StatusMask(device) == IF device = "aux" THEN 8 ELSE 0

\* io_in, where the guest's routines read: the PIO's port B is wired to "use the
\* SIO", and a serial port is always ready to transmit.
In(port) ==
  LET device == DeviceAt(port)
  IN  CASE device \in SerialPorts -> StatusMask(device) + 4
        [] device = "pio" /\ port = 4 -> latches["a_data"]
        [] device = "iop14" -> 155
        [] OTHER -> 255

-----------------------------------------------------------------------------
(***************************************************************************)
(* Channel.                                                                *)
(***************************************************************************)
Startup(c) ==
  IF c = "aux_input" /\ board = "dim-1001" THEN <<>>
  ELSE <<[id |-> 0, since |-> 0, until |-> Open, heard |-> <<>>, failed |-> FALSE]>>

Subscriptions(c) == {listeners[c][id] : id \in DOMAIN listeners[c]}

\* Channel.send: the listeners of this moment.
Send(c) == pc' = "send" /\ ch' = c /\ todo' = Subscriptions(c)

Called(k, fails) ==
  /\ pc = "send" /\ k \in todo /\ \A l \in todo : k <= l
  /\ subs' = [subs EXCEPT ![ch][k].heard = Append(@, sent[ch]), ![ch][k].failed = @ \/ fails]
  /\ UNCHANGED <<board, budget, guest, devices, ch, listeners, next_id, sent, meant>>

Return(k) == todo' = todo \ {k} /\ UNCHANGED <<pc, raised>>

\* Mutant: the loop runs over the dictionary and not over a copy.
ListenerReturnsLive(k) ==
  /\ Called(k, FALSE)
  /\ todo' = {l \in Subscriptions(ch) : l > k}
  /\ UNCHANGED <<pc, raised>>

ListenerReturns(k) == Called(k, FALSE) /\ Return(k)

\* An exception leaves send: it ends run_sim, or is recorded by _c_io_out.
Raise(k, e) ==
  /\ todo' = todo \ {k}
  /\ raised' = e
  /\ pc' = IF ch \in InputChannels THEN "dead" ELSE "core"

\* Mutant: the channels of the emulator are all created without suppression.
SuppressNone(c) == FALSE
\* Mutant: the channels of the emulator are all created with it.
SuppressAll(c) == TRUE
suppress_listener_errors(c) == c \in OutputChannels

ListenerFails(k) ==
  /\ Called(k, TRUE)
  /\ IF suppress_listener_errors(ch) THEN Return(k) ELSE Raise(k, "error")

ListenerInterrupted(k) == Called(k, FALSE) /\ Raise(k, "interrupt")

SendReturns ==
  /\ pc = "send" /\ todo = {}
  /\ pc' = IF ch \in InputChannels THEN "loop" ELSE "core"
  /\ UNCHANGED <<board, budget, guest, devices, sending, raised, fanout, sent, meant>>

Sending ==
  \/ \E k \in todo : ListenerReturns(k) \/ ListenerFails(k) \/ ListenerInterrupted(k)
  \/ SendReturns

\* Mutant: the id is the number of listeners.
FreshIdReused(c) == Len(subs[c]) - Len(SelectSeq(subs[c], LAMBDA s : s.until # Open))
\* Mutant: the id is taken after the count.
FreshIdLate(c) == next_id[c] + 1
FreshId(c) == next_id[c]

\* Three statements, between which CPython changes no thread.
Subscribe(c) ==
  /\ pc # "dead" /\ budget.subscriptions > 0
  /\ listeners' = [listeners EXCEPT ![c] =
       [id \in DOMAIN @ \cup {FreshId(c)} |-> IF id = FreshId(c) THEN Len(subs[c]) + 1 ELSE @[id]]]
  /\ next_id' = [next_id EXCEPT ![c] = @ + 1]
  /\ subs' = [subs EXCEPT ![c] =
       Append(@, [id |-> FreshId(c), since |-> sent[c], until |-> Open, heard |-> <<>>, failed |-> FALSE])]
  /\ budget' = [budget EXCEPT !.subscriptions = @ - 1]
  /\ UNCHANGED <<board, pc, guest, devices, sending, raised, sent, meant>>

\* The function subscribe returned, called once or more.  run_emulator keeps none.
Unsubscribe(c, k) ==
  /\ pc # "dead" /\ k \in Len(Startup(c)) + 1 .. Len(subs[c])
  /\ listeners' = [listeners EXCEPT ![c] = [id \in DOMAIN @ \ {subs[c][k].id} |-> @[id]]]
  /\ subs' = [subs EXCEPT ![c][k].until = IF @ = Open THEN sent[c] ELSE @]
  /\ UNCHANGED <<board, budget, pc, guest, devices, sending, raised, next_id, sent, meant>>

-----------------------------------------------------------------------------
(***************************************************************************)
(* io_out and the devices.                                                 *)
(***************************************************************************)
\* Mutant: a register that was written stays selected.
AfterControlStaysSelected(port, val) ==
  IF port.selected_wr # 0 THEN [port EXCEPT !.write_registers[port.selected_wr] = val]
  ELSE IF val % 8 # 0 THEN [port EXCEPT !.selected_wr = val % 8]
  ELSE [port EXCEPT !.write_registers[0] = val]

\* SerialPort._write_control: two bytes to a register, one to WR0.
AfterControl(port, val) ==
  IF port.selected_wr # 0
  THEN [port EXCEPT !.write_registers[port.selected_wr] = val, !.selected_wr = 0]
  ELSE IF val % 8 # 0 THEN [port EXCEPT !.selected_wr = val % 8]
  ELSE [port EXCEPT !.write_registers[0] = val]

\* Z80PioPrinter.write and IOP14.write; PromMemory has what becomes of the latter.
AfterLatch(device, port, val) ==
  CASE device = "pio" /\ port = 4 -> [latches EXCEPT !["a_data"] = val]
    [] device = "pio" /\ port = 6 -> [latches EXCEPT !["a_ctrl"] = val]
    [] device = "pio" /\ port = 7 -> [latches EXCEPT !["b_ctrl"] = val]
    [] device = "iop14"           -> [latches EXCEPT !["proms"] = val % 2]
    [] OTHER                      -> latches

\* The CTC and unknown_io log; the disk controller is DiskController.
Out(port, val) ==
  LET device == DeviceAt(port)
      isData == device \in SerialPorts /\ port = DataPortOf(device)
  IN  /\ IF isData THEN Send(OutputOf(device)) ELSE UNCHANGED <<pc, sending>>
      /\ serial' = IF device \in SerialPorts /\ ~isData
                   THEN [serial EXCEPT ![device] = AfterControl(@, val)] ELSE serial
      /\ latches' = AfterLatch(device, port, val)
      /\ UNCHANGED <<board, raised, fanout>>

-----------------------------------------------------------------------------
(***************************************************************************)
(* The guest, who knows the hardware.  With an exception pending its INs   *)
(* and OUTs have no effect (RunLoop).                                      *)
(***************************************************************************)
DataPort(s) == IF board = "dim-1001" THEN 0 ELSE IF s = "console" THEN 14 ELSE 12
ControlPort(s) == DataPort(s) + 1
LatchPort == [a_data |-> 4, a_ctrl |-> 6, b_ctrl |-> 7, proms |-> 20]
Fitted == IF board = "dim-1001" THEN {"console"} ELSE SerialPorts

Executes == pc = "core" /\ raised = None
Spend(what) == budget[what] > 0 /\ budget' = [budget EXCEPT ![what] = @ - 1]

\* SIO set-up, as the PROM does at 0x1cd: a register's number, then its value.
SelectRegister(s, r) ==
  /\ Executes /\ guest = "free" /\ setting[s] = 0 /\ Spend("programs")
  /\ Out(ControlPort(s), r)
  /\ setting' = [setting EXCEPT ![s] = r]
  /\ UNCHANGED <<guest, sent, programmed, asked>>

SetRegister(s, v) ==
  /\ Executes /\ guest = "free" /\ setting[s] # 0
  /\ Out(ControlPort(s), v)
  /\ setting' = [setting EXCEPT ![s] = 0]
  /\ programmed' = [programmed EXCEPT ![s][setting[s]] = v]
  /\ UNCHANGED <<budget, guest, sent, asked>>

SetLatch(l, v) ==
  /\ Executes /\ guest = "free" /\ board = "dim-1003" /\ Spend("programs")
  /\ Out(LatchPort[l], v)
  /\ asked' = [asked EXCEPT ![l] = IF l = "proms" THEN v % 2 ELSE v]
  /\ UNCHANGED <<guest, sent, setting, programmed>>

\* Ports without state: the CTC's, and those of no device.
OutElsewhere(port) ==
  /\ Executes /\ guest = "free" /\ Spend("programs")
  /\ Out(port, 1)
  /\ UNCHANGED <<guest, sent, meant>>

Character(s) ==
  /\ Out(DataPort(s), 65)
  /\ sent' = [sent EXCEPT ![OutputOf(s)] = @ + 1]
  /\ UNCHANGED meant

OutCharacter(s) ==
  Executes /\ guest = "free" /\ Spend("messages") /\ Character(s) /\ UNCHANGED guest

\* redirect_print: port B of the PIO says which way to print; every other way than
\* the SIO waits for a printer that is not there.
PrintBegins ==
  /\ Executes /\ guest = "free" /\ board = "dim-1003" /\ setting["aux"] = 0 /\ Spend("messages")
  /\ guest' = "select"
  /\ UNCHANGED <<board, pc, devices, sending, raised, fanout, sent, meant>>

PrintSelects ==
  /\ Executes /\ guest = "select"
  /\ guest' = IF In(5) = 255 THEN "carrier" ELSE "lost"
  /\ UNCHANGED <<board, budget, pc, devices, sending, raised, fanout, sent, meant>>

\* OUT of 0 to the control port, IN from it, and back while a bit of it is clear.
Polls(at, bit, next) ==
  /\ Executes /\ guest = at
  /\ Out(ControlPort("aux"), 0)
  /\ programmed' = [programmed EXCEPT !["aux"][0] = 0]
  /\ guest' = IF (In(ControlPort("aux")) \div bit) % 2 = 1 THEN next ELSE at
  /\ UNCHANGED <<budget, sent, setting, asked>>

PrintSends == Executes /\ guest = "send" /\ Character("aux") /\ guest' = "free" /\ UNCHANGED budget

Printing == PrintSelects \/ Polls("carrier", 8, "ready") \/ Polls("ready", 4, "send") \/ PrintSends

-----------------------------------------------------------------------------
EndOfChunk ==
  /\ pc = "core"
  /\ pc' = IF raised = None THEN "loop" ELSE "dead"
  /\ UNCHANGED <<board, budget, guest, devices, sending, raised, fanout, sent, meant>>

EnterCore ==
  /\ pc = "loop"
  /\ pc' = "core"
  /\ UNCHANGED <<board, budget, guest, devices, sending, raised, fanout, sent, meant>>

\* poll_inputs and ScheduledSender.poll hand a message to an input channel.
HostMessage(c) ==
  /\ pc = "loop" /\ Spend("messages")
  /\ Send(c)
  /\ sent' = [sent EXCEPT ![c] = @ + 1]
  /\ UNCHANGED <<board, guest, devices, raised, fanout, meant>>

\* run_emulator: the board, and one listener to each channel that has a use for it.
Init ==
  /\ board \in Boards /\ budget \in Budgets
  /\ pc = "core" /\ guest = "free"
  /\ serial = [s \in SerialPorts |-> [selected_wr |-> 0, write_registers |-> [r \in 0 .. 7 |-> 0]]]
  /\ latches = [a_data |-> 255, a_ctrl |-> 0, b_ctrl |-> 0, proms |-> 1]
  /\ ch = "console_output" /\ todo = {}
  /\ raised = None
  /\ listeners = [c \in Channels |-> [id \in (0 .. Len(Startup(c)) - 1) |-> 1]]
  /\ next_id = [c \in Channels |-> Len(Startup(c))]
  /\ subs = [c \in Channels |-> Startup(c)]
  /\ sent = [c \in Channels |-> 0]
  /\ setting = [s \in SerialPorts |-> 0]
  /\ programmed = [s \in SerialPorts |-> [r \in 0 .. 7 |-> 0]]
  /\ asked = [a_data |-> 255, a_ctrl |-> 0, b_ctrl |-> 0, proms |-> 1]

Guest ==
  \/ \E s \in Fitted : \/ \E r \in Registers : SelectRegister(s, r)
                       \/ \E v \in Values : SetRegister(s, v)
                       \/ OutCharacter(s)
  \/ \E l \in Latches, v \in Values : SetLatch(l, v)
  \/ \E port \in {2, 64} : OutElsewhere(port)
  \/ PrintBegins

Console == \E c \in Channels : Subscribe(c) \/ \E k \in DOMAIN subs[c] : Unsubscribe(c, k)

Next ==
  \/ Guest \/ Printing \/ Sending \/ EndOfChunk \/ EnterCore \/ Console
  \/ \E c \in InputChannels : HostMessage(c)

Spec == Init /\ [][Next]_vars

\* The guest executes instructions in every chunk, and listeners return or raise.
FairSpec == Spec /\ SF_vars(Printing) /\ WF_vars(Sending) /\ WF_vars(EndOfChunk) /\ WF_vars(EnterCore)

-----------------------------------------------------------------------------
(***************************************************************************)
(* Properties.                                                             *)
(***************************************************************************)
Byte == 0 .. 255
TypeOK ==
  /\ board \in Boards
  /\ budget \in [programs : Nat, messages : Nat, subscriptions : Nat]
  /\ pc \in {"core", "send", "loop", "dead"}
  /\ guest \in {"free", "select", "carrier", "ready", "send", "lost"}
  /\ serial \in [SerialPorts -> [selected_wr : 0 .. 7, write_registers : [0 .. 7 -> Byte]]]
  /\ latches \in [Latches -> Byte]
  /\ ch \in Channels /\ todo \subseteq DOMAIN subs[ch]
  /\ raised \in {None, "error", "interrupt"}
  /\ \A c \in Channels : \A id \in DOMAIN listeners[c] :
       id < next_id[c] /\ listeners[c][id] \in DOMAIN subs[c]

\* A listener hears every message sent while it was subscribed, once, in order,
\* and no other, whoever else fails, subscribes or unsubscribes meanwhile: from
\* the message after its subscription to the one under way when it ends.
Due(c, k) == IF subs[c][k].until = Open THEN sent[c] ELSE subs[c][k].until
Missed(c, k) == IF c = ch /\ k \in todo THEN 1 ELSE 0
EachHearsItAll ==
  \A c \in Channels : \A k \in DOMAIN subs[c] :
    LET s == subs[c][k]
    IN  s.heard = [i \in 1 .. Due(c, k) - s.since - Missed(c, k) |-> s.since + i]

\* A message that did not reach every listener of its channel ends the emulator,
\* and so does one that a listener of an input channel could not take: nothing the
\* host sends is lost under a guest that runs on.  On an output channel only Ctrl-C
\* keeps the others from a message, never a listener's failure.
LossEndsRun ==
  /\ todo # {} /\ pc # "send" =>
       raised # None /\ (ch \in OutputChannels => raised = "interrupt")
  /\ \A c \in InputChannels : (\E k \in DOMAIN subs[c] : subs[c][k].failed) => raised # None

\* Each register and latch holds what the guest wrote there last, when it is not
\* between the two bytes of a write, whatever it did with the other ports.
DevicesAsProgrammed ==
  /\ latches = asked
  /\ \A s \in SerialPorts : setting[s] = 0 => serial[s].write_registers = programmed[s]

\* What the guest prints through redirect_print goes out by the SIO: the guest
\* neither waits for ever nor looks for a printer, and is done or dies with the
\* emulator.
PrintArrives == guest = "select" ~> guest = "free" \/ pc = "dead"
=============================================================================
