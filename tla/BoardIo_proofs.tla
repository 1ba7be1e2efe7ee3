--------------------------- MODULE BoardIo_proofs ---------------------------
(***************************************************************************)
(* Proofs about BoardIo: for any sets of registers and values, and with no *)
(* limit on the listeners of a channel, each listener hears the messages   *)
(* of its subscription and no other, a lost message stops the emulator,    *)
(* and the devices hold what the guest wrote to them.                      *)
(*                                                                         *)
(* The port tables come first: which device answers at each port that the  *)
(* guest uses.  Then one lemma per kind of step on the channels, and one   *)
(* per action of Next.                                                     *)
(***************************************************************************)
EXTENDS BoardIo, TLAPS

-----------------------------------------------------------------------------
(***************************************************************************)
(* The port tables.                                                        *)
(***************************************************************************)
LEMMA LastOfOne == ASSUME NEW n \in Int PROVE Last({n}) = n
BY DEF Last

LEMMA LeastOfTwo == ASSUME NEW n \in Int PROVE Least({n, n + 1}) = n
<1>1. \A y \in {n, n + 1} : n <= y  OBVIOUS
<1>2. \A x \in {n, n + 1} : (\A y \in {n, n + 1} : x <= y) => x = n  OBVIOUS
<1> QED BY <1>1, <1>2 DEF Least

\* One entry of the table has the port.
LEMMA FoundAt ==
  ASSUME NEW port, NEW n \in DOMAIN Registrations(board), DOMAIN Registrations(board) \subseteq Int,
         port \in Registrations(board)[n].ports,
         \A i \in DOMAIN Registrations(board) : port \in Registrations(board)[i].ports => i = n
  PROVE  DeviceAt(port) = Registrations(board)[n].device
<1> DEFINE there == {i \in DOMAIN Registrations(board) : port \in Registrations(board)[i].ports}
<1>1. there = {n}  OBVIOUS
<1>2. Last(there) = n  BY <1>1, LastOfOne
<1> HIDE DEF there
<1>3. there # {}  BY <1>1
<1> QED BY <1>2, <1>3 DEF DeviceAt, there

\* unknown_io answers at a port that no device was registered for.
LEMMA NotFound ==
  ASSUME NEW port, \A i \in DOMAIN Registrations(board) : port \notin Registrations(board)[i].ports
  PROVE  DeviceAt(port) = "unknown"
BY DEF DeviceAt

LEMMA Table1001 ==
  ASSUME board = "dim-1001"
  PROVE  /\ DOMAIN Registrations(board) = 1 .. 2
         /\ Registrations(board)[1] = [device |-> "console", ports |-> {0, 1}]
         /\ Registrations(board)[2] = [device |-> "disk", ports |-> {136, 137, 138, 152, 154}]
BY DEF Registrations, Entry, Disk

LEMMA Table1003 ==
  ASSUME board = "dim-1003"
  PROVE  /\ DOMAIN Registrations(board) = 1 .. 6
         /\ Registrations(board)[1] = [device |-> "console", ports |-> {14, 15}]
         /\ Registrations(board)[2] = [device |-> "aux", ports |-> {12, 13}]
         /\ Registrations(board)[3] = [device |-> "pio", ports |-> 4 .. 7]
         /\ Registrations(board)[4] = [device |-> "ctc", ports |-> 0 .. 3]
         /\ Registrations(board)[5] = [device |-> "iop14", ports |-> 20 .. 23]
         /\ Registrations(board)[6] = [device |-> "disk", ports |-> {136, 137, 138, 152, 154}]
BY DEF Registrations, Entry, Disk

\* DIM-1001: the console alone, at 0 and 1.
LEMMA Ports1001 ==
  ASSUME board = "dim-1001"
  PROVE  /\ DeviceAt(0) = "console" /\ DeviceAt(1) = "console" /\ DataPortOf("console") = 0
         /\ DeviceAt(2) = "unknown" /\ DeviceAt(64) = "unknown"
<1>1. \A i \in 1 .. 2 : i = 1 \/ i = 2  OBVIOUS
<1>2. DeviceAt(0) = "console"  BY FoundAt, <1>1, Table1001
<1>3. DeviceAt(1) = "console"  BY FoundAt, <1>1, Table1001
<1>4. DeviceAt(2) = "unknown" /\ DeviceAt(64) = "unknown"  BY NotFound, <1>1, Table1001
<1>5. DataPortOf("console") = 0
  <2>1. \A i \in DOMAIN Registrations(board) : Registrations(board)[i].device = "console" => i = 1
    BY <1>1, Table1001
  <2>2. DataPortOf("console") = Least({0, 1})  BY <2>1, Table1001 DEF DataPortOf
  <2> QED BY <2>2, LeastOfTwo
<1> QED BY <1>2, <1>3, <1>4, <1>5

\* DIM-1003: each of the guest's ports reaches its own device, at the right address.
LEMMA Ports1003 ==
  ASSUME board = "dim-1003"
  PROVE  /\ DeviceAt(14) = "console" /\ DeviceAt(15) = "console" /\ DataPortOf("console") = 14
         /\ DeviceAt(12) = "aux" /\ DeviceAt(13) = "aux" /\ DataPortOf("aux") = 12
         /\ DeviceAt(4) = "pio" /\ DeviceAt(6) = "pio" /\ DeviceAt(7) = "pio"
         /\ DeviceAt(20) = "iop14" /\ DeviceAt(2) = "ctc" /\ DeviceAt(64) = "unknown"
<1>1. \A i \in 1 .. 6 : i \in {1, 2, 3, 4, 5, 6}  OBVIOUS
<1>2. DeviceAt(14) = "console"  BY FoundAt, <1>1, Table1003
<1>3. DeviceAt(15) = "console"  BY FoundAt, <1>1, Table1003
<1>4. DeviceAt(12) = "aux"  BY FoundAt, <1>1, Table1003
<1>5. DeviceAt(13) = "aux"  BY FoundAt, <1>1, Table1003
<1>6. DeviceAt(4) = "pio"  BY FoundAt, <1>1, Table1003
<1>7. DeviceAt(6) = "pio"  BY FoundAt, <1>1, Table1003
<1>8. DeviceAt(7) = "pio"  BY FoundAt, <1>1, Table1003
<1>9. DeviceAt(20) = "iop14"  BY FoundAt, <1>1, Table1003
<1>10. DeviceAt(2) = "ctc"  BY FoundAt, <1>1, Table1003
<1>11. DeviceAt(64) = "unknown"  BY NotFound, <1>1, Table1003
<1>12. DataPortOf("console") = 14
  <2>1. \A i \in DOMAIN Registrations(board) : Registrations(board)[i].device = "console" => i = 1
    BY <1>1, Table1003
  <2>2. DataPortOf("console") = Least({14, 15})  BY <2>1, Table1003 DEF DataPortOf
  <2> QED BY <2>2, LeastOfTwo
<1>13. DataPortOf("aux") = 12
  <2>1. \A i \in DOMAIN Registrations(board) : Registrations(board)[i].device = "aux" => i = 2
    BY <1>1, Table1003
  <2>2. 2 \in DOMAIN Registrations(board) /\ Registrations(board)[2].device = "aux"  BY Table1003
  <2>3. (CHOOSE i \in DOMAIN Registrations(board) : Registrations(board)[i].device = "aux") = 2
    BY <2>1, <2>2
  <2>4. DataPortOf("aux") = Least({12, 13})  BY <2>3, Table1003 DEF DataPortOf
  <2> QED BY <2>4, LeastOfTwo
<1> QED BY <1>2, <1>3, <1>4, <1>5, <1>6, <1>7, <1>8, <1>9, <1>10, <1>11, <1>12, <1>13

-----------------------------------------------------------------------------
(***************************************************************************)
(* The inductive invariant.                                                *)
(***************************************************************************)
Sub == [id : Nat, since : Nat, until : Int, heard : Seq(Nat), failed : BOOLEAN]

\* What TypeOK leaves open.
Shape ==
  /\ subs \in [Channels -> Seq(Sub)]
  /\ sent \in [Channels -> Nat]
  /\ next_id \in [Channels -> Nat]
  /\ DOMAIN listeners = Channels
  /\ setting \in [SerialPorts -> 0 .. 7]
  /\ programmed \in [SerialPorts -> [0 .. 7 -> Byte]]
  /\ board \in {"dim-1001", "dim-1003"}

\* A port is where the guest has brought it; while the guest prints, the aux port is
\* not between two bytes.
RegInv ==
  /\ latches = asked
  /\ \A s \in SerialPorts :
       serial[s].selected_wr = setting[s] /\ serial[s].write_registers = programmed[s]
  /\ guest # "free" => board = "dim-1003" /\ setting["aux"] = 0

\* The table of listeners holds the subscriptions that have not ended, each under
\* its own id, and no two have had the same.
FanInv ==
  \A c \in Channels :
    /\ \A id \in DOMAIN listeners[c] :
         /\ id \in Nat /\ id < next_id[c]
         /\ listeners[c][id] \in DOMAIN subs[c]
         /\ subs[c][listeners[c][id]].id = id
         /\ subs[c][listeners[c][id]].until = Open
    /\ \A k \in DOMAIN subs[c] :
         /\ subs[c][k].id < next_id[c]
         /\ subs[c][k].until = Open =>
              subs[c][k].id \in DOMAIN listeners[c] /\ listeners[c][subs[c][k].id] = k
    /\ \A j, k \in DOMAIN subs[c] : subs[c][j].id = subs[c][k].id => j = k

\* How much a subscription has heard, without the messages themselves.
Heard(c, k) ==
  LET s == subs[c][k]
  IN  /\ s.since + Len(s.heard) + Missed(c, k) = Due(c, k)
      /\ \A i \in 1 .. Len(s.heard) : s.heard[i] = s.since + i
HearInv ==
  /\ todo \subseteq DOMAIN subs[ch]
  /\ \A k \in todo : Due(ch, k) = sent[ch]
  /\ \A c \in Channels : \A k \in DOMAIN subs[c] : Heard(c, k)

\* An exception is in the air as long as a message is not through.
PhaseInv ==
  /\ LossEndsRun
  /\ pc \in {"send", "loop"} => raised = None
  /\ pc = "dead" => raised # None
  /\ pc = "loop" \/ (pc = "core" /\ raised = None) => todo = {}

IInv == TypeOK /\ Shape /\ RegInv /\ FanInv /\ HearInv /\ PhaseInv

-----------------------------------------------------------------------------
(***************************************************************************)
(* The guest's OUTs.                                                       *)
(***************************************************************************)
\* The guest's names for a port and the board's agree.
LEMMA FittedPorts ==
  ASSUME Shape, NEW s \in Fitted
  PROVE  /\ s \in SerialPorts
         /\ DeviceAt(DataPort(s)) = s /\ DeviceAt(ControlPort(s)) = s
         /\ DataPortOf(s) = DataPort(s) /\ ControlPort(s) # DataPort(s)
<1>1. CASE board = "dim-1001"
  BY <1>1, Ports1001 DEF Fitted, DataPort, ControlPort, SerialPorts
<1>2. CASE board = "dim-1003"
  <2>1. CASE s = "console"
    BY <1>2, <2>1, Ports1003 DEF Fitted, DataPort, ControlPort, SerialPorts
  <2>2. CASE s = "aux"
    BY <1>2, <2>2, Ports1003 DEF Fitted, DataPort, ControlPort, SerialPorts
  <2> QED BY <1>2, <2>1, <2>2 DEF Fitted, SerialPorts
<1> QED BY <1>1, <1>2 DEF Shape

\* An OUT to a control port reaches that port alone; to a data port, its channel.
LEMMA OutControl ==
  ASSUME Shape, NEW s \in Fitted, NEW val, Out(ControlPort(s), val)
  PROVE  /\ serial' = [serial EXCEPT ![s] = AfterControl(serial[s], val)]
         /\ latches' = latches
         /\ UNCHANGED <<board, pc, ch, todo, raised, listeners, next_id, subs>>
<1>1. AfterLatch(s, ControlPort(s), val) = latches
  BY FittedPorts DEF AfterLatch, SerialPorts
<1>2. /\ UNCHANGED <<pc, sending>>
      /\ serial' = [serial EXCEPT ![s] = AfterControl(serial[s], val)]
      /\ latches' = AfterLatch(s, ControlPort(s), val)
      /\ UNCHANGED <<board, raised, fanout>>
  BY FittedPorts DEF Out
<1> QED BY <1>1, <1>2 DEF sending, fanout

LEMMA OutData ==
  ASSUME Shape, NEW s \in Fitted, NEW val, Out(DataPort(s), val)
  PROVE  /\ Send(OutputOf(s))
         /\ UNCHANGED <<board, serial, latches, raised, listeners, next_id, subs>>
<1>1. AfterLatch(s, DataPort(s), val) = latches
  BY FittedPorts DEF AfterLatch, SerialPorts
<1>2. /\ Send(OutputOf(s))
      /\ serial' = serial
      /\ latches' = AfterLatch(s, DataPort(s), val)
      /\ UNCHANGED <<board, raised, fanout>>
  BY FittedPorts DEF Out
<1> QED BY <1>1, <1>2 DEF fanout

\* An OUT to a latch's port sets that latch alone.
LEMMA OutLatch ==
  ASSUME board = "dim-1003", NEW l \in Latches, NEW val, Out(LatchPort[l], val)
  PROVE  /\ latches' = [latches EXCEPT ![l] = IF l = "proms" THEN val % 2 ELSE val]
         /\ UNCHANGED <<board, pc, ch, todo, serial, raised, listeners, next_id, subs>>
<1>1. CASE l = "proms"
  BY <1>1, Ports1003 DEF Out, AfterLatch, LatchPort, SerialPorts, sending, fanout
<1>2. CASE l = "a_data"
  BY <1>2, Ports1003 DEF Out, AfterLatch, LatchPort, SerialPorts, sending, fanout
<1>3. CASE l = "a_ctrl"
  BY <1>3, Ports1003 DEF Out, AfterLatch, LatchPort, SerialPorts, sending, fanout
<1>4. CASE l = "b_ctrl"
  BY <1>4, Ports1003 DEF Out, AfterLatch, LatchPort, SerialPorts, sending, fanout
<1> QED BY <1>1, <1>2, <1>3, <1>4 DEF Latches

LEMMA OutNowhere ==
  ASSUME Shape, NEW port \in {2, 64}, NEW val, Out(port, val)
  PROVE  UNCHANGED <<board, pc, ch, todo, serial, latches, raised, listeners, next_id, subs>>
<1>1. DeviceAt(port) \in {"ctc", "unknown"}
  BY Ports1001, Ports1003 DEF Shape
<1> QED BY <1>1 DEF Out, AfterLatch, SerialPorts, sending, fanout

-----------------------------------------------------------------------------
(***************************************************************************)
(* Messages.                                                               *)
(***************************************************************************)
LEMMA SubType ==
  ASSUME Shape, NEW c \in Channels, NEW k \in DOMAIN subs[c]
  PROVE  /\ subs[c] \in Seq(Sub) /\ DOMAIN subs[c] = 1 .. Len(subs[c]) /\ subs[c][k] \in Sub
         /\ subs[c][k].id \in Nat /\ subs[c][k].since \in Nat /\ subs[c][k].until \in Int
         /\ subs[c][k].heard \in Seq(Nat) /\ Len(subs[c][k].heard) \in Nat
         /\ subs[c][k].failed \in BOOLEAN
<1>1. subs[c] \in Seq(Sub) /\ DOMAIN subs[c] = 1 .. Len(subs[c])  BY DEF Shape
<1>2. subs[c][k] \in Sub  BY <1>1
<1>3. subs[c][k].heard \in Seq(Nat)  BY <1>2 DEF Sub
<1>4. Len(subs[c][k].heard) \in Nat  BY <1>3
<1> QED BY <1>1, <1>2, <1>3, <1>4 DEF Sub

\* A step that leaves the channels alone.
LEMMA Quiet ==
  ASSUME IInv, UNCHANGED <<ch, todo, listeners, next_id, subs, sent>>
  PROVE  FanInv' /\ HearInv' /\ (UNCHANGED <<pc, raised>> => PhaseInv')
<1>1. FanInv'  BY DEF IInv, FanInv
<1>2. HearInv'  BY DEF IInv, HearInv, Heard, Due, Missed
<1>3. UNCHANGED <<pc, raised>> => PhaseInv'  BY DEF IInv, PhaseInv, LossEndsRun
<1> QED BY <1>1, <1>2, <1>3

\* A send begins: every subscription that has not ended is to be called once.
LEMMA SendStep ==
  ASSUME IInv, NEW c \in Channels, Send(c), sent' = [sent EXCEPT ![c] = @ + 1],
         UNCHANGED <<raised, listeners, next_id, subs>>,
         raised = None, todo = {}
  PROVE  /\ ch' \in Channels /\ todo' \subseteq DOMAIN subs'[ch'] /\ pc' = "send"
         /\ sent' \in [Channels -> Nat]
         /\ FanInv' /\ HearInv' /\ PhaseInv'
<1>1. pc' = "send" /\ ch' = c /\ todo' = {listeners[c][id] : id \in DOMAIN listeners[c]}
  BY DEF Send, Subscriptions
<1>2. \A k \in todo' : k \in DOMAIN subs[c] /\ subs[c][k].until = Open
  BY <1>1 DEF IInv, FanInv
<1>3. \A k \in DOMAIN subs[c] : subs[c][k].until = Open => k \in todo'
  BY <1>1 DEF IInv, FanInv
<1>4. sent' \in [Channels -> Nat]  BY DEF IInv, Shape
<1>5. FanInv'  BY DEF IInv, FanInv
<1>6. HearInv'
  <2>1. \A k \in todo' : Due(ch, k)' = sent'[c]
    BY <1>1, <1>2 DEF Due
  <2>2. ASSUME NEW d \in Channels, NEW k \in DOMAIN subs[d] PROVE Heard(d, k)'
    <3>0. Heard(d, k) /\ Missed(d, k) = 0 /\ sent \in [Channels -> Nat]
      BY DEF IInv, HearInv, Missed, Shape
    <3>1. CASE d = c /\ subs[c][k].until = Open
      <4>1. Missed(d, k)' = 1  BY <1>1, <1>3, <3>1 DEF Missed
      <4>2. Due(d, k)' = Due(d, k) + 1 /\ Due(d, k) \in Int  BY <3>0, <3>1 DEF Due
      <4>3. subs[d][k].since \in Int /\ Len(subs[d][k].heard) \in Int
        BY SubType DEF IInv
      <4> QED BY <3>0, <4>1, <4>2, <4>3 DEF Heard
    <3>2. CASE ~(d = c /\ subs[c][k].until = Open)
      <4>1. Missed(d, k)' = 0  BY <1>1, <1>2, <3>2 DEF Missed
      <4>2. Due(d, k)' = Due(d, k)  BY <3>0, <3>2 DEF Due
      <4> QED BY <3>0, <4>1, <4>2 DEF Heard
    <3> QED BY <3>1, <3>2
  <2> QED BY <1>1, <1>2, <2>1, <2>2 DEF HearInv
<1>7. PhaseInv'  BY <1>1 DEF IInv, PhaseInv, LossEndsRun
<1> QED BY <1>1, <1>2, <1>4, <1>5, <1>6, <1>7

\* One subscription of a channel changes.
LEMMA OneSub ==
  ASSUME Shape, NEW c \in Channels, NEW k \in DOMAIN subs[c], NEW new \in Sub,
         subs' = [subs EXCEPT ![c] = [subs[c] EXCEPT ![k] = new]]
  PROVE  /\ subs' \in [Channels -> Seq(Sub)]
         /\ \A d \in Channels : d # c => subs'[d] = subs[d]
         /\ DOMAIN subs'[c] = DOMAIN subs[c]
         /\ \A j \in DOMAIN subs[c] : j # k => subs'[c][j] = subs[c][j]
         /\ subs'[c][k] = new
BY DEF Shape

\* A listener has been called: its subscription, and no other, has heard one more.
LEMMA CalledSub ==
  ASSUME IInv, NEW k \in todo, NEW fails \in BOOLEAN, Called(k, fails)
  PROVE  /\ ch \in Channels /\ k \in DOMAIN subs[ch]
         /\ subs' \in [Channels -> Seq(Sub)]
         /\ \A d \in Channels : DOMAIN subs'[d] = DOMAIN subs[d]
         /\ \A d \in Channels : \A j \in DOMAIN subs[d] :
              /\ subs'[d][j].id = subs[d][j].id /\ subs'[d][j].since = subs[d][j].since
              /\ subs'[d][j].until = subs[d][j].until
              /\ d # ch \/ j # k => subs'[d][j] = subs[d][j]
         /\ subs'[ch][k].heard = Append(subs[ch][k].heard, sent[ch])
         /\ subs'[ch][k].failed = (subs[ch][k].failed \/ fails)
<1> DEFINE old == subs[ch][k]
           heard == Append(old.heard, sent[ch])
           failed == old.failed \/ fails
           new == [old EXCEPT !.heard = heard, !.failed = failed]
<1>1. ch \in Channels /\ k \in DOMAIN subs[ch] /\ sent[ch] \in Nat /\ Shape
  BY DEF IInv, TypeOK, Shape
<1>2. old \in Sub /\ old.heard \in Seq(Nat) /\ old.failed \in BOOLEAN
  BY <1>1, SubType
<1>3. heard \in Seq(Nat) /\ failed \in BOOLEAN  BY <1>1, <1>2
<1>4. subs' = [subs EXCEPT ![ch] = [subs[ch] EXCEPT ![k] = new]]
  BY <1>1 DEF Called, Shape
<1> HIDE DEF heard, failed, old
<1>5. new \in Sub /\ new.id = old.id /\ new.since = old.since /\ new.until = old.until
      /\ new.heard = heard /\ new.failed = failed
  BY <1>2, <1>3 DEF Sub
<1> HIDE DEF new
<1>6. /\ subs' \in [Channels -> Seq(Sub)]
      /\ \A d \in Channels : d # ch => subs'[d] = subs[d]
      /\ DOMAIN subs'[ch] = DOMAIN subs[ch]
      /\ \A j \in DOMAIN subs[ch] : j # k => subs'[ch][j] = subs[ch][j]
      /\ subs'[ch][k] = new
  BY <1>1, <1>4, <1>5, OneSub
<1> QED BY <1>1, <1>5, <1>6 DEF old, heard, failed

\* One call of a send, and the listener is off the list.
LEMMA CalledStep ==
  ASSUME IInv, NEW k \in todo, NEW fails \in BOOLEAN, Called(k, fails), todo' = todo \ {k}
  PROVE  Shape' /\ FanInv' /\ HearInv' /\ todo' \subseteq DOMAIN subs'[ch']
<1>1. UNCHANGED <<ch, listeners, next_id, sent, board, setting, programmed>>
  BY DEF Called, meant
<1>2. Shape'  BY <1>1, CalledSub DEF IInv, Shape
<1>3. todo' \subseteq DOMAIN subs'[ch']  BY <1>1, CalledSub DEF IInv, TypeOK
<1>4. FanInv'
  <2> SUFFICES ASSUME NEW c \in Channels
               PROVE  /\ \A id \in DOMAIN listeners[c] :
                           /\ id \in Nat /\ id < next_id[c]
                           /\ listeners[c][id] \in DOMAIN subs'[c]
                           /\ subs'[c][listeners[c][id]].id = id
                           /\ subs'[c][listeners[c][id]].until = Open
                      /\ \A j \in DOMAIN subs'[c] :
                           /\ subs'[c][j].id < next_id[c]
                           /\ subs'[c][j].until = Open =>
                                /\ subs'[c][j].id \in DOMAIN listeners[c]
                                /\ listeners[c][subs'[c][j].id] = j
                      /\ \A i, j \in DOMAIN subs'[c] : subs'[c][i].id = subs'[c][j].id => i = j
    BY <1>1 DEF FanInv
  <2>1. /\ DOMAIN subs'[c] = DOMAIN subs[c]
        /\ \A j \in DOMAIN subs[c] : subs'[c][j].id = subs[c][j].id /\ subs'[c][j].until = subs[c][j].until
    BY CalledSub
  <2>2. FanInv  BY DEF IInv
  <2>3. /\ \A id \in DOMAIN listeners[c] :
             /\ id \in Nat /\ id < next_id[c]
             /\ listeners[c][id] \in DOMAIN subs'[c]
             /\ subs'[c][listeners[c][id]].id = id
             /\ subs'[c][listeners[c][id]].until = Open
    BY <2>1, <2>2 DEF FanInv
  <2>4. \A j \in DOMAIN subs'[c] :
          /\ subs'[c][j].id < next_id[c]
          /\ subs'[c][j].until = Open =>
               /\ subs'[c][j].id \in DOMAIN listeners[c]
               /\ listeners[c][subs'[c][j].id] = j
    BY <2>1, <2>2 DEF FanInv
  <2>5. \A i, j \in DOMAIN subs'[c] : subs'[c][i].id = subs'[c][j].id => i = j
    BY <2>1, <2>2 DEF FanInv
  <2> QED BY <2>3, <2>4, <2>5
<1>5. HearInv'
  <2>1. \A d \in Channels : \A j \in DOMAIN subs[d] : Due(d, j)' = Due(d, j)
    BY <1>1, CalledSub DEF Due
  <2>2. \A j \in todo' : Due(ch, j)' = sent[ch]
    BY <1>1, <2>1, CalledSub DEF IInv, HearInv
  <2>3. ASSUME NEW d \in Channels, NEW j \in DOMAIN subs[d] PROVE Heard(d, j)'
    <3>1. CASE d # ch \/ j # k
      <4>1. Missed(d, j)' = Missed(d, j)  BY <1>1, <3>1 DEF Missed
      <4> QED BY <2>1, <3>1, <4>1, CalledSub DEF IInv, HearInv, Heard
    <3>2. CASE d = ch /\ j = k
      <4>1. Missed(d, j)' = 0 /\ Missed(d, j) = 1  BY <1>1, <3>2 DEF Missed
      <4>2. Heard(d, j) /\ Due(d, j) = sent[ch]  BY <3>2 DEF IInv, HearInv
      <4>3. /\ subs[d][j].heard \in Seq(Nat) /\ subs[d][j].since \in Nat
            /\ Len(subs[d][j].heard) \in Nat /\ sent[ch] \in Nat
        BY <3>2, CalledSub, SubType DEF IInv, Shape
      <4>4. subs'[d][j].heard = Append(subs[d][j].heard, sent[ch]) /\ subs'[d][j].since = subs[d][j].since
        BY <3>2, CalledSub
      <4>5. /\ Len(subs'[d][j].heard) = Len(subs[d][j].heard) + 1
            /\ \A i \in 1 .. Len(subs[d][j].heard) : subs'[d][j].heard[i] = subs[d][j].heard[i]
            /\ subs'[d][j].heard[Len(subs[d][j].heard) + 1] = sent[ch]
        BY <4>3, <4>4
      <4>6. sent[ch] = subs[d][j].since + Len(subs[d][j].heard) + 1
        BY <4>1, <4>2, <4>3 DEF Heard
      <4>7. \A i \in 1 .. Len(subs'[d][j].heard) : subs'[d][j].heard[i] = subs'[d][j].since + i
        <5> DEFINE n == Len(subs[d][j].heard)
        <5>1. \A i \in 1 .. n : subs[d][j].heard[i] = subs[d][j].since + i
          BY <4>2 DEF Heard
        <5>2. n \in Nat /\ subs[d][j].since \in Nat /\ sent[ch] = subs[d][j].since + (n + 1)
          BY <4>3, <4>6
        <5> HIDE DEF n
        <5>3. \A i \in 1 .. n + 1 : subs'[d][j].heard[i] = subs[d][j].since + i
          <6> SUFFICES ASSUME NEW i \in 1 .. n + 1
                       PROVE  subs'[d][j].heard[i] = subs[d][j].since + i
            OBVIOUS
          <6>1. CASE i = n + 1  BY <4>5, <5>2, <6>1 DEF n
          <6>2. CASE i # n + 1
            <7>1. i \in 1 .. n  BY <5>2, <6>2
            <7> QED BY <4>5, <5>1, <7>1 DEF n
          <6> QED BY <6>1, <6>2
        <5>4. Len(subs'[d][j].heard) = n + 1  BY <4>5 DEF n
        <5> QED BY <4>4, <5>3, <5>4
      <4>8. Due(d, j)' = sent[ch]  BY <2>1, <4>2
      <4>9. subs'[d][j].since + Len(subs'[d][j].heard) + Missed(d, j)' = Due(d, j)'
        <5>1. subs'[d][j].since + Len(subs'[d][j].heard) + 0 = sent[ch]
          BY <4>3, <4>4, <4>5, <4>6
        <5> QED BY <4>1, <4>8, <5>1
      <4> QED BY <4>7, <4>9 DEF Heard
    <3> QED BY <3>1, <3>2
  <2> QED BY <1>1, <1>3, <2>2, <2>3, CalledSub DEF HearInv
<1> QED BY <1>2, <1>3, <1>4, <1>5

-----------------------------------------------------------------------------
(***************************************************************************)
(* Subscriptions.                                                          *)
(***************************************************************************)
\* No listener fails in the step.
NoNewFailure ==
  \A c \in Channels : \A k \in DOMAIN subs'[c] :
    subs'[c][k].failed => k \in DOMAIN subs[c] /\ subs[c][k].failed

\* Subscribing gives an id that no subscription has had, and takes none from another.
LEMMA SubscribeStep ==
  ASSUME IInv, NEW c \in Channels, Subscribe(c)
  PROVE  Shape' /\ FanInv' /\ HearInv' /\ todo' \subseteq DOMAIN subs'[ch'] /\ NoNewFailure
<1> DEFINE id == next_id[c]
           n == Len(subs[c])
           new == [id |-> id, since |-> sent[c], until |-> Open, heard |-> <<>>, failed |-> FALSE]
<1>1. /\ UNCHANGED <<board, ch, todo, sent, setting, programmed>>
      /\ listeners' = [listeners EXCEPT ![c] =
                         [i \in DOMAIN listeners[c] \cup {id} |-> IF i = id THEN n + 1 ELSE listeners[c][i]]]
      /\ next_id' = [next_id EXCEPT ![c] = id + 1]
      /\ subs' = [subs EXCEPT ![c] = Append(subs[c], new)]
  BY DEF Subscribe, FreshId, sending, meant
<1>2. id \in Nat /\ n \in Nat /\ sent[c] \in Nat /\ subs[c] \in Seq(Sub) /\ DOMAIN subs[c] = 1 .. n
  BY DEF IInv, Shape
<1>3. new \in Sub /\ new.id = id /\ new.since = sent[c] /\ new.until = Open /\ new.heard = <<>>
      /\ new.failed = FALSE
  BY <1>2 DEF Sub, Open
<1> HIDE DEF new
<1>4. /\ subs' \in [Channels -> Seq(Sub)]
      /\ \A d \in Channels : d # c => subs'[d] = subs[d]
      /\ DOMAIN subs'[c] = 1 .. n + 1
      /\ \A j \in 1 .. n : subs'[c][j] = subs[c][j]
      /\ subs'[c][n + 1] = new
  BY <1>1, <1>2, <1>3 DEF IInv, Shape
<1>5. next_id' \in [Channels -> Nat] /\ DOMAIN listeners' = Channels
      /\ \A d \in Channels : d # c => next_id'[d] = next_id[d] /\ listeners'[d] = listeners[d]
  BY <1>1, <1>2 DEF IInv, Shape
<1>6. /\ next_id'[c] = id + 1
      /\ DOMAIN listeners'[c] = DOMAIN listeners[c] \cup {id}
      /\ listeners'[c][id] = n + 1
      /\ \A i \in DOMAIN listeners[c] : i # id => listeners'[c][i] = listeners[c][i]
  BY <1>1, <1>2 DEF IInv, Shape
<1>7. Shape'  BY <1>1, <1>4, <1>5 DEF IInv, Shape
<1>8. todo' \subseteq DOMAIN subs'[ch']
  BY <1>1, <1>2, <1>4 DEF IInv, TypeOK
<1>9. FanInv'
  <2>1. ASSUME NEW i \in DOMAIN listeners'[c]
        PROVE  /\ i \in Nat /\ i < next_id'[c]
               /\ listeners'[c][i] \in DOMAIN subs'[c]
               /\ subs'[c][listeners'[c][i]].id = i
               /\ subs'[c][listeners'[c][i]].until = Open
    <3>1. CASE i = id  BY <1>2, <1>3, <1>4, <1>6, <3>1
    <3>2. CASE i # id
      <4>1. /\ i \in Nat /\ i < id /\ listeners[c][i] \in 1 .. n
            /\ subs[c][listeners[c][i]].id = i /\ subs[c][listeners[c][i]].until = Open
        BY <1>2, <1>6, <3>2 DEF IInv, FanInv
      <4> QED BY <1>2, <1>4, <1>6, <3>2, <4>1
    <3> QED BY <3>1, <3>2
  <2>2. ASSUME NEW k \in DOMAIN subs'[c]
        PROVE  /\ subs'[c][k].id < next_id'[c]
               /\ k \in 1 .. n => subs'[c][k].id < id
               /\ subs'[c][k].until = Open =>
                    subs'[c][k].id \in DOMAIN listeners'[c] /\ listeners'[c][subs'[c][k].id] = k
    <3>1. CASE k = n + 1  BY <1>2, <1>3, <1>4, <1>6, <3>1
    <3>2. CASE k \in 1 .. n
      <4>1. /\ subs[c][k].id \in Nat /\ subs[c][k].id < id
            /\ subs[c][k].until = Open => subs[c][k].id \in DOMAIN listeners[c] /\ listeners[c][subs[c][k].id] = k
        BY <1>2, <3>2, SubType DEF IInv, FanInv
      <4> QED BY <1>2, <1>4, <1>6, <3>2, <4>1
    <3> QED BY <1>2, <1>4, <3>1, <3>2
  <2>3. \A j, k \in DOMAIN subs'[c] : subs'[c][j].id = subs'[c][k].id => j = k
    <3>1. \A j, k \in 1 .. n : subs[c][j].id = subs[c][k].id => j = k
      BY <1>2 DEF IInv, FanInv
    <3>2. \A k \in DOMAIN subs'[c] : k \in 1 .. n \/ k = n + 1  BY <1>2, <1>4
    <3>3. \A j \in 1 .. n : subs'[c][j].id = subs[c][j].id /\ subs[c][j].id # id
      <4>1. \A j \in 1 .. n : subs[c][j].id < id /\ subs[c][j].id \in Nat
        BY <1>2, SubType DEF IInv, FanInv
      <4> QED BY <1>2, <1>4, <4>1
    <3>4. subs'[c][n + 1].id = id  BY <1>3, <1>4
    <3>5. ASSUME NEW j \in DOMAIN subs'[c], NEW k \in DOMAIN subs'[c], subs'[c][j].id = subs'[c][k].id
          PROVE  j = k
      <4>1. CASE j \in 1 .. n /\ k \in 1 .. n  BY <3>1, <3>3, <3>5, <4>1
      <4>2. CASE j = n + 1 \/ k = n + 1  BY <3>2, <3>3, <3>4, <3>5, <4>2
      <4> QED BY <3>2, <4>1, <4>2
    <3> QED BY <3>5
  <2>4. ASSUME NEW d \in Channels, d # c
        PROVE  subs'[d] = subs[d] /\ next_id'[d] = next_id[d] /\ listeners'[d] = listeners[d]
    BY <1>4, <1>5, <2>4
  <2> QED BY <2>1, <2>2, <2>3, <2>4 DEF IInv, FanInv
<1>10. HearInv'
  <2>1. \A d \in Channels : \A k \in DOMAIN subs[d] : subs'[d][k] = subs[d][k] /\ k \in DOMAIN subs'[d]
    BY <1>2, <1>4
  <2>2. ASSUME NEW d \in Channels, NEW k \in DOMAIN subs[d] PROVE Heard(d, k)'
    BY <1>1, <2>1 DEF IInv, HearInv, Heard, Due, Missed
  <2>3. ASSUME NEW k, k = n + 1 PROVE Heard(c, k)'
    <3>1. Missed(c, k)' = 0
      BY <1>1, <1>2, <2>3 DEF Missed, IInv, TypeOK
    <3>2. subs'[c][k] = new  BY <1>4, <2>3
    <3>3. Due(c, k)' = sent[c]  BY <1>1, <1>3, <3>2 DEF Due
    <3>4. Len(new.heard) = 0  BY <1>3
    <3> QED BY <1>2, <1>3, <3>1, <3>2, <3>3, <3>4 DEF Heard
  <2>4. \A k \in todo' : Due(ch, k)' = sent'[ch']
    BY <1>1, <2>1 DEF IInv, HearInv, TypeOK, Due
  <2>5. \A d \in Channels : \A k \in DOMAIN subs'[d] : k \in DOMAIN subs[d] \/ (d = c /\ k = n + 1)
    BY <1>2, <1>4
  <2> QED BY <1>8, <2>2, <2>3, <2>4, <2>5 DEF HearInv
<1>11. NoNewFailure
  <2> SUFFICES ASSUME NEW d \in Channels, NEW k \in DOMAIN subs'[d], subs'[d][k].failed
               PROVE  k \in DOMAIN subs[d] /\ subs[d][k].failed
    BY DEF NoNewFailure
  <2>1. CASE d # c  BY <1>4, <2>1
  <2>2. CASE d = c
    <3>1. k \in 1 .. n + 1 /\ k # n + 1  BY <1>3, <1>4, <2>2
    <3>2. k \in 1 .. n  BY <1>2, <3>1
    <3> QED BY <1>2, <1>4, <2>2, <3>2
  <2> QED BY <2>1, <2>2
<1> QED BY <1>7, <1>8, <1>9, <1>10, <1>11

\* Unsubscribing, a second time too, ends that subscription and no other.
LEMMA UnsubscribeStep ==
  ASSUME IInv, NEW c \in Channels, NEW k \in DOMAIN subs[c], Unsubscribe(c, k)
  PROVE  Shape' /\ FanInv' /\ HearInv' /\ todo' \subseteq DOMAIN subs'[ch'] /\ NoNewFailure
<1> DEFINE old == subs[c][k]
           until == IF old.until = Open THEN sent[c] ELSE old.until
           new == [old EXCEPT !.until = until]
<1>1. /\ UNCHANGED <<board, ch, todo, sent, next_id, setting, programmed>>
      /\ listeners' = [listeners EXCEPT ![c] = [i \in DOMAIN listeners[c] \ {old.id} |-> listeners[c][i]]]
      /\ subs' = [subs EXCEPT ![c] = [subs[c] EXCEPT ![k] = new]]
  BY DEF Unsubscribe, sending, meant, IInv, Shape
<1>2. old \in Sub /\ old.id \in Nat /\ old.until \in Int /\ sent[c] \in Nat /\ Shape
  BY SubType DEF IInv, Shape
<1>3. until \in Int /\ until # Open  BY <1>2 DEF Open
<1> HIDE DEF old, until
<1>4. /\ new \in Sub /\ new.id = old.id /\ new.since = old.since /\ new.heard = old.heard
      /\ new.failed = old.failed /\ new.until = until
  BY <1>2, <1>3 DEF Sub
<1> HIDE DEF new
<1>5. /\ subs' \in [Channels -> Seq(Sub)]
      /\ \A d \in Channels : d # c => subs'[d] = subs[d]
      /\ DOMAIN subs'[c] = DOMAIN subs[c]
      /\ \A j \in DOMAIN subs[c] : j # k => subs'[c][j] = subs[c][j]
      /\ subs'[c][k] = new
  BY <1>1, <1>2, <1>4, OneSub
<1>6. \A d \in Channels : \A j \in DOMAIN subs[d] :
        /\ j \in DOMAIN subs'[d]
        /\ subs'[d][j].id = subs[d][j].id /\ subs'[d][j].since = subs[d][j].since
        /\ subs'[d][j].heard = subs[d][j].heard /\ subs'[d][j].failed = subs[d][j].failed
        /\ d # c \/ j # k => subs'[d][j].until = subs[d][j].until
  BY <1>4, <1>5 DEF old
<1>7. /\ DOMAIN listeners' = Channels
      /\ \A d \in Channels : d # c => listeners'[d] = listeners[d]
      /\ DOMAIN listeners'[c] = DOMAIN listeners[c] \ {old.id}
      /\ \A i \in DOMAIN listeners'[c] : listeners'[c][i] = listeners[c][i]
  BY <1>1, <1>2 DEF Shape
<1>8. Shape'  BY <1>1, <1>5, <1>7 DEF IInv, Shape
<1>9. todo' \subseteq DOMAIN subs'[ch']  BY <1>1, <1>6 DEF IInv, TypeOK
<1>10. NoNewFailure  BY <1>5, <1>6 DEF NoNewFailure
<1>11. FanInv'
  <2>1. ASSUME NEW i \in DOMAIN listeners'[c]
        PROVE  /\ i \in Nat /\ i < next_id[c]
               /\ listeners'[c][i] \in DOMAIN subs'[c]
               /\ subs'[c][listeners'[c][i]].id = i
               /\ subs'[c][listeners'[c][i]].until = Open
    <3>1. /\ i \in DOMAIN listeners[c] /\ i # old.id /\ listeners'[c][i] = listeners[c][i]
          /\ i \in Nat /\ i < next_id[c]
          /\ listeners[c][i] \in DOMAIN subs[c]
          /\ subs[c][listeners[c][i]].id = i /\ subs[c][listeners[c][i]].until = Open
      BY <1>7 DEF IInv, FanInv
    <3>2. listeners[c][i] # k  BY <3>1 DEF old
    <3> QED BY <1>6, <3>1, <3>2
  <2>2. ASSUME NEW j \in DOMAIN subs[c]
        PROVE  /\ subs'[c][j].id < next_id[c]
               /\ subs'[c][j].until = Open =>
                    subs'[c][j].id \in DOMAIN listeners'[c] /\ listeners'[c][subs'[c][j].id] = j
    <3>1. CASE j = k  BY <1>3, <1>4, <1>5, <3>1 DEF IInv, FanInv, old
    <3>2. CASE j # k
      <4>1. subs[c][j].id # old.id  BY <3>2 DEF IInv, FanInv, old
      <4> QED BY <1>6, <1>7, <3>2, <4>1 DEF IInv, FanInv
    <3> QED BY <3>1, <3>2
  <2>3. \A i, j \in DOMAIN subs[c] : subs'[c][i].id = subs'[c][j].id => i = j
    BY <1>6 DEF IInv, FanInv
  <2>4. ASSUME NEW d \in Channels, d # c
        PROVE  subs'[d] = subs[d] /\ listeners'[d] = listeners[d]
    BY <1>5, <1>7, <2>4
  <2>5. next_id' = next_id /\ DOMAIN subs'[c] = DOMAIN subs[c]  BY <1>1, <1>5
  <2> QED BY <2>1, <2>2, <2>3, <2>4, <2>5 DEF IInv, FanInv
<1>12. HearInv'
  <2>1. \A d \in Channels : \A j \in DOMAIN subs[d] : Due(d, j)' = Due(d, j)
    <3>1. Due(c, k)' = Due(c, k)
      BY <1>1, <1>3, <1>4, <1>5 DEF Due, old, until
    <3> QED BY <1>1, <1>6, <3>1 DEF Due
  <2>2. \A d \in Channels : \A j \in DOMAIN subs[d] : Heard(d, j)'
    BY <1>1, <1>6, <2>1 DEF IInv, HearInv, Heard, Missed
  <2>3. \A j \in todo' : Due(ch, j)' = sent'[ch']
    BY <1>1, <2>1 DEF IInv, HearInv, TypeOK
  <2>4. \A d \in Channels : DOMAIN subs'[d] = DOMAIN subs[d]  BY <1>5
  <2> QED BY <1>9, <2>2, <2>3, <2>4 DEF HearInv
<1> QED BY <1>8, <1>9, <1>10, <1>11, <1>12

-----------------------------------------------------------------------------
(***************************************************************************)
(* Every step keeps the invariant.                                         *)
(***************************************************************************)
\* What a byte to a control port does to it.
LEMMA AfterControlIs ==
  ASSUME NEW port \in [selected_wr : 0 .. 7, write_registers : [0 .. 7 -> Byte]], NEW val \in Byte
  PROVE  /\ AfterControl(port, val) \in [selected_wr : 0 .. 7, write_registers : [0 .. 7 -> Byte]]
         /\ AfterControl(port, val).selected_wr = IF port.selected_wr # 0 THEN 0 ELSE val % 8
         /\ port.selected_wr = 0 /\ val % 8 # 0 =>
              AfterControl(port, val).write_registers = port.write_registers
         /\ port.selected_wr # 0 \/ val % 8 = 0 =>
              AfterControl(port, val).write_registers = [port.write_registers EXCEPT ![port.selected_wr] = val]
<1>1. val % 8 \in 0 .. 7  BY DEF Byte
<1>2. CASE port.selected_wr # 0
  <2> DEFINE regs == [port.write_registers EXCEPT ![port.selected_wr] = val]
             chosen == [port EXCEPT !.write_registers = regs]
  <2>1. regs \in [0 .. 7 -> Byte]  OBVIOUS
  <2>2. AfterControl(port, val) = [chosen EXCEPT !.selected_wr = 0]
    BY <1>2 DEF AfterControl
  <2> HIDE DEF regs
  <2>3. chosen \in [selected_wr : 0 .. 7, write_registers : [0 .. 7 -> Byte]] /\ chosen.write_registers = regs
    BY <2>1
  <2> HIDE DEF chosen
  <2>4. /\ AfterControl(port, val) \in [selected_wr : 0 .. 7, write_registers : [0 .. 7 -> Byte]]
        /\ AfterControl(port, val).selected_wr = 0 /\ AfterControl(port, val).write_registers = regs
    BY <2>2, <2>3
  <2> QED BY <1>2, <2>4 DEF regs
<1>3. CASE port.selected_wr = 0 /\ val % 8 # 0
  BY <1>1, <1>3 DEF AfterControl
<1>4. CASE port.selected_wr = 0 /\ val % 8 = 0
  BY <1>4 DEF AfterControl
<1> QED BY <1>2, <1>3, <1>4

\* A bound is never overdrawn.
LEMMA SpendType ==
  ASSUME budget \in [programs : Nat, messages : Nat, subscriptions : Nat],
         NEW what \in {"programs", "messages", "subscriptions"}, Spend(what)
  PROVE  budget' \in [programs : Nat, messages : Nat, subscriptions : Nat]
<1>1. CASE what = "programs"  BY <1>1 DEF Spend
<1>2. CASE what = "messages"  BY <1>2 DEF Spend
<1>3. CASE what = "subscriptions"  BY <1>3 DEF Spend
<1> QED BY <1>1, <1>2, <1>3

\* TypeOK, but for the listeners, which FanInv has.
LEMMA TypeFrom ==
  ASSUME FanInv', board' \in Boards,
         budget' \in [programs : Nat, messages : Nat, subscriptions : Nat],
         pc' \in {"core", "send", "loop", "dead"},
         guest' \in {"free", "select", "carrier", "ready", "send", "lost"},
         serial' \in [SerialPorts -> [selected_wr : 0 .. 7, write_registers : [0 .. 7 -> Byte]]],
         latches' \in [Latches -> Byte],
         ch' \in Channels, todo' \subseteq DOMAIN subs'[ch'],
         raised' \in {None, "error", "interrupt"}
  PROVE  TypeOK'
BY DEF TypeOK, FanInv

\* Any byte to a control port, with the guest's account of it.
LEMMA ProgramInv ==
  ASSUME IInv, NEW s \in Fitted, NEW val \in Byte,
         Executes, guest = "free" \/ setting["aux"] = 0, Out(ControlPort(s), val),
         budget' \in [programs : Nat, messages : Nat, subscriptions : Nat],
         guest' \in {"free", "select", "carrier", "ready", "send", "lost"},
         setting' = [setting EXCEPT ![s] = IF setting[s] # 0 THEN 0 ELSE val % 8],
         programmed' = IF setting[s] = 0 /\ val % 8 # 0 THEN programmed
                       ELSE [programmed EXCEPT ![s][setting[s]] = val],
         UNCHANGED <<sent, asked>>,
         guest' # "free" => board = "dim-1003" /\ setting'["aux"] = 0
  PROVE  IInv'
<1>1. /\ serial' = [serial EXCEPT ![s] = AfterControl(serial[s], val)] /\ latches' = latches
      /\ UNCHANGED <<board, pc, ch, todo, raised, listeners, next_id, subs>> /\ s \in SerialPorts
  BY OutControl, FittedPorts DEF IInv
<1>2. serial[s] \in [selected_wr : 0 .. 7, write_registers : [0 .. 7 -> Byte]]
  BY <1>1 DEF IInv, TypeOK
<1>3. val % 8 \in 0 .. 7 /\ setting[s] \in 0 .. 7 /\ programmed[s] \in [0 .. 7 -> Byte]
  BY <1>1 DEF IInv, Shape, Byte
<1>4. serial' \in [SerialPorts -> [selected_wr : 0 .. 7, write_registers : [0 .. 7 -> Byte]]]
  BY <1>1, <1>2, AfterControlIs DEF IInv, TypeOK
<1>5. FanInv' /\ HearInv' /\ PhaseInv'  BY <1>1, Quiet
<1>6. TypeOK'  BY <1>1, <1>4, <1>5, TypeFrom DEF IInv, TypeOK
<1>7. Shape'  BY <1>1, <1>3 DEF IInv, Shape
<1>8. RegInv'
  <2>1. \A t \in SerialPorts : t # s => serial'[t] = serial[t] /\ setting'[t] = setting[t] /\ programmed'[t] = programmed[t]
    BY <1>1 DEF IInv, TypeOK, Shape
  <2>2. serial[s].selected_wr = setting[s] /\ serial[s].write_registers = programmed[s]
    BY <1>1 DEF IInv, RegInv
  <2>3. serial'[s] = AfterControl(serial[s], val)  BY <1>1 DEF IInv, TypeOK
  <2>4. setting'[s] = IF setting[s] # 0 THEN 0 ELSE val % 8  BY <1>1 DEF IInv, Shape
  <2>5. serial'[s].selected_wr = setting'[s]
    <3>1. AfterControl(serial[s], val).selected_wr = IF serial[s].selected_wr # 0 THEN 0 ELSE val % 8
      BY <1>2, AfterControlIs
    <3> QED BY <2>2, <2>3, <2>4, <3>1
  <2>6. programmed'[s] = IF setting[s] = 0 /\ val % 8 # 0 THEN programmed[s]
                         ELSE [programmed[s] EXCEPT ![setting[s]] = val]
    BY <1>1 DEF IInv, Shape
  <2>7. serial'[s].write_registers = programmed'[s]
    BY <1>2, <2>2, <2>3, <2>6, AfterControlIs
  <2> QED BY <1>1, <2>1, <2>5, <2>7 DEF IInv, RegInv
<1> QED BY <1>5, <1>6, <1>7, <1>8 DEF IInv

LEMMA SelectRegisterInv ==
  ASSUME IInv, NEW s \in Fitted, NEW r \in Registers, SelectRegister(s, r)
  PROVE  IInv'
<1>1. s \in SerialPorts  BY FittedPorts DEF IInv
<1>2. r \in Byte /\ r % 8 = r /\ r # 0  BY RegisterAssumption DEF Byte
<1>3. budget' \in [programs : Nat, messages : Nat, subscriptions : Nat]
  BY SpendType DEF SelectRegister, IInv, TypeOK
<1>4. setting' = [setting EXCEPT ![s] = IF setting[s] # 0 THEN 0 ELSE r % 8]
  BY <1>1, <1>2 DEF SelectRegister
<1> QED BY <1>1, <1>2, <1>3, <1>4, ProgramInv DEF SelectRegister

LEMMA SetRegisterInv ==
  ASSUME IInv, NEW s \in Fitted, NEW v \in Values, SetRegister(s, v)
  PROVE  IInv'
<1>1. s \in SerialPorts  BY FittedPorts DEF IInv
<1>2. v \in Byte  BY RegisterAssumption DEF Byte
<1>3. budget' \in [programs : Nat, messages : Nat, subscriptions : Nat]
  BY DEF SetRegister, IInv, TypeOK
<1>4. setting' = [setting EXCEPT ![s] = IF setting[s] # 0 THEN 0 ELSE v % 8]
  BY <1>1 DEF SetRegister
<1> QED BY <1>1, <1>2, <1>3, <1>4, ProgramInv DEF SetRegister

LEMMA PollsInv ==
  ASSUME IInv, NEW at \in {"carrier", "ready"}, NEW bit, NEW next \in {"ready", "send"},
         Polls(at, bit, next)
  PROVE  IInv'
<1>1. board = "dim-1003" /\ setting["aux"] = 0 /\ "aux" \in Fitted /\ guest' \in {at, next}
  BY DEF Polls, IInv, RegInv, Fitted, SerialPorts
<1>2. 0 \in Byte /\ 0 % 8 = 0  BY DEF Byte
<1>3. budget' \in [programs : Nat, messages : Nat, subscriptions : Nat]
  BY DEF Polls, IInv, TypeOK
<1>4. setting' = [setting EXCEPT !["aux"] = IF setting["aux"] # 0 THEN 0 ELSE 0 % 8]
  BY <1>1, <1>2 DEF Polls, IInv, Shape, SerialPorts
<1>5. programmed' = [programmed EXCEPT !["aux"][setting["aux"]] = 0]
  BY <1>1 DEF Polls
<1>6. setting'["aux"] = 0  BY <1>1 DEF Polls
<1>7. Executes /\ Out(ControlPort("aux"), 0) /\ UNCHANGED <<sent, asked>>  BY DEF Polls
<1> QED BY <1>1, <1>2, <1>3, <1>4, <1>5, <1>6, <1>7, ProgramInv

LEMMA SetLatchInv ==
  ASSUME IInv, NEW l \in Latches, NEW v \in Values, SetLatch(l, v)
  PROVE  IInv'
<1>1. v \in Byte /\ v % 2 \in Byte  BY RegisterAssumption DEF Byte
<1>2. /\ latches' = [latches EXCEPT ![l] = IF l = "proms" THEN v % 2 ELSE v]
      /\ asked' = [asked EXCEPT ![l] = IF l = "proms" THEN v % 2 ELSE v]
      /\ UNCHANGED <<board, pc, ch, todo, serial, raised, listeners, next_id, subs>>
      /\ UNCHANGED <<guest, sent, setting, programmed>>
  BY OutLatch DEF SetLatch
<1>3. FanInv' /\ HearInv' /\ PhaseInv'  BY <1>2, Quiet
<1>4. budget' \in [programs : Nat, messages : Nat, subscriptions : Nat]
  BY SpendType DEF SetLatch, IInv, TypeOK
<1>5. TypeOK'  BY <1>1, <1>2, <1>3, <1>4, TypeFrom DEF IInv, TypeOK
<1>6. Shape' /\ RegInv'  BY <1>2 DEF IInv, Shape, RegInv
<1> QED BY <1>3, <1>5, <1>6 DEF IInv

LEMMA OutElsewhereInv ==
  ASSUME IInv, NEW port \in {2, 64}, OutElsewhere(port)
  PROVE  IInv'
<1>1. /\ UNCHANGED <<board, pc, ch, todo, serial, latches, raised, listeners, next_id, subs>>
      /\ UNCHANGED <<guest, sent, setting, programmed, asked>>
  BY OutNowhere DEF OutElsewhere, IInv, meant
<1>2. FanInv' /\ HearInv' /\ PhaseInv'  BY <1>1, Quiet
<1>3. budget' \in [programs : Nat, messages : Nat, subscriptions : Nat]
  BY SpendType DEF OutElsewhere, IInv, TypeOK
<1>4. TypeOK'  BY <1>1, <1>2, <1>3, TypeFrom DEF IInv, TypeOK
<1>5. Shape' /\ RegInv'  BY <1>1 DEF IInv, Shape, RegInv
<1> QED BY <1>2, <1>4, <1>5 DEF IInv

\* A byte to a data port begins a send on the port's output channel.
LEMMA CharacterInv ==
  ASSUME IInv, NEW s \in Fitted, Executes, Character(s),
         guest' = "free",
         budget' \in [programs : Nat, messages : Nat, subscriptions : Nat]
  PROVE  IInv'
<1>1. /\ Send(OutputOf(s))
      /\ UNCHANGED <<board, serial, latches, raised, listeners, next_id, subs>>
      /\ sent' = [sent EXCEPT ![OutputOf(s)] = @ + 1]
      /\ UNCHANGED <<setting, programmed, asked>>
  BY OutData DEF Character, IInv, meant
<1>2. OutputOf(s) \in Channels  BY DEF OutputOf, Channels, OutputChannels
<1>3. raised = None /\ todo = {}  BY DEF Executes, IInv, PhaseInv
<1>4. /\ ch' \in Channels /\ todo' \subseteq DOMAIN subs'[ch'] /\ pc' = "send"
      /\ sent' \in [Channels -> Nat]
      /\ FanInv' /\ HearInv' /\ PhaseInv'
  BY <1>1, <1>2, <1>3, SendStep
<1>5. TypeOK'  BY <1>1, <1>4, TypeFrom DEF IInv, TypeOK
<1>6. Shape' /\ RegInv'  BY <1>1, <1>4 DEF IInv, Shape, RegInv
<1> QED BY <1>4, <1>5, <1>6 DEF IInv

LEMMA HostMessageInv ==
  ASSUME IInv, NEW c \in InputChannels, HostMessage(c)
  PROVE  IInv'
<1>1. /\ pc = "loop" /\ Send(c)
      /\ UNCHANGED <<board, guest, serial, latches, raised, listeners, next_id, subs>>
      /\ sent' = [sent EXCEPT ![c] = @ + 1]
      /\ UNCHANGED <<setting, programmed, asked>>
  BY DEF HostMessage, devices, fanout, meant
<1>2. c \in Channels  BY DEF Channels
<1>3. raised = None /\ todo = {}  BY <1>1 DEF IInv, PhaseInv
<1>4. /\ ch' \in Channels /\ todo' \subseteq DOMAIN subs'[ch'] /\ pc' = "send"
      /\ sent' \in [Channels -> Nat]
      /\ FanInv' /\ HearInv' /\ PhaseInv'
  BY <1>1, <1>2, <1>3, SendStep
<1>5. budget' \in [programs : Nat, messages : Nat, subscriptions : Nat]
  BY SpendType DEF HostMessage, IInv, TypeOK
<1>6. TypeOK'  BY <1>1, <1>4, <1>5, TypeFrom DEF IInv, TypeOK
<1>7. Shape' /\ RegInv'  BY <1>1, <1>4 DEF IInv, Shape, RegInv
<1> QED BY <1>4, <1>6, <1>7 DEF IInv

LEMMA GuestInv == IInv /\ (Guest \/ Printing) => IInv'
<1> SUFFICES ASSUME IInv, Guest \/ Printing PROVE IInv'
  OBVIOUS
<1>1. ASSUME NEW s \in Fitted, OutCharacter(s) PROVE IInv'
  <2>1. budget' \in [programs : Nat, messages : Nat, subscriptions : Nat]
    BY <1>1, SpendType DEF OutCharacter, IInv, TypeOK
  <2> QED BY <1>1, <2>1, CharacterInv DEF OutCharacter
<1>2. CASE PrintSends
  <2>1. "aux" \in Fitted  BY <1>2 DEF PrintSends, IInv, RegInv, Fitted, SerialPorts
  <2>2. budget' \in [programs : Nat, messages : Nat, subscriptions : Nat]
    BY <1>2 DEF PrintSends, IInv, TypeOK
  <2> QED BY <1>2, <2>1, <2>2, CharacterInv DEF PrintSends
<1>3. CASE PrintBegins \/ PrintSelects
  <2>1. /\ UNCHANGED <<board, pc, ch, todo, serial, latches, raised, listeners, next_id, subs>>
        /\ UNCHANGED <<sent, setting, programmed, asked>>
        /\ guest' \in {"select", "carrier", "lost"} /\ board = "dim-1003" /\ setting["aux"] = 0
    BY <1>3 DEF PrintBegins, PrintSelects, devices, sending, fanout, meant, IInv, RegInv
  <2>2. FanInv' /\ HearInv' /\ PhaseInv'  BY <2>1, Quiet
  <2>3. budget' \in [programs : Nat, messages : Nat, subscriptions : Nat]
    BY <1>3, SpendType DEF PrintBegins, PrintSelects, IInv, TypeOK
  <2>4. TypeOK'  BY <2>1, <2>2, <2>3, TypeFrom DEF IInv, TypeOK
  <2>5. Shape' /\ RegInv'  BY <2>1 DEF IInv, Shape, RegInv
  <2> QED BY <2>2, <2>4, <2>5 DEF IInv
<1>4. CASE Polls("carrier", 8, "ready") \/ Polls("ready", 4, "send")
  BY <1>4, PollsInv
<1> QED BY <1>1, <1>2, <1>3, <1>4, SelectRegisterInv, SetRegisterInv, SetLatchInv, OutElsewhereInv
        DEF Guest, Printing

\* What the steps that touch no device, and neither the guest nor what it meant, share.
LEMMA HostSideInv ==
  ASSUME IInv, Shape', FanInv', HearInv', PhaseInv', todo' \subseteq DOMAIN subs'[ch'],
         UNCHANGED <<board, guest, serial, latches, ch, setting, programmed, asked>>,
         budget' \in [programs : Nat, messages : Nat, subscriptions : Nat],
         pc' \in {"core", "send", "loop", "dead"},
         raised' \in {None, "error", "interrupt"}
  PROVE  IInv'
<1>1. TypeOK'  BY TypeFrom DEF IInv, TypeOK
<1>2. RegInv'  BY DEF IInv, RegInv
<1> QED BY <1>1, <1>2 DEF IInv

\* A listener that fails leaves a trace only if its channel tolerates it, or with an
\* exception in the air.
LEMMA CalledInv ==
  ASSUME IInv, NEW k \in todo, NEW fails \in BOOLEAN, Called(k, fails), todo' = todo \ {k},
         \/ UNCHANGED <<pc, raised>> /\ (fails => ch \in OutputChannels)
         \/ \E e \in {"error", "interrupt"} :
              /\ raised' = e /\ pc' = IF ch \in InputChannels THEN "dead" ELSE "core"
              /\ ch \in OutputChannels => e = "interrupt"
  PROVE  IInv'
<1>1. /\ UNCHANGED <<board, budget, guest, serial, latches, ch, setting, programmed, asked>>
      /\ pc = "send"
  BY DEF Called, devices, meant
<1>2. Shape' /\ FanInv' /\ HearInv' /\ todo' \subseteq DOMAIN subs'[ch']  BY CalledStep
<1>3. raised = None  BY <1>1 DEF IInv, PhaseInv
<1>4. InputChannels \cap OutputChannels = {} /\ InputChannels \subseteq Channels
  BY DEF InputChannels, OutputChannels, Channels
<1>5. ASSUME NEW c \in InputChannels, NEW j \in DOMAIN subs'[c], subs'[c][j].failed, ~(c = ch /\ fails)
      PROVE  raised # None
  <2>1. j \in DOMAIN subs[c] /\ c \in Channels  BY <1>4, CalledSub
  <2>2. subs[c][j].failed
    <3>1. CASE c = ch /\ j = k  BY <1>5, <3>1, CalledSub
    <3>2. CASE ~(c = ch /\ j = k)  BY <1>5, <2>1, <3>2, CalledSub
    <3> QED BY <3>1, <3>2
  <2> QED BY <2>1, <2>2 DEF IInv, PhaseInv, LossEndsRun
<1>6. CASE UNCHANGED <<pc, raised>> /\ (fails => ch \in OutputChannels)
  <2>1. PhaseInv'  BY <1>1, <1>3, <1>4, <1>5, <1>6 DEF PhaseInv, LossEndsRun
  <2> QED BY <1>1, <1>2, <1>6, <2>1, HostSideInv DEF IInv, TypeOK
<1>7. ASSUME NEW e \in {"error", "interrupt"}, raised' = e,
             pc' = IF ch \in InputChannels THEN "dead" ELSE "core",
             ch \in OutputChannels => e = "interrupt"
      PROVE  IInv'
  <2>1. raised' # None /\ pc' \in {"dead", "core"}  BY <1>7 DEF None
  <2>2. PhaseInv'  BY <1>1, <1>7, <2>1 DEF PhaseInv, LossEndsRun
  <2> QED BY <1>1, <1>2, <1>7, <2>1, <2>2, HostSideInv DEF IInv, TypeOK
<1> QED BY <1>6, <1>7

LEMMA SendingInv == IInv /\ Sending => IInv'
<1> SUFFICES ASSUME IInv, Sending PROVE IInv'
  OBVIOUS
<1>1. ASSUME NEW k \in todo, ListenerReturns(k) PROVE IInv'
  BY <1>1, CalledInv DEF ListenerReturns, Return
<1>2. ASSUME NEW k \in todo, ListenerFails(k) PROVE IInv'
  <2>1. CASE ch \in OutputChannels
    BY <1>2, <2>1, CalledInv DEF ListenerFails, suppress_listener_errors, Return
  <2>2. CASE ch \notin OutputChannels
    BY <1>2, <2>2, CalledInv DEF ListenerFails, suppress_listener_errors, Raise
  <2> QED BY <2>1, <2>2
<1>3. ASSUME NEW k \in todo, ListenerInterrupted(k) PROVE IInv'
  BY <1>3, CalledInv DEF ListenerInterrupted, Raise
<1>4. CASE SendReturns
  <2>1. /\ pc = "send" /\ todo = {} /\ pc' \in {"loop", "core"}
        /\ UNCHANGED <<board, budget, guest, serial, latches, ch, todo, raised, listeners, next_id,
                       subs, sent, setting, programmed, asked>>
    BY <1>4 DEF SendReturns, devices, sending, fanout, meant
  <2>2. FanInv' /\ HearInv'  BY <2>1, Quiet
  <2>3. PhaseInv'  BY <2>1 DEF IInv, PhaseInv, LossEndsRun
  <2>4. Shape'  BY <2>1 DEF IInv, Shape
  <2> QED BY <2>1, <2>2, <2>3, <2>4, HostSideInv DEF IInv, TypeOK
<1> QED BY <1>1, <1>2, <1>3, <1>4 DEF Sending

LEMMA ChunkInv == IInv /\ (EndOfChunk \/ EnterCore) => IInv'
<1> SUFFICES ASSUME IInv, EndOfChunk \/ EnterCore PROVE IInv'
  OBVIOUS
<1>1. /\ pc' \in {"loop", "core", "dead"}
      /\ UNCHANGED <<board, budget, guest, serial, latches, ch, todo, raised, listeners, next_id,
                     subs, sent, setting, programmed, asked>>
  BY DEF EndOfChunk, EnterCore, devices, sending, fanout, meant
<1>2. FanInv' /\ HearInv'  BY <1>1, Quiet
<1>3. PhaseInv'  BY <1>1 DEF IInv, PhaseInv, LossEndsRun, EndOfChunk, EnterCore
<1>4. Shape'  BY <1>1 DEF IInv, Shape
<1> QED BY <1>1, <1>2, <1>3, <1>4, HostSideInv DEF IInv, TypeOK

LEMMA ConsoleInv == IInv /\ Console => IInv'
<1> SUFFICES ASSUME IInv, NEW c \in Channels,
                    Subscribe(c) \/ \E k \in DOMAIN subs[c] : Unsubscribe(c, k)
             PROVE  IInv'
  BY DEF Console
<1>1. UNCHANGED <<board, pc, guest, serial, latches, ch, todo, raised, sent, setting, programmed, asked>>
  BY DEF Subscribe, Unsubscribe, devices, sending, meant
<1>2. Shape' /\ FanInv' /\ HearInv' /\ todo' \subseteq DOMAIN subs'[ch'] /\ NoNewFailure
  BY SubscribeStep, UnsubscribeStep
<1>3. budget' \in [programs : Nat, messages : Nat, subscriptions : Nat]
  <2>1. budget' = budget \/ (budget.subscriptions > 0 /\ budget' = [budget EXCEPT !.subscriptions = budget.subscriptions - 1])
    BY DEF Subscribe, Unsubscribe
  <2>2. budget \in [programs : Nat, messages : Nat, subscriptions : Nat]  BY DEF IInv, TypeOK
  <2> QED BY <2>1, <2>2
<1>4. InputChannels \subseteq Channels  BY DEF Channels
<1>5. PhaseInv'
  BY <1>1, <1>2, <1>4 DEF IInv, PhaseInv, LossEndsRun, NoNewFailure
<1> QED BY <1>1, <1>2, <1>3, <1>5, HostSideInv DEF IInv, TypeOK

-----------------------------------------------------------------------------
\* What run_emulator subscribes to a channel, if anything.
LEMMA StartupType ==
  ASSUME NEW c \in Channels
  PROVE  /\ Startup(c) \in Seq(Sub) /\ Len(Startup(c)) \in {0, 1}
         /\ DOMAIN Startup(c) = 1 .. Len(Startup(c))
         /\ \A k \in DOMAIN Startup(c) :
              /\ k = 1 /\ Startup(c)[k].id = 0 /\ Startup(c)[k].since = 0
              /\ Startup(c)[k].until = Open /\ Startup(c)[k].heard = <<>>
              /\ Startup(c)[k].failed = FALSE
<1> DEFINE one == [id |-> 0, since |-> 0, until |-> Open, heard |-> <<>>, failed |-> FALSE]
<1>1. /\ one \in Sub /\ one.id = 0 /\ one.since = 0 /\ one.until = Open /\ one.heard = <<>>
      /\ one.failed = FALSE
  BY DEF Sub, Open
<1>2. Startup(c) = <<>> \/ Startup(c) = <<one>>  BY DEF Startup
<1> HIDE DEF one
<1>3. CASE Startup(c) = <<>>  BY <1>3
<1>4. CASE Startup(c) = <<one>>  BY <1>1, <1>4
<1> QED BY <1>2, <1>3, <1>4

LEMMA InitInv == Init => IInv
<1> SUFFICES ASSUME Init PROVE IInv
  OBVIOUS
<1>0. ASSUME NEW c \in Channels
      PROVE  /\ subs[c] = Startup(c) /\ sent[c] = 0 /\ next_id[c] = Len(subs[c])
             /\ listeners[c] = [id \in (0 .. Len(subs[c]) - 1) |-> 1]
             /\ subs[c] \in Seq(Sub) /\ Len(subs[c]) \in {0, 1}
             /\ DOMAIN subs[c] = 1 .. Len(subs[c])
             /\ \A k \in DOMAIN subs[c] :
                  /\ k = 1 /\ subs[c][k].id = 0 /\ subs[c][k].since = 0
                  /\ subs[c][k].until = Open /\ subs[c][k].heard = <<>>
                  /\ subs[c][k].failed = FALSE
  <2>1. /\ subs[c] = Startup(c) /\ sent[c] = 0 /\ next_id[c] = Len(Startup(c))
        /\ listeners[c] = [id \in (0 .. Len(Startup(c)) - 1) |-> 1]
    BY DEF Init
  <2>2. /\ Startup(c) \in Seq(Sub) /\ Len(Startup(c)) \in {0, 1}
        /\ DOMAIN Startup(c) = 1 .. Len(Startup(c))
        /\ \A k \in DOMAIN Startup(c) :
              /\ k = 1 /\ Startup(c)[k].id = 0 /\ Startup(c)[k].since = 0
              /\ Startup(c)[k].until = Open /\ Startup(c)[k].heard = <<>>
              /\ Startup(c)[k].failed = FALSE
    BY StartupType
  <2> QED BY <2>1, <2>2
<1>1. ASSUME NEW c \in Channels
      PROVE  /\ next_id[c] = Len(subs[c]) /\ Len(subs[c]) \in {0, 1}
             /\ \A id \in DOMAIN listeners[c] : id = 0 /\ Len(subs[c]) = 1 /\ listeners[c][id] = 1
             /\ \A k \in DOMAIN subs[c] :
                  k = 1 /\ Len(subs[c]) = 1 /\ 0 \in DOMAIN listeners[c] /\ listeners[c][0] = 1
             /\ Len(subs[c]) = 1 => 1 \in DOMAIN subs[c]
  <2>1. /\ next_id[c] = Len(subs[c]) /\ Len(subs[c]) \in {0, 1} /\ DOMAIN subs[c] = 1 .. Len(subs[c])
        /\ listeners[c] = [id \in (0 .. Len(subs[c]) - 1) |-> 1]
    BY <1>0
  <2>2. CASE Len(subs[c]) = 0
    <3>1. DOMAIN subs[c] = {} /\ DOMAIN listeners[c] = {}  BY <2>1, <2>2
    <3> QED BY <2>1, <2>2, <3>1
  <2>3. CASE Len(subs[c]) = 1
    <3>1. DOMAIN subs[c] = {1} /\ DOMAIN listeners[c] = {0} /\ listeners[c][0] = 1  BY <2>1, <2>3
    <3> QED BY <2>1, <2>3, <3>1
  <2> QED BY <2>1, <2>2, <2>3
<1>2. Shape
  <2>1. subs \in [Channels -> Seq(Sub)] /\ next_id \in [Channels -> Nat]
    <3>1. DOMAIN subs = Channels /\ DOMAIN next_id = Channels
          /\ subs = [c \in Channels |-> subs[c]] /\ next_id = [c \in Channels |-> next_id[c]]
      BY DEF Init
    <3>2. ASSUME NEW c \in Channels PROVE subs[c] \in Seq(Sub) /\ next_id[c] \in Nat
      <4>1. subs[c] \in Seq(Sub) /\ next_id[c] = Len(subs[c]) /\ Len(subs[c]) \in {0, 1}  BY <1>0
      <4> QED BY <4>1
    <3> QED BY <3>1, <3>2
  <2>2. sent \in [Channels -> Nat] /\ DOMAIN listeners = Channels  BY DEF Init
  <2>3. setting \in [SerialPorts -> 0 .. 7] /\ programmed \in [SerialPorts -> [0 .. 7 -> Byte]]
    BY DEF Init, Byte
  <2>4. board \in {"dim-1001", "dim-1003"}  BY BoardAssumption DEF Init
  <2> QED BY <2>1, <2>2, <2>3, <2>4 DEF Shape
<1>3. FanInv
  <2> SUFFICES ASSUME NEW c \in Channels
               PROVE  /\ \A id \in DOMAIN listeners[c] :
                           /\ id \in Nat /\ id < next_id[c]
                           /\ listeners[c][id] \in DOMAIN subs[c]
                           /\ subs[c][listeners[c][id]].id = id
                           /\ subs[c][listeners[c][id]].until = Open
                      /\ \A k \in DOMAIN subs[c] :
                           /\ subs[c][k].id < next_id[c]
                           /\ subs[c][k].until = Open =>
                                /\ subs[c][k].id \in DOMAIN listeners[c]
                                /\ listeners[c][subs[c][k].id] = k
                      /\ \A j, k \in DOMAIN subs[c] : subs[c][j].id = subs[c][k].id => j = k
    BY DEF FanInv
  <2>1. \A k \in DOMAIN subs[c] : k = 1 /\ subs[c][k].id = 0 /\ subs[c][k].until = Open  BY <1>0
  <2>2. /\ next_id[c] = Len(subs[c]) /\ Len(subs[c]) \in {0, 1}
        /\ \A id \in DOMAIN listeners[c] : id = 0 /\ Len(subs[c]) = 1 /\ listeners[c][id] = 1
        /\ \A k \in DOMAIN subs[c] :
             k = 1 /\ Len(subs[c]) = 1 /\ 0 \in DOMAIN listeners[c] /\ listeners[c][0] = 1
        /\ Len(subs[c]) = 1 => 1 \in DOMAIN subs[c]
    BY <1>1
  <2> QED BY <2>1, <2>2
<1>4. HearInv
  <2>1. ASSUME NEW c \in Channels, NEW k \in DOMAIN subs[c] PROVE Heard(c, k)
    <3>1. subs[c][k].since = 0 /\ subs[c][k].until = Open /\ Len(subs[c][k].heard) = 0
      <4>1. subs[c][k].since = 0 /\ subs[c][k].until = Open /\ subs[c][k].heard = <<>>  BY <1>0
      <4> QED BY <4>1
    <3>2. Due(c, k) = 0 /\ Missed(c, k) = 0  BY <1>0, <3>1 DEF Due, Missed, Init
    <3> QED BY <3>1, <3>2 DEF Heard
  <2> QED BY <2>1 DEF HearInv, Init
<1>5. RegInv
  <2>1. latches = asked /\ guest = "free"  BY DEF Init
  <2>2. \A s \in SerialPorts : serial[s].selected_wr = setting[s] /\ serial[s].write_registers = programmed[s]
    BY DEF Init
  <2> QED BY <2>1, <2>2 DEF RegInv
<1>6. PhaseInv
  <2>1. todo = {} /\ pc = "core" /\ raised = None  BY DEF Init
  <2>2. \A c \in InputChannels : \A k \in DOMAIN subs[c] : ~subs[c][k].failed
    BY <1>0 DEF Channels
  <2> QED BY <2>1, <2>2 DEF PhaseInv, LossEndsRun
<1>7. TypeOK
  <2>1. budget \in [programs : Nat, messages : Nat, subscriptions : Nat]
    BY BudgetAssumption DEF Init
  <2>2. serial \in [SerialPorts -> [selected_wr : 0 .. 7, write_registers : [0 .. 7 -> Byte]]]
    BY DEF Init, Byte
  <2>3. latches \in [Latches -> Byte]
    BY DEF Init, Byte, Latches
  <2>4. \A c \in Channels : \A id \in DOMAIN listeners[c] :
          id < next_id[c] /\ listeners[c][id] \in DOMAIN subs[c]
    BY <1>3 DEF FanInv
  <2>5. /\ board \in Boards /\ pc = "core" /\ guest = "free" /\ ch \in Channels /\ todo = {}
        /\ raised = None
    BY DEF Init, Channels, OutputChannels
  <2> QED BY <2>1, <2>2, <2>3, <2>4, <2>5 DEF TypeOK
<1> QED BY <1>2, <1>3, <1>4, <1>5, <1>6, <1>7 DEF IInv

LEMMA NextInv == IInv /\ [Next]_vars => IInv'
<1> SUFFICES ASSUME IInv, [Next]_vars PROVE IInv'
  OBVIOUS
<1>1. CASE UNCHANGED vars
  <2>1. UNCHANGED <<board, budget, pc, guest, serial, latches, ch, todo, raised, listeners, next_id,
                    subs, sent, setting, programmed, asked>>
    BY <1>1 DEF vars, devices, sending, fanout, meant
  <2>2. FanInv' /\ HearInv' /\ PhaseInv'  BY <2>1, Quiet
  <2>3. Shape'  BY <2>1 DEF IInv, Shape
  <2> QED BY <2>1, <2>2, <2>3, HostSideInv DEF IInv, TypeOK
<1> QED BY <1>1, GuestInv, SendingInv, ChunkInv, ConsoleInv, HostMessageInv DEF Next

\* The inductive invariant holds of every state that the emulator reaches.
THEOREM Invariance == Spec => []IInv
<1> QED BY InitInv, NextInv, PTL DEF Spec

\* The type invariant, for every set of registers, values and budgets.
THEOREM TypeCorrect == Spec => []TypeOK
<1>1. IInv => TypeOK  BY DEF IInv
<1> QED BY Invariance, <1>1, PTL

\* However many listeners a channel has and whatever they do, each hears the messages
\* of its own subscription, once and in order: Channel.send over a copy of
\* _listeners, ids that are never given twice, and one call of the copy at a time.
THEOREM EveryListenerHears == Spec => []EachHearsItAll
<1>1. IInv => EachHearsItAll
  <2> SUFFICES ASSUME IInv, NEW c \in Channels, NEW k \in DOMAIN subs[c]
               PROVE  subs[c][k].heard = [i \in 1 .. Due(c, k) - subs[c][k].since - Missed(c, k)
                                            |-> subs[c][k].since + i]
    BY DEF EachHearsItAll
  <2> DEFINE heard == subs[c][k].heard
             since == subs[c][k].since
             n == Due(c, k) - since - Missed(c, k)
  <2>1. heard \in Seq(Nat) /\ Len(heard) \in Nat /\ since \in Nat  BY SubType DEF IInv
  <2>2. Due(c, k) \in Int /\ Missed(c, k) \in Int  BY SubType DEF IInv, Shape, Due, Missed
  <2>3. since + Len(heard) + Missed(c, k) = Due(c, k) /\ \A i \in 1 .. Len(heard) : heard[i] = since + i
    BY DEF IInv, HearInv, Heard
  <2> HIDE DEF heard, since
  <2>4. n = Len(heard)  BY <2>1, <2>2, <2>3
  <2> HIDE DEF n
  <2>5. heard = [i \in 1 .. Len(heard) |-> heard[i]]  BY <2>1
  <2>6. heard = [i \in 1 .. n |-> since + i]  BY <2>3, <2>4, <2>5
  <2> QED BY <2>6 DEF heard, since, n
<1> QED BY Invariance, <1>1, PTL

\* A message cut short by an exception, or refused by a listener of an input channel,
\* is followed by no further step of the guest: the exception is there until the
\* emulator is dead.
THEOREM LossStops == Spec => []LossEndsRun
<1>1. IInv => LossEndsRun  BY DEF IInv, PhaseInv
<1> QED BY Invariance, <1>1, PTL

\* Through the port table of either board, what the guest programs into a port or a
\* latch is what that device holds, for every order of its accesses.
THEOREM AsProgrammed == Spec => []DevicesAsProgrammed
<1>1. IInv => DevicesAsProgrammed  BY DEF IInv, RegInv, DevicesAsProgrammed
<1> QED BY Invariance, <1>1, PTL
=============================================================================
