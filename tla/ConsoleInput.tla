---------------------------- MODULE ConsoleInput ----------------------------
(***************************************************************************)
(* How characters reach the guest: the terminal streams polled by          *)
(* poll_inputs (app.py), the scheduled messages of ScheduledSender, the    *)
(* channels that carry both to the serial ports, and the ports' receive    *)
(* queues (serial.py), under run_sim's loop.  Pausing and exceptions are   *)
(* in RunLoop.                                                             *)
(*                                                                         *)
(* The guest polls, as the PROMs do: it takes a byte only after the status *)
(* told it of one.                                                         *)
(***************************************************************************)
EXTENDS Scheduler, FiniteSets

CONSTANTS Input,      \* the streams that are open: "console", and "aux" with -a
          KeyBytes,   \* what the host writes to them
          MaxKeys,    \* bound: bytes the host writes to all streams
          MaxClock    \* bound: the time

ASSUME InputAssumption ==
  /\ "console" \in Input /\ Input \subseteq {"console", "aux"}
  /\ KeyBytes \subseteq 0 .. 255
  /\ MaxKeys \in Nat /\ MaxClock \in Nat

VARIABLES pc,          \* where run_sim is
          clock,
          now,         \* poll's view of the clock
          heap,        \* _items
          events,      \* what poller.poll(0) returned and is not handled yet
          registered,  \* the streams in input_poller and input_routes
          input_bytes, \* of the serial port behind each stream
          ready,       \* the guest has been told of a byte
          wire,        \* bytes in the stream the emulator has not read
          closed,      \* the host has closed its end
          typed,       \* history: all the host wrote to a stream
          received,    \* history: all the guest read from a port
          source       \* history: where each byte that entered a port came from

host  == <<wire, closed, typed>>
guest == <<ready, received>>
ports == <<input_bytes, source>>
vars  == <<pc, clock, now, heap, events, registered, ports, host, guest>>

LoopPCs   == {"top", "due", "inputs", "events", "run"}
EventBits == {"IN", "HUP"}

Init ==
  /\ pc = "top"
  /\ clock = 0 /\ now = 0
  /\ heap = StartupQueue
  /\ events = [p \in Input |-> {}]
  /\ registered = Input
  /\ input_bytes = [p \in Input |-> <<>>]
  /\ ready = [p \in Input |-> FALSE]
  /\ wire = [p \in Input |-> <<>>]
  /\ closed = [p \in Input |-> FALSE]
  /\ typed = [p \in Input |-> <<>>]
  /\ received = [p \in Input |-> <<>>]
  /\ source = [p \in Input |-> <<>>]

-----------------------------------------------------------------------------
(***************************************************************************)
(* scheduled_input.poll().                                                 *)
(***************************************************************************)
\* The n-th byte that the host wrote to the stream, a byte of the n-th message.
Source(kind, n) == [from |-> kind, nth |-> n]

\* SerialPort.queue_bytes, through the port's channel.
Queue(p, data, from) ==
  /\ input_bytes' = [input_bytes EXCEPT ![p] = @ \o data]
  /\ source' = [source EXCEPT ![p] = @ \o [i \in 1 .. Len(data) |-> from]]

PollScheduled ==
  /\ pc = "top"
  /\ now' = clock
  /\ pc' = "due"
  /\ UNCHANGED <<clock, heap, events, registered, ports, host, guest>>

HeadIsDue == heap # <<>> /\ AtMost(heap[1].deadline, now)

\* One turn of the while loop: pop, then deliver.
DeliverDue ==
  /\ pc = "due" /\ HeadIsDue
  /\ heap' = Pop(heap)
  /\ Queue("console", heap[1].message, Source("script", heap[1].sequence))
  /\ UNCHANGED <<pc, clock, now, events, registered, host, guest>>

NoneDue ==
  /\ pc = "due" /\ ~HeadIsDue
  /\ pc' = "inputs"
  /\ UNCHANGED <<clock, now, heap, events, registered, ports, host, guest>>

-----------------------------------------------------------------------------
(***************************************************************************)
(* poll_inputs.                                                            *)
(***************************************************************************)
\* Mutant: the eighth bit is kept.
NormalizeEightBits(b) == IF b = 10 THEN 13 ELSE b

\* Seven bits, and CR for LF.
Normalize(b) == IF b % 128 = 10 THEN 13 ELSE b % 128

\* The console's input is normalised, the aux port's is 8-bit clean.
Transform(p, b) == IF p = "console" THEN Normalize(b) ELSE b

\* What poll may report of a stream.  Kinds of stream differ in whether they
\* report the end of the data as readable, as a hangup, or as both.
Reports(p) ==
  IF p \notin registered THEN {{}}
  ELSE IF wire[p] # <<>> THEN {{"IN"}} \cup (IF closed[p] THEN {EventBits} ELSE {})
  ELSE IF closed[p] THEN (SUBSET EventBits) \ {{}}
  ELSE {{}}

PollInputs ==
  /\ pc = "inputs"
  /\ events' \in [Input -> SUBSET EventBits]
  /\ \A p \in Input : events'[p] \in Reports(p)
  /\ pc' = "events"
  /\ UNCHANGED <<clock, now, heap, registered, ports, host, guest>>

Reading(p) == "IN" \in events[p] /\ wire[p] # <<>>

\* How many bytes of a stream have been read.
Taken(p) == Len(typed[p]) - Len(wire[p])

\* stream.read(1) and the destination's queue.
TakeKey(p) ==
  /\ wire' = [wire EXCEPT ![p] = Tail(@)]
  /\ Queue(p, <<Transform(p, Head(wire[p]))>>, Source("keys", Taken(p) + 1))
  /\ UNCHANGED registered

Forget(p) ==
  /\ registered' = registered \ {p}
  /\ UNCHANGED <<wire, ports>>

\* Mutant: a NUL is taken for the end of the stream.
HandleKeyNul(p) ==
  IF Reading(p) /\ Head(wire[p]) # 0 THEN TakeKey(p)
  ELSE /\ registered' = registered \ {p}
       /\ wire' = [wire EXCEPT ![p] = IF @ = <<>> THEN @ ELSE Tail(@)]
       /\ UNCHANGED ports

\* Mutant: a hangup drops the stream with what is still in it.
HandleKeyHangup(p) == IF Reading(p) /\ "HUP" \notin events[p] THEN TakeKey(p) ELSE Forget(p)

\* Mutant: the end of the data is not looked at.
HandleKeyNoEnd(p) ==
  IF Reading(p) THEN TakeKey(p) ELSE UNCHANGED <<registered, wire, ports>>

\* Data is read even if the stream has hung up; a stream with none is dropped.
HandleKey(p) == IF Reading(p) THEN TakeKey(p) ELSE Forget(p)

HandleEvent(p) ==
  /\ pc = "events" /\ events[p] # {}
  /\ events' = [events EXCEPT ![p] = {}]
  /\ HandleKey(p)
  /\ UNCHANGED <<pc, clock, now, heap, closed, typed, guest>>

EventsHandled ==
  /\ pc = "events" /\ \A p \in Input : events[p] = {}
  /\ pc' = "run"
  /\ UNCHANGED <<clock, now, heap, events, registered, ports, host, guest>>

-----------------------------------------------------------------------------
(***************************************************************************)
(* run_steps: the guest's accesses to the serial ports.                    *)
(***************************************************************************)
RestOf(q) == IF q = <<>> THEN q ELSE Tail(q)

\* _read_control, of whose bits the guest looks at 0x01.
ReadControl(p) ==
  /\ pc = "run"
  /\ ready' = [ready EXCEPT ![p] = input_bytes[p] # <<>>]
  /\ UNCHANGED <<pc, clock, now, heap, events, registered, ports, host, received>>

\* _read_data: 0 from an empty queue.
ReadData(p) ==
  /\ pc = "run" /\ ready[p]
  /\ received' = [received EXCEPT ![p] =
                    Append(@, IF input_bytes[p] = <<>> THEN 0 ELSE Head(input_bytes[p]))]
  /\ input_bytes' = [input_bytes EXCEPT ![p] = RestOf(@)]
  /\ ready' = [ready EXCEPT ![p] = FALSE]
  /\ UNCHANGED <<pc, clock, now, heap, events, registered, source, host>>

EndOfChunk ==
  /\ pc = "run"
  /\ pc' = "top"
  /\ UNCHANGED <<clock, now, heap, events, registered, ports, host, guest>>

-----------------------------------------------------------------------------
(***************************************************************************)
(* The world.                                                              *)
(***************************************************************************)
KeysTyped == {k \in Input \X (1 .. MaxKeys) : k[2] <= Len(typed[k[1]])}

TypeKey(p, b) ==
  /\ ~closed[p] /\ Cardinality(KeysTyped) < MaxKeys
  /\ wire' = [wire EXCEPT ![p] = Append(@, b)]
  /\ typed' = [typed EXCEPT ![p] = Append(@, b)]
  /\ UNCHANGED <<pc, clock, now, heap, events, registered, ports, closed, guest>>

HangUp(p) ==
  /\ ~closed[p]
  /\ closed' = [closed EXCEPT ![p] = TRUE]
  /\ UNCHANGED <<pc, clock, now, heap, events, registered, ports, wire, typed, guest>>

Tick ==
  /\ clock < MaxClock
  /\ clock' = clock + 1
  /\ UNCHANGED <<pc, now, heap, events, registered, ports, host, guest>>

Loop ==
  \/ PollScheduled \/ DeliverDue \/ NoneDue
  \/ PollInputs \/ (\E p \in Input : HandleEvent(p)) \/ EventsHandled
  \/ EndOfChunk

Guest == \E p \in Input : ReadControl(p) \/ ReadData(p)

World == Tick \/ \E p \in Input : HangUp(p) \/ \E b \in KeyBytes : TypeKey(p, b)

Next == Loop \/ Guest \/ World

Spec == Init /\ [][Next]_vars

\* run_sim goes round: a chunk is a bounded number of instructions.  Neither the
\* guest nor the host has to do anything.
FairSpec == Spec /\ WF_vars(Loop)

-----------------------------------------------------------------------------
(***************************************************************************)
(* Properties.                                                             *)
(***************************************************************************)
PortBytes(p) == IF p = "console" THEN 0 .. 127 ELSE 0 .. 255

\* Every variable has its type; the console's guest never sees the eighth bit.
TypeOK ==
  /\ pc \in LoopPCs
  /\ clock \in 0 .. MaxClock /\ now \in 0 .. clock
  /\ heap \in Seq(Item)
  /\ events \in [Input -> SUBSET EventBits]
  /\ registered \subseteq Input
  /\ ready \in [Input -> BOOLEAN] /\ closed \in [Input -> BOOLEAN]
  /\ \A p \in Input : /\ input_bytes[p] \in Seq(PortBytes(p))
                      /\ received[p] \in Seq(PortBytes(p))
                      /\ wire[p] \in Seq(KeyBytes) /\ typed[p] \in Seq(KeyBytes)
                      /\ source[p] \in Seq([from : {"keys", "script"}, nth : Nat])

\* All that has entered a port: what the guest has read and what waits for it.
Entered(p) == received[p] \o input_bytes[p]

From(p, kind) == {a \in DOMAIN source[p] : source[p][a].from = kind}

\* Each byte the host wrote arrives once, in order, whatever the script, the other
\* stream, hangups and the guest do, and nothing but what it wrote and the script; a
\* NUL is a byte like any other.
KeysInOrder ==
  \A p \in Input :
    /\ Len(source[p]) = Len(Entered(p))
    /\ wire[p] = SubSeq(typed[p], Taken(p) + 1, Len(typed[p]))
    /\ \A n \in 1 .. Taken(p) : \E a \in From(p, "keys") : source[p][a].nth = n
    /\ \A a \in From(p, "keys") : /\ source[p][a].nth \in 1 .. Taken(p)
                                  /\ Entered(p)[a] = Transform(p, typed[p][source[p][a].nth])
    /\ \A a, b \in From(p, "keys") : a < b => source[p][a].nth < source[p][b].nth

\* i is sent before j: the earlier deadline, or the earlier call of schedule_at.
Before(i, j) == Schedule[i].deadline < Schedule[j].deadline
                \/ (Schedule[i].deadline = Schedule[j].deadline /\ i < j)
Waiting == {heap[k].sequence : k \in DOMAIN heap}
Sent == DOMAIN Schedule \ Waiting

\* The message stands whole in what has entered, after the first k bytes, and nowhere
\* else.
StandsAfter(k, i) ==
  LET m == Schedule[i].message
  IN  /\ SubSeq(Entered("console"), k + 1, k + Len(m)) = m
      /\ {a \in From("console", "script") : source["console"][a].nth = i} = k + 1 .. k + Len(m)

\* Messages arrive whole, in the order of their deadlines, those of one deadline
\* in the order in which they were scheduled: keys come between messages only.
ScriptInOrder ==
  LET from == source["console"]
  IN  /\ \A i \in Sent :
           \E k \in 0 .. Len(from) - Len(Schedule[i].message) : StandsAfter(k, i)
      /\ \A a \in From("console", "script") : from[a].nth \in Sent
      /\ \A a, b \in From("console", "script") :
           a < b => from[a].nth = from[b].nth \/ Before(from[a].nth, from[b].nth)

\* "Deliver all due messages" (ScheduledSender.poll): when poll returns, exactly
\* the messages whose deadline has not come are waiting.
DueExactly ==
  pc = "inputs" =>
    Waiting = {i \in DOMAIN Schedule : ~AtMost(Schedule[i].deadline, now)}

\* What the host writes gets to the port, even if it hangs up at once.
KeysArrive ==
  \A p \in Input, n \in 1 .. MaxKeys :
    Len(typed[p]) >= n ~> Len(typed[p]) - Len(wire[p]) >= n

\* A stream that has ended is dropped from the poller, which would report it in
\* every chunk for ever.
EndedIsForgotten == \A p \in Input : closed[p] ~> p \notin registered
=============================================================================
