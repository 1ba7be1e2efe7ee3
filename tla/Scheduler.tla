----------------------------- MODULE Scheduler -----------------------------
(***************************************************************************)
(* The startup script of the console and ScheduledSender's queue           *)
(* (scheduler.py) as operators: when each message is due, and the binary   *)
(* heap of Python's heapq with the comparisons heapq makes.                *)
(*                                                                         *)
(* Times are Python floats.  NaN, which float() and json accept as a       *)
(* delay, is not below zero, not below anything, and absorbs what is added *)
(* to it.  heapq is external: 1-based here, 0-based there.                 *)
(***************************************************************************)
EXTENDS Integers, Sequences

CONSTANTS SEND_DELAY,  \* when the text of --send is due (0.3 s)
          SendText,    \* that text, or <<>>
          Script       \* the commands of the script: [delay, send]

NaN == -1
Time == Nat \cup {NaN}

\* read_console_script takes ASCII text only; other text of --send does not get as far
\* as a queue.
Text == Seq(0 .. 127)

ASSUME SchedulerAssumption ==
  /\ SEND_DELAY \in Nat
  /\ SendText \in Text
  /\ Script \in Seq([delay : Time, send : Text])

Item == [deadline : Time, sequence : Nat, message : Text]

Plus(s, t) == IF NaN \in {s, t} THEN NaN ELSE s + t
AtMost(s, t) == NaN \notin {s, t} /\ s <= t

-----------------------------------------------------------------------------
(***************************************************************************)
(* Startup: what is scheduled, in order, with the clock at 0.              *)
(***************************************************************************)
\* read_console_script: delays add up.
elapsed[n \in 0 .. Len(Script)] ==
  IF n = 0 THEN 0 ELSE Plus(elapsed[n - 1], Script[n].delay)

Scheduled(i, deadline, message) ==
  [deadline |-> deadline, sequence |-> i, message |-> message]

SentFirst == IF SendText = <<>> THEN 0 ELSE 1

\* --send comes first, and only if it is not empty.
Schedule ==
  [i \in 1 .. SentFirst + Len(Script) |->
     IF i <= SentFirst THEN Scheduled(i, SEND_DELAY, SendText)
     ELSE Scheduled(i, elapsed[i - SentFirst], Script[i - SentFirst].send)]

-----------------------------------------------------------------------------
(***************************************************************************)
(* The heap.                                                               *)
(***************************************************************************)
\* Mutant: items with equal deadlines are not told apart.
LessByDeadline(a, b) == NaN \notin {a.deadline, b.deadline} /\ a.deadline < b.deadline

\* _ScheduledItem, ordered as the tuple of deadline and sequence.
Less(a, b) ==
  /\ NaN \notin {a.deadline, b.deadline}
  /\ \/ a.deadline < b.deadline
     \/ a.deadline = b.deadline /\ a.sequence < b.sequence

Exchange(h, i, j) == [h EXCEPT ![i] = h[j], ![j] = h[i]]

\* A heap and a place in it.
Places == Seq(Item) \X (Nat \ {0})

\* _siftdown: the item at p rises towards the root while it is less.
Rise[hp \in Places] ==
  LET h == hp[1]  p == hp[2]
  IN  IF p \in 2 .. Len(h) /\ Less(h[p], h[p \div 2])
      THEN Rise[<<Exchange(h, p, p \div 2), p \div 2>>]
      ELSE h

SmallerChild(h, p) ==
  IF 2 * p < Len(h) /\ ~Less(h[2 * p], h[2 * p + 1]) THEN 2 * p + 1 ELSE 2 * p

\* _siftup: the item at p sinks to a leaf, whatever it is, and rises from there.
Sink[hp \in Places] ==
  LET h == hp[1]  p == hp[2]
  IN  IF 2 * p <= Len(h)
      THEN Sink[<<Exchange(h, p, SmallerChild(h, p)), SmallerChild(h, p)>>]
      ELSE Rise[hp]

Push(h, item) == Rise[<<Append(h, item), Len(h) + 1>>]

\* Mutant: the last item becomes the first and stays there.
PopUnsifted(h) ==
  IF Len(h) = 1 THEN <<>>
  ELSE [i \in 1 .. Len(h) - 1 |-> IF i = 1 THEN h[Len(h)] ELSE h[i]]

\* heappop, without the item it returns, h[1].
Pop(h) ==
  IF Len(h) = 1 THEN <<>>
  ELSE Sink[<<[i \in 1 .. Len(h) - 1 |-> IF i = 1 THEN h[Len(h)] ELSE h[i]], 1>>]

filled[n \in 0 .. Len(Schedule)] ==
  IF n = 0 THEN <<>> ELSE Push(filled[n - 1], Schedule[n])

\* The queue when run_sim begins.
StartupQueue == filled[Len(Schedule)]
=============================================================================
