----------------------------- MODULE SocatPairs -----------------------------
(***************************************************************************)
(* tools/setup-socat.py: a socat process for each port, whose two PTYs     *)
(* have symbolic links, <port>-emu and <port>-user; the wait for the       *)
(* links, the supervision of the processes, and the clean-up.              *)
(*                                                                         *)
(* socat is external: it makes its links in its own time, may die at any   *)
(* moment, removes its links when it ends, unless it was killed, and may   *)
(* take its time about SIGTERM.                                            *)
(***************************************************************************)
EXTENDS Integers, Sequences

CONSTANTS PORTS,       \* args.ports
          MaxInterrupts \* bound: how often the user presses Ctrl-C

Port == {PORTS[i] : i \in DOMAIN PORTS}

ASSUME PortsAssumption ==
  /\ PORTS \in Seq({"console", "aux", "debug"}) /\ PORTS # <<>>
  /\ \A i, j \in DOMAIN PORTS : PORTS[i] = PORTS[j] => i = j
ASSUME InterruptsAssumption == MaxInterrupts \in Nat

VARIABLES spc,        \* where main is
          index,      \* the port it is starting, or the process it is waiting for
          processes, paths, \* the ports whose process, and whose links, it has noted
          late,       \* wait_for_paths: the deadline has passed
          signal,     \* Ctrl-C was pressed; Python has not raised it yet
          interrupts, \* Ctrl-Cs left
          socat,      \* the process of each port
          link,       \* what is in the directory under each of a port's two names
          cut         \* history: a Ctrl-C came between starting a process and noting
                      \* its links, or during the clean-up

script == <<spc, index, processes, paths, late, cut>>
user   == <<signal, interrupts>>
svars  == <<script, user, socat, link>>

Ends == {"emu", "user"}
Alive == {"running", "asked", "killed"}

\* The links an earlier run left may point to a terminal that has since become
\* somebody else's: such a link can seem to be there.
SocatInit ==
  /\ spc = "unlink" /\ index = 1
  /\ processes = {} /\ paths = {}
  /\ late = FALSE /\ signal = FALSE /\ interrupts = MaxInterrupts
  /\ socat = [p \in Port |-> "none"]
  /\ \E left \in {"absent", "old"} : link = [p \in Port |-> [emu |-> left, user |-> left]]
  /\ cut = FALSE

Exists(p, e) == link[p][e] \in {"made", "old", "file"}
Goto(at) == spc' = at /\ UNCHANGED <<late, cut>>

\* Out of wait_for_paths, whose deadline is gone with it.
Leave(at) == spc' = at /\ late' = FALSE /\ UNCHANGED cut

-----------------------------------------------------------------------------
(***************************************************************************)
(* The launch.                                                             *)
(***************************************************************************)
\* Mutant: the links of an earlier run are left in place.
UnlinkNothing == spc = "unlink" /\ Goto("popen") /\ UNCHANGED <<index, processes, paths, user, socat, link>>

\* start_pair: remove_stale_path, twice.
Unlink ==
  /\ spc = "unlink"
  /\ link' = [link EXCEPT ![PORTS[index]] = [emu |-> "absent", user |-> "absent"]]
  /\ Goto("popen")
  /\ UNCHANGED <<index, processes, paths, user, socat>>

\* Popen: a process, or an exception if there is no socat.
Popen ==
  /\ spc = "popen"
  /\ \/ socat' = [socat EXCEPT ![PORTS[index]] = "running"] /\ Goto("append")
     \/ UNCHANGED socat /\ Goto("terminate")
  /\ UNCHANGED <<index, processes, paths, user, link>>

\* Mutant: the process is not noted.
AppendNothing ==
  /\ spc = "append"
  /\ Goto("extend")
  /\ UNCHANGED <<index, processes, paths, user, socat, link>>

AppendProcess ==
  /\ spc = "append"
  /\ processes' = processes \cup {PORTS[index]}
  /\ Goto("extend")
  /\ UNCHANGED <<index, paths, user, socat, link>>

ExtendPaths ==
  /\ spc = "extend"
  /\ paths' = paths \cup {PORTS[index]}
  /\ IF index = Len(PORTS) THEN Goto("poll") /\ UNCHANGED index
                           ELSE Goto("unlink") /\ index' = index + 1
  /\ UNCHANGED <<processes, user, socat, link>>

-----------------------------------------------------------------------------
(***************************************************************************)
(* wait_for_paths, and the loop that supervises.                           *)
(***************************************************************************)
SomeExited == \E p \in processes : socat[p] = "dead"

\* Mutant: no deadline.
PollForEver ==
  /\ spc = "poll"
  /\ IF SomeExited THEN Leave("terminate") ELSE Goto("exists")
  /\ UNCHANGED <<index, processes, paths, user, socat, link>>

Poll ==
  /\ spc = "poll"
  /\ IF late \/ SomeExited THEN Leave("terminate") ELSE Goto("exists")
  /\ UNCHANGED <<index, processes, paths, user, socat, link>>

\* Mutant: one port's links are enough.
CheckPathsSome ==
  /\ spc = "exists"
  /\ IF \E p \in paths : \A e \in Ends : Exists(p, e)
     THEN Leave("supervise") ELSE Goto("poll")
  /\ UNCHANGED <<index, processes, paths, user, socat, link>>

CheckPaths ==
  /\ spc = "exists"
  /\ IF \A p \in paths, e \in Ends : Exists(p, e)
     THEN Leave("supervise") ELSE Goto("poll")
  /\ UNCHANGED <<index, processes, paths, user, socat, link>>

\* Mutant: only the first process is looked at.
SuperviseFirst ==
  /\ spc = "supervise" /\ socat[PORTS[1]] = "dead"
  /\ Goto("terminate")
  /\ UNCHANGED <<index, processes, paths, user, socat, link>>

Supervise ==
  /\ spc = "supervise" /\ SomeExited
  /\ Goto("terminate")
  /\ UNCHANGED <<index, processes, paths, user, socat, link>>

-----------------------------------------------------------------------------
(***************************************************************************)
(* The finally clause.                                                     *)
(***************************************************************************)
Terminate ==
  /\ spc = "terminate"
  /\ socat' = [p \in Port |-> IF p \in processes /\ socat[p] = "running" THEN "asked" ELSE socat[p]]
  /\ index' = 1
  /\ Goto("reap")
  /\ UNCHANGED <<processes, paths, user, link>>

Waiting == spc = "reap" /\ index \in DOMAIN PORTS /\ PORTS[index] \in processes

\* Mutant: a process that takes its time is left alone.
WaitLeaves ==
  /\ Waiting
  /\ index' = index + 1
  /\ UNCHANGED <<spc, late, cut, processes, paths, user, socat, link>>

\* process.wait(): the process has ended.
Wait ==
  /\ Waiting /\ socat[PORTS[index]] = "dead"
  /\ index' = index + 1
  /\ UNCHANGED <<spc, late, cut, processes, paths, user, socat, link>>

\* TimeoutExpired after two seconds.
Kill ==
  /\ Waiting /\ socat[PORTS[index]] = "asked"
  /\ socat' = [socat EXCEPT ![PORTS[index]] = "killed"]
  /\ UNCHANGED <<script, user, link>>

\* Mutant: the links go before the processes that make them.
RemovePathsEarly ==
  /\ spc = "reap"
  /\ link' = [p \in Port |-> IF p \in paths THEN [emu |-> "absent", user |-> "absent"] ELSE link[p]]
  /\ Goto("done")
  /\ UNCHANGED <<index, processes, paths, user, socat>>

RemovePaths ==
  /\ spc = "reap" /\ ~Waiting
  /\ link' = [p \in Port |-> IF p \in paths THEN [emu |-> "absent", user |-> "absent"] ELSE link[p]]
  /\ Goto("done")
  /\ UNCHANGED <<index, processes, paths, user, socat>>

CleaningUp == spc \in {"terminate", "reap"}

\* KeyboardInterrupt: into the finally clause, or out of it.
Interrupt ==
  /\ signal /\ spc # "done"
  /\ signal' = FALSE
  /\ spc' = IF CleaningUp THEN "done" ELSE "terminate"
  /\ cut' = (cut \/ CleaningUp \/ spc \in {"append", "extend"})
  /\ late' = FALSE
  /\ UNCHANGED <<index, processes, paths, interrupts, socat, link>>

Script ==
  \/ Unlink \/ Popen \/ AppendProcess \/ ExtendPaths
  \/ Poll \/ CheckPaths \/ Supervise
  \/ Terminate \/ Wait \/ Kill \/ RemovePaths

-----------------------------------------------------------------------------
(***************************************************************************)
(* socat, time and the user.                                               *)
(***************************************************************************)
\* socat opens its first address, then its second.
MakesLink(p) ==
  /\ socat[p] \in {"running", "asked"}
  /\ LET e == IF link[p].emu = "made" THEN "user" ELSE "emu"
     IN  link[p][e] # "made" /\ link' = [link EXCEPT ![p][e] = "made"]
  /\ UNCHANGED <<script, user, socat>>

\* What becomes of the links of a process that was killed: they stay, and dangle.
Left(p, gone) == [e \in Ends |-> IF link[p][e] # "made" THEN link[p][e] ELSE gone]

Exits(p) ==
  /\ socat[p] \in Alive
  /\ socat' = [socat EXCEPT ![p] = "dead"]
  /\ link' = [link EXCEPT ![p] = Left(p, IF socat[p] = "killed" THEN "dangling" ELSE "absent")]
  /\ UNCHANGED <<script, user>>

Deadline ==
  /\ spc \in {"poll", "exists"} /\ ~late
  /\ late' = TRUE
  /\ UNCHANGED <<spc, index, processes, paths, cut, user, socat, link>>

CtrlC ==
  /\ interrupts > 0 /\ ~signal /\ spc # "done"
  /\ signal' = TRUE /\ interrupts' = interrupts - 1
  /\ UNCHANGED <<script, socat, link>>

Surroundings == (\E p \in Port : MakesLink(p) \/ Exits(p)) \/ Deadline \/ CtrlC

SocatNext == Script \/ Interrupt \/ Surroundings

\* The script runs, its deadline passes, and SIGKILL ends a process.
SocatFairness ==
  /\ WF_svars(Script) /\ WF_svars(Interrupt) /\ WF_svars(Deadline)
  /\ \A p \in Port : WF_svars(socat[p] = "killed" /\ Exits(p))

-----------------------------------------------------------------------------
(***************************************************************************)
(* Properties.                                                             *)
(***************************************************************************)
SocatTypeOK ==
  /\ spc \in {"unlink", "popen", "append", "extend", "poll", "exists", "supervise", "terminate", "reap", "done"}
  /\ index \in 1 .. Len(PORTS) + 1
  /\ paths \subseteq processes /\ processes \subseteq Port
  /\ {late, signal, cut} \subseteq BOOLEAN /\ interrupts \in 0 .. MaxInterrupts
  /\ socat \in [Port -> Alive \cup {"none", "dead"}]
  /\ link \in [Port -> [Ends -> {"absent", "old", "made", "dangling", "file"}]]

\* However the script ends, by Ctrl-C, a process that died, a late one or none at
\* all, it leaves no process and none of its links behind, unless a Ctrl-C cut off
\* the few statements of the launch, or the clean-up, that cannot do without.
NothingLeft ==
  spc = "done" /\ ~cut =>
    \A p \in Port : socat[p] \in {"none", "dead"}
                    /\ \A e \in Ends : link[p][e] \notin {"made", "dangling"}

\* The script ends, or it is supervising processes all of which run, with their PTYs
\* announced and no Ctrl-C unheard: it does not wait for ever for a socat that is
\* late, and does not stay when one has gone.
Settles ==
  <>[](spc = "done" \/ (spc = "supervise" /\ ~signal /\ ~SomeExited))
=============================================================================
