-------------------------- MODULE PtySession_proofs --------------------------
(***************************************************************************)
(* Proofs about PtySession: however many ports the script starts, and      *)
(* whatever socat, the user and an emulator on the links do meanwhile, a   *)
(* script that ends has left no process and no link behind, and while its  *)
(* pairs stand an emulator gets the terminals that it names.               *)
(***************************************************************************)
EXTENDS PtySession, TLAPS

-----------------------------------------------------------------------------
(***************************************************************************)
(* The inductive invariant.                                                *)
(***************************************************************************)
\* The processes are noted in the order of the ports, up to the one in hand.
OrderInv ==
  /\ \A i, j \in DOMAIN PORTS : i <= j /\ PORTS[j] \in processes => PORTS[i] \in processes
  /\ spc \in {"unlink", "popen", "append", "extend"} => index \in DOMAIN PORTS
  /\ spc \in {"unlink", "popen", "append"} =>
       \A i \in DOMAIN PORTS : PORTS[i] \in processes => i < index
  /\ spc \in {"unlink", "popen", "append", "extend"} =>
       \A i \in DOMAIN PORTS : i < index => PORTS[i] \in processes
  /\ spc = "extend" =>
       \A i \in DOMAIN PORTS : PORTS[i] \in processes <=> i <= index

\* A process that was started has been noted, and its links with it, but for the
\* one in hand; without a process there are no links to remove.
NotedInv ==
  /\ ~cut => \A p \in Port :
       /\ socat[p] # "none" => p \in processes \/ (spc = "append" /\ p = PORTS[index])
       /\ p \in processes => p \in paths \/ (spc = "extend" /\ p = PORTS[index])
  /\ \A p \in Port : socat[p] = "none" => \A e \in Ends : link[p][e] \notin {"made", "dangling"}

\* The processes before the one that is being waited for have ended.
ReapInv ==
  spc = "reap" => \A i \in DOMAIN PORTS : i < index /\ PORTS[i] \in processes => socat[PORTS[i]] = "dead"

IInv == SocatTypeOK /\ OrderInv /\ NotedInv /\ ReapInv /\ NothingLeft

-----------------------------------------------------------------------------
LEMMA PortsAreFinite ==
  /\ Len(PORTS) \in Nat /\ Len(PORTS) >= 1 /\ DOMAIN PORTS = 1 .. Len(PORTS)
  /\ \A i \in DOMAIN PORTS : PORTS[i] \in Port
  /\ \A p \in Port : \E i \in DOMAIN PORTS : p = PORTS[i]
  /\ \A i, j \in DOMAIN PORTS : PORTS[i] = PORTS[j] => i = j
<1>1. /\ PORTS \in Seq({"console", "aux", "debug"}) /\ PORTS # <<>>
      /\ \A i, j \in DOMAIN PORTS : PORTS[i] = PORTS[j] => i = j
  BY PortsAssumption
<1>2. Len(PORTS) \in Nat /\ DOMAIN PORTS = 1 .. Len(PORTS) /\ Len(PORTS) # 0  BY <1>1
<1> QED BY <1>1, <1>2 DEF Port

LEMMA InitInv == Init => IInv
<1> SUFFICES ASSUME Init PROVE IInv
  OBVIOUS
<1> USE PortsAreFinite DEF Init, SocatInit
<1>1. PICK left \in {"absent", "old"} : link = [p \in Port |-> [emu |-> left, user |-> left]]
  OBVIOUS
<1>2. \A p \in Port : link[p] \in [Ends -> {"absent", "old"}]  BY <1>1 DEF Ends
<1>3. SocatTypeOK
  <2>1. link \in [Port -> [Ends -> {"absent", "old", "made", "dangling", "file"}]]
    <3>1. \A p \in Port : link[p] \in [Ends -> {"absent", "old", "made", "dangling", "file"}]
      BY <1>2
    <3>2. link = [p \in Port |-> link[p]]  BY <1>1
    <3> QED BY <3>1, <3>2
  <2>2. socat \in [Port -> Alive \cup {"none", "dead"}]  OBVIOUS
  <2>3. interrupts \in 0 .. MaxInterrupts  BY InterruptsAssumption
  <2>4. late \in BOOLEAN /\ signal \in BOOLEAN /\ cut \in BOOLEAN  OBVIOUS
  <2>5. {late, signal, cut} \subseteq BOOLEAN  BY ONLY <2>4
  <2>6. spc = "unlink" /\ index \in 1 .. Len(PORTS) + 1 /\ paths = {} /\ processes = {}  OBVIOUS
  <2> QED BY ONLY <2>1, <2>2, <2>3, <2>5, <2>6 DEF SocatTypeOK
<1>4. OrderInv  BY DEF OrderInv
<1>5. NotedInv  BY <1>2 DEF NotedInv
<1>6. ReapInv /\ NothingLeft  BY DEF ReapInv, NothingLeft
<1> QED BY <1>3, <1>4, <1>5, <1>6 DEF IInv

\* The launch.
LEMMA LaunchInv == IInv /\ (Unlink \/ Popen \/ AppendProcess \/ ExtendPaths) => IInv'
<1> SUFFICES ASSUME IInv, Unlink \/ Popen \/ AppendProcess \/ ExtendPaths PROVE IInv'
  OBVIOUS
<1> USE PortsAreFinite DEF Goto, user
<1>1. CASE Unlink
  <2>1. SocatTypeOK'
    <3>1. [emu |-> "absent", user |-> "absent"] \in [Ends -> {"absent"}]  BY DEF Ends
    <3>2. [emu |-> "absent", user |-> "absent"] \in [Ends -> {"absent", "old", "made", "dangling", "file"}]
      BY <3>1
    <3>3. link' \in [Port -> [Ends -> {"absent", "old", "made", "dangling", "file"}]]
      BY <1>1, <3>2 DEF IInv, SocatTypeOK, Unlink
    <3> QED BY <1>1, <3>3 DEF IInv, SocatTypeOK, Unlink
  <2>2. OrderInv'  BY <1>1 DEF IInv, OrderInv, Unlink
  <2>3. NotedInv'  BY <1>1 DEF IInv, SocatTypeOK, OrderInv, NotedInv, Unlink, Ends
  <2>4. ReapInv' /\ NothingLeft'  BY <1>1 DEF ReapInv, NothingLeft, Unlink
  <2> QED BY <2>1, <2>2, <2>3, <2>4 DEF IInv
<1>2. CASE Popen
  <2>1. SocatTypeOK'  BY <1>2 DEF IInv, SocatTypeOK, Popen, Alive
  <2>2. OrderInv'  BY <1>2 DEF IInv, OrderInv, Popen
  <2>3. NotedInv'  BY <1>2 DEF IInv, SocatTypeOK, OrderInv, NotedInv, Popen
  <2>4. ReapInv' /\ NothingLeft'  BY <1>2 DEF ReapInv, NothingLeft, Popen
  <2> QED BY <2>1, <2>2, <2>3, <2>4 DEF IInv
<1>3. CASE AppendProcess
  <2>1. SocatTypeOK'  BY <1>3 DEF IInv, SocatTypeOK, OrderInv, AppendProcess
  <2>2. OrderInv'  BY <1>3 DEF IInv, SocatTypeOK, OrderInv, AppendProcess
  <2>3. NotedInv'  BY <1>3 DEF IInv, NotedInv, AppendProcess
  <2>4. ReapInv' /\ NothingLeft'  BY <1>3 DEF ReapInv, NothingLeft, AppendProcess
  <2> QED BY <2>1, <2>2, <2>3, <2>4 DEF IInv
<1>4. CASE ExtendPaths
  <2>0. /\ index \in DOMAIN PORTS /\ PORTS[index] \in processes
        /\ \A i \in DOMAIN PORTS : PORTS[i] \in processes <=> i <= index
        /\ \A i, j \in DOMAIN PORTS : i <= j /\ PORTS[j] \in processes => PORTS[i] \in processes
        /\ paths' = paths \cup {PORTS[index]}
        /\ UNCHANGED <<processes, signal, interrupts, socat, link, late, cut>>
    <3>1. index \in DOMAIN PORTS  BY <1>4 DEF IInv, OrderInv, ExtendPaths
    <3> QED BY <1>4, <3>1 DEF IInv, OrderInv, ExtendPaths
  <2>1. ASSUME index = Len(PORTS) PROVE SocatTypeOK' /\ OrderInv'
    <3>1. spc' = "poll" /\ index' = index  BY <1>4, <2>1 DEF ExtendPaths
    <3>2. SocatTypeOK'  BY <2>0, <3>1 DEF IInv, SocatTypeOK
    <3>3. OrderInv'  BY <2>0, <3>1 DEF OrderInv
    <3> QED BY <3>2, <3>3
  <2>2. ASSUME index # Len(PORTS) PROVE SocatTypeOK' /\ OrderInv'
    <3>1. spc' = "unlink" /\ index' = index + 1  BY <1>4, <2>2 DEF ExtendPaths
    <3>2. index + 1 \in DOMAIN PORTS  BY <2>0, <2>2
    <3>3. SocatTypeOK'  BY <2>0, <3>1, <3>2 DEF IInv, SocatTypeOK
    <3>4. OrderInv'
      <4>1. \A i \in DOMAIN PORTS : (PORTS[i] \in processes => i < index + 1) /\ (i < index + 1 => PORTS[i] \in processes)
        BY <2>0
      <4> QED BY <2>0, <3>1, <3>2, <4>1 DEF OrderInv
    <3> QED BY <3>3, <3>4
  <2>3. NotedInv'  BY <1>4 DEF IInv, NotedInv, ExtendPaths
  <2>4. ReapInv' /\ NothingLeft'  BY <1>4 DEF ReapInv, NothingLeft, ExtendPaths
  <2> QED BY <2>1, <2>2, <2>3, <2>4 DEF IInv
<1> QED BY <1>1, <1>2, <1>3, <1>4

\* wait_for_paths and the supervision: processes and links are left alone.
LEMMA WatchInv == IInv /\ (Poll \/ CheckPaths \/ Supervise \/ Deadline \/ CtrlC) => IInv'
<1> SUFFICES ASSUME IInv, Poll \/ CheckPaths \/ Supervise \/ Deadline \/ CtrlC PROVE IInv'
  OBVIOUS
<1>1. /\ UNCHANGED <<index, processes, paths, socat, link, cut>>
      /\ \/ spc' = spc /\ spc # "done"
         \/ /\ spc \in {"poll", "exists", "supervise"}
            /\ spc' \in {"poll", "exists", "supervise", "terminate"}
      /\ late' = late \/ late' \in BOOLEAN
      /\ signal' = signal \/ signal' \in BOOLEAN
      /\ interrupts' = interrupts \/ (interrupts > 0 /\ interrupts' = interrupts - 1)
  BY DEF Poll, CheckPaths, Supervise, Deadline, CtrlC, Goto, Leave, user, script
<1>2. SocatTypeOK'  BY <1>1, InterruptsAssumption DEF IInv, SocatTypeOK
<1>3. OrderInv' /\ NotedInv'  BY <1>1 DEF IInv, OrderInv, NotedInv
<1>4. ReapInv' /\ NothingLeft'  BY <1>1 DEF IInv, ReapInv, NothingLeft
<1> QED BY <1>2, <1>3, <1>4 DEF IInv

\* The clean-up.
LEMMA CleanUpInv == IInv /\ (Terminate \/ Wait \/ Kill \/ RemovePaths) => IInv'
<1> SUFFICES ASSUME IInv, Terminate \/ Wait \/ Kill \/ RemovePaths PROVE IInv'
  OBVIOUS
<1> USE PortsAreFinite DEF Goto, user, script
<1>1. CASE Terminate
  <2>1. SocatTypeOK'  BY <1>1 DEF IInv, SocatTypeOK, Terminate, Alive
  <2>2. OrderInv'  BY <1>1 DEF IInv, OrderInv, Terminate
  <2>3. NotedInv'  BY <1>1 DEF IInv, SocatTypeOK, NotedInv, Terminate
  <2>4. ReapInv' /\ NothingLeft'  BY <1>1 DEF ReapInv, NothingLeft, Terminate
  <2> QED BY <2>1, <2>2, <2>3, <2>4 DEF IInv
<1>2. CASE Wait
  <2>1. SocatTypeOK'  BY <1>2 DEF IInv, SocatTypeOK, Wait, Waiting
  <2>2. OrderInv'  BY <1>2 DEF IInv, OrderInv, Wait, Waiting
  <2>3. NotedInv'  BY <1>2 DEF IInv, NotedInv, Wait, Waiting
  <2>4. ReapInv'  BY <1>2 DEF IInv, ReapInv, Wait, Waiting
  <2>5. NothingLeft'  BY <1>2 DEF NothingLeft, Wait, Waiting
  <2> QED BY <2>1, <2>2, <2>3, <2>4, <2>5 DEF IInv
<1>3. CASE Kill
  <2>0. PORTS[index] \in Port  BY <1>3 DEF Kill, Waiting
  <2>1. SocatTypeOK'  BY <1>3, <2>0 DEF IInv, SocatTypeOK, Kill, Waiting, Alive
  <2>2. OrderInv'  BY <1>3 DEF IInv, OrderInv, Kill
  <2>3. NotedInv'  BY <1>3, <2>0 DEF IInv, SocatTypeOK, NotedInv, Kill, Waiting
  <2>4. ReapInv'  BY <1>3, <2>0 DEF IInv, SocatTypeOK, ReapInv, Kill, Waiting
  <2>5. NothingLeft'  BY <1>3 DEF NothingLeft, Kill, Waiting
  <2> QED BY <2>1, <2>2, <2>3, <2>4, <2>5 DEF IInv
<1>4. CASE RemovePaths
  <2>0. /\ spc = "reap" /\ spc' = "done"
        /\ link' = [p \in Port |-> IF p \in paths THEN [emu |-> "absent", user |-> "absent"] ELSE link[p]]
        /\ UNCHANGED <<index, processes, paths, late, signal, cut, interrupts, socat>>
        /\ ~Waiting
    BY <1>4 DEF RemovePaths
  <2>1. [emu |-> "absent", user |-> "absent"] \in [Ends -> {"absent"}]  BY DEF Ends
  <2>2. SocatTypeOK'
    <3>1. [emu |-> "absent", user |-> "absent"] \in [Ends -> {"absent", "old", "made", "dangling", "file"}]
      BY <2>1
    <3>2. link' \in [Port -> [Ends -> {"absent", "old", "made", "dangling", "file"}]]
      BY <2>0, <3>1 DEF IInv, SocatTypeOK
    <3> QED BY <2>0, <3>2 DEF IInv, SocatTypeOK
  <2>3. OrderInv' /\ ReapInv'  BY <2>0 DEF IInv, OrderInv, ReapInv
  <2>4. \A p \in Port : \A e \in Ends : link'[p][e] = "absent" \/ (p \notin paths /\ link'[p][e] = link[p][e])
    BY <2>0, <2>1
  <2>5. NotedInv'  BY <2>0, <2>4 DEF IInv, NotedInv
  <2>6. ASSUME ~cut, NEW p \in Port PROVE socat[p] \in {"none", "dead"}
    <3>1. CASE socat[p] # "none"
      <4>1. p \in processes  BY <2>0, <2>6, <3>1 DEF IInv, NotedInv
      <4>2. PICK i \in DOMAIN PORTS : p = PORTS[i]  OBVIOUS
      <4>3. index \in 1 .. Len(PORTS) + 1  BY DEF IInv, SocatTypeOK
      <4>4. index \in DOMAIN PORTS => PORTS[index] \notin processes  BY <2>0 DEF Waiting
      <4>5. i < index
        <5>1. ~(index <= i)  BY <4>1, <4>2, <4>3, <4>4 DEF IInv, OrderInv
        <5> QED BY <4>2, <4>3, <5>1
      <4> QED BY <2>0, <4>1, <4>2, <4>5 DEF IInv, ReapInv
    <3> QED BY <3>1
  <2>7. ASSUME ~cut, NEW p \in Port, NEW e \in Ends PROVE link'[p][e] \notin {"made", "dangling"}
    <3>1. CASE p \in paths  BY <2>4, <3>1
    <3>2. CASE p \notin paths
      <4>1. socat[p] = "none"  BY <2>0, <2>7, <3>2 DEF IInv, NotedInv
      <4> QED BY <2>4, <4>1 DEF IInv, NotedInv
    <3> QED BY <3>1, <3>2
  <2>8. NothingLeft'  BY <2>0, <2>6, <2>7 DEF NothingLeft
  <2> QED BY <2>2, <2>3, <2>5, <2>8 DEF IInv
<1> QED BY <1>1, <1>2, <1>3, <1>4

\* Ctrl-C: into the clean-up, or out of it, and then it is marked.
LEMMA InterruptInv == IInv /\ Interrupt => IInv'
<1> SUFFICES ASSUME IInv, Interrupt PROVE IInv'
  OBVIOUS
<1>1. /\ UNCHANGED <<index, processes, paths, interrupts, socat, link>>
      /\ spc # "done" /\ spc' \in {"done", "terminate"} /\ late' = FALSE /\ signal' = FALSE
      /\ cut \in BOOLEAN => cut' \in BOOLEAN
      /\ ~cut' => ~cut /\ spc \notin {"append", "extend"} /\ spc' = "terminate"
  BY DEF Interrupt, CleaningUp
<1>2. SocatTypeOK'  BY <1>1 DEF IInv, SocatTypeOK
<1>3. OrderInv' /\ NotedInv'  BY <1>1 DEF IInv, OrderInv, NotedInv
<1>4. ReapInv' /\ NothingLeft'  BY <1>1 DEF ReapInv, NothingLeft
<1> QED BY <1>2, <1>3, <1>4 DEF IInv

\* socat makes its links only while it runs, and there is nothing to mend once the
\* script has ended.
LEMMA SocatInv == IInv /\ (\E p \in Port : MakesLink(p) \/ Exits(p)) => IInv'
<1> SUFFICES ASSUME IInv, NEW p \in Port, MakesLink(p) \/ Exits(p) PROVE IInv'
  OBVIOUS
<1> USE PortsAreFinite DEF user, script
<1>1. CASE MakesLink(p)
  <2>1. PICK e \in Ends : link' = [link EXCEPT ![p][e] = "made"]
    BY <1>1 DEF MakesLink, Ends
  <2>2. /\ UNCHANGED <<spc, index, processes, paths, late, cut, signal, interrupts, socat>>
        /\ socat[p] \in {"running", "asked"}
    BY <1>1 DEF MakesLink
  <2>3. /\ link' \in [Port -> [Ends -> {"absent", "old", "made", "dangling", "file"}]]
        /\ \A q \in Port : q # p => link'[q] = link[q]
    BY <2>1 DEF IInv, SocatTypeOK
  <2>4. SocatTypeOK'  BY <2>2, <2>3 DEF IInv, SocatTypeOK
  <2>5. OrderInv' /\ ReapInv'  BY <2>2 DEF IInv, OrderInv, ReapInv
  <2>6. NotedInv' /\ NothingLeft'  BY <2>2, <2>3 DEF IInv, NotedInv, NothingLeft
  <2> QED BY <2>4, <2>5, <2>6 DEF IInv
<1>2. CASE Exits(p)
  <2>1. /\ UNCHANGED <<spc, index, processes, paths, late, cut, signal, interrupts>>
        /\ socat[p] \in Alive
        /\ socat' \in [Port -> Alive \cup {"none", "dead"}]
        /\ socat'[p] = "dead" /\ \A q \in Port : q # p => socat'[q] = socat[q]
    BY <1>2 DEF Exits, IInv, SocatTypeOK
  <2>2. PICK gone \in {"dangling", "absent"} : link' = [link EXCEPT ![p] = Left(p, gone)]
    BY <1>2 DEF Exits
  <2>3. Left(p, gone) \in [Ends -> {"absent", "old", "made", "dangling", "file"}]
    BY DEF Left, IInv, SocatTypeOK
  <2>4. /\ link' \in [Port -> [Ends -> {"absent", "old", "made", "dangling", "file"}]]
        /\ \A q \in Port : q # p => link'[q] = link[q]
    BY <2>2, <2>3 DEF IInv, SocatTypeOK
  <2>5. SocatTypeOK'  BY <2>1, <2>4 DEF IInv, SocatTypeOK
  <2>6. OrderInv' /\ ReapInv'  BY <2>1 DEF IInv, OrderInv, ReapInv
  <2>7. NotedInv'  BY <2>1, <2>4 DEF IInv, NotedInv, Alive
  <2>8. NothingLeft'  BY <2>1 DEF IInv, NothingLeft, Alive
  <2> QED BY <2>5, <2>6, <2>7, <2>8 DEF IInv
<1> QED BY <1>1, <1>2

\* An emulator changes nothing but an absent link, into a file.
LEMMA EmulatorInv == IInv /\ (Emulator \/ DebugThread) => IInv'
<1> SUFFICES ASSUME IInv, Emulator \/ DebugThread PROVE IInv'
  OBVIOUS
<1>1. CASE OpenCreates
  <2>1. /\ UNCHANGED <<spc, index, processes, paths, late, cut, signal, interrupts, socat>>
        /\ link' = [p \in Port |-> IF PathOf[p] = NextPath THEN [link[p] EXCEPT !.emu = "file"] ELSE link[p]]
    BY <1>1 DEF OpenCreates, script, user
  <2>2. ASSUME NEW p \in Port
        PROVE  /\ link'[p] \in [Ends -> {"absent", "old", "made", "dangling", "file"}]
               /\ \A e \in Ends : link'[p][e] = link[p][e] \/ link'[p][e] = "file"
    BY <2>1 DEF IInv, SocatTypeOK, Ends
  <2>3. link' \in [Port -> [Ends -> {"absent", "old", "made", "dangling", "file"}]]
    BY <2>1, <2>2
  <2>4. SocatTypeOK'  BY <2>1, <2>3 DEF IInv, SocatTypeOK
  <2>5. OrderInv' /\ ReapInv'  BY <2>1 DEF IInv, OrderInv, ReapInv
  <2>6. NotedInv' /\ NothingLeft'  BY <2>1, <2>2 DEF IInv, NotedInv, NothingLeft
  <2> QED BY <2>4, <2>5, <2>6 DEF IInv
<1>2. CASE ~OpenCreates
  <2>1. UNCHANGED svars
    BY <1>2 DEF Emulator, Start, LoadDiskImages, OpenStream, OpenFails, EnterRunLoop, Dies,
                DebugThread, LinkExists, OpenLink, Debug
  <2> QED BY <2>1 DEF svars, script, user, IInv, SocatTypeOK, OrderInv, NotedInv, ReapInv, NothingLeft
<1> QED BY <1>1, <1>2

-----------------------------------------------------------------------------
LEMMA NextInv == IInv /\ [Next]_vars => IInv'
<1> SUFFICES ASSUME IInv, [Next]_vars PROVE IInv'
  OBVIOUS
<1>1. CASE UNCHANGED vars
  BY <1>1 DEF vars, svars, script, user, IInv, SocatTypeOK, OrderInv, NotedInv, ReapInv, NothingLeft
<1> QED BY <1>1, LaunchInv, WatchInv, CleanUpInv, InterruptInv, SocatInv, EmulatorInv
        DEF Next, SocatNext, Script, Surroundings

\* What the emulator has to open is two streams or four.
LEMMA StreamsLength == ASSUME NEW c PROVE Len(Streams(c)) \in {2, 4}
<1> DEFINE console == <<c.console_in, c.console_out>>
           aux == <<c.aux, c.aux>>
<1>1. Streams(c) = console \o <<>> \/ Streams(c) = console \o aux  BY DEF Streams
<1>2. Len(console \o <<>>) = 2 /\ Len(console \o aux) = 4  OBVIOUS
<1> QED BY <1>1, <1>2

EmulatorType ==
  /\ epc \in {"off", "images", "open", "run", "gone", "unopened"}
  /\ epc \in {"off", "gone", "unopened"} => command = NoCommand /\ opened = 0 /\ dpc = "off"
  /\ epc \in {"images", "open", "run"} => command \in Commands
  /\ opened \in Nat /\ (epc \in {"images", "open", "run"} => opened <= Len(Streams(conf)))
  /\ dpc \in {"off", "waiting", "open", "prompt", "elsewhere", "dead"}

LEMMA EmulatorTypeInv == EmulatorType /\ [Next]_vars => EmulatorType'
<1> SUFFICES ASSUME EmulatorType, [Next]_vars PROVE EmulatorType'
  OBVIOUS
<1>1. CASE UNCHANGED emulator
  BY <1>1 DEF emulator, EmulatorType, conf
<1>2. CASE Start
  <2>1. \/ Gone("gone")
        \/ epc' = "images" /\ command' \in Commands /\ opened' = 0 /\ dpc' = "off"
    BY <1>2 DEF Start, EmulatorType
  <2>2. Len(Streams(conf')) \in {2, 4}  BY StreamsLength
  <2> QED BY <2>1, <2>2 DEF EmulatorType, Gone
<1>3. CASE OpenStream \/ OpenCreates
  <2>1. /\ epc' = epc /\ command' = command /\ dpc' = dpc /\ conf' = conf
        /\ epc = "open" /\ opened < Len(Streams(conf)) /\ opened' = opened + 1
    BY <1>3 DEF OpenStream, OpenCreates, Opening, Opened, conf
  <2>2. Len(Streams(conf)) \in Nat  BY StreamsLength
  <2> QED BY <2>1, <2>2 DEF EmulatorType
<1>4. CASE LoadDiskImages \/ EnterRunLoop
  <2>1. /\ command' = command /\ opened' = opened /\ conf' = conf
        /\ epc \in {"images", "open"} /\ epc' \in {"open", "run"}
        /\ dpc' = dpc \/ dpc' \in {"off", "waiting"}
    BY <1>4 DEF LoadDiskImages, EnterRunLoop, conf
  <2> QED BY <2>1 DEF EmulatorType
<1>5. CASE OpenFails \/ Dies
  BY <1>5 DEF OpenFails, Dies, Gone, EmulatorType
<1>6. CASE DebugThread
  <2>1. /\ command' = command /\ opened' = opened /\ epc' = epc /\ conf' = conf
        /\ dpc \in {"waiting", "open"} /\ dpc' \in {"open", "prompt", "elsewhere", "dead"}
    BY <1>6 DEF DebugThread, LinkExists, OpenLink, Debug, conf
  <2> QED BY <2>1 DEF EmulatorType
<1> QED BY <1>1, <1>2, <1>3, <1>4, <1>5, <1>6 DEF Next, Emulator, vars

\* The inductive invariant holds of every state of the script.
THEOREM Invariance == Spec => []IInv
<1> QED BY InitInv, NextInv, PTL DEF Spec

\* The type invariant, for any ports and any command lines and configuration files.
THEOREM TypeCorrect == Spec => []TypeOK
<1>1. Init => EmulatorType  BY DEF Init, EmulatorType
<1>2. IInv /\ EmulatorType => TypeOK  BY DEF IInv, EmulatorType, TypeOK
<1> QED BY Invariance, <1>1, EmulatorTypeInv, <1>2, PTL DEF Spec

\* For any list of ports and any number of Ctrl-Cs, setup-socat.py ends with no socat
\* process and no link of its own left, unless one of them fell into the statements
\* that cannot do without: Popen before its append, or the finally clause.
THEOREM CleanEnd == Spec => []NothingLeft
<1>1. IInv => NothingLeft  BY DEF IInv
<1> QED BY Invariance, <1>1, PTL

-----------------------------------------------------------------------------
(***************************************************************************)
(* What an emulator finds at the links: a second invariant, of the links   *)
(* from the moment the script has unlinked them, and of the emulator's     *)
(* configuration.                                                          *)
(***************************************************************************)
Launching == {"unlink", "popen", "append", "extend"}
Up == Launching \cup {"poll", "exists", "supervise"}

\* The script has come so far that it has unlinked, or that it has noted, its port i.
Cleared(i) == spc \in Up /\ (spc \in Launching => i < index \/ (i = index /\ spc # "unlink"))
Noted(i) == spc \in Up /\ (spc \in Launching => i < index)

\* Of the links that are cleared, socat makes the user's after the emulator's, so that
\* a user's link that is there tells that the emulator's is socat's, even where an
\* emulator has made a file meanwhile.
MadeInOrder ==
  \A i \in DOMAIN PORTS : Cleared(i) =>
    /\ link[PORTS[i]]["user"] \in {"absent", "made"}
    /\ link[PORTS[i]]["user"] = "made" => link[PORTS[i]]["emu"] = "made"

\* Nobody has asked a process to end; every port is noted before its links are waited
\* for; a pair that is supervised has its links or no process.
PairsInv ==
  /\ spc \in Up => \A p \in Port : socat[p] \in {"none", "running", "dead"}
  /\ \A i \in DOMAIN PORTS : Noted(i) => PORTS[i] \in paths
  /\ spc = "supervise" => \A p \in Port : socat[p] = "dead" \/ link[p]["emu"] = "made"

\* There is a console to open, and a thread only for a debug console that was asked for.
ConfInv ==
  /\ epc \in {"images", "open", "run"} => HasConsole(conf)
  /\ dpc # "off" => epc = "run" /\ Truthy(conf.embedded_console)

LinksInv == MadeInOrder /\ PairsInv

LEMMA InitLinks == Init => LinksInv /\ ConfInv
<1> SUFFICES ASSUME Init PROVE LinksInv /\ ConfInv
  OBVIOUS
<1>1. \A i \in DOMAIN PORTS : ~Cleared(i) /\ ~Noted(i)
  <2>1. spc = "unlink" /\ index = 1  BY DEF Init, SocatInit
  <2>2. \A i \in DOMAIN PORTS : ~(i < 1)
    <3>1. Len(PORTS) \in Nat /\ DOMAIN PORTS = 1 .. Len(PORTS)  BY PortsAreFinite
    <3> QED BY ONLY <3>1
  <2> QED BY ONLY <2>1, <2>2 DEF Cleared, Noted, Launching
<1>2. LinksInv  BY <1>1 DEF Init, SocatInit, LinksInv, MadeInOrder, PairsInv
<1> QED BY <1>2 DEF Init, ConfInv

\* A step of the script that leaves the processes, and all but one port's links, alone.
LEMMA LaunchLinks == IInv /\ LinksInv /\ (Unlink \/ Popen \/ AppendProcess \/ ExtendPaths) => LinksInv'
<1> SUFFICES ASSUME IInv, LinksInv, Unlink \/ Popen \/ AppendProcess \/ ExtendPaths PROVE LinksInv'
  OBVIOUS
<1> USE PortsAreFinite DEF Goto, user
<1>0. /\ index \in Nat
      /\ spc \in Launching => index \in DOMAIN PORTS
  BY DEF IInv, SocatTypeOK, OrderInv, Launching
<1>1. CASE Unlink
  <2>1. /\ spc = "unlink" /\ spc' = "popen"
        /\ UNCHANGED <<index, processes, paths, socat>>
        /\ link' = [link EXCEPT ![PORTS[index]] = [emu |-> "absent", user |-> "absent"]]
    BY <1>1 DEF Unlink
  <2>2. index \in DOMAIN PORTS /\ PORTS[index] \in Port  BY <1>0, <2>1 DEF Launching
  <2>3. \A i \in DOMAIN PORTS : /\ Cleared(i)' <=> Cleared(i) \/ i = index
                                /\ Noted(i)' <=> Noted(i)
    BY <2>1, <2>2 DEF Cleared, Noted, Launching, Up
  <2>4. /\ link'[PORTS[index]]["user"] = "absent"
        /\ \A i \in DOMAIN PORTS : i # index => link'[PORTS[i]] = link[PORTS[i]]
    BY <2>1, <2>2 DEF IInv, SocatTypeOK
  <2>5. MadeInOrder'  BY <2>3, <2>4 DEF LinksInv, MadeInOrder
  <2>6. PairsInv'  BY <2>1, <2>3 DEF LinksInv, PairsInv, Up, Launching
  <2> QED BY <2>5, <2>6 DEF LinksInv
<1>2. CASE Popen
  <2>1. /\ spc = "popen" /\ spc' \in {"append", "terminate"}
        /\ UNCHANGED <<index, processes, paths, link>>
        /\ socat' = [socat EXCEPT ![PORTS[index]] = "running"] \/ socat' = socat
    BY <1>2 DEF Popen
  <2>2. \A i \in DOMAIN PORTS : (Cleared(i)' => Cleared(i)) /\ (Noted(i)' => Noted(i))
    BY <2>1 DEF Cleared, Noted, Launching, Up
  <2>3. MadeInOrder'  BY <2>1, <2>2 DEF LinksInv, MadeInOrder
  <2>4. \A p \in Port : socat'[p] \in {"none", "running", "dead"}
    BY <2>1 DEF LinksInv, PairsInv, Up, Launching, IInv, SocatTypeOK
  <2>5. PairsInv'  BY <2>1, <2>2, <2>4 DEF LinksInv, PairsInv
  <2> QED BY <2>3, <2>5 DEF LinksInv
<1>3. CASE AppendProcess
  <2>1. /\ spc = "append" /\ spc' = "extend"
        /\ UNCHANGED <<index, paths, socat, link>>
    BY <1>3 DEF AppendProcess
  <2>2. \A i \in DOMAIN PORTS : (Cleared(i)' => Cleared(i)) /\ (Noted(i)' => Noted(i))
    BY <2>1 DEF Cleared, Noted, Launching, Up
  <2>3. MadeInOrder'  BY <2>1, <2>2 DEF LinksInv, MadeInOrder
  <2>4. PairsInv'  BY <2>1, <2>2 DEF LinksInv, PairsInv, Up, Launching
  <2> QED BY <2>3, <2>4 DEF LinksInv
<1>4. CASE ExtendPaths
  <2>1. /\ spc = "extend" /\ paths' = paths \cup {PORTS[index]}
        /\ UNCHANGED <<socat, link>>
        /\ \/ index = Len(PORTS) /\ spc' = "poll" /\ index' = index
           \/ spc' = "unlink" /\ index' = index + 1
    BY <1>4 DEF ExtendPaths
  <2>2. index \in DOMAIN PORTS  BY <1>0, <2>1 DEF Launching
  <2>3. \A i \in DOMAIN PORTS : /\ Cleared(i)' => Cleared(i)
                                /\ Noted(i)' => Noted(i) \/ i = index
    BY <2>1, <2>2 DEF Cleared, Noted, Launching, Up
  <2>4. MadeInOrder'  BY <2>1, <2>3 DEF LinksInv, MadeInOrder
  <2>5. PairsInv'  BY <2>1, <2>3 DEF LinksInv, PairsInv, Up, Launching
  <2> QED BY <2>4, <2>5 DEF LinksInv
<1> QED BY <1>1, <1>2, <1>3, <1>4

\* The script comes to supervise only from a look that found every link.
LEMMA WatchLinks == IInv /\ LinksInv /\ (Poll \/ CheckPaths \/ Supervise \/ Deadline \/ CtrlC) => LinksInv'
<1> SUFFICES ASSUME IInv, LinksInv, Poll \/ CheckPaths \/ Supervise \/ Deadline \/ CtrlC PROVE LinksInv'
  OBVIOUS
<1> USE PortsAreFinite
<1>1. /\ UNCHANGED <<index, processes, paths, socat, link>>
      /\ \/ spc' = spc
         \/ spc \in {"poll", "exists", "supervise"} /\ spc' \in {"poll", "exists", "terminate"}
         \/ spc = "exists" /\ spc' = "supervise" /\ \A p \in paths, e \in Ends : Exists(p, e)
  BY DEF Poll, CheckPaths, Supervise, Deadline, CtrlC, Goto, Leave, user, script
<1>2. \A i \in DOMAIN PORTS : (Cleared(i)' => Cleared(i)) /\ (Noted(i)' => Noted(i))
  BY <1>1 DEF Cleared, Noted, Launching, Up
<1>3. MadeInOrder'  BY <1>1, <1>2 DEF LinksInv, MadeInOrder
<1>4. ASSUME spc = "exists", \A p \in paths, e \in Ends : Exists(p, e), NEW p \in Port
      PROVE  link[p]["emu"] = "made"
  <2>1. PICK i \in DOMAIN PORTS : p = PORTS[i]  OBVIOUS
  <2>2. Cleared(i) /\ Noted(i)  BY <1>4 DEF Cleared, Noted, Launching, Up
  <2>3. p \in paths  BY <2>1, <2>2 DEF LinksInv, PairsInv
  <2>4. link[p]["user"] \in {"made", "old", "file"}  BY <1>4, <2>3 DEF Exists, Ends
  <2> QED BY <2>1, <2>2, <2>4 DEF LinksInv, MadeInOrder
<1>5. spc' = "supervise" => \A p \in Port : socat'[p] = "dead" \/ link'[p]["emu"] = "made"
  BY <1>1, <1>4 DEF LinksInv, PairsInv
<1>6. PairsInv'  BY <1>1, <1>2, <1>5 DEF LinksInv, PairsInv, Up, Launching
<1> QED BY <1>3, <1>6 DEF LinksInv

\* Once in the clean-up, the script announces nothing.
LEMMA CleanUpLinks == LinksInv /\ (Terminate \/ Wait \/ Kill \/ RemovePaths \/ Interrupt) => LinksInv'
<1> SUFFICES ASSUME Terminate \/ Wait \/ Kill \/ RemovePaths \/ Interrupt PROVE LinksInv'
  OBVIOUS
<1>1. spc' \in {"terminate", "reap", "done"}
  BY DEF Terminate, Wait, Kill, RemovePaths, Interrupt, Waiting, Goto, CleaningUp, script
<1> QED BY <1>1 DEF LinksInv, MadeInOrder, PairsInv, Cleared, Noted, Up, Launching

LEMMA SocatLinks == IInv /\ LinksInv /\ (\E p \in Port : MakesLink(p) \/ Exits(p)) => LinksInv'
<1> SUFFICES ASSUME IInv, LinksInv, NEW p \in Port, MakesLink(p) \/ Exits(p) PROVE LinksInv'
  OBVIOUS
<1> USE PortsAreFinite
<1>1. UNCHANGED <<spc, index, paths>>  BY DEF MakesLink, Exits, script
<1>2. \A i \in DOMAIN PORTS : (Cleared(i)' <=> Cleared(i)) /\ (Noted(i)' <=> Noted(i))
  BY <1>1 DEF Cleared, Noted
<1>3. link \in [Port -> [Ends -> {"absent", "old", "made", "dangling", "file"}]]
  BY DEF IInv, SocatTypeOK
<1>4. CASE MakesLink(p)
  <2>1. /\ UNCHANGED socat
        /\ \/ link[p]["emu"] # "made" /\ link' = [link EXCEPT ![p]["emu"] = "made"]
           \/ link[p]["emu"] = "made" /\ link' = [link EXCEPT ![p]["user"] = "made"]
    BY <1>4 DEF MakesLink
  <2>2. /\ \A q \in Port : q # p => link'[q] = link[q]
        /\ link'[p]["emu"] = "made"
        /\ link'[p]["user"] = link[p]["user"] \/ link'[p]["user"] = "made"
    BY <1>3, <2>1 DEF Ends
  <2>3. MadeInOrder'  BY <1>2, <2>2 DEF LinksInv, MadeInOrder
  <2>4. PairsInv'  BY <1>1, <1>2, <2>1, <2>2 DEF LinksInv, PairsInv
  <2> QED BY <2>3, <2>4 DEF LinksInv
<1>5. CASE Exits(p)
  <2>1. /\ socat[p] \in Alive /\ socat' = [socat EXCEPT ![p] = "dead"]
        /\ link' = [link EXCEPT ![p] = Left(p, IF socat[p] = "killed" THEN "dangling" ELSE "absent")]
    BY <1>5 DEF Exits
  <2>2. /\ \A q \in Port : q # p => link'[q] = link[q] /\ socat'[q] = socat[q]
        /\ socat'[p] = "dead"
        /\ socat[p] # "killed" => link'[p] = Left(p, "absent")
    BY <1>3, <2>1 DEF IInv, SocatTypeOK
  <2>3. link[p]["user"] \in {"absent", "made"} /\ socat[p] # "killed" => link'[p]["user"] = "absent"
    BY <2>2 DEF Left, Ends
  <2>4. ASSUME NEW i \in DOMAIN PORTS, Cleared(i), PORTS[i] = p PROVE link'[p]["user"] = "absent"
    <3>1. socat[p] # "killed"  BY <2>4 DEF LinksInv, PairsInv, Cleared
    <3> QED BY <2>3, <2>4, <3>1 DEF LinksInv, MadeInOrder
  <2>5. MadeInOrder'
    <3> SUFFICES ASSUME NEW i \in DOMAIN PORTS, Cleared(i)
                 PROVE  /\ link'[PORTS[i]]["user"] \in {"absent", "made"}
                        /\ link'[PORTS[i]]["user"] = "made" => link'[PORTS[i]]["emu"] = "made"
      BY <1>1, <1>2 DEF MadeInOrder
    <3>1. CASE PORTS[i] = p  BY <2>4, <3>1
    <3>2. CASE PORTS[i] # p  BY <2>2, <3>2 DEF LinksInv, MadeInOrder
    <3> QED BY <3>1, <3>2
  <2>6. PairsInv'  BY <1>1, <1>2, <2>2 DEF LinksInv, PairsInv
  <2> QED BY <2>5, <2>6 DEF LinksInv
<1> QED BY <1>4, <1>5

\* A file is made only where there is no link.
LEMMA EmulatorLinks == IInv /\ LinksInv /\ (Emulator \/ DebugThread) => LinksInv'
<1> SUFFICES ASSUME IInv, LinksInv, Emulator \/ DebugThread PROVE LinksInv'
  OBVIOUS
<1>1. CASE OpenCreates
  <2>1. /\ UNCHANGED <<spc, index, paths, socat>> /\ At(NextPath) = "absent"
        /\ link' = [p \in Port |-> IF PathOf[p] = NextPath THEN [link[p] EXCEPT !.emu = "file"] ELSE link[p]]
    BY <1>1 DEF OpenCreates, script
  <2>2. ASSUME NEW p \in Port, PathOf[p] = NextPath PROVE link[p]["emu"] = "absent"
    <3>1. \A q \in Port : PathOf[q] = PathOf[p] => q = p
      <4>1. \A q \in Port : q \in {"console", "aux", "debug"}  BY PortsAssumption DEF Port
      <4> QED BY <4>1 DEF PathOf
    <3>2. NextPath # Tty
      <4>1. p \in {"console", "aux", "debug"}  BY PortsAssumption DEF Port
      <4> QED BY <2>2, <4>1 DEF PathOf, Tty
    <3> QED BY <2>1, <2>2, <3>1, <3>2 DEF At
  <2>3. \A p \in Port : link'[p]["user"] = link[p]["user"] /\ (link[p]["emu"] = "made" => link'[p]["emu"] = "made")
    <3> SUFFICES ASSUME NEW p \in Port
                 PROVE  link'[p]["user"] = link[p]["user"] /\ (link[p]["emu"] = "made" => link'[p]["emu"] = "made")
      OBVIOUS
    <3>1. link[p] \in [Ends -> {"absent", "old", "made", "dangling", "file"}]  BY DEF IInv, SocatTypeOK
    <3>2. CASE PathOf[p] = NextPath  BY <2>1, <2>2, <3>1, <3>2 DEF Ends
    <3>3. CASE PathOf[p] # NextPath  BY <2>1, <3>3
    <3> QED BY <3>2, <3>3
  <2>4. \A i \in DOMAIN PORTS : (Cleared(i)' <=> Cleared(i)) /\ (Noted(i)' <=> Noted(i))
    BY <2>1 DEF Cleared, Noted
  <2>5. MadeInOrder'  BY <2>3, <2>4, PortsAreFinite DEF LinksInv, MadeInOrder
  <2>6. PairsInv'  BY <2>1, <2>3, <2>4 DEF LinksInv, PairsInv
  <2> QED BY <2>5, <2>6 DEF LinksInv
<1>2. CASE ~OpenCreates
  <2>1. UNCHANGED svars
    BY <1>2 DEF Emulator, Start, LoadDiskImages, OpenStream, OpenFails, EnterRunLoop, Dies,
                DebugThread, LinkExists, OpenLink, Debug
  <2> QED BY <2>1 DEF svars, script, LinksInv, MadeInOrder, PairsInv, Cleared, Noted
<1> QED BY <1>1, <1>2

LEMMA NextLinks == IInv /\ LinksInv /\ [Next]_vars => LinksInv'
<1> SUFFICES ASSUME IInv, LinksInv, [Next]_vars PROVE LinksInv'
  OBVIOUS
<1>1. CASE UNCHANGED vars
  BY <1>1 DEF vars, svars, script, LinksInv, MadeInOrder, PairsInv, Cleared, Noted
<1> QED BY <1>1, LaunchLinks, WatchLinks, CleanUpLinks, SocatLinks, EmulatorLinks
        DEF Next, SocatNext, Script, Surroundings

LEMMA NextConf == EmulatorType /\ ConfInv /\ [Next]_vars => ConfInv'
<1> SUFFICES ASSUME EmulatorType, ConfInv, [Next]_vars PROVE ConfInv'
  OBVIOUS
<1>1. CASE UNCHANGED emulator
  BY <1>1 DEF emulator, ConfInv, conf
<1>2. CASE Start
  <2>1. epc = "off" /\ dpc = "off"  BY <1>2 DEF Start, EmulatorType
  <2>2. \/ epc' = "gone" /\ dpc' = "off"
        \/ epc' = "images" /\ dpc' = "off" /\ HasConsole(conf')
    BY <1>2, <2>1 DEF Start, Gone, conf
  <2> QED BY <2>2 DEF ConfInv
<1>3. CASE OpenStream \/ OpenCreates \/ LoadDiskImages
  <2>1. /\ command' = command /\ conf' = conf /\ epc \in {"images", "open"} /\ epc' = "open" /\ dpc' = dpc
    BY <1>3 DEF OpenStream, OpenCreates, Opening, Opened, conf, LoadDiskImages
  <2> QED BY <2>1 DEF ConfInv
<1>4. CASE EnterRunLoop
  <2>1. /\ conf' = conf /\ epc = "open" /\ epc' = "run"
        /\ dpc' # "off" => Truthy(conf.embedded_console)
    BY <1>4 DEF EnterRunLoop, conf
  <2> QED BY <2>1 DEF ConfInv
<1>5. CASE OpenFails \/ Dies
  BY <1>5 DEF OpenFails, Dies, Gone, ConfInv
<1>6. CASE DebugThread
  <2>1. epc' = epc /\ conf' = conf /\ dpc # "off"
    BY <1>6 DEF DebugThread, LinkExists, OpenLink, Debug, conf
  <2> QED BY <2>1 DEF ConfInv
<1> QED BY <1>1, <1>2, <1>3, <1>4, <1>5, <1>6 DEF Next, Emulator, vars

-----------------------------------------------------------------------------
(***************************************************************************)
(* The terminals that are opened.                                          *)
(***************************************************************************)
\* The first of three answers that is one.
LEMMA FirstOfThree ==
  ASSUME NEW a, NEW b, NEW c
  PROVE  /\ Truthy(a) => FirstGiven(<<a, b, c>>) = a
         /\ ~Truthy(a) /\ Truthy(b) => FirstGiven(<<a, b, c>>) = b
         /\ ~Truthy(a) /\ ~Truthy(b) /\ Truthy(c) => FirstGiven(<<a, b, c>>) = c
<1> DEFINE s == <<a, b, c>>
           P(i) == Truthy(s[i]) /\ \A j \in 1 .. i - 1 : ~Truthy(s[j])
<1>1. DOMAIN s = {1, 2, 3} /\ s[1] = a /\ s[2] = b /\ s[3] = c  OBVIOUS
<1>2. FirstGiven(s) = s[CHOOSE i \in DOMAIN s : P(i)]  BY DEF FirstGiven
<1>3. 1 .. 1 - 1 = {} /\ 1 .. 2 - 1 = {1} /\ 1 .. 3 - 1 = {1, 2}  OBVIOUS
<1>4. /\ P(1) <=> Truthy(a)
      /\ P(2) <=> ~Truthy(a) /\ Truthy(b)
      /\ P(3) <=> ~Truthy(a) /\ ~Truthy(b) /\ Truthy(c)
  BY <1>1, <1>3
<1>5. ASSUME NEW k \in {1, 2, 3}, P(k) PROVE FirstGiven(s) = s[k]
  <2>1. \A i \in {1, 2, 3} : P(i) => i = k  BY <1>4, <1>5
  <2> HIDE DEF P
  <2>2. (CHOOSE i \in DOMAIN s : P(i)) = k  BY <1>1, <1>5, <2>1
  <2> QED BY <1>2, <2>2
<1> HIDE DEF P
<1> QED BY <1>1, <1>4, <1>5

LEMMA TwoAndTwo ==
  ASSUME NEW a, NEW b, NEW c, NEW d
  PROVE  /\ Len(<<a, b>> \o <<c, d>>) = 4
         /\ (<<a, b>> \o <<c, d>>)[1] = a /\ (<<a, b>> \o <<c, d>>)[2] = b
         /\ (<<a, b>> \o <<c, d>>)[3] = c /\ (<<a, b>> \o <<c, d>>)[4] = d
<1> QED OBVIOUS

\* Every stream is the first answer of its own: command line, then file.
LEMMA StreamsAsAsked ==
  ASSUME NEW c \in Commands, HasConsole(ConfOf[c]),
         NEW n \in 1 .. Len(Streams(ConfOf[c]))
  PROVE  Streams(ConfOf[c])[n] = AskedOf[c][n]
<1> DEFINE args == build_parser(c.given)
           file == read_config(c.toml)
           k == ConfOf[c]
           console == <<k.console_in, k.console_out>>
           aux == FirstGiven(<<args.aux, file.aux_tty, Tty>>)
<1>1. k = make_config(args, file)  BY DEF ConfOf
<1>2. /\ k.console_in = OrConfigured(IF Truthy(args.t) THEN args.t ELSE args.ti, file.console_tty)
      /\ k.console_out = OrConfigured(IF Truthy(args.t) THEN args.t ELSE args.to, file.console_tty)
      /\ k.aux = OrConfigured(args.aux, file.aux_tty)
  BY <1>1 DEF make_config
<1>3. AskedOf[c] = <<FirstGiven(<<args.t, args.ti, file.console_tty>>),
                     FirstGiven(<<args.t, args.to, file.console_tty>>), aux, aux>>
  BY DEF AskedOf
<1> HIDE DEF args, file, k, aux
<1>4. Truthy(k.console_in) /\ Truthy(k.console_out)  BY DEF HasConsole, k
<1>5. k.console_in = FirstGiven(<<args.t, args.ti, file.console_tty>>)
  BY <1>2, <1>4, FirstOfThree DEF OrConfigured
<1>6. k.console_out = FirstGiven(<<args.t, args.to, file.console_tty>>)
  BY <1>2, <1>4, FirstOfThree DEF OrConfigured
<1>7. Truthy(k.aux) => k.aux = aux
  BY <1>2, FirstOfThree DEF OrConfigured, aux
<1>8. Streams(k) = console \o (IF Truthy(k.aux) THEN <<k.aux, k.aux>> ELSE <<>>)  BY DEF Streams
<1>9. n \in 1 .. Len(Streams(k))  BY DEF k
<1>10. CASE Truthy(k.aux)
  <2>1. Streams(k) = <<k.console_in, k.console_out>> \o <<k.aux, k.aux>>  BY <1>8, <1>10
  <2>2. /\ Len(Streams(k)) = 4
        /\ Streams(k)[1] = k.console_in /\ Streams(k)[2] = k.console_out
        /\ Streams(k)[3] = k.aux /\ Streams(k)[4] = k.aux
    BY <2>1, TwoAndTwo
  <2> QED BY <1>3, <1>5, <1>6, <1>7, <1>9, <1>10, <2>2 DEF k
<1>11. CASE ~Truthy(k.aux)
  <2>1. Streams(k) = <<k.console_in, k.console_out>>  BY <1>8, <1>11
  <2> QED BY <1>3, <1>5, <1>6, <1>9, <2>1 DEF k
<1> QED BY <1>10, <1>11

\* Every stream is one of the links, or the terminal.
LEMMA StreamsArePaths ==
  ASSUME NEW c \in Commands, HasConsole(ConfOf[c]),
         NEW n \in 1 .. Len(Streams(ConfOf[c]))
  PROVE  Streams(ConfOf[c])[n] \in {PathOf[p] : p \in Port} \cup {Tty}
<1> DEFINE k == ConfOf[c]
           Paths == {PathOf[p] : p \in Port} \cup {Tty}
<1>1. k.console_in \in Paths /\ k.console_out \in Paths /\ (Truthy(k.aux) => k.aux \in Paths)
  BY CommandsAssumption DEF HasConsole, Truthy
<1>2. Streams(k) = <<k.console_in, k.console_out>> \o (IF Truthy(k.aux) THEN <<k.aux, k.aux>> ELSE <<>>)
  BY DEF Streams
<1>3. n \in 1 .. Len(Streams(k))  OBVIOUS
<1> HIDE DEF k, Paths
<1>4. CASE Truthy(k.aux)
  <2>1. Streams(k) = <<k.console_in, k.console_out>> \o <<k.aux, k.aux>>  BY <1>2, <1>4
  <2>2. /\ Len(Streams(k)) = 4
        /\ Streams(k)[1] = k.console_in /\ Streams(k)[2] = k.console_out
        /\ Streams(k)[3] = k.aux /\ Streams(k)[4] = k.aux
    BY <2>1, TwoAndTwo
  <2> QED BY <1>1, <1>3, <1>4, <2>2 DEF k, Paths
<1>5. CASE ~Truthy(k.aux)
  <2>1. Streams(k) = <<k.console_in, k.console_out>>  BY <1>2, <1>5
  <2> QED BY <1>1, <1>3, <2>1 DEF k, Paths
<1> QED BY <1>4, <1>5

\* While the pairs stand, what is at such a path is socat's terminal.
LEMMA StandingMade ==
  ASSUME IInv, LinksInv, Standing, NEW path \in {PathOf[p] : p \in Port} \cup {Tty}
  PROVE  At(path) \in {"made", Tty} /\ There(path)
<1>1. ASSUME NEW p \in Port PROVE link[p]["emu"] = "made"
  <2>1. PICK i \in DOMAIN PORTS : p = PORTS[i]  BY PortsAreFinite
  <2>2. p \in paths
    BY <2>1 DEF LinksInv, PairsInv, Noted, Standing, Up, Launching
  <2>3. p \in processes  BY <2>2 DEF IInv, SocatTypeOK
  <2>4. socat[p] # "dead"  BY <2>3 DEF Standing, SomeExited
  <2> QED BY <2>4 DEF LinksInv, PairsInv, Standing
<1>2. CASE path = Tty  BY <1>2 DEF At, There
<1>3. CASE path # Tty
  <2> DEFINE q == CHOOSE q \in Port : PathOf[q] = path
  <2>1. \E p \in Port : PathOf[p] = path  BY <1>3
  <2>2. q \in Port  BY <2>1
  <2>3. At(path) = link[q].emu  BY <1>3 DEF At
  <2> HIDE DEF q
  <2>4. At(path) = "made"  BY <1>1, <2>2, <2>3
  <2> QED BY <2>4 DEF There
<1> QED BY <1>2, <1>3

\* One step: the action property, in the states that the invariants leave.
LEMMA StepOpens ==
  ASSUME IInv, LinksInv, EmulatorType, ConfInv, Next
  PROVE  /\ opened' > opened =>
              NextPath = AskedOf[command][opened'] /\ (Standing => At(NextPath) \in {"made", Tty})
         /\ epc = "open" /\ Standing => epc' # "unopened"
         /\ Standing /\ dpc = "open" => dpc' \notin {"elsewhere", "dead"}
<1>0. opened \in Nat  BY DEF EmulatorType
<1>1. ASSUME Opening
      PROVE  NextPath = AskedOf[command][opened + 1] /\ (Standing => At(NextPath) \in {"made", Tty} /\ There(NextPath))
  <2>1. command \in Commands /\ HasConsole(ConfOf[command])
    BY <1>1 DEF Opening, EmulatorType, ConfInv, conf
  <2>2. opened + 1 \in 1 .. Len(Streams(ConfOf[command]))
    BY <1>0, <1>1, StreamsLength DEF Opening, conf
  <2>3. NextPath = Streams(ConfOf[command])[opened + 1]  BY DEF NextPath, conf
  <2>4. NextPath = AskedOf[command][opened + 1]  BY <2>1, <2>2, <2>3, StreamsAsAsked
  <2>5. NextPath \in {PathOf[p] : p \in Port} \cup {Tty}  BY <2>1, <2>2, <2>3, StreamsArePaths
  <2> QED BY <2>4, <2>5, StandingMade
<1>2. opened' > opened => Opening /\ opened' = opened + 1
  <2>1. CASE OpenStream \/ OpenCreates  BY <2>1 DEF OpenStream, OpenCreates, Opened
  <2>2. CASE ~(OpenStream \/ OpenCreates)
    <3>1. opened' = opened \/ opened' = 0
      BY <2>2 DEF Next, Emulator, emulator, Start, LoadDiskImages, OpenFails, EnterRunLoop, Dies, Gone,
                  DebugThread, LinkExists, OpenLink, Debug
    <3> QED BY <1>0, <3>1
  <2> QED BY <2>1, <2>2
<1>3. epc = "open" /\ Standing => epc' # "unopened"
  <2> SUFFICES ASSUME epc = "open", Standing, epc' = "unopened" PROVE FALSE
    OBVIOUS
  <2>1. OpenFails
    BY DEF Next, Emulator, emulator, Start, LoadDiskImages, OpenStream, OpenCreates, Opened, EnterRunLoop, Dies, Gone,
           DebugThread, LinkExists, OpenLink, Debug
  <2>2. Opening /\ At(NextPath) \in {"old", "dangling", "absent"}  BY <2>1 DEF OpenFails
  <2> QED BY <1>1, <2>2 DEF Tty
<1>4. Standing /\ dpc = "open" => dpc' \notin {"elsewhere", "dead"}
  <2> SUFFICES ASSUME Standing, dpc = "open", dpc' \in {"elsewhere", "dead"} PROVE FALSE
    OBVIOUS
  <2>1. OpenLink
    BY DEF Next, Emulator, emulator, Start, LoadDiskImages, OpenStream, OpenCreates, OpenFails, Opened, EnterRunLoop,
           Dies, Gone, DebugThread, LinkExists, Debug
  <2>2. command \in Commands /\ Truthy(conf.embedded_console)  BY DEF ConfInv, EmulatorType
  <2>3. DebugPath \in {PathOf[p] : p \in Port} \cup {Tty}
    BY <2>2, CommandsAssumption DEF DebugPath, conf, Truthy
  <2>4. At(DebugPath) \in {"made", Tty} /\ There(DebugPath)  BY <2>3, StandingMade
  <2> QED BY <2>1, <2>4 DEF OpenLink, Debug, Tty
<1> QED BY <1>1, <1>2, <1>3, <1>4

THEOREM LinksInvariance == Spec => []LinksInv
<1>1. Init => LinksInv  BY InitLinks
<1> QED BY Invariance, <1>1, NextLinks, PTL DEF Spec

\* For any ports, any command line and any configuration file, each stream of the
\* emulator is the first answer of command line and file, and while the script
\* supervises its pairs the emulator and its debug console get the terminals that
\* they name: socat's, or one that is always there.
THEOREM TerminalsOpen == Spec => AnnouncedTerminalsOpen
<1> DEFINE A == /\ opened' > opened =>
                     NextPath = AskedOf[command][opened'] /\ (Standing => At(NextPath) \in {"made", Tty})
                /\ epc = "open" /\ Standing => epc' # "unopened"
                /\ Standing /\ dpc = "open" => dpc' \notin {"elsewhere", "dead"}
<1>1. Init => EmulatorType /\ ConfInv  BY InitLinks DEF Init, EmulatorType
<1>2. IInv /\ LinksInv /\ EmulatorType /\ ConfInv /\ [Next]_vars => [A]_vars  BY StepOpens
<1> HIDE DEF A
<1>3. Spec => [][A]_vars
  BY Invariance, LinksInvariance, <1>1, EmulatorTypeInv, NextConf, <1>2, PTL DEF Spec
<1> QED BY <1>3 DEF A, AnnouncedTerminalsOpen
=============================================================================
