----------------------------- MODULE PromMemory -----------------------------
(***************************************************************************)
(* The emulator's memory: the flat array and protection bytes of the C     *)
(* core (z80emu_core_z80ex.c), and the PROM regions of the board that copy *)
(* chips and RAM in and out of it (prom.py, boards.py, IOP14 of            *)
(* devices/simple.py).                                                     *)
(*                                                                         *)
(* A guest OUT to IOP14 runs set_proms_enabled before the CPU executes     *)
(* another instruction; the loop over the regions and the four statements  *)
(* that switch one are steps of their own here, because the debug          *)
(* console's thread may write memory between them and a Ctrl-C may cut     *)
(* them off.                                                               *)
(***************************************************************************)
EXTENDS Integers

CONSTANTS Addr,       \* addresses (0 .. 65535)
          Value,      \* what a memory byte may hold
          PokeAddr,   \* the addresses the debug console writes
          NREGIONS,   \* PROM regions of the board: 1 (DIM-1001) or 2 (DIM-1003)
          Span,       \* Span[r]: the addresses of region r
          Chip        \* Chip[a]: raw_data of the region that covers a

Region == 1 .. NREGIONS

ASSUME RegionAssumption ==
  /\ NREGIONS \in Nat
  /\ Span \in [Region -> SUBSET Addr]
  /\ \A r, s \in Region : r # s => Span[r] \cap Span[s] = {}
ASSUME ContentsAssumption ==
  0 \in Value /\ PokeAddr \subseteq Addr /\ Chip \in [Addr -> Value]

VARIABLES mem,     \* memory[]
          prot,    \* memory_prot[]
          isOn,    \* PromRegion.is_on
          saved,   \* PromRegion.ram_vals, by address
          prom,    \* the region set_proms_enabled is at, or was cut off at; else 0
          step,    \* the statement of set_enabled it is at
          target,  \* the value it is setting
          cut      \* a KeyboardInterrupt raised in it is pending: I/O is over

vars == <<mem, prot, isOn, saved, prom, step, target, cut>>

Steps == {"check", "backup", "load", "protect", "mark"}
CpuRuns == prom = 0 \/ cut

\* The bytes of a region replaced by another array's, as a slice assignment does.
Slice(f, r, g) == [a \in Addr |-> IF a \in Span[r] THEN g[a] ELSE f[a]]

\* The state after Board.__init__: each PromRegion saved the zeroed RAM and
\* loaded its chip.
Init ==
  /\ mem = [a \in Addr |-> IF \E r \in Region : a \in Span[r] THEN Chip[a] ELSE 0]
  /\ prot = [a \in Addr |-> \E r \in Region : a \in Span[r]]
  /\ isOn = [r \in Region |-> TRUE]
  /\ saved = [a \in Addr |-> 0]
  /\ prom = 0
  /\ step = "check"
  /\ target = TRUE
  /\ cut = FALSE

-----------------------------------------------------------------------------
\* Mutant: the core ignores the protection bytes.
CpuWriteUnprotected(a, v) ==
  /\ CpuRuns
  /\ mem' = [mem EXCEPT ![a] = v]
  /\ UNCHANGED <<prot, isOn, saved, prom, step, target, cut>>

\* emu_mwrite_cb: a write to a protected address is ignored.
CpuWrite(a, v) ==
  /\ CpuRuns
  /\ mem' = IF prot[a] THEN mem ELSE [mem EXCEPT ![a] = v]
  /\ UNCHANGED <<prot, isOn, saved, prom, step, target, cut>>

\* z80emu_mem_wr, and writes through raw_memory(): past the protection, from the
\* debug console.  Not into the region that is being switched: the console's own
\* warning leaves that race to its user.
Poke(a, v) ==
  /\ ~CpuRuns => a \notin Span[prom]
  /\ mem' = [mem EXCEPT ![a] = v]
  /\ UNCHANGED <<prot, isOn, saved, prom, step, target, cut>>

\* IOP14.write -> Board.set_proms_enabled(val & 1).  With an exception pending
\* _c_io_out returns before it reaches the board.
SetPromsEnabled(val) ==
  /\ CpuRuns /\ ~cut
  /\ NREGIONS > 0
  /\ prom' = 1
  /\ step' = "check"
  /\ target' = (val % 2 = 1)
  /\ UNCHANGED <<mem, prot, isOn, saved, cut>>

\* Mutant: the loop runs past the last region.
NextRegionRunsOn == prom' = prom + 1 /\ step' = "check"

\* Mutant: the loop over the regions stops at the first.
NextRegionFirstOnly == prom' = 0 /\ step' = "check"

NextRegion ==
  /\ prom' = IF prom = NREGIONS THEN 0 ELSE prom + 1
  /\ step' = "check"

At(s) == ~CpuRuns /\ step = s
Goto(s) == step' = s /\ UNCHANGED prom

\* Mutant: set_enabled without its early return: RAM saved twice over.
CheckAlways ==
  /\ At("check")
  /\ IF target THEN Goto("backup") ELSE Goto("load")
  /\ UNCHANGED <<mem, prot, isOn, saved, target, cut>>

\* set_enabled(enabled): nothing to do when the region is already so.
Check ==
  /\ At("check")
  /\ \/ isOn[prom] = target /\ NextRegion
     \/ isOn[prom] # target /\ target /\ Goto("backup")
     \/ isOn[prom] # target /\ ~target /\ Goto("load")
  /\ UNCHANGED <<mem, prot, isOn, saved, target, cut>>

\* Mutant: the RAM under the chip is not saved.
BackupNothing ==
  /\ At("backup")
  /\ Goto("load")
  /\ UNCHANGED <<mem, prot, isOn, saved, target, cut>>

\* self.ram_vals = bytes(mem[rng])
Backup ==
  /\ At("backup")
  /\ saved' = Slice(saved, prom, mem)
  /\ Goto("load")
  /\ UNCHANGED <<mem, prot, isOn, target, cut>>

\* mem[rng] = data
Load ==
  /\ At("load")
  /\ mem' = Slice(mem, prom, IF target THEN Chip ELSE saved)
  /\ Goto("protect")
  /\ UNCHANGED <<prot, isOn, saved, target, cut>>

\* Mutant: protection is only ever added.
ProtectOnly ==
  /\ At("protect")
  /\ prot' = [a \in Addr |-> prot[a] \/ a \in Span[prom]]
  /\ Goto("mark")
  /\ UNCHANGED <<mem, isOn, saved, target, cut>>

\* z80.mem_set_prot(start, end, protect)
Protect ==
  /\ At("protect")
  /\ prot' = [a \in Addr |-> IF a \in Span[prom] THEN target ELSE prot[a]]
  /\ Goto("mark")
  /\ UNCHANGED <<mem, isOn, saved, target, cut>>

\* self.is_on = enabled
Mark ==
  /\ At("mark")
  /\ isOn' = [isOn EXCEPT ![prom] = target]
  /\ NextRegion
  /\ UNCHANGED <<mem, prot, saved, target, cut>>

SwitchRegion == Check \/ Backup \/ Load \/ Protect \/ Mark

\* Ctrl-C before the next statement: the exception leaves the loop, is recorded
\* as pending, and the core executes the rest of its chunk on the memory as it
\* is.  How long that is is left open; the emulator ends after it.
Interrupt ==
  /\ ~CpuRuns
  /\ cut' = TRUE
  /\ UNCHANGED <<mem, prot, isOn, saved, prom, step, target>>

Next ==
  \/ \E a \in Addr, v \in Value : CpuWrite(a, v)
  \/ \E a \in PokeAddr, v \in Value : Poke(a, v)
  \/ \E val \in 0..1 : SetPromsEnabled(val)
  \/ SwitchRegion
  \/ Interrupt

\* The loop over the regions runs as part of the guest's OUT instruction.
Fairness == WF_vars(SwitchRegion)

Spec == Init /\ [][Next]_vars
FairSpec == Spec /\ Fairness

-----------------------------------------------------------------------------
(***************************************************************************)
(* Properties.                                                             *)
(***************************************************************************)

\* Every variable has its type.
TypeOK ==
  /\ mem \in [Addr -> Value]
  /\ prot \in [Addr -> BOOLEAN]
  /\ isOn \in [Region -> BOOLEAN]
  /\ saved \in [Addr -> Value]
  /\ prom \in 0 .. NREGIONS
  /\ step \in Steps
  /\ target \in BOOLEAN
  /\ cut \in BOOLEAN

\* Whether the protection bytes over a set of addresses are what is_on says.
ProtMatches(A) ==
  \A a \in A : prot[a] <=> \E r \in Region : isOn[r] /\ a \in Span[r]

\* The core's protection bytes and the board's is_on flags, two records of the
\* same fact kept in two languages, agree whenever the CPU may write, with all
\* chips alike.  A switch that Ctrl-C cuts off leaves the chips before the one
\* it was at as asked, those after it as they were, and the two records at odds
\* on that one chip's addresses at most.
ProtectionAgrees ==
  /\ CpuRuns /\ ~cut => ProtMatches(Addr) /\ \A r, s \in Region : isOn[r] = isOn[s]
  /\ cut => /\ ProtMatches(Addr \ Span[prom])
            /\ \A r \in Region : r < prom => isOn[r] = target
            /\ \A r, s \in Region : r > prom /\ s > prom => isOn[r] = isOn[s]

\* Whether a chip's bytes are what memory[] holds for its region.
Loaded(r) == IF prom = r /\ step \in {"protect", "mark"} THEN target ELSE isOn[r]
Hidden(a) == \E r \in Region : Loaded(r) /\ a \in Span[r]

\* The mechanism is banked memory: RAM and chips do not disturb each other,
\* whatever the guest and the debugger write, however often the guest switches
\* and wherever a Ctrl-C cuts the last switch off.  A chip is switched on, and
\* off, by the step that copies; one that was copied in and not yet protected
\* stays open to the guest.
ramBar == [a \in Addr |-> IF Hidden(a) THEN saved[a] ELSE mem[a]]
romBar == [a \in Addr |-> IF Hidden(a) THEN mem[a] ELSE Chip[a]]
onBar == [r \in Region |-> Loaded(r)]
openBar == IF cut /\ step = "protect" /\ target THEN {prom} ELSE {}
Banked == INSTANCE BankedMemory
            WITH ram <- ramBar, rom <- romBar, on <- onBar, open <- openBar
ImplementsBankedMemory == Banked!Spec

\* A guest that switches the PROMs gets its CPU back, with the chips as it asked
\* unless Ctrl-C cut the switch off.
SwitchCompletes ==
  \A b \in BOOLEAN : ~CpuRuns /\ target = b
                       ~> CpuRuns /\ (cut \/ \A r \in Region : isOn[r] = b)
=============================================================================
