-------------------------- MODULE PromMemory_proofs --------------------------
(***************************************************************************)
(* PromMemory implements BankedMemory for every memory size, number of     *)
(* regions, disjoint layout and chip contents, also when a Ctrl-C cuts the *)
(* last switch off.                                                        *)
(***************************************************************************)
EXTENDS PromMemory, TLAPS

Switching == step \in {"backup", "load", "protect", "mark"}

\* Whether a region's bytes are protected: set_enabled marks it one statement
\* after it changes the protection.
Protected(r) == IF prom = r /\ step = "mark" THEN target ELSE isOn[r]

StepInv ==
  /\ prom = 0 => step = "check"
  /\ cut => prom # 0
  /\ Switching => isOn[prom] = ~target
  /\ step = "backup" => target = TRUE

ProtInv == \A a \in Addr : prot[a] <=> \E r \in Region : Protected(r) /\ a \in Span[r]

AgreeInv ==
  /\ \A r \in Region : r < prom => isOn[r] = target
  /\ \A r, s \in Region : r >= prom /\ s >= prom => isOn[r] = isOn[s]

\* The RAM a chip is about to overwrite has been saved as it is.
BackupCurrent == At("load") /\ target => \A a \in Span[prom] : saved[a] = mem[a]

IInv == TypeOK /\ StepInv /\ ProtInv /\ AgreeInv /\ BackupCurrent

LEMMA Regions == NREGIONS \in Nat /\ Region = 1 .. NREGIONS /\ 0 \notin Region
  BY RegionAssumption DEF Region

\* The state the board's constructor leaves satisfies the invariant.
LEMMA InitInv == Init => IInv
  <1> SUFFICES ASSUME Init PROVE IInv
    OBVIOUS
  <1>1. TypeOK
    <2>1. mem \in [Addr -> Value] /\ prot \in [Addr -> BOOLEAN] /\ saved \in [Addr -> Value]
      BY ContentsAssumption DEF Init
    <2>2. isOn \in [Region -> BOOLEAN] /\ prom \in 0 .. NREGIONS
      BY RegionAssumption DEF Init
    <2> QED BY <2>1, <2>2 DEF Init, TypeOK, Steps
  <1>2. StepInv /\ AgreeInv /\ BackupCurrent
    BY Regions DEF Init, StepInv, AgreeInv, BackupCurrent, Switching, At, CpuRuns
  <1>3. ProtInv
    BY Regions DEF Init, ProtInv, Protected
  <1> QED BY <1>1, <1>2, <1>3 DEF IInv

\* A write to one address, by the guest or the debugger.
LEMMA WriteInv ==
  ASSUME IInv, NEW a \in Addr, NEW v \in Value, CpuWrite(a, v) \/ Poke(a, v)
  PROVE  IInv'
  <1>1. /\ mem' \in [Addr -> Value]
        /\ \A b \in Addr : b # a => mem'[b] = mem[b]
        /\ UNCHANGED <<prot, isOn, saved, prom, step, target, cut>>
        /\ ~CpuRuns => a \notin Span[prom]
    BY DEF CpuWrite, Poke, CpuRuns, IInv, TypeOK
  <1>2. TypeOK' /\ StepInv' /\ ProtInv' /\ AgreeInv'
    BY <1>1 DEF IInv, TypeOK, StepInv, ProtInv, AgreeInv, Switching, Protected
  <1>3. BackupCurrent'
    <2> SUFFICES ASSUME (At("load") /\ target)', NEW b \in Span'[prom']
                 PROVE  saved'[b] = mem'[b]
      BY DEF BackupCurrent
    <2>1. prom \in Region /\ b \in Span[prom] /\ b \in Addr /\ b # a
      BY <1>1, RegionAssumption DEF At, CpuRuns, IInv, TypeOK, Region
    <2>2. saved[b] = mem[b]
      BY <1>1, <2>1 DEF IInv, BackupCurrent, At, CpuRuns
    <2> QED BY <1>1, <2>1, <2>2
  <1> QED BY <1>2, <1>3 DEF IInv

\* The guest's OUT starts the loop at the first region.
LEMMA SetPromsEnabledInv ==
  ASSUME IInv, NEW val \in 0..1, SetPromsEnabled(val)
  PROVE  IInv'
  <1>1. /\ prom = 0 /\ step = "check" /\ prom' = 1 /\ step' = "check" /\ target' \in BOOLEAN
        /\ cut = FALSE /\ 1 \in Region /\ UNCHANGED <<mem, prot, isOn, saved, cut>>
    BY Regions DEF SetPromsEnabled, CpuRuns, IInv, TypeOK, StepInv
  <1>2. TypeOK'
    BY <1>1, Regions DEF IInv, TypeOK
  <1>3. StepInv' /\ BackupCurrent'
    BY <1>1 DEF StepInv, BackupCurrent, Switching, At, CpuRuns
  <1>4. ProtInv'
    BY <1>1 DEF IInv, ProtInv, Protected
  <1>5. AgreeInv'
    BY <1>1, Regions DEF IInv, AgreeInv
  <1> QED BY <1>2, <1>3, <1>4, <1>5 DEF IInv

\* Going on to the next region, or back to the CPU.
LEMMA NextRegionAgrees ==
  ASSUME IInv, prom \in Region, NextRegion, UNCHANGED target,
         isOn' \in [Region -> BOOLEAN], isOn'[prom] = target,
         \A r \in Region : r # prom => isOn'[r] = isOn[r]
  PROVE  AgreeInv'
  <1>1. CASE prom = NREGIONS
    <2>1. prom' = 0 /\ \A r \in Region : isOn'[r] = target
      BY <1>1, Regions DEF NextRegion, IInv, AgreeInv
    <2> QED BY <2>1, Regions DEF AgreeInv
  <1>2. CASE prom # NREGIONS
    <2>1. prom' = prom + 1 /\ prom' \in Region
      BY <1>2, Regions DEF NextRegion
    <2>2. \A r \in Region : r < prom' => isOn'[r] = target
      BY <2>1, Regions DEF IInv, AgreeInv
    <2>3. \A r, s \in Region : r >= prom' /\ s >= prom' => isOn'[r] = isOn'[s]
      BY <2>1, Regions DEF IInv, AgreeInv
    <2> QED BY <2>2, <2>3 DEF AgreeInv
  <1> QED BY <1>1, <1>2

\* Facts every statement of set_enabled starts from.
LEMMA InSwitch ==
  ASSUME IInv, ~CpuRuns
  PROVE  /\ prom \in Region /\ Span[prom] \subseteq Addr /\ cut = FALSE
         /\ target \in BOOLEAN /\ isOn[prom] \in BOOLEAN
  BY Regions, RegionAssumption DEF IInv, TypeOK, CpuRuns, Region

LEMMA CheckInv ==
  ASSUME IInv, Check
  PROVE  IInv'
  <1>1. /\ prom \in Region /\ step = "check" /\ UNCHANGED <<mem, prot, isOn, saved, target, cut>>
        /\ target \in BOOLEAN /\ isOn[prom] \in BOOLEAN /\ cut = FALSE
    BY InSwitch DEF Check, At
  <1>2. CASE isOn[prom] = target /\ NextRegion
    <2>1. TypeOK'
      BY <1>1, <1>2, Regions DEF IInv, TypeOK, NextRegion, Steps
    <2>2. StepInv' /\ BackupCurrent'
      BY <1>1, <1>2 DEF NextRegion, StepInv, Switching, BackupCurrent, At
    <2>3. ProtInv'
      BY <1>1, <1>2 DEF IInv, ProtInv, Protected, NextRegion
    <2>4. AgreeInv'
      BY <1>1, <1>2, NextRegionAgrees DEF IInv, TypeOK
    <2> QED BY <2>1, <2>2, <2>3, <2>4 DEF IInv
  <1>3. CASE isOn[prom] # target /\ target /\ Goto("backup")
    <2>1. TypeOK' /\ AgreeInv'
      BY <1>1, <1>3 DEF IInv, TypeOK, AgreeInv, Goto, Steps
    <2>2. StepInv' /\ BackupCurrent'
      BY <1>1, <1>3, Regions DEF Goto, StepInv, Switching, BackupCurrent, At
    <2>3. ProtInv'
      BY <1>1, <1>3 DEF IInv, ProtInv, Protected, Goto
    <2> QED BY <2>1, <2>2, <2>3 DEF IInv
  <1>4. CASE isOn[prom] # target /\ ~target /\ Goto("load")
    <2>1. TypeOK' /\ AgreeInv'
      BY <1>1, <1>4 DEF IInv, TypeOK, AgreeInv, Goto, Steps
    <2>2. StepInv' /\ BackupCurrent'
      BY <1>1, <1>4, Regions DEF Goto, StepInv, Switching, BackupCurrent, At
    <2>3. ProtInv'
      BY <1>1, <1>4 DEF IInv, ProtInv, Protected, Goto
    <2> QED BY <2>1, <2>2, <2>3 DEF IInv
  <1> QED BY <1>2, <1>3, <1>4 DEF Check

LEMMA BackupInv ==
  ASSUME IInv, Backup
  PROVE  IInv'
  <1>1. /\ prom \in Region /\ step = "backup" /\ step' = "load" /\ prom' = prom
        /\ UNCHANGED <<mem, prot, isOn, target, cut>> /\ Span[prom] \subseteq Addr
        /\ saved' = [a \in Addr |-> IF a \in Span[prom] THEN mem[a] ELSE saved[a]]
    BY InSwitch DEF Backup, At, Goto, Slice
  <1>2. TypeOK' /\ AgreeInv'
    BY <1>1 DEF IInv, TypeOK, AgreeInv, Steps
  <1>3. StepInv'
    BY <1>1, Regions DEF IInv, StepInv, Switching
  <1>4. ProtInv'
    BY <1>1 DEF IInv, ProtInv, Protected
  <1>5. BackupCurrent'
    BY <1>1 DEF BackupCurrent
  <1> QED BY <1>2, <1>3, <1>4, <1>5 DEF IInv

LEMMA LoadInv ==
  ASSUME IInv, Load
  PROVE  IInv'
  <1>1. /\ prom \in Region /\ step = "load" /\ step' = "protect" /\ prom' = prom
        /\ UNCHANGED <<prot, isOn, saved, target, cut>>
        /\ mem' = Slice(mem, prom, IF target THEN Chip ELSE saved)
    BY InSwitch DEF Load, At, Goto
  <1>2. mem' \in [Addr -> Value]
    BY <1>1, ContentsAssumption DEF IInv, TypeOK, Slice
  <1>3. TypeOK' /\ AgreeInv'
    BY <1>1, <1>2 DEF IInv, TypeOK, AgreeInv, Steps
  <1>4. StepInv' /\ BackupCurrent'
    BY <1>1, Regions DEF IInv, StepInv, Switching, BackupCurrent, At
  <1>5. ProtInv'
    BY <1>1 DEF IInv, ProtInv, Protected
  <1> QED BY <1>3, <1>4, <1>5 DEF IInv

LEMMA ProtectInv ==
  ASSUME IInv, Protect
  PROVE  IInv'
  <1>1. /\ prom \in Region /\ step = "protect" /\ step' = "mark" /\ prom' = prom
        /\ UNCHANGED <<mem, isOn, saved, target, cut>> /\ target \in BOOLEAN
        /\ prot' = [a \in Addr |-> IF a \in Span[prom] THEN target ELSE prot[a]]
    BY InSwitch DEF Protect, At, Goto
  <1>2. TypeOK' /\ AgreeInv'
    BY <1>1 DEF IInv, TypeOK, AgreeInv, Steps
  <1>3. StepInv' /\ BackupCurrent'
    BY <1>1, Regions DEF IInv, StepInv, Switching, BackupCurrent, At
  <1>4. ProtInv'
    <2> SUFFICES ASSUME NEW a \in Addr
                 PROVE  prot'[a] <=> \E r \in Region : Protected(r)' /\ a \in Span[r]
      BY DEF ProtInv
    <2>1. /\ Protected(prom)' <=> target
          /\ \A r \in Region : r # prom => (Protected(r)' <=> Protected(r))
      BY <1>1 DEF Protected
    <2>2. CASE a \in Span[prom]
      <3>1. \A r \in Region : a \in Span[r] => r = prom
        BY <1>1, <2>2, RegionAssumption
      <3> QED BY <1>1, <2>1, <2>2, <3>1
    <2>3. CASE a \notin Span[prom]
      <3>1. prot'[a] <=> \E r \in Region : Protected(r) /\ a \in Span[r]
        BY <1>1, <2>3 DEF IInv, ProtInv
      <3> QED BY <2>1, <2>3, <3>1
    <2> QED BY <2>2, <2>3
  <1> QED BY <1>2, <1>3, <1>4 DEF IInv

LEMMA MarkInv ==
  ASSUME IInv, Mark
  PROVE  IInv'
  <1>1. /\ prom \in Region /\ step = "mark" /\ step' = "check"
        /\ UNCHANGED <<mem, prot, saved, target, cut>> /\ target \in BOOLEAN
        /\ isOn' = [isOn EXCEPT ![prom] = target] /\ NextRegion /\ cut = FALSE
    BY InSwitch DEF Mark, At, NextRegion
  <1>2. /\ isOn' \in [Region -> BOOLEAN] /\ isOn'[prom] = target
        /\ \A r \in Region : r # prom => isOn'[r] = isOn[r]
    BY <1>1 DEF IInv, TypeOK
  <1>3. TypeOK'
    BY <1>1, <1>2, Regions DEF IInv, TypeOK, NextRegion, Steps
  <1>4. StepInv' /\ BackupCurrent'
    BY <1>1 DEF StepInv, Switching, BackupCurrent, At
  <1>5. ProtInv'
    <2>1. \A r \in Region : Protected(r)' <=> Protected(r)
      BY <1>1, <1>2 DEF Protected
    <2> QED BY <1>1, <2>1 DEF IInv, ProtInv
  <1>6. AgreeInv'
    BY <1>1, <1>2, NextRegionAgrees
  <1> QED BY <1>3, <1>4, <1>5, <1>6 DEF IInv

\* The cut changes nothing but who runs.
LEMMA InterruptInv ==
  ASSUME IInv, Interrupt
  PROVE  IInv'
  <1>1. prom # 0 /\ cut' = TRUE /\ UNCHANGED <<mem, prot, isOn, saved, prom, step, target>>
    BY DEF Interrupt, CpuRuns
  <1>2. TypeOK' /\ StepInv' /\ ProtInv' /\ AgreeInv'
    BY <1>1 DEF IInv, TypeOK, StepInv, ProtInv, AgreeInv, Switching, Protected
  <1>3. BackupCurrent'
    BY <1>1 DEF BackupCurrent, At, CpuRuns
  <1> QED BY <1>2, <1>3 DEF IInv

\* The inductive step, action by action.
LEMMA NextInv == IInv /\ [Next]_vars => IInv'
  <1> SUFFICES ASSUME IInv, [Next]_vars PROVE IInv'
    OBVIOUS
  <1>1. ASSUME NEW a \in Addr, NEW v \in Value, CpuWrite(a, v) \/ Poke(a, v) PROVE IInv'
    BY <1>1, WriteInv
  <1>2. ASSUME NEW val \in 0..1, SetPromsEnabled(val) PROVE IInv'
    BY <1>2, SetPromsEnabledInv
  <1>3. CASE SwitchRegion
    BY <1>3, CheckInv, BackupInv, LoadInv, ProtectInv, MarkInv DEF SwitchRegion
  <1>4. CASE Interrupt
    BY <1>4, InterruptInv
  <1>5. CASE UNCHANGED vars
    BY <1>5 DEF vars, IInv, TypeOK, StepInv, ProtInv, AgreeInv, BackupCurrent,
               Switching, Protected, At, CpuRuns
  <1> QED BY <1>1, <1>2, <1>3, <1>4, <1>5, ContentsAssumption DEF Next

\* Every reachable state satisfies the inductive invariant: what each statement
\* of set_enabled finds, and what it has done so far.
THEOREM Invariance == Spec => []IInv
  <1> QED BY InitInv, NextInv, PTL DEF Spec

\* Every variable keeps its type.
THEOREM TypeCorrect == Spec => []TypeOK
  <1>1. IInv => TypeOK
    BY DEF IInv
  <1> QED BY <1>1, Invariance, PTL

\* The protection bytes of the core and the is_on flags of the board agree, and
\* all regions agree with each other, whenever the CPU runs; after a switch that
\* was cut off they can differ on one region's addresses only.
THEOREM ProtectionMatches == Spec => []ProtectionAgrees
  <1>1. ASSUME IInv, CpuRuns, ~cut
        PROVE  ProtMatches(Addr) /\ \A r, s \in Region : isOn[r] = isOn[s]
    <2>1. \A r \in Region : (Protected(r) <=> isOn[r]) /\ r >= prom
      BY <1>1, Regions DEF CpuRuns, Protected, IInv, StepInv
    <2> QED BY <1>1, <2>1 DEF ProtMatches, IInv, ProtInv, AgreeInv
  <1>2. ASSUME IInv, cut
        PROVE  /\ ProtMatches(Addr \ Span[prom])
               /\ \A r \in Region : r < prom => isOn[r] = target
               /\ \A r, s \in Region : r > prom /\ s > prom => isOn[r] = isOn[s]
    <2>1. \A r \in Region : r # prom => (Protected(r) <=> isOn[r])
      BY DEF Protected
    <2>2. ProtMatches(Addr \ Span[prom])
      BY <1>2, <2>1 DEF ProtMatches, IInv, ProtInv
    <2>3. \A r \in Region : r > prom => r >= prom
      BY <1>2, Regions DEF IInv, TypeOK
    <2> QED BY <1>2, <2>2, <2>3 DEF IInv, AgreeInv
  <1>3. IInv => ProtectionAgrees
    BY <1>1, <1>2 DEF ProtectionAgrees
  <1> QED BY <1>3, Invariance, PTL

-----------------------------------------------------------------------------
(***************************************************************************)
(* Refinement: the step that copies a region is the abstract switch, a cut *)
(* between a chip's copying and its protection abandons it, a write is a   *)
(* write, and every other step is a stutter.                               *)
(***************************************************************************)
barVars == <<ramBar, romBar, onBar, openBar>>

LEMMA CoveredIsHidden ==
  ASSUME NEW a \in Addr
  PROVE  Banked!Covered(a) <=> Hidden(a)
  BY DEF Banked!Covered, Banked!Region, Hidden, onBar, Region

\* Under disjoint regions an address is hidden by its own region or by none.
LEMMA HiddenInSpan ==
  ASSUME NEW r \in Region, NEW a \in Span[r]
  PROVE  Hidden(a) <=> Loaded(r)
  <1>1. \A s \in Region : a \in Span[s] => s = r
    BY RegionAssumption
  <1> QED BY <1>1 DEF Hidden

\* What the mapping reads is unchanged: the step is a stutter.
LEMMA SameBar ==
  ASSUME UNCHANGED <<mem, saved>>, \A r \in Region : Loaded(r)' = Loaded(r),
         openBar' = openBar
  PROVE  UNCHANGED barVars
  <1>1. \A a \in Addr : Hidden(a)' <=> Hidden(a)
    BY DEF Hidden
  <1>2. ramBar' = ramBar /\ romBar' = romBar
    BY <1>1 DEF ramBar, romBar
  <1>3. onBar' = onBar
    BY DEF onBar
  <1> QED BY <1>2, <1>3 DEF barVars

\* No chip is open to the guest before a switch is cut off, nor while one runs.
LEMMA ClosedUntilCut ==
  ASSUME cut = FALSE, UNCHANGED cut
  PROVE  openBar = {} /\ openBar' = {}
  BY DEF openBar

LEMMA InitRefines == Init => Banked!Init
  <1> SUFFICES ASSUME Init PROVE Banked!Init
    OBVIOUS
  <1>1. \A r \in Region : Loaded(r) = TRUE
    BY DEF Init, Loaded
  <1>2. \A a \in Addr : Hidden(a) <=> \E r \in Region : a \in Span[r]
    BY <1>1 DEF Hidden
  <1>3. ramBar = [a \in Addr |-> 0]
    BY <1>2 DEF Init, ramBar
  <1>4. romBar = Chip
    <2>1. romBar = [a \in Addr |-> Chip[a]]
      BY <1>2 DEF Init, romBar
    <2> QED BY <2>1, ContentsAssumption
  <1>5. onBar = [r \in Banked!Region |-> TRUE]
    BY <1>1 DEF onBar, Banked!Region, Region
  <1>6. openBar = {}
    BY DEF Init, openBar
  <1> QED BY <1>3, <1>4, <1>5, <1>6 DEF Banked!Init

LEMMA WriteRefines ==
  ASSUME IInv, NEW a \in Addr, NEW v \in Value, mem' = [mem EXCEPT ![a] = v],
         UNCHANGED <<prot, isOn, saved, prom, step, target, cut>>
  PROVE  /\ ~Hidden(a) => /\ ramBar' = [ramBar EXCEPT ![a] = v]
                          /\ UNCHANGED <<romBar, onBar, openBar>>
         /\ Hidden(a) => /\ romBar' = [romBar EXCEPT ![a] = v]
                         /\ UNCHANGED <<ramBar, onBar, openBar>>
  <1>1. \A r : Loaded(r)' = Loaded(r)
    BY DEF Loaded
  <1>2. \A b \in Addr : Hidden(b)' <=> Hidden(b)
    BY <1>1 DEF Hidden
  <1>3. onBar' = onBar /\ openBar' = openBar
    BY <1>1 DEF onBar, openBar
  <1>4. /\ mem \in [Addr -> Value] /\ mem'[a] = v
        /\ \A b \in Addr : b # a => mem'[b] = mem[b]
    BY DEF IInv, TypeOK
  <1>5. CASE Hidden(a)
    <2>1. romBar' = [romBar EXCEPT ![a] = v]
      BY <1>2, <1>4, <1>5 DEF romBar
    <2>2. ramBar' = ramBar
      BY <1>2, <1>4, <1>5 DEF ramBar
    <2> QED BY <1>3, <1>5, <2>1, <2>2
  <1>6. CASE ~Hidden(a)
    <2>1. ramBar' = [ramBar EXCEPT ![a] = v]
      BY <1>2, <1>4, <1>6 DEF ramBar
    <2>2. romBar' = romBar
      BY <1>2, <1>4, <1>6 DEF romBar
    <2> QED BY <1>3, <1>6, <2>1, <2>2
  <1> QED BY <1>5, <1>6

LEMMA LoadRefines ==
  ASSUME IInv, Load
  PROVE  Banked!Switch(prom) /\ prom \in Banked!Region
  <1>1. /\ prom \in Region /\ step = "load" /\ step' = "protect" /\ prom' = prom
        /\ UNCHANGED <<prot, isOn, saved, target, cut>> /\ Span[prom] \subseteq Addr
        /\ target \in BOOLEAN /\ isOn[prom] = ~target /\ cut = FALSE
        /\ mem' = [a \in Addr |-> IF a \in Span[prom]
                                  THEN (IF target THEN Chip[a] ELSE saved[a]) ELSE mem[a]]
    BY InSwitch DEF Load, At, Goto, Slice, IInv, StepInv, Switching
  <1>2. /\ Loaded(prom) = ~target /\ Loaded(prom)' = target
        /\ \A r \in Region : r # prom => Loaded(r)' = Loaded(r)
    BY <1>1 DEF Loaded
  <1>3. \A a \in Span[prom] : (Hidden(a) <=> ~target) /\ (Hidden(a)' <=> target)
    <2> SUFFICES ASSUME NEW a \in Span[prom]
                 PROVE  (Hidden(a) <=> ~target) /\ (Hidden(a)' <=> target)
      OBVIOUS
    <2>1. Hidden(a) <=> ~target
      BY <1>1, <1>2, HiddenInSpan
    <2>2. \A s \in Region : a \in Span[s] => s = prom
      BY <1>1, RegionAssumption
    <2>3. Hidden(a)' <=> target
      BY <1>1, <1>2, <2>2 DEF Hidden
    <2> QED BY <2>1, <2>3
  <1>4. \A a \in Addr : a \notin Span[prom] => (Hidden(a)' <=> Hidden(a))
    BY <1>1, <1>2 DEF Hidden
  <1>5. onBar' = [onBar EXCEPT ![prom] = ~onBar[prom]]
    BY <1>1, <1>2 DEF onBar
  <1>6. ramBar' = ramBar
    <2>1. ASSUME NEW a \in Addr
          PROVE  (IF Hidden(a)' THEN saved'[a] ELSE mem'[a])
                   = (IF Hidden(a) THEN saved[a] ELSE mem[a])
      <3>1. CASE a \notin Span[prom]
        BY <1>1, <1>4, <3>1
      <3>2. CASE a \in Span[prom] /\ target
        <4>1. saved[a] = mem[a]
          BY <1>1, <3>2, Regions DEF Load, IInv, BackupCurrent
        <4> QED BY <1>1, <1>3, <3>2, <4>1
      <3>3. CASE a \in Span[prom] /\ ~target
        BY <1>1, <1>3, <3>3
      <3> QED BY <3>1, <3>2, <3>3
    <2> QED BY <2>1 DEF ramBar
  <1>7. romBar' = [a \in Addr |-> IF a \in Span[prom] THEN Chip[a] ELSE romBar[a]]
    <2>1. ASSUME NEW a \in Addr
          PROVE  (IF Hidden(a)' THEN mem'[a] ELSE Chip[a])
                   = IF a \in Span[prom] THEN Chip[a]
                     ELSE IF Hidden(a) THEN mem[a] ELSE Chip[a]
      BY <1>1, <1>3, <1>4
    <2> QED BY <2>1 DEF romBar
  <1>8. openBar = {} /\ openBar' = openBar
    BY <1>1, ClosedUntilCut
  <1> QED BY <1>1, <1>5, <1>6, <1>7, <1>8 DEF Banked!Switch, Banked!Region, Region

\* A write the protection bytes let through goes to RAM, or to the one chip that
\* an abandoned switch left open.
LEMMA GuestWriteRefines ==
  ASSUME IInv, NEW a \in Addr, NEW v \in Value, CpuWrite(a, v), ~prot[a]
  PROVE  Banked!Next
  <1>1. /\ CpuRuns /\ mem' = [mem EXCEPT ![a] = v]
        /\ UNCHANGED <<prot, isOn, saved, prom, step, target, cut>>
    BY DEF CpuWrite
  <1>2. \A r \in Region : a \in Span[r] => ~Protected(r)
    BY DEF IInv, ProtInv
  <1>3. CASE ~Hidden(a)
    <2>1. Banked!CpuWrite(a, v)
      BY <1>1, <1>3, WriteRefines, CoveredIsHidden DEF Banked!CpuWrite
    <2> QED BY <2>1 DEF Banked!Next
  <1>4. CASE Hidden(a)
    <2>1. PICK r \in Region : Loaded(r) /\ a \in Span[r]
      BY <1>4 DEF Hidden
    <2>2. ~Protected(r)
      BY <1>2, <2>1
    <2>3. prom = r /\ step = "protect" /\ target
      BY <2>1, <2>2 DEF Loaded, Protected
    <2>4. cut
      BY <1>1, <2>1, <2>3, Regions DEF CpuRuns
    <2>5. openBar = {r}
      BY <2>3, <2>4 DEF openBar
    <2>6. Banked!Writable(a)
      BY <2>1, <2>5 DEF Banked!Writable
    <2>7. Banked!CpuWrite(a, v)
      BY <1>1, <1>4, <2>6, WriteRefines DEF Banked!CpuWrite
    <2> QED BY <2>7 DEF Banked!Next
  <1> QED BY <1>3, <1>4

\* A cut between a chip's copying and its protection abandons the switch; any
\* other cut shows in no variable of the abstract memory.
LEMMA InterruptRefines ==
  ASSUME IInv, Interrupt
  PROVE  [Banked!Next]_barVars
  <1>1. /\ prom \in Region /\ cut = FALSE /\ cut' = TRUE
        /\ UNCHANGED <<mem, prot, isOn, saved, prom, step, target>>
    BY InSwitch DEF Interrupt
  <1>2. UNCHANGED <<mem, saved>> /\ \A r \in Region : Loaded(r)' = Loaded(r)
    BY <1>1 DEF Loaded
  <1>3. openBar = {}
    BY <1>1 DEF openBar
  <1>4. CASE step = "protect" /\ target
    <2>1. openBar' = {prom} /\ onBar[prom]
      BY <1>1, <1>4 DEF openBar, onBar, Loaded
    <2>2. ramBar' = ramBar /\ romBar' = romBar /\ onBar' = onBar
      BY <1>2 DEF Hidden, ramBar, romBar, onBar
    <2>3. Banked!Abandon(prom) /\ prom \in Banked!Region
      BY <1>1, <1>3, <2>1, <2>2 DEF Banked!Abandon, Banked!Region, Region
    <2> QED BY <2>3 DEF Banked!Next
  <1>5. CASE ~(step = "protect" /\ target)
    <2>1. openBar' = {}
      BY <1>1, <1>5 DEF openBar
    <2> QED BY <1>2, <1>3, <2>1, SameBar
  <1> QED BY <1>4, <1>5

LEMMA StepRefines == IInv /\ [Next]_vars => [Banked!Next]_barVars
  <1> SUFFICES ASSUME IInv, [Next]_vars PROVE [Banked!Next]_barVars
    OBVIOUS
  <1>1. ASSUME NEW a \in Addr, NEW v \in Value, CpuWrite(a, v)
        PROVE  [Banked!Next]_barVars
    <2>1. CASE prot[a]
      BY <1>1, <2>1, SameBar DEF CpuWrite, Loaded, openBar
    <2>2. CASE ~prot[a]
      BY <1>1, <2>2, GuestWriteRefines
    <2> QED BY <2>1, <2>2
  <1>2. ASSUME NEW a \in PokeAddr, NEW v \in Value, Poke(a, v)
        PROVE  [Banked!Next]_barVars
    <2>1. Banked!Poke(a, v)
      BY <1>2, ContentsAssumption, WriteRefines, CoveredIsHidden DEF Poke, Banked!Poke
    <2> QED BY <2>1 DEF Banked!Next
  <1>3. ASSUME NEW val \in 0..1, SetPromsEnabled(val)
        PROVE  UNCHANGED barVars
    <2>1. /\ UNCHANGED <<mem, saved>> /\ \A r \in Region : Loaded(r)' = Loaded(r)
          /\ cut = FALSE /\ UNCHANGED cut
      BY <1>3 DEF SetPromsEnabled, CpuRuns, Loaded, IInv, TypeOK, StepInv
    <2> QED BY <2>1, SameBar, ClosedUntilCut
  <1>4. CASE Check
    <2>1. /\ UNCHANGED <<mem, saved>> /\ \A r \in Region : Loaded(r)' = Loaded(r)
          /\ cut = FALSE /\ UNCHANGED cut
      BY <1>4, InSwitch DEF Check, At, NextRegion, Goto, Loaded
    <2> QED BY <2>1, SameBar, ClosedUntilCut
  <1>5. CASE Backup
    <2>1. /\ prom \in Region /\ UNCHANGED mem /\ \A r \in Region : Loaded(r)' = Loaded(r)
          /\ ~Loaded(prom) /\ cut = FALSE /\ UNCHANGED cut
          /\ saved' = [a \in Addr |-> IF a \in Span[prom] THEN mem[a] ELSE saved[a]]
      BY <1>5, InSwitch DEF Backup, At, Goto, Slice, Loaded, IInv, StepInv, Switching
    <2>2. \A a \in Addr : Hidden(a)' <=> Hidden(a)
      BY <2>1 DEF Hidden
    <2>3. \A a \in Addr : Hidden(a) => a \notin Span[prom]
      BY <2>1, HiddenInSpan
    <2>4. ramBar' = ramBar /\ romBar' = romBar
      BY <2>1, <2>2, <2>3 DEF ramBar, romBar
    <2>5. onBar' = onBar
      BY <2>1 DEF onBar
    <2>6. openBar' = openBar
      BY <2>1, ClosedUntilCut
    <2> QED BY <2>4, <2>5, <2>6 DEF barVars
  <1>6. CASE Load
    BY <1>6, LoadRefines DEF Banked!Next
  <1>7. CASE Protect
    <2>1. /\ UNCHANGED <<mem, saved>> /\ \A r \in Region : Loaded(r)' = Loaded(r)
          /\ cut = FALSE /\ UNCHANGED cut
      BY <1>7, InSwitch DEF Protect, At, Goto, Loaded
    <2> QED BY <2>1, SameBar, ClosedUntilCut
  <1>8. CASE Mark
    <2>1. /\ prom \in Region /\ step = "mark" /\ step' = "check" /\ UNCHANGED <<mem, saved>>
          /\ isOn' = [isOn EXCEPT ![prom] = target] /\ isOn \in [Region -> BOOLEAN]
          /\ cut = FALSE /\ UNCHANGED cut
      BY <1>8, InSwitch DEF Mark, At, NextRegion, IInv, TypeOK
    <2>2. \A r \in Region : Loaded(r)' = Loaded(r)
      BY <2>1 DEF Loaded
    <2> QED BY <2>1, <2>2, SameBar, ClosedUntilCut
  <1>9. CASE Interrupt
    BY <1>9, InterruptRefines
  <1>10. CASE UNCHANGED vars
    BY <1>10, SameBar DEF vars, Loaded, openBar
  <1> QED BY <1>1, <1>2, <1>3, <1>4, <1>5, <1>6, <1>7, <1>8, <1>9, <1>10
          DEF Next, SwitchRegion

\* For any layout of disjoint PROM regions, the emulator's copying in and out of
\* one flat array is indistinguishable from RAM under switchable chips; a switch
\* cut off by Ctrl-C leaves at most one chip open, and no RAM byte lost.
THEOREM Refinement == Spec => ImplementsBankedMemory
  <1>1. IInv /\ [Next]_vars => [Banked!Next]_<<ramBar, romBar, onBar, openBar>>
    BY StepRefines DEF barVars
  <1> QED BY <1>1, InitRefines, Invariance, PTL
          DEF Spec, Banked!Spec, ImplementsBankedMemory
=============================================================================
