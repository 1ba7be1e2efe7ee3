---------------------------- MODULE BankedMemory ----------------------------
(***************************************************************************)
(* What the class comment of PromRegion promises the guest: PROM chips     *)
(* over RAM.  RAM lives under each chip and is hidden while the chip is    *)
(* on; the guest cannot write a chip, and switching a chip on or off       *)
(* changes what is visible and nothing else.  The last switch may be       *)
(* abandoned: then at most one chip that is on is left open to the guest,  *)
(* and the RAM under it is still its own.                                  *)
(***************************************************************************)
EXTENDS Integers

CONSTANTS Addr, Value, PokeAddr,
          NREGIONS,   \* the chips are 1 .. NREGIONS
          Span,       \* Span[r]: the addresses chip r covers
          Chip        \* Chip[a]: what a chip holds at address a

VARIABLES ram,   \* the RAM, under the chips too
          rom,   \* what a chip that is on shows
          on,    \* which chips are on
          open   \* the chip an abandoned switch left writable, if any

Region == 1 .. NREGIONS

Covered(a) == \E r \in Region : on[r] /\ a \in Span[r]
Writable(a) == \E r \in open : a \in Span[r]

Init ==
  /\ ram = [a \in Addr |-> 0]
  /\ rom = Chip
  /\ on = [r \in Region |-> TRUE]
  /\ open = {}

\* The guest writes: a chip ignores it.
CpuWrite(a, v) ==
  /\ \/ /\ ~Covered(a)
        /\ ram' = [ram EXCEPT ![a] = v]
        /\ UNCHANGED rom
     \/ /\ Writable(a)
        /\ rom' = [rom EXCEPT ![a] = v]
        /\ UNCHANGED ram
  /\ UNCHANGED <<on, open>>

\* The debugger writes whatever is visible at its addresses.
Poke(a, v) ==
  /\ \/ /\ Covered(a)
        /\ rom' = [rom EXCEPT ![a] = v]
        /\ UNCHANGED ram
     \/ /\ ~Covered(a)
        /\ ram' = [ram EXCEPT ![a] = v]
        /\ UNCHANGED rom
  /\ UNCHANGED <<on, open>>

\* A chip shows its own contents whenever it is switched on.
Switch(r) ==
  /\ open = {}
  /\ on' = [on EXCEPT ![r] = ~on[r]]
  /\ rom' = [a \in Addr |-> IF a \in Span[r] THEN Chip[a] ELSE rom[a]]
  /\ UNCHANGED <<ram, open>>

\* A switch is given up between showing a chip and closing it to the guest.
Abandon(r) ==
  /\ on[r] /\ open = {}
  /\ open' = {r}
  /\ UNCHANGED <<ram, rom, on>>

Next ==
  \/ \E a \in Addr, v \in Value : CpuWrite(a, v)
  \/ \E a \in PokeAddr, v \in Value : Poke(a, v)
  \/ \E r \in Region : Switch(r) \/ Abandon(r)

Spec == Init /\ [][Next]_<<ram, rom, on, open>>
=============================================================================
