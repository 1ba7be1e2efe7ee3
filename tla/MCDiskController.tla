-------------------------- MODULE MCDiskController --------------------------
(***************************************************************************)
(* DiskController for TLC: all seven control words the code knows and one  *)
(* it ignores, head steps both ways, and a drive number with no image.     *)
(***************************************************************************)
EXTENDS DiskController

\* 0x41 0x49 0xc9 0xa1 0xa8 0xa9 0xad, and 0xc1, which the PROM writes last
MCCW1Values == {65, 73, 201, 161, 168, 169, 173, 193}

\* two diskettes, one of them blank
MCDiskettes == {[p \in Position |-> [i \in 1 .. SECTOR_SIZE |-> b]] : b \in Bytes}

\* select, step in, step out, arm a write on the first drive; select one
\* that has no image
MCCW2Values == {64, 112, 96, 192, 64 + NDRIVES}
=============================================================================
