----------------------------- MODULE SectorStore -----------------------------
(***************************************************************************)
(* What the disk controller may rely on: an array of sectors behind one    *)
(* image file.  A read returns what the array holds, a write changes one   *)
(* sector and is durable when it returns, the host changes diskettes as it *)
(* likes between operations, and a crash loses at most what never reached  *)
(* a file.                                                                 *)
(***************************************************************************)
EXTENDS Naturals

CONSTANTS Position, Sector, Blank   \* Blank: the sector of zeros

VARIABLES media,     \* the sectors, as a read returns them
          inserted,  \* whether they are in a file
          whole,     \* whether the emulator would start with that file, or none
          up,        \* whether the emulator runs
          last,      \* what the last read returned
          epoch      \* grows with everything the host does to the file

vars == <<media, inserted, whole, up, last, epoch>>

Image == [Position -> Sector]
BlankImage == [p \in Position |-> Blank]

Init ==
  /\ media = BlankImage
  /\ inserted = FALSE
  /\ whole = TRUE
  /\ up = TRUE
  /\ last = Blank
  /\ epoch = 0

Read(p) ==
  /\ up
  /\ last' = media[p]
  /\ UNCHANGED <<media, inserted, whole, up, epoch>>

\* A file that is there keeps its length; one that was not is created whole.
Write(p, s) ==
  /\ up
  /\ media' = [media EXCEPT ![p] = s]
  /\ inserted' = TRUE
  /\ UNCHANGED <<whole, up, last, epoch>>

\* The host may do anything to the file.
Host ==
  /\ epoch' > epoch
  /\ media' \in Image
  /\ inserted' \in BOOLEAN
  /\ whole' \in BOOLEAN
  /\ UNCHANGED <<up, last>>

\* What is in a file survives.  Only the creation of a missing file can leave
\* one that the emulator refuses to start with.
Crash ==
  /\ up /\ up' = FALSE
  /\ \/ /\ inserted
        /\ UNCHANGED <<media, inserted, whole>>
     \/ /\ ~inserted
        /\ media' = BlankImage
        /\ \/ UNCHANGED <<inserted, whole>>
           \/ inserted' = TRUE /\ whole' = FALSE
  /\ UNCHANGED <<last, epoch>>

Restart ==
  /\ ~up /\ whole
  /\ up' = TRUE
  /\ UNCHANGED <<media, inserted, whole, last, epoch>>

Next ==
  \/ \E p \in Position : Read(p) \/ \E s \in Sector : Write(p, s)
  \/ Host \/ Crash \/ Restart

Spec == Init /\ [][Next]_vars
=============================================================================
