----------------------------- MODULE DiskDrive -----------------------------
(***************************************************************************)
(* One simulated 8" drive of the DIM-1030 controller (class DiskDrive of   *)
(* devices/disk.py) as a record, and its methods as operators from records *)
(* to records.  The state machines that use it are DiskController (an      *)
(* arbitrary guest) and MonitorDisk (the monitor PROM's read and write     *)
(* routines).                                                              *)
(***************************************************************************)
EXTENDS Integers, Sequences

CONSTANTS TRACKS,       \* tracks 0 .. TRACKS-1   (77 in image.py)
          SECTORS,      \* sectors 1 .. SECTORS   (26)
          SECTOR_SIZE,  \* bytes in a sector      (128)
          Bytes         \* the byte values a sector may hold

ASSUME GeometryAssumption ==
  /\ TRACKS \in Nat \ {0}
  /\ SECTORS \in Nat \ {0}
  /\ SECTOR_SIZE \in Nat \ {0}

ASSUME BytesAssumption == Bytes \subseteq 0..255

Track    == 0 .. TRACKS - 1
SectorNo == 1 .. SECTORS
Position == Track \X SectorNo
Sector   == [1 .. SECTOR_SIZE -> Bytes]

MARK_HDR  == 254
MARK_DATA == 251

\* The byte counts at which the code stops telling one value from the next:
\* a header scan answers 0 for ever past hpos 16, and done() stops a data scan
\* two bytes after the first CRC byte.
HPOS_END == 17
DPOS_END == SECTOR_SIZE + 3

\* The attributes wbuf and data do not exist before the first prepare_write and
\* the first sector fetch: prepared = FALSE, and an empty data.
WriteBuffer  == Seq(Bytes)
SectorBuffer == Sector \cup {<<>>}
DriveState   == {"inactive", "hdr", "data"}
HeaderCount  == -1 .. HPOS_END
DataCount    == -2 .. DPOS_END

DriveType ==
  [track : Track, sector : SectorNo, state : DriveState,
   hpos : HeaderCount, dpos : DataCount,
   at_mark : BOOLEAN, at_crc : BOOLEAN, mark_seen : BOOLEAN,
   prepared : BOOLEAN, wbuf : WriteBuffer, data : SectorBuffer]

-----------------------------------------------------------------------------
(***************************************************************************)
(* The head and the scan phases.                                           *)
(***************************************************************************)
SetAtState(drv, mark, crc) == [drv EXCEPT !.at_mark = mark, !.at_crc = crc]

Reset(drv) ==
  SetAtState([drv EXCEPT !.hpos = -1, !.dpos = -2, !.mark_seen = FALSE,
                         !.state = "inactive"], TRUE, FALSE)

NewDrive ==
  Reset([track |-> 0, sector |-> 1, state |-> "inactive", hpos |-> -1, dpos |-> -2,
         at_mark |-> TRUE, at_crc |-> FALSE, mark_seen |-> FALSE,
         prepared |-> FALSE, wbuf |-> <<>>, data |-> <<>>])

\* The third phase of start(): a scan begun while a data field is under the head
\* turns the drive inactive with no address mark.
Start(drv) ==
  LET fresh == [drv EXCEPT !.mark_seen = FALSE]
  IN  CASE drv.state = "inactive" -> SetAtState([fresh EXCEPT !.state = "hdr"], TRUE, FALSE)
        [] drv.state = "hdr"      -> SetAtState([fresh EXCEPT !.state = "data"], TRUE, FALSE)
        [] drv.state = "data"     -> SetAtState([fresh EXCEPT !.state = "inactive"], FALSE, FALSE)

Clamp(n, low, high) == IF n < low THEN low ELSE IF n > high THEN high ELSE n

StepTrack(drv, direction) ==
  Reset([drv EXCEPT !.track = Clamp(drv.track + direction, 0, TRACKS - 1), !.sector = 1])

\* Mutant: the sector counter wraps one sector early.
AdvanceSectorShort(drv) ==
  Reset([drv EXCEPT !.sector = IF drv.sector + 1 >= SECTORS THEN 1 ELSE drv.sector + 1])

AdvanceSector(drv) ==
  Reset([drv EXCEPT !.sector = IF drv.sector + 1 > SECTORS THEN 1 ELSE drv.sector + 1])

\* Mutant: the sector is not advanced, so the third phase of start() is reached.
BeginReadPhaseStuck(drv) == Start(drv)

\* inactive -> header -> data -> header of the next sector
BeginReadPhase(drv) ==
  Start(IF drv.state = "data" THEN AdvanceSector(drv) ELSE drv)

-----------------------------------------------------------------------------
(***************************************************************************)
(* Reading.  A byte read is a value and a successor record.                *)
(***************************************************************************)
StatusRead(drv) == IF drv.at_mark THEN [drv EXCEPT !.mark_seen = TRUE] ELSE drv

\* Mutant: the scan never ends.
DoneNever(drv) == FALSE

Done(drv) == drv.dpos > SECTOR_SIZE + 2

\* DIM-1001 issues a priming read before it polls the status: that read must
\* not consume the header mark.
HeaderWaits(drv) == drv.hpos = -1 /\ drv.at_mark /\ ~drv.mark_seen

HeaderByte(drv) ==
  LET h == drv.hpos + 1
  IN  IF HeaderWaits(drv) THEN 0
      ELSE CASE h = 0 -> MARK_HDR
             [] h = 1 -> drv.track
             [] h = 3 -> drv.sector
             [] OTHER -> 0

\* Mutant: a priming read consumes the header mark.
AfterHeaderBytePrimed(drv) ==
  LET h    == drv.hpos + 1
      next == [drv EXCEPT !.hpos = IF h > HPOS_END THEN HPOS_END ELSE h]
  IN  CASE h \in {0, 16}      -> SetAtState(next, TRUE, FALSE)
        [] h = 4              -> SetAtState(next, FALSE, TRUE)
        [] h \in {2, 3, 5, 6} -> next
        [] OTHER              -> SetAtState(next, FALSE, FALSE)

AfterHeaderByte(drv) ==
  LET h    == drv.hpos + 1
      next == [drv EXCEPT !.hpos = IF h > HPOS_END THEN HPOS_END ELSE h]
  IN  IF HeaderWaits(drv) THEN drv
      ELSE CASE h \in {0, 16}      -> SetAtState(next, TRUE, FALSE)
             [] h = 4              -> SetAtState(next, FALSE, TRUE)
             [] h \in {2, 3, 5, 6} -> next
             [] OTHER              -> SetAtState(next, FALSE, FALSE)

\* Mutant: the image is read again for every byte instead of once per sector.
DataByteUnbuffered(drv, stored) ==
  CASE drv.dpos = -1                   -> MARK_DATA
    [] drv.dpos \in 0..SECTOR_SIZE - 1 -> stored[drv.dpos + 1]
    [] OTHER                           -> 0

\* stored is what the disk image holds for the sector under the head: it is
\* fetched as one sector when the first data byte is asked for.
DataByte(drv, stored) ==
  CASE drv.dpos = -1                   -> MARK_DATA
    [] drv.dpos = 0                    -> stored[1]
    [] drv.dpos \in 1..SECTOR_SIZE - 1 -> drv.data[drv.dpos + 1]
    [] OTHER                           -> 0

\* Mutant: the CRC flag is raised one byte early.
AfterDataByteEarlyCrc(drv, stored) ==
  LET next == [drv EXCEPT !.dpos = drv.dpos + 1,
                          !.data = IF drv.dpos = 0 THEN stored ELSE drv.data]
  IN  CASE drv.dpos = -2                   -> SetAtState(next, TRUE, FALSE)
        [] drv.dpos = SECTOR_SIZE - 2      -> SetAtState(next, FALSE, TRUE)
        [] drv.dpos \in 0..SECTOR_SIZE - 1 -> SetAtState(next, FALSE, FALSE)
        [] OTHER                           -> next

\* Mutant: the sector is not kept, as if it were fetched one byte too late.
AfterDataByteUnkept(drv, stored) ==
  [drv EXCEPT !.dpos = drv.dpos + 1,
              !.at_mark = drv.dpos < 0,
              !.at_crc = drv.dpos >= SECTOR_SIZE - 1]

AfterDataByte(drv, stored) ==
  LET next == [drv EXCEPT !.dpos = drv.dpos + 1,
                          !.data = IF drv.dpos = 0 THEN stored ELSE drv.data]
  IN  CASE drv.dpos = -2                   -> SetAtState(next, TRUE, FALSE)
        [] drv.dpos = SECTOR_SIZE - 1      -> SetAtState(next, FALSE, TRUE)
        [] drv.dpos \in 0..SECTOR_SIZE - 2 -> SetAtState(next, FALSE, FALSE)
        [] OTHER                           -> next

ReadByte(drv, stored) ==
  CASE drv.state = "hdr"      -> HeaderByte(drv)
    [] drv.state = "data"     -> DataByte(drv, stored)
    [] drv.state = "inactive" -> 0

AfterRead(drv, stored) ==
  CASE drv.state = "hdr"      -> AfterHeaderByte(drv)
    [] drv.state = "data"     -> AfterDataByte(drv, stored)
    [] drv.state = "inactive" -> drv

-----------------------------------------------------------------------------
(***************************************************************************)
(* Writing.  A sector is gathered in wbuf and handed to the image whole.   *)
(* The two guards are the code's three ways to fail: no buffer yet, a      *)
(* buffer that is full, and a buffer that is not.                          *)
(***************************************************************************)
\* Mutant: the old bytes stay in the buffer.
PrepareWriteKeeping(drv) == [drv EXCEPT !.prepared = TRUE]

PrepareWrite(drv) == [drv EXCEPT !.prepared = TRUE, !.wbuf = <<>>]

CanAddByte(drv) == drv.prepared /\ Len(drv.wbuf) < SECTOR_SIZE

WriteAddByte(drv, b) == [drv EXCEPT !.wbuf = Append(drv.wbuf, b)]

CanCommit(drv) == drv.prepared /\ Len(drv.wbuf) = SECTOR_SIZE

CommitWrite(drv) == [drv EXCEPT !.data = drv.wbuf]
=============================================================================
