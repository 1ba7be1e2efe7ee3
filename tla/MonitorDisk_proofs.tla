------------------------- MODULE MonitorDisk_proofs -------------------------
(***************************************************************************)
(* The monitor PROM's disk routines on the controller, for every geometry, *)
(* number of drives, gap, payload and set of diskettes: they never fail,   *)
(* never make the controller raise, and implement the sector service.      *)
(*                                                                         *)
(* The invariant says, for every place of the routine, where the head of   *)
(* the selected drive is, that it is over the wanted sector once that has  *)
(* been found, that the headers that may still be counted reach to it, and *)
(* that the bytes transferred are the front of the sector.  The controller *)
(* and drive lemmas are those of DiskController_proofs.                    *)
(***************************************************************************)
EXTENDS MonitorDisk, DiskController_proofs

SeekPlaces   == {"offtrack", "offcrc", "offstatus", "in1", "in2", "in3", "out1", "out2"}
SearchPlaces == {"arm", "run", "wait", "mark", "track", "side", "sector", "ontrack"}
CrcPlaces    == {"crc", "crcstatus", "gap"}
ReadPlaces   == {"darm", "drun", "dprime", "dwait", "dmark", "data", "dcrc", "dstatus"}
WritePlaces  == {"w1", "w2", "w3", "w4", "w5", "w6", "w7", "wdata", "commit",
                 "wcrc", "wend1", "wend2"}
FoundPlaces  == CrcPlaces \cup ReadPlaces \cup WritePlaces
Places       == {"idle", "select"} \cup SearchPlaces \cup SeekPlaces \cup FoundPlaces

\* The request and the registers; only the places reached have a request selected.
RegistersInv ==
  /\ mpc \in Places
  /\ mpc = "idle" => request = NoRequest
  /\ mpc # "idle" => request \in Reads \cup Writes
  /\ mpc \in ReadPlaces => request.op = "read"
  /\ mpc \in WritePlaces => request.op = "write"
  /\ mpc \notin {"idle", "select"} => drive_no = request.drive
  /\ mpc \notin {"idle", "select", "arm", "run", "drun"} => rd_state = "run"
  /\ mpc = "select" => wrong = SECTORS
  /\ wrong \in Nat /\ hdrTrack \in Nat /\ hdrSector \in Nat /\ count \in Nat
  /\ requests \in Nat /\ swaps \in Nat

\* A drive no routine is at the header of: its next scan is a new header, or a
\* data field that the routine takes for none.
AtRest(drv) == drv.state = "hdr" => drv.hpos >= 4

ParkedInv ==
  \A d \in Drive : AtRest(drives[d]) \/ (mpc \notin {"idle", "select"} /\ d = drive_no)

\* Where the head is at every place of the routine.
InHeader(n) == drive.state = "hdr" /\ drive.hpos = n
InField(n)  == drive.state = "data" /\ drive.dpos = n

HeadInv ==
  /\ mpc \in {"arm", "run", "in1", "in2", "in3", "out1", "out2"} => AtRest(drive)
  /\ mpc \in {"wait", "mark"} => InHeader(-1) \/ InField(-2)
  /\ mpc = "mark" /\ drive.state = "hdr" => drive.mark_seen
  /\ mpc = "track" => InHeader(0)
  /\ mpc = "side" => InHeader(1)
  /\ mpc = "sector" => InHeader(2)
  /\ mpc \in {"ontrack", "offtrack"} => InHeader(3)
  /\ mpc \in {"crc", "offcrc"} => InHeader(4)
  /\ mpc \in {"crcstatus", "offstatus"} => InHeader(5)
  /\ mpc \in {"gap", "darm", "drun"} \cup WritePlaces => drive.state = "hdr" /\ drive.hpos >= 5
  /\ mpc = "dprime" => InField(-2)
  /\ mpc \in {"dwait", "dmark"} => InField(-1)
  /\ mpc = "data" => InField(Len(got))
  /\ mpc = "dcrc" => InField(SECTOR_SIZE)
  /\ mpc = "dstatus" => InField(SECTOR_SIZE + 1)

\* The header's bytes are the head's place, and what was found is what is wanted.
HeaderInv ==
  /\ mpc \in {"side", "sector", "ontrack"} => hdrTrack = drive.track
  /\ mpc = "ontrack" => hdrSector = drive.sector /\ hdrTrack = wantedTrack
  /\ mpc \in {"offtrack", "offcrc", "offstatus"} => hdrTrack # wantedTrack
  /\ mpc \in FoundPlaces => drive.track = wantedTrack /\ drive.sector = wantedSector
  /\ mpc \in {"in1", "in2", "in3", "out1", "out2"} => count # 0

\* The next header that will go by, and how many sectors away the wanted one is.
Successor(s) == IF s + 1 > SECTORS THEN 1 ELSE s + 1
NextHeader(drv) ==
  IF drv.state = "inactive" \/ (drv.state = "hdr" /\ drv.hpos < 4)
  THEN drv.sector ELSE Successor(drv.sector)
Distance(s, t) == IF s <= t THEN t - s ELSE t - s + SECTORS

\* The headers that may still be counted reach to the sector that is wanted.
SearchInv ==
  mpc \in SearchPlaces => Distance(NextHeader(drive), wantedSector) < wrong

\* The bytes read so far are the front of the sector that was fetched.
FieldInv ==
  /\ mpc \notin {"idle", "data", "dcrc", "dstatus"} => got = <<>>
  /\ mpc = "data" => Len(got) < SECTOR_SIZE
  /\ mpc \in {"dcrc", "dstatus"} => Len(got) = SECTOR_SIZE
  /\ mpc \in {"data", "dcrc", "dstatus"} =>
       got \in Seq(Bytes) /\ \A i \in 1 .. Len(got) : got[i] = drive.data[i]

\* The bytes written so far are the front of the payload, in a buffer made for them.
BufferInv ==
  /\ mpc \in {"w4", "w6", "wcrc"} => wr_state # "wdata"
  /\ mpc = "wdata" =>
       /\ wr_state = "wdata" /\ drive.prepared
       /\ count \in 1 .. SECTOR_SIZE /\ Len(drive.wbuf) = count - 1
       /\ \A i \in 1 .. count - 1 : drive.wbuf[i] = Payload[i]
  /\ mpc = "commit" => drive.prepared /\ drive.wbuf = Payload

MInv ==
  /\ IInv
  /\ err = "none"
  /\ RegistersInv /\ ParkedInv /\ HeadInv /\ HeaderInv /\ SearchInv /\ FieldInv /\ BufferInv

-----------------------------------------------------------------------------
(***************************************************************************)
(* What each method of a drive does to the head, exactly.                  *)
(***************************************************************************)
\* What no read and no command of a scan touches.
Stays(r, drv) ==
  /\ r.track = drv.track /\ r.sector = drv.sector
  /\ r.prepared = drv.prepared /\ r.wbuf = drv.wbuf

\* reset(): inactive, over the same sector.
LEMMA ResetHead ==
  ASSUME NEW drv \in DriveType, NEW s, NEW r,
         r = Reset([drv EXCEPT !.sector = s])
  PROVE  /\ r.state = "inactive" /\ r.hpos = -1
         /\ r.track = drv.track /\ r.sector = s
BY DEF Reset, SetAtState, DriveType

\* A scan begun on a drive at rest is over a header that has not gone by, or over a
\* field whose header has; the next header to come is the same as before.
LEMMA BeginReadPhaseHead ==
  ASSUME NEW drv, DriveInv(drv), AtRest(drv), NEW r, r = BeginReadPhase(drv)
  PROVE  /\ (r.state = "hdr" /\ r.hpos = -1) \/ (r.state = "data" /\ r.dpos = -2)
         /\ drv.state = "hdr" => r.state = "data" /\ Stays(r, drv)
         /\ NextHeader(r) = NextHeader(drv)
         /\ r.track = drv.track
<1>1. drv \in DriveType /\ drv.state \in {"inactive", "hdr", "data"}
  BY DEF DriveInv, DriveType, DriveState
<1>2. CASE drv.state = "inactive"
  <2>1. r = [drv EXCEPT !.mark_seen = FALSE, !.state = "hdr", !.at_mark = TRUE, !.at_crc = FALSE]
    BY <1>1, <1>2 DEF BeginReadPhase, Start, SetAtState, DriveType
  <2>2. r.state = "hdr" /\ r.hpos = -1 /\ Stays(r, drv)
    BY <1>1, <1>2, <2>1 DEF DriveInv, DriveType, Stays
  <2> QED BY <1>2, <2>2 DEF NextHeader, Stays
<1>3. CASE drv.state = "hdr"
  <2>1. r = [drv EXCEPT !.mark_seen = FALSE, !.state = "data", !.at_mark = TRUE, !.at_crc = FALSE]
    BY <1>1, <1>3 DEF BeginReadPhase, Start, SetAtState, DriveType
  <2>2. r.state = "data" /\ r.dpos = -2 /\ Stays(r, drv)
    BY <1>1, <1>3, <2>1 DEF DriveInv, DriveType, Stays
  <2>3. drv.hpos \in Int /\ drv.hpos >= 4
    BY <1>1, <1>3 DEF DriveType, HeaderCount, HPOS_END, AtRest
  <2> QED BY <1>3, <2>2, <2>3 DEF NextHeader, Stays
<1>4. CASE drv.state = "data"
  <2> DEFINE moved == AdvanceSector(drv)
  <2>1. moved = Reset([drv EXCEPT !.sector = Successor(drv.sector)])
    BY DEF AdvanceSector, Successor
  <2> HIDE DEF moved
  <2>2. /\ moved.state = "inactive" /\ moved.track = drv.track
        /\ moved.sector = Successor(drv.sector) /\ moved.hpos = -1
    BY <1>1, <2>1, ResetHead
  <2>3. DriveInv(moved) /\ moved \in DriveType
    BY AdvanceSectorInv DEF DriveInv, moved
  <2>4. r = Start(moved)
    BY <1>4 DEF BeginReadPhase, moved
  <2>5. r = [moved EXCEPT !.mark_seen = FALSE, !.state = "hdr", !.at_mark = TRUE, !.at_crc = FALSE]
    BY <2>2, <2>3, <2>4 DEF Start, SetAtState, DriveType
  <2>6. /\ r.state = "hdr" /\ r.hpos = -1 /\ r.track = drv.track
        /\ r.sector = Successor(drv.sector)
    BY <2>2, <2>3, <2>5 DEF DriveType
  <2> QED BY <1>4, <2>6 DEF NextHeader
<1> QED BY <1>1, <1>2, <1>3, <1>4

\* A byte of a header whose mark has been seen moves the head to the next byte; the
\* first bytes are the mark, the track and the sector.
LEMMA HeaderByteHead ==
  ASSUME NEW drv, DriveInv(drv), drv.state = "hdr", drv.hpos = -1 => drv.mark_seen,
         NEW r, r = AfterHeaderByte(drv)
  PROVE  /\ r.state = "hdr" /\ Stays(r, drv)
         /\ r.hpos = IF drv.hpos = HPOS_END THEN HPOS_END ELSE drv.hpos + 1
         /\ drv.hpos = -1 => HeaderByte(drv) = MARK_HDR
         /\ drv.hpos = 0 => HeaderByte(drv) = drv.track
         /\ drv.hpos = 2 => HeaderByte(drv) = drv.sector
<1> DEFINE h == drv.hpos + 1
           hp == IF h > HPOS_END THEN HPOS_END ELSE h
           next == [drv EXCEPT !.hpos = hp]
<1>1. drv \in DriveType /\ drv.hpos \in -1 .. 17 /\ ~HeaderWaits(drv)
  BY DEF DriveInv, DriveType, HeaderCount, HPOS_END, HeaderWaits
<1>2. next \in DriveType /\ next.state = "hdr" /\ Stays(next, drv) /\ next.hpos = hp
  <2>1. hp \in HeaderCount  BY <1>1 DEF HeaderCount, HPOS_END
  <2> QED BY <1>1, <2>1 DEF DriveType, Stays
<1>3. r \in {next, AtMarkOf(next), AtCrcOf(next), AtNothing(next)}
  BY <1>1 DEF AfterHeaderByte, SetAtState, AtMarkOf, AtCrcOf, AtNothing
<1> HIDE DEF next
<1>4. r.state = "hdr" /\ Stays(r, drv) /\ r.hpos = hp
  BY <1>2, <1>3 DEF AtMarkOf, AtCrcOf, AtNothing, SetAtState, DriveType, Stays
<1>5. hp = IF drv.hpos = HPOS_END THEN HPOS_END ELSE drv.hpos + 1
  BY <1>1 DEF HPOS_END
<1>6. /\ drv.hpos = -1 => HeaderByte(drv) = MARK_HDR
      /\ drv.hpos = 0 => HeaderByte(drv) = drv.track
      /\ drv.hpos = 2 => HeaderByte(drv) = drv.sector
  BY <1>1 DEF HeaderByte
<1> QED BY <1>4, <1>5, <1>6

\* A byte of a data field moves the head to the next byte, and the first byte of the
\* sector fetches all of it.
LEMMA DataByteHead ==
  ASSUME NEW drv, DriveInv(drv), drv.state = "data", ~Done(drv), NEW stored,
         NEW r, r = AfterDataByte(drv, stored)
  PROVE  /\ r.state = "data" /\ r.dpos = drv.dpos + 1 /\ Stays(r, drv)
         /\ r.data = IF drv.dpos = 0 THEN stored ELSE drv.data
         /\ drv.dpos = -2 => DataByte(drv, stored) = 0
         /\ drv.dpos = -1 => DataByte(drv, stored) = MARK_DATA
         /\ drv.dpos \in 0 .. SECTOR_SIZE - 1 => DataByte(drv, stored) = r.data[drv.dpos + 1]
<1> DEFINE p == drv.dpos + 1
           sec == IF drv.dpos = 0 THEN stored ELSE drv.data
           next == [drv EXCEPT !.dpos = p, !.data = sec]
<1>1. drv \in DriveType /\ drv.dpos \in Int /\ SECTOR_SIZE \in Nat \ {0}
  BY GeometryAssumption DEF DriveInv, DriveType, DataCount, DPOS_END
<1>2. next.state = "data" /\ Stays(next, drv) /\ next.dpos = p /\ next.data = sec
  BY <1>1 DEF DriveType, Stays
<1>3. r \in {next, AtMarkOf(next), AtCrcOf(next), AtNothing(next)}
  BY <1>1 DEF AfterDataByte, SetAtState, AtMarkOf, AtCrcOf, AtNothing
<1>4. \A m, c : LET y == SetAtState(next, m, c)
             IN  y.state = next.state /\ Stays(y, next) /\ y.dpos = next.dpos /\ y.data = next.data
  BY <1>1 DEF SetAtState, DriveType, Stays
<1> HIDE DEF next
<1>5. r.state = "data" /\ Stays(r, drv) /\ r.dpos = p /\ r.data = sec
  <2>1. CASE r = next
    BY <1>2, <2>1
  <2>2. CASE r \in {AtMarkOf(next), AtCrcOf(next), AtNothing(next)}
    <3>1. PICK m, c : r = SetAtState(next, m, c)
      BY <2>2 DEF AtMarkOf, AtCrcOf, AtNothing
    <3> QED BY <1>2, <1>4, <3>1 DEF Stays
  <2> QED BY <1>3, <2>1, <2>2
<1>6. /\ drv.dpos = -2 => DataByte(drv, stored) = 0
      /\ drv.dpos = -1 => DataByte(drv, stored) = MARK_DATA
      /\ drv.dpos = 0 => DataByte(drv, stored) = sec[drv.dpos + 1]
      /\ drv.dpos \in 1 .. SECTOR_SIZE - 1 => DataByte(drv, stored) = sec[drv.dpos + 1]
  BY <1>1 DEF DataByte
<1> QED BY <1>1, <1>5, <1>6

\* A pulse leaves the drive inactive.
LEMMA StepTrackHead ==
  ASSUME NEW drv, DriveInv(drv), NEW direction, NEW r, r = StepTrack(drv, direction)
  PROVE  r.state = "inactive" /\ r.sector = 1
<1> DEFINE t == Clamp(drv.track + direction, 0, TRACKS - 1)
<1>1. drv \in DriveType  BY DEF DriveInv
<1>2. r = Reset([drv EXCEPT !.track = t, !.sector = 1])  BY DEF StepTrack
<1> HIDE DEF t
<1> QED BY <1>1, <1>2 DEF Reset, SetAtState, DriveType

-----------------------------------------------------------------------------
(***************************************************************************)
(* What each port access does to the selected drive.                       *)
(***************************************************************************)
OthersKept == \A d \in Drive \ {drive_no} : drives'[d] = drives[d]

LEMMA DriveTyped ==
  ASSUME IInv
  PROVE  /\ drive \in DriveType /\ drive_no \in Drive /\ drives \in [Drive -> DriveType]
         /\ drive.track \in Track /\ drive.sector \in SectorNo
         /\ drive.state \in {"inactive", "hdr", "data"}
         /\ drive.hpos \in -1 .. 17 /\ drive.dpos \in Int
BY DEF IInv, CtlInv, drive, DriveType, DriveState, HeaderCount, HPOS_END, DataCount, DPOS_END

\* An IN of the data port while a header goes by.
LEMMA ReadHeader ==
  ASSUME IInv, ReadData(TRUE), rd_state = "run", drive.state = "hdr",
         drive.hpos = -1 => drive.mark_seen
  PROVE  /\ IInv' /\ err' = "none"
         /\ UNCHANGED <<drive_no, rd_state, wr_state, media>> /\ OthersKept
         /\ drive'.state = "hdr" /\ Stays(drive', drive)
         /\ drive'.hpos = IF drive.hpos = HPOS_END THEN HPOS_END ELSE drive.hpos + 1
         /\ drive.hpos = -1 => DataBits = MARK_HDR
         /\ drive.hpos = 0 => DataBits = drive.track
         /\ drive.hpos = 2 => DataBits = drive.sector
<1>1. IInv'  BY ReadDataStep
<1>2. ~Done(drive)
  BY DriveTyped, SelectedDrive, GeometryAssumption DEF Done, DriveInv
<1>3. DataFlows  BY <1>2 DEF DataFlows
<1>4. /\ drives' = [drives EXCEPT ![drive_no] = AfterHeaderByte(drive)]
      /\ DataBits = HeaderByte(drive)
  BY <1>3 DEF ReadData, AfterRead, ReadByte, DataBits
<1>5. drive' = AfterHeaderByte(drive) /\ OthersKept
  BY <1>4, DriveTyped DEF drive, ReadData, OthersKept
<1>6. /\ drive'.state = "hdr" /\ Stays(drive', drive)
      /\ drive'.hpos = IF drive.hpos = HPOS_END THEN HPOS_END ELSE drive.hpos + 1
      /\ drive.hpos = -1 => HeaderByte(drive) = MARK_HDR
      /\ drive.hpos = 0 => HeaderByte(drive) = drive.track
      /\ drive.hpos = 2 => HeaderByte(drive) = drive.sector
  BY <1>5, HeaderByteHead, SelectedDrive
<1> QED BY <1>1, <1>4, <1>5, <1>6 DEF ReadData, Ok

\* An IN of the data port while a data field goes by.
LEMMA ReadFieldByte ==
  ASSUME IInv, ReadData(TRUE), rd_state = "run", drive.state = "data",
         drive.dpos <= SECTOR_SIZE + 2
  PROVE  /\ IInv' /\ err' = "none"
         /\ UNCHANGED <<drive_no, rd_state, wr_state, media>> /\ OthersKept
         /\ drive'.state = "data" /\ Stays(drive', drive) /\ drive'.dpos = drive.dpos + 1
         /\ drive'.data = IF drive.dpos = 0 THEN StoredSector ELSE drive.data
         /\ drive.dpos = -2 => DataBits = 0
         /\ drive.dpos = -1 => DataBits = MARK_DATA
         /\ drive.dpos \in 0 .. SECTOR_SIZE - 1 => DataBits = drive'.data[drive.dpos + 1]
<1>1. IInv'  BY ReadDataStep
<1>2. ~Done(drive)  BY DriveTyped, GeometryAssumption DEF Done
<1>3. DataFlows  BY <1>2 DEF DataFlows
<1>4. /\ drives' = [drives EXCEPT ![drive_no] = AfterDataByte(drive, StoredSector)]
      /\ DataBits = DataByte(drive, StoredSector)
  BY <1>3 DEF ReadData, AfterRead, ReadByte, DataBits
<1>5. drive' = AfterDataByte(drive, StoredSector) /\ OthersKept
  BY <1>4, DriveTyped DEF drive, ReadData, OthersKept
<1>6. /\ drive'.state = "data" /\ drive'.dpos = drive.dpos + 1 /\ Stays(drive', drive)
      /\ drive'.data = IF drive.dpos = 0 THEN StoredSector ELSE drive.data
      /\ drive.dpos = -2 => DataByte(drive, StoredSector) = 0
      /\ drive.dpos = -1 => DataByte(drive, StoredSector) = MARK_DATA
      /\ drive.dpos \in 0 .. SECTOR_SIZE - 1 =>
           DataByte(drive, StoredSector) = drive'.data[drive.dpos + 1]
  BY <1>2, <1>5, DataByteHead, SelectedDrive
<1> QED BY <1>1, <1>4, <1>5, <1>6 DEF ReadData, Ok

\* An IN of the status port: AM and CRC are the head's place, and a mark is noted.
LEMMA ReadStatusBits ==
  ASSUME IInv, ReadStatus
  PROVE  /\ IInv' /\ err' = "none"
         /\ UNCHANGED <<drive_no, rd_state, wr_state, media>> /\ OthersKept
         /\ Stays(drive', drive) /\ drive'.state = drive.state
         /\ drive'.hpos = drive.hpos /\ drive'.dpos = drive.dpos /\ drive'.data = drive.data
         /\ AtMark(drive) => drive'.mark_seen
         /\ "AM" \in StatusBits <=> AtMark(drive)
         /\ "CRC" \in StatusBits <=> AtCrc(drive)
<1>1. IInv'  BY ReadStatusStep
<1>2. drive' = StatusRead(drive) /\ OthersKept
  BY DriveTyped DEF ReadStatus, drive, OthersKept
<1>3. /\ drive.at_mark <=> AtMark(drive)
      /\ drive.at_crc <=> AtCrc(drive)
  BY SelectedDrive DEF DriveInv
<1>4. /\ Stays(drive', drive) /\ drive'.state = drive.state
      /\ drive'.hpos = drive.hpos /\ drive'.dpos = drive.dpos /\ drive'.data = drive.data
      /\ drive.at_mark => drive'.mark_seen
  BY <1>2, DriveTyped DEF StatusRead, DriveType, Stays
<1>5. /\ "AM" \in StatusBits <=> drive.at_mark
      /\ "CRC" \in StatusBits <=> drive.at_crc
  BY DEF StatusBits
<1> QED BY <1>1, <1>2, <1>3, <1>4, <1>5 DEF ReadStatus, Ok

\* An OUT that touches no drive: a control word of the write sequence, 0x41, one the
\* code does not know, or a data byte while no field is being written.
LEMMA QuietCW1 ==
  ASSUME IInv, NEW v \in {CW1_READ_ARM, CW1_WRITE_1, CW1_WRITE_3, CW1_WRITE_4, 193},
         WriteCW1(v, TRUE)
  PROVE  /\ IInv' /\ err' = "none" /\ UNCHANGED <<drives, drive_no, media>>
         /\ rd_state' = IF v = CW1_READ_ARM THEN "s1" ELSE rd_state
         /\ wr_state' # wr_state => wr_state' \in {"w1", "w3", "w4"}
         /\ v = CW1_WRITE_3 => wr_state' = "w3"
         /\ v = CW1_WRITE_4 => wr_state' = "w4"
<1>1. IInv'  BY WriteCW1Step
<1> QED BY <1>1 DEF WriteCW1, ReadCommand, WriteCommand, WriteCommit, Ok, ctlVars, CW1_READ_ARM, CW1_READ_RUN,
                    CW1_WRITE_1, CW1_WRITE_3, CW1_WRITE_4, CW1_WRITE_DATA, CW1_WRITE_COMMIT

LEMMA QuietData ==
  ASSUME IInv, NEW b \in Bytes, WriteData(b), wr_state # "wdata"
  PROVE  IInv' /\ err' = "none" /\ UNCHANGED <<ctlVars, media>>
<1>1. IInv'  BY WriteDataStep
<1> QED BY <1>1 DEF WriteData, Ok

\* 0x49 begins a scan.
LEMMA BeginScan ==
  ASSUME IInv, WriteCW1(CW1_READ_RUN, TRUE)
  PROVE  /\ IInv' /\ err' = "none" /\ UNCHANGED <<drive_no, wr_state, media>> /\ OthersKept
         /\ rd_state' = "run" /\ drive' = BeginReadPhase(drive)
<1>1. IInv'  BY WriteCW1Step
<1>2. /\ Ok /\ UNCHANGED <<drive_no, wr_state, media>> /\ rd_state' = "run"
      /\ drives' = [drives EXCEPT ![drive_no] = BeginReadPhase(drive)]
  BY DEF WriteCW1, ReadCommand, WriteCommand, CW1_READ_ARM, CW1_READ_RUN, CW1_WRITE_1,
         CW1_WRITE_3, CW1_WRITE_4, CW1_WRITE_DATA, CW1_WRITE_COMMIT
<1> QED BY <1>1, <1>2, DriveTyped DEF drive, OthersKept, Ok

\* 0xa9 empties the buffer, a data byte fills it, 0xad hands it to the image.
LEMMA BeginField ==
  ASSUME IInv, WriteCW1(CW1_WRITE_DATA, TRUE)
  PROVE  /\ IInv' /\ err' = "none" /\ UNCHANGED <<drive_no, rd_state, media>> /\ OthersKept
         /\ wr_state' = "wdata" /\ drive' = PrepareWrite(drive)
<1>1. IInv'  BY WriteCW1Step
<1>2. /\ Ok /\ UNCHANGED <<drive_no, rd_state, media>> /\ wr_state' = "wdata"
      /\ drives' = [drives EXCEPT ![drive_no] = PrepareWrite(drive)]
  BY DEF WriteCW1, ReadCommand, WriteCommand, CW1_READ_ARM, CW1_READ_RUN, CW1_WRITE_1,
         CW1_WRITE_3, CW1_WRITE_4, CW1_WRITE_DATA, CW1_WRITE_COMMIT
<1> QED BY <1>1, <1>2, DriveTyped DEF drive, OthersKept, Ok

LEMMA PutInBuffer ==
  ASSUME IInv, NEW b \in Bytes, WriteData(b), wr_state = "wdata", CanAddByte(drive)
  PROVE  /\ IInv' /\ err' = "none" /\ UNCHANGED <<drive_no, rd_state, wr_state, media>>
         /\ OthersKept /\ drive' = WriteAddByte(drive, b)
<1>1. IInv'  BY WriteDataStep
<1>2. /\ Ok /\ UNCHANGED <<drive_no, rd_state, wr_state, media>>
      /\ drives' = [drives EXCEPT ![drive_no] = WriteAddByte(drive, b)]
  BY DEF WriteData
<1> QED BY <1>1, <1>2, DriveTyped DEF drive, OthersKept, Ok

LEMMA HandOver ==
  ASSUME IInv, WriteCW1(CW1_WRITE_COMMIT, TRUE), CanCommit(drive)
  PROVE  /\ IInv' /\ err' = "none" /\ UNCHANGED <<drive_no, rd_state>> /\ OthersKept
         /\ wr_state' = "off" /\ drive' = CommitWrite(drive)
         /\ media' = [media EXCEPT ![drive_no][<<drive.track, drive.sector>>] = drive.wbuf]
<1>1. IInv'  BY WriteCW1Step
<1>3. /\ Ok /\ UNCHANGED <<drive_no, rd_state>> /\ wr_state' = "off"
      /\ drives' = [drives EXCEPT ![drive_no] = CommitWrite(drive)]
      /\ media' = [media EXCEPT ![drive_no][<<drive.track, drive.sector>>] = drive.wbuf]
  BY DEF WriteCommit, CanCommit, WriteCW1, ReadCommand, WriteCommand, CW1_READ_ARM, CW1_READ_RUN,
         CW1_WRITE_1, CW1_WRITE_3, CW1_WRITE_4, CW1_WRITE_DATA, CW1_WRITE_COMMIT
<1> QED BY <1>1, <1>3, DriveTyped DEF drive, OthersKept, Ok

\* An OUT of a drive number with a base that is a multiple of eight selects the drive;
\* only 112 and 96 of the bases the routine uses step its head, only 192 arms a write.
LEMMA SelectOnly ==
  ASSUME IInv, NEW d \in Drive, NEW base \in {64, 80, 192}, WriteCW2(base + d)
  PROVE  /\ IInv' /\ err' = "none" /\ drive_no' = d
         /\ UNCHANGED <<drives, rd_state, media>>
         /\ base # 192 => wr_state' = wr_state
<1>1. IInv'  BY WriteCW2Step
<1>2. d \in 0 .. 7  BY DrivesAssumption DEF Drive
<1>3. /\ (base + d) % 8 = d /\ ~StepsIn(base + d) /\ ~StepsOut(base + d)
      /\ base # 192 => ~ArmsWrite(base + d)
  BY <1>2 DEF StepsIn, StepsOut, ArmsWrite
<1>4. drives' = [drives EXCEPT ![d] = drives[d]]
  BY <1>3 DEF WriteCW2
<1>5. drives' = drives  BY <1>4, DriveTyped
<1> QED BY <1>1, <1>3, <1>5 DEF WriteCW2, Ok

LEMMA SelectAndStep ==
  ASSUME IInv, NEW base \in {96, 112}, WriteCW2(base + drive_no)
  PROVE  /\ IInv' /\ err' = "none" /\ UNCHANGED <<drive_no, rd_state, wr_state, media>>
         /\ OthersKept /\ drive'.state = "inactive" /\ drive'.sector = 1
<1>1. IInv'  BY WriteCW2Step
<1>2. drive_no \in 0 .. 7 /\ drive_no \in Drive  BY DrivesAssumption, DriveTyped DEF Drive
<1>3. /\ (base + drive_no) % 8 = drive_no /\ ~ArmsWrite(base + drive_no)
      /\ base = 112 => StepsIn(base + drive_no)
      /\ base = 96 => ~StepsIn(base + drive_no) /\ StepsOut(base + drive_no)
  BY <1>2 DEF StepsIn, StepsOut, ArmsWrite
<1>4. PICK direction \in {1, -1} : drives' = [drives EXCEPT ![drive_no] = StepTrack(drive, direction)]
  BY <1>2, <1>3 DEF WriteCW2, drive
<1>5. UNCHANGED <<drive_no, rd_state, wr_state, media>> /\ Ok
  BY <1>2, <1>3 DEF WriteCW2
<1>6. drive' = StepTrack(drive, direction) /\ OthersKept
  BY <1>4, <1>5, DriveTyped DEF drive, OthersKept
<1> QED BY <1>1, <1>5, <1>6, StepTrackHead, SelectedDrive DEF Ok

-----------------------------------------------------------------------------
(***************************************************************************)
(* The inductive step, action by action.                                   *)
(***************************************************************************)
USE DEF SearchPlaces, SeekPlaces, CrcPlaces, ReadPlaces, WritePlaces, FoundPlaces, Places

LEMMA StaysParked ==
  ASSUME MInv, UNCHANGED drive_no, OthersKept, mpc \notin {"idle", "select"},
         mpc' \in {"idle", "select"} => AtRest(drive')
  PROVE  ParkedInv'
BY DriveTyped DEF MInv, ParkedInv, OthersKept, drive

\* The request and its selection, while it is being served.
LEMMA Serving ==
  ASSUME MInv, mpc # "idle"
  PROVE  /\ request \in Reads \cup Writes /\ request.drive \in Drive
         /\ wantedTrack \in Track /\ wantedSector \in SectorNo
         /\ request.position = <<wantedTrack, wantedSector>>
         /\ mpc # "select" => drive_no = request.drive
BY DEF MInv, RegistersInv, Reads, Writes, Position, wantedTrack, wantedSector

\* Distances on the track.
LEMMA SectorDistance ==
  ASSUME NEW s \in SectorNo, NEW t \in SectorNo
  PROVE  /\ Successor(s) \in SectorNo
         /\ Distance(s, t) \in Nat /\ Distance(s, t) < SECTORS
         /\ s # t => Distance(Successor(s), t) = Distance(s, t) - 1
BY GeometryAssumption DEF SectorNo, Successor, Distance

LEMMA NextHeaderIsSector ==
  ASSUME NEW drv, DriveInv(drv)
  PROVE  NextHeader(drv) \in SectorNo
<1>1. drv.sector \in SectorNo  BY DEF DriveInv, DriveType
<1> QED BY <1>1, SectorDistance DEF NextHeader

LEMMA SubmitInv ==
  ASSUME MInv, NEW r \in Reads \cup Writes, Submit(r)
  PROVE  MInv'
<1>1. /\ mpc = "idle" /\ mpc' = "select" /\ request' = r /\ requests' = requests + 1
      /\ wrong' = SECTORS /\ got' = <<>>
      /\ UNCHANGED <<drives, drive_no, rd_state, wr_state, media, err, hdrTrack, hdrSector,
                     count, swaps>>
  BY DEF Submit, At, Goto, vars
<1>2. IInv' /\ err' = "none"  BY <1>1 DEF MInv, IInv, CtlInv
<1>3. ParkedInv'  BY <1>1 DEF MInv, ParkedInv
<1>4. RegistersInv'  BY <1>1, GeometryAssumption DEF MInv, RegistersInv
<1>5. HeadInv' /\ HeaderInv' /\ SearchInv' /\ FieldInv' /\ BufferInv'
  BY <1>1 DEF HeadInv, HeaderInv, SearchInv, FieldInv, BufferInv
<1> QED BY <1>2, <1>3, <1>4, <1>5 DEF MInv

\* The drive is selected: it was at rest, and a whole track of headers may go by.
LEMMA SelectInv == MInv /\ Select => MInv'
<1> SUFFICES ASSUME MInv, Select PROVE MInv'
  OBVIOUS
<1>1. /\ mpc = "select" /\ mpc' = "arm" /\ WriteCW2(64 + request.drive)
      /\ UNCHANGED <<request, wrong, hdrTrack, hdrSector, count, got, requests, swaps>>
  BY DEF Select, OutCW2, At, Goto, regs
<1>2. IInv /\ request.drive \in Drive  BY <1>1, Serving DEF MInv
<1>3. /\ IInv' /\ err' = "none" /\ drive_no' = request.drive
      /\ UNCHANGED <<drives, rd_state, wr_state, media>>
  BY <1>1, <1>2, SelectOnly
<1>4. ParkedInv' /\ AtRest(drive')
  BY <1>1, <1>2, <1>3 DEF MInv, ParkedInv, drive
<1>5. RegistersInv'  BY <1>1, <1>3 DEF MInv, RegistersInv
<1>6. SearchInv'
  <2>1. NextHeader(drive') \in SectorNo  
    <3>1. drive' = drives[request.drive]  BY <1>3 DEF drive
    <3> QED BY <1>2, <3>1, NextHeaderIsSector DEF IInv
  <2>2. wrong' = SECTORS /\ wantedSector' = wantedSector
    BY <1>1 DEF MInv, RegistersInv, wantedSector
  <2>3. Distance(NextHeader(drive'), wantedSector) < SECTORS
    BY <1>1, <2>1, Serving, SectorDistance
  <2> QED BY <2>2, <2>3 DEF SearchInv
<1>7. HeadInv' /\ HeaderInv' /\ FieldInv' /\ BufferInv'
  BY <1>1, <1>4 DEF MInv, HeadInv, HeaderInv, FieldInv, BufferInv
<1> QED BY <1>3, <1>4, <1>5, <1>6, <1>7 DEF MInv

LEMMA ArmHeaderInv == MInv /\ ArmHeader => MInv'
<1> SUFFICES ASSUME MInv, ArmHeader PROVE MInv'
  OBVIOUS
<1>1. CASE OutCW1("arm", CW1_READ_ARM, "run")
  <2>1. /\ mpc = "arm" /\ mpc' = "run" /\ WriteCW1(CW1_READ_ARM, TRUE) /\ IInv
        /\ UNCHANGED <<request, wrong, hdrTrack, hdrSector, count, got, requests, swaps>>
    BY <1>1 DEF OutCW1, At, Goto, regs, MInv
  <2>2. IInv' /\ err' = "none" /\ UNCHANGED <<drives, drive_no, media>>
    BY <2>1, QuietCW1
  <2>3. drive' = drive  BY <2>2 DEF drive
  <2>4. ParkedInv' /\ RegistersInv'  BY <2>1, <2>2 DEF MInv, ParkedInv, RegistersInv
  <2>5. SearchInv'  BY <2>1, <2>3 DEF MInv, SearchInv, wantedSector
  <2>6. HeadInv' /\ HeaderInv' /\ FieldInv' /\ BufferInv'
    BY <2>1, <2>3 DEF MInv, HeadInv, HeaderInv, FieldInv, BufferInv
  <2> QED BY <2>2, <2>4, <2>5, <2>6 DEF MInv
<1>2. CASE OutCW1("run", CW1_READ_RUN, "wait")
  <2>1. /\ mpc = "run" /\ mpc' = "wait" /\ WriteCW1(CW1_READ_RUN, TRUE) /\ IInv
        /\ UNCHANGED <<request, wrong, hdrTrack, hdrSector, count, got, requests, swaps>>
    BY <1>2 DEF OutCW1, At, Goto, regs, MInv
  <2>2. /\ IInv' /\ err' = "none" /\ UNCHANGED <<drive_no, wr_state, media>> /\ OthersKept
        /\ rd_state' = "run" /\ drive' = BeginReadPhase(drive)
    BY <2>1, BeginScan
  <2>3. DriveInv(drive) /\ AtRest(drive)  BY <2>1, SelectedDrive DEF MInv, HeadInv
  <2>4. /\ (drive'.state = "hdr" /\ drive'.hpos = -1) \/ (drive'.state = "data" /\ drive'.dpos = -2)
        /\ NextHeader(drive') = NextHeader(drive)
    BY <2>2, <2>3, BeginReadPhaseHead
  <2>5. ParkedInv'  BY <2>1, <2>2, StaysParked
  <2>6. RegistersInv'  BY <2>1, <2>2 DEF MInv, RegistersInv
  <2>7. SearchInv'  BY <2>1, <2>4 DEF MInv, SearchInv, wantedSector
  <2>8. HeadInv' /\ HeaderInv' /\ FieldInv' /\ BufferInv'
    BY <2>1, <2>4 DEF MInv, HeadInv, InHeader, InField, HeaderInv, FieldInv, BufferInv
  <2> QED BY <2>2, <2>5, <2>6, <2>7, <2>8 DEF MInv
<1> QED BY <1>1, <1>2 DEF ArmHeader

\* The status shows the mark at once, and takes note of it.
LEMMA WaitForHeaderInv == MInv /\ WaitForHeader => MInv'
<1> SUFFICES ASSUME MInv, WaitForHeader PROVE MInv'
  OBVIOUS
<1>1. /\ mpc = "wait" /\ ReadStatus /\ IInv
      /\ mpc' = IF "AM" \in StatusBits THEN "mark" ELSE "wait"
      /\ UNCHANGED <<request, wrong, hdrTrack, hdrSector, count, got, requests, swaps>>
  BY DEF WaitForHeader, InStatus, At, regs, MInv
<1>2. InHeader(-1) \/ InField(-2)  BY <1>1 DEF MInv, HeadInv
<1>3. AtMark(drive)  BY <1>2 DEF AtMark, InHeader, InField
<1>4. /\ IInv' /\ err' = "none"
      /\ UNCHANGED <<drive_no, rd_state, wr_state, media>> /\ OthersKept
      /\ Stays(drive', drive) /\ drive'.state = drive.state
      /\ drive'.hpos = drive.hpos /\ drive'.dpos = drive.dpos
      /\ drive'.mark_seen /\ mpc' = "mark"
  BY <1>1, <1>3, ReadStatusBits
<1>5. ParkedInv'  BY <1>1, <1>4, StaysParked
<1>6. RegistersInv'  BY <1>1, <1>4 DEF MInv, RegistersInv
<1>7. SearchInv'  BY <1>1, <1>4 DEF MInv, SearchInv, NextHeader, Stays, wantedSector
<1>8. HeadInv' /\ HeaderInv' /\ FieldInv' /\ BufferInv'
  BY <1>1, <1>2, <1>4 DEF MInv, HeadInv, InHeader, InField, HeaderInv, FieldInv, BufferInv
<1> QED BY <1>4, <1>5, <1>6, <1>7, <1>8 DEF MInv

\* A scan that finds a data field shows no header mark and is begun again.
LEMMA HeaderMarkInv == MInv /\ HeaderMark => MInv'
<1> SUFFICES ASSUME MInv, HeaderMark PROVE MInv'
  OBVIOUS
<1>1. /\ mpc = "mark" /\ ReadData(TRUE) /\ IInv /\ rd_state = "run"
      /\ mpc' = IF DataBits = MARK_HDR THEN "track" ELSE "arm"
      /\ UNCHANGED <<request, wrong, hdrTrack, hdrSector, count, got, requests, swaps>>
  BY DEF HeaderMark, InMark, At, regs, MInv, RegistersInv
<1>2. (InHeader(-1) /\ drive.mark_seen) \/ InField(-2)  BY <1>1 DEF MInv, HeadInv, InHeader
<1>3. /\ IInv' /\ err' = "none"
      /\ UNCHANGED <<drive_no, rd_state, wr_state, media>> /\ OthersKept
      /\ NextHeader(drive') = NextHeader(drive)
      /\ \/ mpc' = "track" /\ drive'.state = "hdr" /\ drive'.hpos = 0
         \/ mpc' = "arm" /\ drive'.state = "data"
  <2>1. CASE InHeader(-1) /\ drive.mark_seen
    <3>1. drive.state = "hdr" /\ drive.hpos = -1  BY <2>1 DEF InHeader
    <3>2. /\ IInv' /\ err' = "none"
          /\ UNCHANGED <<drive_no, rd_state, wr_state, media>> /\ OthersKept
          /\ drive'.state = "hdr" /\ Stays(drive', drive)
          /\ drive'.hpos = 0 /\ DataBits = MARK_HDR
      BY <1>1, <2>1, <3>1, ReadHeader DEF HPOS_END
    <3> QED BY <1>1, <3>1, <3>2 DEF NextHeader, Stays
  <2>2. CASE InField(-2)
    <3>1. drive.state = "data" /\ drive.dpos = -2 /\ drive.dpos <= SECTOR_SIZE + 2
      BY <2>2, GeometryAssumption DEF InField
    <3>2. /\ IInv' /\ err' = "none"
          /\ UNCHANGED <<drive_no, rd_state, wr_state, media>> /\ OthersKept
          /\ drive'.state = "data" /\ Stays(drive', drive) /\ DataBits = 0
      BY <1>1, <3>1, ReadFieldByte
    <3> QED BY <1>1, <3>1, <3>2 DEF NextHeader, Stays, MARK_HDR
  <2> QED BY <1>2, <2>1, <2>2
<1>5. ParkedInv'  BY <1>1, <1>3, StaysParked
<1>6. RegistersInv'  BY <1>1, <1>3 DEF MInv, RegistersInv
<1>7. SearchInv'  BY <1>1, <1>3 DEF MInv, SearchInv, wantedSector
<1>8. HeadInv' /\ HeaderInv' /\ FieldInv' /\ BufferInv'
  BY <1>1, <1>3 DEF MInv, HeadInv, InHeader, AtRest, HeaderInv, FieldInv, BufferInv
<1> QED BY <1>3, <1>5, <1>6, <1>7, <1>8 DEF MInv

LEMMA TrackByteInv == MInv /\ TrackByte => MInv'
<1> SUFFICES ASSUME MInv, TrackByte PROVE MInv'
  OBVIOUS
<1>1. /\ mpc = "track" /\ mpc' = "side" /\ hdrTrack' = DataBits /\ ReadData(TRUE)
      /\ UNCHANGED <<request, wrong, hdrSector, count, got, requests, swaps>>
  BY DEF TrackByte, At, Goto
<1>2. /\ drive.state = "hdr" /\ drive.hpos = 0 /\ rd_state = "run"
      /\ drive_no = request.drive /\ IInv
  BY <1>1 DEF MInv, HeadInv, InHeader, RegistersInv
<1>3. /\ IInv' /\ err' = "none"
      /\ UNCHANGED <<drive_no, rd_state, wr_state, media>> /\ OthersKept
      /\ drive'.state = "hdr" /\ Stays(drive', drive)
      /\ drive'.hpos = 1 /\ DataBits = drive.track
  BY <1>1, <1>2, ReadHeader DEF HPOS_END
<1>4. ParkedInv'  BY <1>1, <1>3, StaysParked
<1>5. RegistersInv'
  BY <1>1, <1>2, <1>3, DriveTyped DEF MInv, RegistersInv, Track
<1>6. HeadInv' /\ HeaderInv' 
  BY <1>1, <1>3 DEF HeadInv, HeaderInv, InHeader, Stays
<1>7. SearchInv'
  BY <1>1, <1>2, <1>3 DEF MInv, SearchInv, NextHeader, Stays, wantedSector
<1>8. FieldInv' /\ BufferInv'
  BY <1>1 DEF MInv, FieldInv, BufferInv
<1> QED BY <1>3, <1>4, <1>5, <1>6, <1>7, <1>8 DEF MInv

LEMMA SideByteInv == MInv /\ SideByte => MInv'
<1> SUFFICES ASSUME MInv, SideByte PROVE MInv'
  OBVIOUS
<1>1. /\ mpc = "side" /\ mpc' = "sector" /\ ReadData(TRUE)
      /\ UNCHANGED <<request, wrong, hdrTrack, hdrSector, count, got, requests, swaps>>
  BY DEF SideByte, InData, At, Goto, regs
<1>2. drive.state = "hdr" /\ drive.hpos = 1 /\ rd_state = "run" /\ IInv
  BY <1>1 DEF MInv, HeadInv, InHeader, RegistersInv
<1>3. /\ IInv' /\ err' = "none"
      /\ UNCHANGED <<drive_no, rd_state, wr_state, media>> /\ OthersKept
      /\ drive'.state = "hdr" /\ Stays(drive', drive) /\ drive'.hpos = 2
  BY <1>1, <1>2, ReadHeader DEF HPOS_END
<1>4. ParkedInv'  BY <1>1, <1>3, StaysParked
<1>5. RegistersInv'  BY <1>1, <1>3 DEF MInv, RegistersInv
<1>6. SearchInv'  BY <1>1, <1>2, <1>3 DEF MInv, SearchInv, NextHeader, Stays, wantedSector
<1>7. HeadInv' /\ HeaderInv' /\ FieldInv' /\ BufferInv'
  BY <1>1, <1>3 DEF MInv, HeadInv, HeaderInv, InHeader, Stays, FieldInv, BufferInv
<1> QED BY <1>3, <1>4, <1>5, <1>6, <1>7 DEF MInv

LEMMA SectorByteInv == MInv /\ SectorByte => MInv'
<1> SUFFICES ASSUME MInv, SectorByte PROVE MInv'
  OBVIOUS
<1>1. /\ mpc = "sector" /\ ReadData(TRUE) /\ hdrSector' = DataBits
      /\ \/ mpc' = "offtrack" /\ hdrTrack # wantedTrack
         \/ mpc' = "ontrack" /\ hdrTrack = wantedTrack
      /\ UNCHANGED <<request, wrong, hdrTrack, count, got, requests, swaps>>
  BY DEF SectorByte, At
<1>2. drive.state = "hdr" /\ drive.hpos = 2 /\ rd_state = "run" /\ IInv
  BY <1>1 DEF MInv, HeadInv, InHeader, RegistersInv
<1>3. /\ IInv' /\ err' = "none"
      /\ UNCHANGED <<drive_no, rd_state, wr_state, media>> /\ OthersKept
      /\ drive'.state = "hdr" /\ Stays(drive', drive) /\ drive'.hpos = 3
      /\ DataBits = drive.sector
  BY <1>1, <1>2, ReadHeader DEF HPOS_END
<1>4. ParkedInv'  BY <1>1, <1>3, StaysParked
<1>5. RegistersInv'  BY <1>1, <1>2, <1>3, DriveTyped DEF MInv, RegistersInv, SectorNo
<1>6. SearchInv'  BY <1>1, <1>2, <1>3 DEF MInv, SearchInv, NextHeader, Stays, wantedSector
<1>7. HeadInv' /\ HeaderInv' /\ FieldInv' /\ BufferInv'
  BY <1>1, <1>3 DEF MInv, HeadInv, HeaderInv, InHeader, Stays, FieldInv, BufferInv, wantedTrack
<1> QED BY <1>3, <1>4, <1>5, <1>6, <1>7 DEF MInv

LEMMA OffTrackInv == MInv /\ OffTrack => MInv'
<1> SUFFICES ASSUME MInv, OffTrack PROVE MInv'
  OBVIOUS
<1>1. /\ \/ mpc = "offtrack" /\ mpc' = "offcrc"
         \/ mpc = "offcrc" /\ mpc' = "offstatus"
      /\ ReadData(TRUE)
      /\ UNCHANGED <<request, wrong, hdrTrack, hdrSector, count, got, requests, swaps>>
  BY DEF OffTrack, InData, At, Goto, regs
<1>2. /\ drive.state = "hdr" /\ rd_state = "run" /\ IInv
      /\ drive.hpos = IF mpc = "offtrack" THEN 3 ELSE 4
  BY <1>1 DEF MInv, HeadInv, InHeader, RegistersInv
<1>3. /\ IInv' /\ err' = "none"
      /\ UNCHANGED <<drive_no, rd_state, wr_state, media>> /\ OthersKept
      /\ drive'.state = "hdr" /\ drive'.hpos = drive.hpos + 1
  BY <1>1, <1>2, ReadHeader DEF HPOS_END
<1>4. ParkedInv'  BY <1>1, <1>3, StaysParked
<1>5. RegistersInv'  BY <1>1, <1>3 DEF MInv, RegistersInv
<1>6. HeadInv'  BY <1>1, <1>2, <1>3 DEF MInv, HeadInv, InHeader
<1>7. HeaderInv' /\ SearchInv' /\ FieldInv' /\ BufferInv'
  BY <1>1 DEF MInv, HeaderInv, SearchInv, FieldInv, BufferInv, wantedTrack
<1> QED BY <1>3, <1>4, <1>5, <1>6, <1>7 DEF MInv

\* The CRC of a header is good: the head is moved.
LEMMA OffTrackStatusInv == MInv /\ OffTrackStatus => MInv'
<1> SUFFICES ASSUME MInv, OffTrackStatus PROVE MInv'
  OBVIOUS
<1>1. /\ mpc = "offstatus" /\ ReadStatus /\ IInv
      /\ "CRC" \in StatusBits => mpc' = IF hdrTrack < wantedTrack THEN "in1" ELSE "out1"
      /\ count' = IF hdrTrack < wantedTrack THEN wantedTrack - hdrTrack ELSE hdrTrack - wantedTrack
      /\ UNCHANGED <<request, wrong, hdrTrack, hdrSector, got, requests, swaps>>
  BY DEF OffTrackStatus, At, MInv
<1>2. drive.state = "hdr" /\ drive.hpos = 5  BY <1>1 DEF MInv, HeadInv, InHeader
<1>3. AtCrc(drive)  BY <1>2 DEF AtCrc
<1>4. /\ IInv' /\ err' = "none"
      /\ UNCHANGED <<drive_no, rd_state, wr_state, media>> /\ OthersKept
      /\ drive'.state = "hdr" /\ drive'.hpos = 5
      /\ mpc' = IF hdrTrack < wantedTrack THEN "in1" ELSE "out1"
  BY <1>1, <1>2, <1>3, ReadStatusBits
<1>5. ParkedInv'  BY <1>1, <1>4, StaysParked
<1>6. hdrTrack # wantedTrack /\ hdrTrack \in Nat /\ wantedTrack \in Nat
  BY <1>1, Serving DEF MInv, HeaderInv, RegistersInv, Track
<1>7. count' \in Nat \ {0}
  BY <1>1, <1>6
<1>8. RegistersInv'  BY <1>1, <1>4, <1>7 DEF MInv, RegistersInv
<1>9. HeadInv' /\ HeaderInv' /\ SearchInv' /\ FieldInv' /\ BufferInv'
  BY <1>1, <1>4, <1>7 DEF MInv, HeadInv, AtRest, HeaderInv, SearchInv, FieldInv, BufferInv
<1> QED BY <1>4, <1>5, <1>8, <1>9 DEF MInv

\* Every pulse leaves the drive at rest, and the search begins anew over sector 1.
LEMMA SeekInv == MInv /\ Seek => MInv'
<1> SUFFICES ASSUME MInv, Seek PROVE MInv'
  OBVIOUS
<1>1. PICK base \in {64, 80, 96, 112} :
        /\ WriteCW2(base + request.drive)
        /\ \/ mpc = "in1" /\ base = 80 /\ mpc' = "in2" /\ UNCHANGED <<wrong, count>>
           \/ mpc = "in2" /\ base = 112 /\ mpc' = "in3" /\ UNCHANGED <<wrong, count>>
           \/ mpc = "out1" /\ base = 96 /\ mpc' = "out2" /\ UNCHANGED <<wrong, count>>
           \/ /\ (mpc = "in3" /\ base = 80) \/ (mpc = "out2" /\ base = 64)
              /\ count' = count - 1 /\ wrong' = SECTORS
              /\ \/ count = 1 /\ mpc' = "arm"
                 \/ count # 1 /\ mpc' \in {"in1", "out1"}
        /\ UNCHANGED <<request, hdrTrack, hdrSector, got, requests, swaps>>
  <2>1. CASE StepPulse
    BY <2>1 DEF StepPulse, OutCW2, At, Goto, regs
  <2>2. CASE StepEnd("in3", 80, "in1") \/ StepEnd("out2", 64, "out1")
    BY <2>2 DEF StepEnd, At
  <2> QED BY <2>1, <2>2 DEF Seek
<1>2. /\ IInv /\ drive_no = request.drive /\ AtRest(drive) /\ count \in Nat \ {0}
      /\ request.drive \in Drive
  BY <1>1, Serving DEF MInv, HeadInv, HeaderInv, RegistersInv
<1>3. /\ IInv' /\ err' = "none" /\ UNCHANGED <<drive_no, rd_state, wr_state, media>>
      /\ OthersKept /\ AtRest(drive')
  <2>1. CASE base \in {96, 112}
    BY <1>2, <1>1, <2>1, SelectAndStep DEF AtRest
  <2>2. CASE base \in {64, 80}
    <3>1. /\ IInv' /\ err' = "none" /\ drive_no' = drive_no
          /\ UNCHANGED <<drives, rd_state, media, wr_state>>
      BY <1>1, <1>2, <2>2, SelectOnly
    <3> QED BY <1>2, <3>1 DEF OthersKept, drive
  <2> QED BY <2>1, <2>2
<1>4. ParkedInv'  BY <1>1, <1>3, StaysParked
<1>5. RegistersInv'  BY <1>1, <1>2, <1>3, GeometryAssumption DEF MInv, RegistersInv
<1>6. SearchInv'
  <2> SUFFICES ASSUME mpc' = "arm"
               PROVE  Distance(NextHeader(drive'), wantedSector) < wrong'
    BY <1>1 DEF SearchInv, wantedSector
  <2>1. wrong' = SECTORS  BY <1>1
  <2>2. DriveInv(drive')  BY <1>3 DEF IInv, CtlInv, drive
  <2>3. NextHeader(drive') \in SectorNo /\ wantedSector \in SectorNo
    BY <1>1, <2>2, NextHeaderIsSector, Serving
  <2> QED BY <2>1, <2>3, SectorDistance
<1>7. HeadInv' /\ HeaderInv' /\ FieldInv' /\ BufferInv'
  BY <1>1, <1>2, <1>3 DEF MInv, HeadInv, HeaderInv, FieldInv, BufferInv
<1> QED BY <1>3, <1>4, <1>5, <1>6, <1>7 DEF MInv

\* A header that is counted is one sector nearer the one that is wanted, so the count
\* does not run out before it.
LEMMA OnTrackInv == MInv /\ OnTrack => MInv'
<1> SUFFICES ASSUME MInv, OnTrack PROVE MInv'
  OBVIOUS
<1>1. /\ mpc = "ontrack" /\ ReadData(TRUE)
      /\ \/ hdrSector = wantedSector /\ wrong' = wrong /\ mpc' = "crc"
         \/ /\ hdrSector # wantedSector /\ wrong' = wrong - 1
            /\ mpc' = IF wrong = 1 THEN "failed" ELSE "arm"
      /\ UNCHANGED <<request, hdrTrack, hdrSector, count, got, requests, swaps>>
  BY DEF OnTrack, At
<1>2. /\ drive.state = "hdr" /\ drive.hpos = 3 /\ rd_state = "run" /\ IInv
      /\ hdrSector = drive.sector /\ hdrTrack = drive.track /\ hdrTrack = wantedTrack
      /\ wrong \in Nat
  BY <1>1 DEF MInv, HeadInv, InHeader, HeaderInv, RegistersInv
<1>3. /\ IInv' /\ err' = "none"
      /\ UNCHANGED <<drive_no, rd_state, wr_state, media>> /\ OthersKept
      /\ drive'.state = "hdr" /\ Stays(drive', drive) /\ drive'.hpos = 4
  BY <1>1, <1>2, ReadHeader DEF HPOS_END
<1>4. NextHeader(drive) = drive.sector /\ NextHeader(drive') = Successor(drive.sector)
  BY <1>2, <1>3 DEF NextHeader, Stays
<1>5. /\ Distance(drive.sector, wantedSector) < wrong
      /\ Distance(drive.sector, wantedSector) \in Nat
      /\ Distance(Successor(drive.sector), wantedSector) \in Nat
      /\ drive.sector # wantedSector =>
           Distance(Successor(drive.sector), wantedSector) = Distance(drive.sector, wantedSector) - 1
  BY <1>1, <1>2, <1>4, Serving, DriveTyped, SectorDistance DEF MInv, SearchInv
<1>6. \/ mpc' = "crc" /\ drive.sector = wantedSector /\ wrong' = wrong
      \/ /\ mpc' = "arm" /\ wrong' = wrong - 1
         /\ Distance(NextHeader(drive'), wantedSector) < wrong'
  BY <1>1, <1>2, <1>4, <1>5
<1>7. ParkedInv'  BY <1>1, <1>3, <1>6, StaysParked
<1>8. RegistersInv'  BY <1>1, <1>2, <1>3, <1>5, <1>6 DEF MInv, RegistersInv
<1>9. SearchInv'  BY <1>1, <1>6 DEF SearchInv, wantedSector
<1>10. HeadInv' /\ FieldInv' /\ BufferInv'
  BY <1>1, <1>3, <1>6 DEF MInv, HeadInv, InHeader, AtRest, FieldInv, BufferInv
<1>11. HeaderInv'
  BY <1>1, <1>2, <1>3, <1>6 DEF HeaderInv, Stays, wantedTrack, wantedSector
<1> QED BY <1>3, <1>7, <1>8, <1>9, <1>10, <1>11 DEF MInv

\* The wanted header: its CRC is good, and the gap before the field goes by.
LEMMA HeaderCrcInv == MInv /\ HeaderCrc => MInv'
<1> SUFFICES ASSUME MInv, HeaderCrc PROVE MInv'
  OBVIOUS
<1>1. /\ mpc = "crc" /\ mpc' = "crcstatus" /\ ReadData(TRUE)
      /\ UNCHANGED <<request, wrong, hdrTrack, hdrSector, count, got, requests, swaps>>
  BY DEF HeaderCrc, InData, At, Goto, regs
<1>2. drive.state = "hdr" /\ drive.hpos = 4 /\ rd_state = "run" /\ IInv
  BY <1>1 DEF MInv, HeadInv, InHeader, RegistersInv
<1>3. /\ IInv' /\ err' = "none"
      /\ UNCHANGED <<drive_no, rd_state, wr_state, media>> /\ OthersKept
      /\ drive'.state = "hdr" /\ Stays(drive', drive) /\ drive'.hpos = 5
  BY <1>1, <1>2, ReadHeader DEF HPOS_END
<1>4. ParkedInv'  BY <1>1, <1>3, StaysParked
<1>5. RegistersInv'  BY <1>1, <1>3 DEF MInv, RegistersInv
<1>6. HeadInv' /\ HeaderInv' /\ SearchInv' /\ FieldInv' /\ BufferInv'
  BY <1>1, <1>3 DEF MInv, HeadInv, HeaderInv, InHeader, Stays, SearchInv, FieldInv, BufferInv,
                    wantedTrack, wantedSector
<1> QED BY <1>3, <1>4, <1>5, <1>6 DEF MInv

LEMMA HeaderStatusInv == MInv /\ HeaderStatus => MInv'
<1> SUFFICES ASSUME MInv, HeaderStatus PROVE MInv'
  OBVIOUS
<1>1. /\ mpc = "crcstatus" /\ ReadStatus /\ IInv /\ count' = GAP
      /\ "CRC" \in StatusBits => mpc' = "gap"
      /\ UNCHANGED <<request, wrong, hdrTrack, hdrSector, got, requests, swaps>>
  BY DEF HeaderStatus, At, MInv
<1>2. drive.state = "hdr" /\ drive.hpos = 5  BY <1>1 DEF MInv, HeadInv, InHeader
<1>3. AtCrc(drive)  BY <1>2 DEF AtCrc
<1>4. /\ IInv' /\ err' = "none"
      /\ UNCHANGED <<drive_no, rd_state, wr_state, media>> /\ OthersKept
      /\ Stays(drive', drive) /\ drive'.state = "hdr" /\ drive'.hpos = 5 /\ mpc' = "gap"
  BY <1>1, <1>2, <1>3, ReadStatusBits
<1>5. ParkedInv'  BY <1>1, <1>4, StaysParked
<1>6. RegistersInv'  BY <1>1, <1>4, MonitorAssumption DEF MInv, RegistersInv
<1>7. HeadInv' /\ HeaderInv' /\ SearchInv' /\ FieldInv' /\ BufferInv'
  BY <1>1, <1>4 DEF MInv, HeadInv, HeaderInv, Stays, SearchInv, FieldInv, BufferInv,
                    wantedTrack, wantedSector
<1> QED BY <1>4, <1>5, <1>6, <1>7 DEF MInv

LEMMA GapInv == MInv /\ Gap => MInv'
<1> SUFFICES ASSUME MInv, Gap PROVE MInv'
  OBVIOUS
<1>1. /\ mpc = "gap" /\ rd_state = "run" /\ IInv /\ count \in Nat
      /\ drive.state = "hdr" /\ drive.hpos >= 5
      /\ UNCHANGED <<request, wrong, hdrTrack, hdrSector, got, requests, swaps>>
  BY DEF Gap, At, MInv, HeadInv, RegistersInv
<1>2. CASE count > 0
  <2>1. ReadData(TRUE) /\ count' = count - 1 /\ mpc' = "gap"  BY <1>1, <1>2 DEF Gap
  <2>2. drive.hpos \in -1 .. 17 /\ drive.hpos # -1  BY <1>1, DriveTyped
  <2>3. /\ IInv' /\ err' = "none"
        /\ UNCHANGED <<drive_no, rd_state, wr_state, media>> /\ OthersKept
        /\ drive'.state = "hdr" /\ Stays(drive', drive)
        /\ drive'.hpos = IF drive.hpos = HPOS_END THEN HPOS_END ELSE drive.hpos + 1
    BY <1>1, <2>1, <2>2, ReadHeader
  <2>4. drive'.hpos >= 5  BY <1>1, <2>2, <2>3 DEF HPOS_END
  <2>5. ParkedInv'  BY <1>1, <2>1, <2>3, StaysParked
  <2>6. RegistersInv'  BY <1>1, <1>2, <2>1, <2>3 DEF MInv, RegistersInv
  <2>7. HeadInv' /\ HeaderInv' /\ SearchInv' /\ FieldInv' /\ BufferInv'
    BY <1>1, <2>1, <2>3, <2>4 DEF MInv, HeadInv, HeaderInv, Stays, SearchInv, FieldInv, BufferInv,
                                  wantedTrack, wantedSector
  <2> QED BY <2>3, <2>5, <2>6, <2>7 DEF MInv
<1>3. CASE ~(count > 0)
  <2>1. /\ UNCHANGED <<drives, drive_no, rd_state, wr_state, media, err, count>>
        /\ mpc' = IF request.op = "read" THEN "darm" ELSE "w1"
    BY <1>3 DEF Gap, Goto, vars
  <2>2. IInv' /\ err' = "none"  BY <2>1 DEF MInv, IInv, CtlInv
  <2>3. drive' = drive  BY <2>1 DEF drive
  <2>4. request.op \in {"read", "write"}  BY <1>1, Serving DEF Reads, Writes
  <2>5. ParkedInv' /\ RegistersInv'
    BY <1>1, <2>1, <2>4 DEF MInv, ParkedInv, RegistersInv
  <2>6. HeadInv' /\ HeaderInv' /\ SearchInv' /\ FieldInv' /\ BufferInv'
    BY <1>1, <2>1, <2>3 DEF MInv, HeadInv, HeaderInv, SearchInv, FieldInv, BufferInv,
                            wantedTrack, wantedSector
  <2> QED BY <2>2, <2>5, <2>6 DEF MInv
<1> QED BY <1>2, <1>3

-----------------------------------------------------------------------------
\* The field of the header that was found: the drive is over its mark.
LEMMA ArmFieldInv == MInv /\ ArmField => MInv'
<1> SUFFICES ASSUME MInv, ArmField PROVE MInv'
  OBVIOUS
<1>1. CASE OutCW1("darm", CW1_READ_ARM, "drun")
  <2>1. /\ mpc = "darm" /\ mpc' = "drun" /\ WriteCW1(CW1_READ_ARM, TRUE) /\ IInv
        /\ UNCHANGED <<request, wrong, hdrTrack, hdrSector, count, got, requests, swaps>>
    BY <1>1 DEF OutCW1, At, Goto, regs, MInv
  <2>2. IInv' /\ err' = "none" /\ UNCHANGED <<drives, drive_no, media>>
    BY <2>1, QuietCW1
  <2>3. drive' = drive  BY <2>2 DEF drive
  <2>4. ParkedInv' /\ RegistersInv'  BY <2>1, <2>2 DEF MInv, ParkedInv, RegistersInv
  <2>5. HeadInv' /\ HeaderInv' /\ SearchInv' /\ FieldInv' /\ BufferInv'
    BY <2>1, <2>3 DEF MInv, HeadInv, HeaderInv, SearchInv, FieldInv, BufferInv,
                      wantedTrack, wantedSector
  <2> QED BY <2>2, <2>4, <2>5 DEF MInv
<1>2. CASE OutCW1("drun", CW1_READ_RUN, "dprime")
  <2>1. /\ mpc = "drun" /\ mpc' = "dprime" /\ WriteCW1(CW1_READ_RUN, TRUE) /\ IInv
        /\ UNCHANGED <<request, wrong, hdrTrack, hdrSector, count, got, requests, swaps>>
    BY <1>2 DEF OutCW1, At, Goto, regs, MInv
  <2>2. /\ IInv' /\ err' = "none" /\ UNCHANGED <<drive_no, wr_state, media>> /\ OthersKept
        /\ rd_state' = "run" /\ drive' = BeginReadPhase(drive)
    BY <2>1, BeginScan
  <2>3. DriveInv(drive) /\ drive.state = "hdr" /\ drive.hpos >= 5 /\ drive.hpos \in Int
    BY <2>1, SelectedDrive, DriveTyped DEF MInv, HeadInv
  <2>4. drive'.state = "data" /\ drive'.dpos = -2 /\ Stays(drive', drive)
    BY <2>2, <2>3, BeginReadPhaseHead DEF AtRest
  <2>5. ParkedInv'  BY <2>1, <2>2, StaysParked
  <2>6. RegistersInv'  BY <2>1, <2>2 DEF MInv, RegistersInv
  <2>7. HeadInv' /\ HeaderInv' /\ SearchInv' /\ FieldInv' /\ BufferInv'
    BY <2>1, <2>4 DEF MInv, HeadInv, InField, HeaderInv, Stays, SearchInv, FieldInv, BufferInv,
                      wantedTrack, wantedSector
  <2> QED BY <2>2, <2>5, <2>6, <2>7 DEF MInv
<1> QED BY <1>1, <1>2 DEF ArmField

\* One byte is read before the status shows the mark, and it is not the mark.
LEMMA WaitForFieldInv == MInv /\ WaitForField => MInv'
<1> SUFFICES ASSUME MInv, WaitForField PROVE MInv'
  OBVIOUS
<1>1. CASE InData("dprime", "dwait")
  <2>1. /\ mpc = "dprime" /\ mpc' = "dwait" /\ ReadData(TRUE)
        /\ UNCHANGED <<request, wrong, hdrTrack, hdrSector, count, got, requests, swaps>>
    BY <1>1 DEF InData, At, Goto, regs
  <2>2. /\ drive.state = "data" /\ drive.dpos = -2 /\ rd_state = "run" /\ IInv
        /\ drive.dpos <= SECTOR_SIZE + 2
    BY <2>1, GeometryAssumption DEF MInv, HeadInv, InField, RegistersInv
  <2>3. /\ IInv' /\ err' = "none"
        /\ UNCHANGED <<drive_no, rd_state, wr_state, media>> /\ OthersKept
        /\ drive'.state = "data" /\ Stays(drive', drive) /\ drive'.dpos = -1
    BY <2>1, <2>2, ReadFieldByte
  <2>4. ParkedInv'  BY <2>1, <2>3, StaysParked
  <2>5. RegistersInv'  BY <2>1, <2>3 DEF MInv, RegistersInv
  <2>6. HeadInv' /\ HeaderInv' /\ SearchInv' /\ FieldInv' /\ BufferInv'
    BY <2>1, <2>3 DEF MInv, HeadInv, InField, HeaderInv, Stays, SearchInv, FieldInv, BufferInv,
                      wantedTrack, wantedSector
  <2> QED BY <2>3, <2>4, <2>5, <2>6 DEF MInv
<1>2. CASE InStatus("dwait", "AM", "dmark", "dprime")
  <2>1. /\ mpc = "dwait" /\ ReadStatus /\ IInv
        /\ "AM" \in StatusBits => mpc' = "dmark"
        /\ UNCHANGED <<request, wrong, hdrTrack, hdrSector, count, got, requests, swaps>>
    BY <1>2 DEF InStatus, At, regs, MInv
  <2>2. drive.state = "data" /\ drive.dpos = -1  BY <2>1 DEF MInv, HeadInv, InField
  <2>3. AtMark(drive)  BY <2>2 DEF AtMark
  <2>4. /\ IInv' /\ err' = "none"
        /\ UNCHANGED <<drive_no, rd_state, wr_state, media>> /\ OthersKept
        /\ Stays(drive', drive) /\ drive'.state = "data" /\ drive'.dpos = -1 /\ mpc' = "dmark"
    BY <2>1, <2>2, <2>3, ReadStatusBits
  <2>5. ParkedInv'  BY <2>1, <2>4, StaysParked
  <2>6. RegistersInv'  BY <2>1, <2>4 DEF MInv, RegistersInv
  <2>7. HeadInv' /\ HeaderInv' /\ SearchInv' /\ FieldInv' /\ BufferInv'
    BY <2>1, <2>4 DEF MInv, HeadInv, InField, HeaderInv, Stays, SearchInv, FieldInv, BufferInv,
                      wantedTrack, wantedSector
  <2> QED BY <2>4, <2>5, <2>6, <2>7 DEF MInv
<1> QED BY <1>1, <1>2 DEF WaitForField

LEMMA FieldMarkInv == MInv /\ FieldMark => MInv'
<1> SUFFICES ASSUME MInv, FieldMark PROVE MInv'
  OBVIOUS
<1>1. /\ mpc = "dmark" /\ ReadData(TRUE)
      /\ DataBits = MARK_DATA => mpc' = "data"
      /\ UNCHANGED <<request, wrong, hdrTrack, hdrSector, count, got, requests, swaps>>
  BY DEF FieldMark, InMark, At, regs
<1>2. /\ drive.state = "data" /\ drive.dpos = -1 /\ rd_state = "run" /\ IInv
      /\ drive.dpos <= SECTOR_SIZE + 2 /\ got = <<>>
  BY <1>1, GeometryAssumption DEF MInv, HeadInv, InField, RegistersInv, FieldInv
<1>3. /\ IInv' /\ err' = "none"
      /\ UNCHANGED <<drive_no, rd_state, wr_state, media>> /\ OthersKept
      /\ drive'.state = "data" /\ Stays(drive', drive) /\ drive'.dpos = 0 /\ mpc' = "data"
  BY <1>1, <1>2, ReadFieldByte
<1>4. ParkedInv'  BY <1>1, <1>3, StaysParked
<1>5. RegistersInv'  BY <1>1, <1>3 DEF MInv, RegistersInv
<1>6. got' = <<>> /\ Len(got') = 0 /\ got' \in Seq(Bytes)  BY <1>1, <1>2
<1>7. HeadInv' /\ HeaderInv' /\ SearchInv' /\ BufferInv'
  BY <1>1, <1>3, <1>6 DEF MInv, HeadInv, InField, HeaderInv, Stays, SearchInv, BufferInv,
                          wantedTrack, wantedSector
<1>8. FieldInv'  BY <1>3, <1>6, GeometryAssumption DEF FieldInv
<1> QED BY <1>3, <1>4, <1>5, <1>7, <1>8 DEF MInv

\* The byte read is the next of the sector that the first byte fetched.
LEMMA FieldByteIs ==
  ASSUME MInv, FieldByte
  PROVE  /\ mpc = "data" /\ mpc' = IF Len(got) + 1 = SECTOR_SIZE THEN "dcrc" ELSE "data"
         /\ UNCHANGED <<drive_no, rd_state, wr_state, media, request, wrong, hdrTrack, hdrSector,
                        count, requests, swaps>>
         /\ IInv' /\ err' = "none" /\ OthersKept
         /\ drive'.state = "data" /\ Stays(drive', drive) /\ drive'.dpos = Len(got) + 1
         /\ drive'.data = IF Len(got) = 0 THEN StoredSector ELSE drive.data
         /\ got \in Seq(Bytes) /\ Len(got) < SECTOR_SIZE
         /\ got' \in Seq(Bytes) /\ Len(got') = Len(got) + 1
         /\ \A i \in 1 .. Len(got') : got'[i] = drive'.data[i]
<1>1. /\ mpc = "data" /\ ReadData(TRUE) /\ got' = Append(got, DataBits)
      /\ mpc' = IF Len(got) + 1 = SECTOR_SIZE THEN "dcrc" ELSE "data"
      /\ UNCHANGED <<request, wrong, hdrTrack, hdrSector, count, requests, swaps>>
  BY DEF FieldByte, At
<1>2. /\ drive.state = "data" /\ drive.dpos = Len(got) /\ rd_state = "run" /\ IInv
      /\ got \in Seq(Bytes) /\ Len(got) < SECTOR_SIZE /\ Len(got) \in Nat
      /\ \A i \in 1 .. Len(got) : got[i] = drive.data[i]
      /\ SECTOR_SIZE \in Nat \ {0}
  BY <1>1, GeometryAssumption DEF MInv, HeadInv, InField, RegistersInv, FieldInv
<1>3. /\ IInv' /\ err' = "none"
      /\ UNCHANGED <<drive_no, rd_state, wr_state, media>> /\ OthersKept
      /\ drive'.state = "data" /\ Stays(drive', drive) /\ drive'.dpos = Len(got) + 1
      /\ drive'.data = IF Len(got) = 0 THEN StoredSector ELSE drive.data
      /\ DataBits = drive'.data[Len(got) + 1]
  BY <1>1, <1>2, ReadFieldByte
<1>4. drive'.data \in Sector /\ DataBits \in Bytes
  <2>1. Len(got) = 0 => drive'.data \in Sector  BY <1>2, <1>3, SelectedDrive
  <2>2. Len(got) # 0 => drive'.data \in Sector  BY <1>2, <1>3, SelectedDrive DEF DriveInv
  <2> QED BY <1>2, <1>3, <2>1, <2>2 DEF Sector
<1>5. /\ got' \in Seq(Bytes) /\ Len(got') = Len(got) + 1
      /\ \A i \in 1 .. Len(got') : got'[i] = drive'.data[i]
  <2>1. got' \in Seq(Bytes) /\ Len(got') = Len(got) + 1  BY <1>1, <1>2, <1>4
  <2>2. got'[Len(got) + 1] = drive'.data[Len(got) + 1]  BY <1>1, <1>2, <1>3
  <2>3. \A i \in 1 .. Len(got) : got'[i] = drive'.data[i]  BY <1>1, <1>2, <1>3
  <2> QED BY <1>2, <2>1, <2>2, <2>3
<1> QED BY <1>1, <1>2, <1>3, <1>5

LEMMA FieldByteInv == MInv /\ FieldByte => MInv'
<1> SUFFICES ASSUME MInv, FieldByte PROVE MInv'
  OBVIOUS
<1>1. /\ mpc = "data" /\ mpc' = IF Len(got) + 1 = SECTOR_SIZE THEN "dcrc" ELSE "data"
      /\ UNCHANGED <<drive_no, rd_state, wr_state, media, request, wrong, hdrTrack, hdrSector,
                     count, requests, swaps>>
      /\ IInv' /\ err' = "none" /\ OthersKept
      /\ drive'.state = "data" /\ Stays(drive', drive) /\ drive'.dpos = Len(got) + 1
      /\ Len(got) < SECTOR_SIZE
      /\ got' \in Seq(Bytes) /\ Len(got') = Len(got) + 1
      /\ \A i \in 1 .. Len(got') : got'[i] = drive'.data[i]
  BY FieldByteIs
<1>2. Len(got) \in Nat /\ SECTOR_SIZE \in Nat
  BY FieldByteIs, GeometryAssumption
<1>3. ParkedInv'  BY <1>1, StaysParked
<1>4. RegistersInv'  BY <1>1 DEF MInv, RegistersInv
<1>5. HeadInv' /\ HeaderInv' /\ SearchInv' /\ BufferInv'
  BY <1>1, <1>2 DEF MInv, HeadInv, InField, HeaderInv, Stays, SearchInv, BufferInv,
                    wantedTrack, wantedSector
<1>6. FieldInv'  BY <1>1, <1>2 DEF FieldInv
<1> QED BY <1>1, <1>3, <1>4, <1>5, <1>6 DEF MInv

LEMMA FieldCrcIs ==
  ASSUME MInv, FieldCrc
  PROVE  /\ mpc = "dcrc" /\ mpc' = "dstatus"
         /\ UNCHANGED <<drive_no, rd_state, wr_state, media, request, wrong, hdrTrack, hdrSector,
                        count, got, requests, swaps>>
         /\ IInv' /\ err' = "none" /\ OthersKept
         /\ drive'.state = "data" /\ Stays(drive', drive) /\ drive'.dpos = SECTOR_SIZE + 1
         /\ drive'.data = drive.data
<1>1. /\ mpc = "dcrc" /\ mpc' = "dstatus" /\ ReadData(TRUE)
      /\ UNCHANGED <<request, wrong, hdrTrack, hdrSector, count, got, requests, swaps>>
  BY DEF FieldCrc, InData, At, Goto, regs
<1>2. /\ drive.state = "data" /\ drive.dpos = SECTOR_SIZE /\ rd_state = "run" /\ IInv
      /\ drive.dpos <= SECTOR_SIZE + 2 /\ drive.dpos # 0
  BY <1>1, GeometryAssumption DEF MInv, HeadInv, InField, RegistersInv
<1> QED BY <1>1, <1>2, ReadFieldByte

LEMMA FieldCrcInv == MInv /\ FieldCrc => MInv'
<1> SUFFICES ASSUME MInv, FieldCrc PROVE MInv'
  OBVIOUS
<1>1. /\ mpc = "dcrc" /\ mpc' = "dstatus"
      /\ UNCHANGED <<drive_no, rd_state, wr_state, media, request, wrong, hdrTrack, hdrSector,
                     count, got, requests, swaps>>
      /\ IInv' /\ err' = "none" /\ OthersKept
      /\ drive'.state = "data" /\ Stays(drive', drive) /\ drive'.dpos = SECTOR_SIZE + 1
      /\ drive'.data = drive.data
  BY FieldCrcIs
<1>2. ParkedInv'  BY <1>1, StaysParked
<1>3. RegistersInv'  BY <1>1 DEF MInv, RegistersInv
<1>4. HeadInv' /\ HeaderInv' /\ SearchInv' /\ FieldInv' /\ BufferInv'
  BY <1>1 DEF MInv, HeadInv, InField, HeaderInv, Stays, SearchInv, FieldInv, BufferInv,
              wantedTrack, wantedSector
<1> QED BY <1>1, <1>2, <1>3, <1>4 DEF MInv

\* The CRC of the field is good: the read is over, and its drive at rest.
LEMMA ReadEndsIs ==
  ASSUME MInv, ReadEnds
  PROVE  /\ mpc = "dstatus" /\ mpc' = "idle" /\ request' = NoRequest
         /\ UNCHANGED <<drive_no, rd_state, wr_state, media, wrong, hdrTrack, hdrSector, count,
                        got, requests, swaps>>
         /\ IInv' /\ err' = "none" /\ OthersKept /\ drive'.state = "data"
         /\ drive.data \in Sector
<1>1. /\ mpc = "dstatus" /\ ReadStatus /\ IInv
      /\ "CRC" \in StatusBits => mpc' = "idle" /\ request' = NoRequest
      /\ UNCHANGED <<wrong, hdrTrack, hdrSector, count, got, requests, swaps>>
  BY DEF ReadEnds, At, Finish, Goto, MInv
<1>2. drive.state = "data" /\ drive.dpos = SECTOR_SIZE + 1
  BY <1>1 DEF MInv, HeadInv, InField
<1>3. AtCrc(drive) /\ drive.data \in Sector
  BY <1>1, <1>2, SelectedDrive, GeometryAssumption DEF AtCrc, DriveInv
<1> QED BY <1>1, <1>2, <1>3, ReadStatusBits

LEMMA ReadEndsInv == MInv /\ ReadEnds => MInv'
<1> SUFFICES ASSUME MInv, ReadEnds PROVE MInv'
  OBVIOUS
<1>1. /\ mpc = "dstatus" /\ mpc' = "idle" /\ request' = NoRequest
      /\ UNCHANGED <<drive_no, rd_state, wr_state, media, wrong, hdrTrack, hdrSector, count,
                     got, requests, swaps>>
      /\ IInv' /\ err' = "none" /\ OthersKept /\ drive'.state = "data"
  BY ReadEndsIs
<1>2. ParkedInv'  BY <1>1, StaysParked DEF AtRest
<1>3. RegistersInv'  BY <1>1 DEF MInv, RegistersInv
<1>4. HeadInv' /\ HeaderInv' /\ SearchInv' /\ FieldInv' /\ BufferInv'
  BY <1>1 DEF HeadInv, HeaderInv, SearchInv, FieldInv, BufferInv
<1> QED BY <1>1, <1>2, <1>3, <1>4 DEF MInv

-----------------------------------------------------------------------------
\* Arming the write touches no drive; the bytes put out meanwhile are ignored.
LEMMA BeginWriteInv == MInv /\ BeginWrite => MInv'
<1> SUFFICES ASSUME MInv, BeginWrite PROVE MInv'
  OBVIOUS
<1>1. UNCHANGED <<request, wrong, hdrTrack, hdrSector, count, got, requests, swaps>>
  BY DEF BeginWrite, OutCW1, OutCW2, OutData, regs
<1>2. /\ mpc \in {"w1", "w2", "w3", "w4", "w5", "w6"}
      /\ mpc' \in {"w2", "w3", "w4", "w5", "w6", "w7"}
  BY DEF BeginWrite, OutCW1, OutCW2, OutData, At, Goto
<1>3. /\ IInv /\ drive_no = request.drive /\ request.drive \in Drive
      /\ rd_state = "run" /\ drive.state = "hdr" /\ drive.hpos >= 5
      /\ mpc \in {"w4", "w6"} => wr_state # "wdata"
  BY <1>2, Serving DEF MInv, RegistersInv, HeadInv, BufferInv
<1>4. /\ IInv' /\ err' = "none" /\ UNCHANGED <<drives, drive_no, rd_state, media>>
      /\ mpc' \in {"w4", "w6"} => wr_state' # "wdata"
  <2>1. CASE OutCW1("w1", CW1_WRITE_1, "w2")
    <3>1. mpc' = "w2" /\ WriteCW1(CW1_WRITE_1, TRUE)  BY <2>1 DEF OutCW1, Goto
    <3> QED BY <1>3, <3>1, QuietCW1 DEF CW1_WRITE_1, CW1_READ_ARM
  <2>2. CASE OutCW2("w2", 192, "w3")
    <3>1. mpc' = "w3" /\ WriteCW2(192 + request.drive)  BY <2>2 DEF OutCW2, Goto
    <3> QED BY <1>3, <3>1, SelectOnly
  <2>3. CASE OutCW1("w3", CW1_WRITE_3, "w4")
    <3>1. mpc' = "w4" /\ WriteCW1(CW1_WRITE_3, TRUE)  BY <2>3 DEF OutCW1, Goto
    <3> QED BY <1>3, <3>1, QuietCW1 DEF CW1_WRITE_3, CW1_READ_ARM
  <2>4. CASE OutCW1("w5", CW1_WRITE_4, "w6")
    <3>1. mpc' = "w6" /\ WriteCW1(CW1_WRITE_4, TRUE)  BY <2>4 DEF OutCW1, Goto
    <3> QED BY <1>3, <3>1, QuietCW1 DEF CW1_WRITE_4, CW1_READ_ARM
  <2>5. CASE OutData("w4", Payload[1], "w5") \/ OutData("w6", Payload[1], "w7")
    <3>1. /\ mpc \in {"w4", "w6"} /\ mpc' \in {"w5", "w7"}
          /\ WriteData(Payload[1])
      BY <2>5 DEF OutData, At, Goto
    <3>2. Payload[1] \in Bytes  BY MonitorAssumption, GeometryAssumption DEF Sector
    <3> QED BY <1>3, <3>1, <3>2, QuietData DEF ctlVars
  <2> QED BY <2>1, <2>2, <2>3, <2>4, <2>5 DEF BeginWrite
<1>5. drive' = drive  BY <1>4 DEF drive
<1>6. ParkedInv' /\ RegistersInv'
  BY <1>1, <1>2, <1>4 DEF MInv, ParkedInv, RegistersInv
<1>7. HeadInv' /\ HeaderInv' /\ SearchInv' /\ FieldInv' /\ BufferInv'
  BY <1>1, <1>2, <1>3, <1>4, <1>5
     DEF MInv, HeadInv, HeaderInv, SearchInv, FieldInv, BufferInv, wantedTrack, wantedSector
<1> QED BY <1>4, <1>6, <1>7 DEF MInv

\* A drive whose buffer alone changes has its head where it was.
SameHead(r, drv) ==
  /\ r.state = drv.state /\ r.hpos = drv.hpos
  /\ r.track = drv.track /\ r.sector = drv.sector

LEMMA BufferMoves ==
  ASSUME NEW drv \in DriveType, NEW b
  PROVE  /\ SameHead(PrepareWrite(drv), drv)
         /\ PrepareWrite(drv).prepared = TRUE /\ PrepareWrite(drv).wbuf = <<>>
         /\ SameHead(WriteAddByte(drv, b), drv)
         /\ WriteAddByte(drv, b).prepared = drv.prepared
         /\ WriteAddByte(drv, b).wbuf = Append(drv.wbuf, b)
         /\ SameHead(CommitWrite(drv), drv)
BY DEF SameHead, PrepareWrite, WriteAddByte, CommitWrite, DriveType

LEMMA StartFieldInv == MInv /\ StartField => MInv'
<1> SUFFICES ASSUME MInv, StartField PROVE MInv'
  OBVIOUS
<1>1. /\ mpc = "w7" /\ mpc' = "wdata" /\ WriteCW1(CW1_WRITE_DATA, TRUE) /\ count' = 1 /\ IInv
      /\ UNCHANGED <<request, wrong, hdrTrack, hdrSector, got, requests, swaps>>
  BY DEF StartField, At, Goto, MInv
<1>2. /\ IInv' /\ err' = "none" /\ UNCHANGED <<drive_no, rd_state, media>> /\ OthersKept
      /\ wr_state' = "wdata" /\ drive' = PrepareWrite(drive)
  BY <1>1, BeginField
<1>3. SameHead(drive', drive) /\ drive'.prepared = TRUE /\ drive'.wbuf = <<>>
  BY <1>1, <1>2, DriveTyped, BufferMoves
<1>4. ParkedInv'  BY <1>1, <1>2, StaysParked
<1>5. RegistersInv'  BY <1>1, <1>2 DEF MInv, RegistersInv
<1>6. HeadInv' /\ HeaderInv' /\ SearchInv' /\ FieldInv'
  BY <1>1, <1>3 DEF MInv, HeadInv, HeaderInv, SameHead, SearchInv, FieldInv,
                    wantedTrack, wantedSector
<1>7. BufferInv'  BY <1>1, <1>2, <1>3, GeometryAssumption DEF BufferInv
<1> QED BY <1>2, <1>4, <1>5, <1>6, <1>7 DEF MInv

\* There is room in the buffer for every byte of the payload.
LEMMA PutByteInv == MInv /\ PutByte => MInv'
<1> SUFFICES ASSUME MInv, PutByte PROVE MInv'
  OBVIOUS
<1>1. /\ mpc = "wdata" /\ WriteData(Payload[count]) /\ count' = count + 1 /\ IInv
      /\ mpc' = IF count = SECTOR_SIZE THEN "commit" ELSE "wdata"
      /\ UNCHANGED <<request, wrong, hdrTrack, hdrSector, got, requests, swaps>>
  BY DEF PutByte, At, MInv
<1>2. /\ wr_state = "wdata" /\ drive.prepared /\ count \in 1 .. SECTOR_SIZE
      /\ Len(drive.wbuf) = count - 1
      /\ \A i \in 1 .. count - 1 : drive.wbuf[i] = Payload[i]
      /\ drive.wbuf \in Seq(Bytes) /\ SECTOR_SIZE \in Nat \ {0}
  BY <1>1, DriveTyped, GeometryAssumption DEF MInv, BufferInv, DriveType, WriteBuffer
<1>3. Payload \in Sector /\ Payload[count] \in Bytes
  BY <1>2, MonitorAssumption DEF Sector
<1>4. CanAddByte(drive)  BY <1>2 DEF CanAddByte
<1>5. /\ IInv' /\ err' = "none" /\ UNCHANGED <<drive_no, rd_state, wr_state, media>>
      /\ OthersKept /\ drive' = WriteAddByte(drive, Payload[count])
  BY <1>1, <1>2, <1>3, <1>4, PutInBuffer
<1>6. /\ SameHead(drive', drive) /\ drive'.prepared = drive.prepared
      /\ drive'.wbuf = Append(drive.wbuf, Payload[count])
  BY <1>1, <1>5, DriveTyped, BufferMoves
<1>7. /\ drive'.wbuf \in Seq(Bytes) /\ Len(drive'.wbuf) = count
      /\ \A i \in 1 .. count : drive'.wbuf[i] = Payload[i]
  BY <1>2, <1>3, <1>6
<1>8. ParkedInv'  BY <1>1, <1>5, StaysParked
<1>9. RegistersInv'  BY <1>1, <1>2, <1>5 DEF MInv, RegistersInv
<1>10. HeadInv' /\ HeaderInv' /\ SearchInv' /\ FieldInv'
  BY <1>1, <1>6 DEF MInv, HeadInv, HeaderInv, SameHead, SearchInv, FieldInv,
                    wantedTrack, wantedSector
<1>11. BufferInv'
  <2>1. CASE count = SECTOR_SIZE
    <3>1. drive'.wbuf = Payload  BY <1>2, <1>3, <1>7, <2>1 DEF Sector
    <3> QED BY <1>1, <1>2, <1>6, <2>1, <3>1 DEF BufferInv
  <2>2. CASE count # SECTOR_SIZE
    BY <1>1, <1>2, <1>5, <1>6, <1>7, <2>2 DEF BufferInv
  <2> QED BY <2>1, <2>2
<1> QED BY <1>5, <1>8, <1>9, <1>10, <1>11 DEF MInv

\* The buffer holds one whole sector when it is handed over.
LEMMA CommitIs ==
  ASSUME MInv, Commit
  PROVE  /\ mpc = "commit" /\ mpc' = "wcrc" /\ IInv' /\ err' = "none"
         /\ UNCHANGED <<drive_no, rd_state, request, wrong, hdrTrack, hdrSector, count, got,
                        requests, swaps>>
         /\ OthersKept /\ wr_state' = "off" /\ SameHead(drive', drive)
         /\ media' = [media EXCEPT ![drive_no][<<drive.track, drive.sector>>] = Payload]
<1>1. /\ mpc = "commit" /\ mpc' = "wcrc" /\ WriteCW1(CW1_WRITE_COMMIT, TRUE) /\ IInv
      /\ UNCHANGED <<request, wrong, hdrTrack, hdrSector, count, got, requests, swaps>>
  BY DEF Commit, OutCW1, At, Goto, regs, MInv
<1>2. drive.prepared /\ drive.wbuf = Payload  BY <1>1 DEF MInv, BufferInv
<1>3. Len(drive.wbuf) = SECTOR_SIZE
  <2>1. drive.wbuf \in Seq(Bytes)  BY <1>1, DriveTyped DEF DriveType, WriteBuffer
  <2>2. DOMAIN drive.wbuf = 1 .. SECTOR_SIZE  BY <1>2, MonitorAssumption DEF Sector
  <2> QED BY <2>1, <2>2, GeometryAssumption
<1>4. CanCommit(drive)  BY <1>2, <1>3 DEF CanCommit
<1>5. /\ IInv' /\ err' = "none" /\ UNCHANGED <<drive_no, rd_state>> /\ OthersKept
      /\ wr_state' = "off" /\ drive' = CommitWrite(drive)
      /\ media' = [media EXCEPT ![drive_no][<<drive.track, drive.sector>>] = drive.wbuf]
  BY <1>1, <1>4, HandOver
<1>6. SameHead(drive', drive)  BY <1>1, <1>5, DriveTyped, BufferMoves
<1> QED BY <1>1, <1>2, <1>5, <1>6

LEMMA CommitInv == MInv /\ Commit => MInv'
<1> SUFFICES ASSUME MInv, Commit PROVE MInv'
  OBVIOUS
<1>1. /\ mpc = "commit" /\ mpc' = "wcrc" /\ IInv' /\ err' = "none"
      /\ UNCHANGED <<drive_no, rd_state, request, wrong, hdrTrack, hdrSector, count, got,
                     requests, swaps>>
      /\ OthersKept /\ wr_state' = "off" /\ SameHead(drive', drive)
  BY CommitIs
<1>2. ParkedInv'  BY <1>1, StaysParked
<1>3. RegistersInv'  BY <1>1 DEF MInv, RegistersInv
<1>4. HeadInv' /\ HeaderInv' /\ SearchInv' /\ FieldInv' /\ BufferInv'
  BY <1>1 DEF MInv, HeadInv, HeaderInv, SameHead, SearchInv, FieldInv, BufferInv,
              wantedTrack, wantedSector
<1> QED BY <1>1, <1>2, <1>3, <1>4 DEF MInv

\* The rest of the write sequence touches no drive and leaves it at rest.
LEMMA WriteEndsInv == MInv /\ WriteEnds => MInv'
<1> SUFFICES ASSUME MInv, WriteEnds PROVE MInv'
  OBVIOUS
<1>1. /\ \/ mpc = "wcrc" /\ mpc' = "wend1" /\ UNCHANGED request
         \/ mpc = "wend1" /\ mpc' = "wend2" /\ UNCHANGED request
         \/ mpc = "wend2" /\ mpc' = "idle" /\ request' = NoRequest
      /\ UNCHANGED <<wrong, hdrTrack, hdrSector, count, got, requests, swaps>>
  BY DEF WriteEnds, OutData, OutCW1, At, Goto, Finish, regs
<1>2. /\ IInv /\ drive_no = request.drive /\ request.drive \in Drive
      /\ rd_state = "run" /\ drive.state = "hdr" /\ drive.hpos >= 5 /\ drive.hpos \in Int
      /\ mpc = "wcrc" => wr_state # "wdata"
  BY <1>1, Serving, DriveTyped DEF MInv, RegistersInv, HeadInv, BufferInv
<1>3. IInv' /\ err' = "none" /\ UNCHANGED <<drives, drive_no, rd_state, media>>
  <2>1. CASE OutData("wcrc", Payload[1], "wend1")
    <3>1. mpc = "wcrc" /\ WriteData(Payload[1])  BY <2>1 DEF OutData, At
    <3>2. Payload[1] \in Bytes  BY MonitorAssumption, GeometryAssumption DEF Sector
    <3> QED BY <1>2, <3>1, <3>2, QuietData DEF ctlVars
  <2>2. CASE OutCW1("wend1", 193, "wend2")
    <3>1. WriteCW1(193, TRUE)  BY <2>2 DEF OutCW1
    <3> QED BY <1>2, <3>1, QuietCW1 DEF CW1_READ_ARM
  <2>3. CASE WriteCW2(64 + request.drive)
    BY <1>2, <2>3, SelectOnly
  <2> QED BY <2>1, <2>2, <2>3 DEF WriteEnds
<1>4. drive' = drive  BY <1>3 DEF drive
<1>5. AtRest(drive')  BY <1>2, <1>4 DEF AtRest
<1>6. OthersKept  BY <1>3 DEF OthersKept
<1>7. ParkedInv'  BY <1>1, <1>3, <1>5, <1>6, StaysParked
<1>8. RegistersInv'  BY <1>1, <1>3 DEF MInv, RegistersInv
<1>9. HeadInv' /\ HeaderInv' /\ SearchInv' /\ FieldInv' /\ BufferInv'
  BY <1>1, <1>4 DEF MInv, HeadInv, HeaderInv, SearchInv, FieldInv, BufferInv,
                    wantedTrack, wantedSector
<1> QED BY <1>3, <1>7, <1>8, <1>9 DEF MInv

-----------------------------------------------------------------------------
\* A diskette swapped at any moment moves no head and no register.
LEMMA SwapDisketteInv ==
  ASSUME MInv, NEW d \in Drive, NEW image \in Diskettes, SwapDiskette(d, image)
  PROVE  MInv'
<1>1. /\ media' = [media EXCEPT ![d] = image] /\ swaps' = swaps + 1
      /\ UNCHANGED <<drives, drive_no, rd_state, wr_state, err, mpc, request, wrong, hdrTrack,
                     hdrSector, count, got, requests>>
  BY DEF SwapDiskette, ChangeDiskette, ctlVars, regs
<1>2. image \in Image  BY DiskettesAssumption
<1>3. IInv'  BY <1>1, <1>2 DEF MInv, IInv, CtlInv
<1>4. drive' = drive  BY <1>1 DEF drive
<1>5. RegistersInv' /\ ParkedInv'  BY <1>1 DEF MInv, RegistersInv, ParkedInv
<1>6. HeadInv' /\ HeaderInv' /\ SearchInv' /\ FieldInv' /\ BufferInv'
  BY <1>1, <1>4 DEF MInv, HeadInv, InHeader, InField, HeaderInv, SearchInv, FieldInv, BufferInv,
                    wantedTrack, wantedSector
<1> QED BY <1>1, <1>3, <1>5, <1>6 DEF MInv

LEMMA MInitInv == MInit => MInv
<1> SUFFICES ASSUME MInit PROVE MInv
  OBVIOUS
<1>1. /\ Init /\ mpc = "idle" /\ request = NoRequest /\ wrong = 0 /\ hdrTrack = 0
      /\ hdrSector = 0 /\ count = 0 /\ got = <<>> /\ requests = 0 /\ swaps = 0
      /\ drives = [d \in Drive |-> NewDrive] /\ err = "none"
  BY DEF MInit, Init
<1>2. IInv  BY <1>1, InitInv
<1>3. NewDrive.state = "inactive"
  BY DEF NewDrive, Reset, SetAtState
<1>4. ParkedInv  BY <1>1, <1>3 DEF ParkedInv, AtRest
<1>5. RegistersInv  BY <1>1 DEF RegistersInv
<1>6. HeadInv /\ HeaderInv /\ SearchInv /\ FieldInv /\ BufferInv
  BY <1>1 DEF HeadInv, HeaderInv, SearchInv, FieldInv, BufferInv
<1> QED BY <1>1, <1>2, <1>4, <1>5, <1>6 DEF MInv

LEMMA MStutterInv == MInv /\ UNCHANGED mvars => MInv'
<1> SUFFICES ASSUME MInv, UNCHANGED mvars PROVE MInv'
  OBVIOUS
<1>1. UNCHANGED <<drives, drive_no, rd_state, wr_state, media, err, mpc, request, wrong,
                  hdrTrack, hdrSector, count, got, requests, swaps>>
  BY DEF mvars, vars, regs
<1>2. IInv'  BY <1>1 DEF MInv, IInv, CtlInv
<1>3. drive' = drive  BY <1>1 DEF drive
<1>4. RegistersInv' /\ ParkedInv'  BY <1>1 DEF MInv, RegistersInv, ParkedInv
<1>5. HeadInv' /\ HeaderInv' /\ SearchInv' /\ FieldInv' /\ BufferInv'
  BY <1>1, <1>3 DEF MInv, HeadInv, InHeader, InField, HeaderInv, SearchInv, FieldInv, BufferInv,
                    wantedTrack, wantedSector
<1> QED BY <1>1, <1>2, <1>4, <1>5 DEF MInv

LEMMA MNextInv == MInv /\ [MNext]_mvars => MInv'
<1> SUFFICES ASSUME MInv, [MNext]_mvars PROVE MInv'
  OBVIOUS
<1>1. ASSUME NEW r \in Reads \cup Writes, Submit(r) PROVE MInv'
  BY <1>1, SubmitInv
<1>2. CASE SearchHeader
  BY <1>2, SelectInv, ArmHeaderInv, WaitForHeaderInv, HeaderMarkInv, TrackByteInv, SideByteInv,
     SectorByteInv, OffTrackInv, OffTrackStatusInv, SeekInv, OnTrackInv, HeaderCrcInv,
     HeaderStatusInv, GapInv DEF SearchHeader
<1>3. CASE ReadField
  BY <1>3, ArmFieldInv, WaitForFieldInv, FieldMarkInv, FieldByteInv, FieldCrcInv, ReadEndsInv
     DEF ReadField
<1>4. CASE WriteField
  BY <1>4, BeginWriteInv, StartFieldInv, PutByteInv, CommitInv, WriteEndsInv DEF WriteField
<1>5. ASSUME NEW d \in Drive, NEW image \in Diskettes, SwapDiskette(d, image) PROVE MInv'
  BY <1>5, SwapDisketteInv
<1>6. CASE UNCHANGED mvars
  BY <1>6, MStutterInv
<1> QED BY <1>1, <1>2, <1>3, <1>4, <1>5, <1>6 DEF MNext, Monitor

-----------------------------------------------------------------------------
\* The inductive invariant holds in every reachable state.
THEOREM MInvariance == MSpec => []MInv
<1> QED BY MInitInv, MNextInv, PTL DEF MSpec

\* For every geometry, gap, payload and diskettes, and diskettes swapped at any byte:
\* a routine finds the header it looks for before it has counted a track of others,
\* and the field behind it.
THEOREM RoutineNeverGivesUp == MSpec => []NeverGivesUp
<1>1. MInv => NeverGivesUp  BY DEF MInv, RegistersInv, NeverGivesUp, At
<1> QED BY <1>1, MInvariance, PTL

\* No request raises in the controller, whatever drives and sectors the requests before
\* it were for: there is always a buffer, with room for a byte and whole at the commit.
THEOREM RoutineNeverRaises == MSpec => []NeverRaises
<1>1. MInv => NeverRaises  BY DEF MInv, NeverRaises
<1> QED BY <1>1, MInvariance, PTL

-----------------------------------------------------------------------------
(***************************************************************************)
(* Refinement: a read takes effect when the first byte of its field        *)
(* fetches the sector, a write when the buffer is handed over, and every   *)
(* other port access of a routine is a stutter of the sector service.      *)
(***************************************************************************)
PerformedPlaces == {"data", "dcrc", "dstatus", "wcrc", "wend1", "wend2"}

LEMMA RequestIsOne ==
  ASSUME NEW r \in Reads \cup Writes
  PROVE  r # NoRequest
<1>1. r.op \in {"read", "write"} /\ DOMAIN r = {"op", "drive", "position"}
  BY DEF Reads, Writes
<1>2. DOMAIN NoRequest = 1 .. 0  BY DEF NoRequest
<1> QED BY <1>1, <1>2

\* Before the effect and after the request is answered.
LEMMA NotPerformed ==
  /\ mpc \notin PerformedPlaces => ~fetched /\ ~committed /\ valueBar = <<>>
  /\ mpc' \notin PerformedPlaces => ~fetched' /\ ~committed' /\ valueBar' = <<>>
BY DEF PerformedPlaces, fetched, committed, valueBar, At

\* A step that the service does not see.
LEMMA Unseen ==
  ASSUME UNCHANGED <<media, request, swaps>>, valueBar' = valueBar, answerBar' = answerBar,
         (fetched \/ committed)' <=> (fetched \/ committed)
  PROVE  UNCHANGED Service!vars
<1>1. (fetched \/ committed)' = (fetched \/ committed)  OBVIOUS
<1> QED BY <1>1 DEF Service!vars

LEMMA UnseenBefore ==
  ASSUME UNCHANGED <<media, request, got, swaps>>,
         mpc \notin PerformedPlaces, mpc' \notin PerformedPlaces
  PROVE  UNCHANGED Service!vars
<1>1. answerBar' = answerBar  BY DEF answerBar
<1> QED BY <1>1, NotPerformed, Unseen

LEMMA InitRefines == MInit => Service!Init
<1> SUFFICES ASSUME MInit PROVE Service!Init
  OBVIOUS
<1>1. /\ media \in [Drive -> Image] /\ mpc = "idle" /\ request = NoRequest /\ got = <<>>
      /\ swaps = 0
  BY DiskettesAssumption DEF MInit, Init
<1>2. (fetched \/ committed) = FALSE /\ valueBar = <<>>
  BY <1>1, NotPerformed DEF PerformedPlaces
<1>3. answerBar = <<>>  BY <1>1 DEF answerBar
<1> QED BY <1>1, <1>2, <1>3 DEF Service!Init, Service!NoRequest, Service!NoValue, NoRequest, Image

LEMMA SubmitRefines ==
  ASSUME MInv, NEW r \in Reads \cup Writes, Submit(r)
  PROVE  Service!Next
<1>1. /\ mpc = "idle" /\ mpc' = "select" /\ request' = r /\ got' = <<>> /\ request = NoRequest
      /\ UNCHANGED <<media, swaps>>
  BY DEF Submit, At, Goto, vars, MInv, RegistersInv
<1>2. answerBar' = <<>>  BY <1>1 DEF answerBar
<1>3. /\ (fetched \/ committed) = FALSE /\ (fetched \/ committed)' = FALSE
      /\ valueBar' = valueBar
  BY <1>1, NotPerformed DEF PerformedPlaces
<1>4. Service!Submit(r)
  BY <1>1, <1>2, <1>3 DEF Service!Submit, Service!NoRequest, Service!NoValue, NoRequest
<1> QED BY <1>4 DEF Service!Next

\* Only 0xad writes to an image.
LEMMA SearchUnseen == SearchHeader => UNCHANGED Service!vars
<1> SUFFICES ASSUME SearchHeader PROVE UNCHANGED Service!vars
  OBVIOUS
<1>1. UNCHANGED <<request, got, swaps>>
  BY DEF SearchHeader, Select, ArmHeader, WaitForHeader, HeaderMark, TrackByte, SideByte, SectorByte,
         OffTrack, OffTrackStatus, Seek, StepPulse, StepEnd, OnTrack, HeaderCrc, HeaderStatus, Gap,
         OutCW1, OutCW2, InStatus, InMark, InData, regs
<1>2. mpc \notin PerformedPlaces /\ mpc' \notin PerformedPlaces
  BY DEF SearchHeader, Select, ArmHeader, WaitForHeader, HeaderMark, TrackByte, SideByte, SectorByte,
         OffTrack, OffTrackStatus, Seek, StepPulse, StepEnd, OnTrack, HeaderCrc, HeaderStatus, Gap,
         OutCW1, OutCW2, InStatus, InMark, InData, At, Goto, PerformedPlaces
<1>3. \/ ReadData(TRUE) \/ ReadStatus \/ \E v : WriteCW2(v)
      \/ WriteCW1(CW1_READ_ARM, TRUE) \/ WriteCW1(CW1_READ_RUN, TRUE) \/ UNCHANGED vars
  BY DEF SearchHeader, Select, ArmHeader, WaitForHeader, HeaderMark, TrackByte, SideByte, SectorByte,
         OffTrack, OffTrackStatus, Seek, StepPulse, StepEnd, OnTrack, HeaderCrc, HeaderStatus, Gap,
         OutCW1, OutCW2, InStatus, InMark, InData
<1>4. UNCHANGED media
  BY <1>3 DEF ReadData, ReadStatus, WriteCW2, WriteCW1, ReadCommand, WriteCommand, WriteCommit,
              CW1_READ_ARM, CW1_READ_RUN, CW1_WRITE_COMMIT, vars
<1> QED BY <1>1, <1>2, <1>4, UnseenBefore

LEMMA FieldFoundUnseen ==
  ASSUME MInv, ArmField \/ WaitForField
  PROVE  UNCHANGED Service!vars
<1>1. UNCHANGED <<request, got, swaps>>
  BY DEF ArmField, WaitForField, OutCW1, InStatus, InData, regs
<1>2. mpc \notin PerformedPlaces /\ mpc' \notin PerformedPlaces
  BY DEF ArmField, WaitForField, OutCW1, InStatus, InData, At, Goto, PerformedPlaces
<1>3. \/ ReadData(TRUE) \/ ReadStatus
      \/ WriteCW1(CW1_READ_ARM, TRUE) \/ WriteCW1(CW1_READ_RUN, TRUE)
  BY DEF ArmField, WaitForField, OutCW1, InStatus, InData
<1>4. UNCHANGED media
  BY <1>3 DEF ReadData, ReadStatus, WriteCW1, ReadCommand, WriteCommand, WriteCommit,
              CW1_READ_ARM, CW1_READ_RUN, CW1_WRITE_COMMIT
<1> QED BY <1>1, <1>2, <1>4, UnseenBefore

\* The mark has gone by, and nothing has been fetched yet.
LEMMA FieldMarkUnseen ==
  ASSUME MInv, FieldMark
  PROVE  UNCHANGED Service!vars
<1>1. /\ mpc = "dmark" /\ mpc' \in {"data", "failed"} /\ got = <<>>
      /\ UNCHANGED <<media, request, got, swaps>>
  BY DEF FieldMark, InMark, At, regs, ReadData, MInv, FieldInv
<1>2. /\ ~fetched /\ ~committed /\ valueBar = <<>>
      /\ ~fetched' /\ ~committed' /\ valueBar' = <<>>
  BY <1>1 DEF fetched, committed, valueBar, At
<1>3. answerBar' = answerBar  BY <1>1 DEF answerBar
<1> QED BY <1>1, <1>2, <1>3, Unseen

\* The first byte fetches the sector wanted: the read has taken effect.
LEMMA FieldByteRefines ==
  ASSUME MInv, FieldByte
  PROVE  [Service!Next]_(Service!vars)
<1>1. /\ mpc = "data" /\ mpc' \in {"data", "dcrc"}
      /\ UNCHANGED <<drive_no, media, request, swaps>>
      /\ drive'.data = IF Len(got) = 0 THEN StoredSector ELSE drive.data
      /\ got \in Seq(Bytes) /\ got' \in Seq(Bytes) /\ Len(got') = Len(got) + 1
  BY FieldByteIs
<1>2. /\ request \in Reads /\ request # NoRequest /\ drive_no = request.drive
      /\ StoredSector = media[request.drive][request.position]
  <2>1. request \in Reads
    BY <1>1, Serving DEF MInv, RegistersInv, Reads, Writes
  <2>2. drive.track = wantedTrack /\ drive.sector = wantedSector  BY <1>1 DEF MInv, HeaderInv
  <2> QED BY <1>1, <2>1, <2>2, Serving, RequestIsOne DEF StoredSector
<1>3. got' # <<>> /\ fetched' /\ valueBar' = drive'.data /\ ~committed /\ ~committed'
  <2>1. got' # <<>>  BY <1>1
  <2>2. fetched' /\ ~committed /\ ~committed'  BY <1>1, <2>1 DEF fetched, committed, At
  <2>3. drive' = drives'[request'.drive]  BY <1>1, <1>2 DEF drive
  <2> QED BY <2>1, <2>2, <2>3 DEF valueBar
<1>4. answerBar = <<>> /\ answerBar' = <<>>  BY <1>1, <1>2 DEF answerBar
<1>5. CASE got = <<>>
  <2>1. ~fetched /\ valueBar = <<>>  BY <1>1, <1>5 DEF fetched, valueBar, At
  <2>2. valueBar' = media[request.drive][request.position]  BY <1>1, <1>2, <1>3, <1>5
  <2>3. (fetched \/ committed)' = TRUE  BY <1>3
  <2>4. Service!PerformRead
    BY <1>1, <1>2, <1>3, <1>4, <2>1, <2>2, <2>3 DEF Service!PerformRead
  <2> QED BY <2>4 DEF Service!Next
<1>6. CASE got # <<>>
  <2>1. Len(got) # 0  BY <1>1, <1>6
  <2>2. fetched /\ valueBar = drive.data
    BY <1>1, <1>2, <1>6 DEF fetched, valueBar, At, drive
  <2>3. drive'.data = drive.data  BY <1>1, <2>1
  <2> QED BY <1>1, <1>3, <1>4, <2>2, <2>3, Unseen
<1> QED BY <1>5, <1>6

LEMMA FieldCrcUnseen ==
  ASSUME MInv, FieldCrc
  PROVE  UNCHANGED Service!vars
<1>1. /\ mpc = "dcrc" /\ mpc' = "dstatus" /\ drive'.data = drive.data
      /\ UNCHANGED <<drive_no, media, request, got, swaps>>
  BY FieldCrcIs
<1>2. fetched /\ fetched'  BY <1>1 DEF fetched
<1>3. drive_no = request.drive  BY <1>1, Serving
<1>4. valueBar = drive.data /\ valueBar' = drive'.data
  BY <1>1, <1>2, <1>3 DEF valueBar, drive
<1>5. answerBar' = answerBar  BY <1>1 DEF answerBar
<1> QED BY <1>1, <1>2, <1>4, <1>5, Unseen

\* The read returns the bytes it has seen, and they are the sector that was fetched.
LEMMA ReadEndsRefines ==
  ASSUME MInv, ReadEnds
  PROVE  Service!Next
<1>1. /\ mpc = "dstatus" /\ mpc' = "idle" /\ request' = NoRequest /\ drive.data \in Sector
      /\ UNCHANGED <<media, got, swaps>>
  BY ReadEndsIs
<1>2. drive_no = request.drive /\ request # NoRequest  BY <1>1, Serving, RequestIsOne
<1>3. fetched /\ valueBar = drive.data
  BY <1>1, <1>2 DEF fetched, valueBar, drive
<1>4. (fetched \/ committed)' = FALSE /\ valueBar' = <<>>
  BY <1>1, NotPerformed DEF PerformedPlaces
<1>5. got = drive.data
  <2>1. /\ got \in Seq(Bytes) /\ Len(got) = SECTOR_SIZE
        /\ \A i \in 1 .. Len(got) : got[i] = drive.data[i]
    BY <1>1 DEF MInv, FieldInv
  <2>2. got \in [1 .. SECTOR_SIZE -> Bytes]  BY <2>1
  <2> QED BY <1>1, <2>1, <2>2 DEF Sector
<1>6. answerBar' = got  BY <1>1 DEF answerBar
<1>7. Service!Complete
  BY <1>1, <1>2, <1>3, <1>4, <1>5, <1>6
     DEF Service!Complete, Service!NoRequest, Service!NoValue, NoRequest
<1> QED BY <1>7 DEF Service!Next

LEMMA WriteBeginsUnseen ==
  ASSUME MInv, BeginWrite \/ StartField \/ PutByte
  PROVE  UNCHANGED Service!vars
<1>1. UNCHANGED <<request, got, swaps>>
  BY DEF BeginWrite, StartField, PutByte, OutCW1, OutCW2, OutData, regs
<1>2. mpc \notin PerformedPlaces /\ mpc' \notin PerformedPlaces
  BY DEF BeginWrite, StartField, PutByte, OutCW1, OutCW2, OutData, At, Goto, PerformedPlaces
<1>3. \/ (\E b : WriteData(b)) \/ (\E v : WriteCW2(v))
      \/ WriteCW1(CW1_WRITE_1, TRUE) \/ WriteCW1(CW1_WRITE_3, TRUE) \/ WriteCW1(CW1_WRITE_4, TRUE)
      \/ WriteCW1(CW1_WRITE_DATA, TRUE)
  BY DEF BeginWrite, StartField, PutByte, OutCW1, OutCW2, OutData
<1>4. UNCHANGED media
  BY <1>3 DEF WriteData, WriteCW2, WriteCW1, ReadCommand, WriteCommand, WriteCommit,
              CW1_WRITE_1, CW1_WRITE_3, CW1_WRITE_4, CW1_WRITE_DATA, CW1_WRITE_COMMIT
<1> QED BY <1>1, <1>2, <1>4, UnseenBefore

\* The sector under the head is the one wanted: the write has taken effect.
LEMMA CommitRefines ==
  ASSUME MInv, Commit
  PROVE  Service!Next
<1>1. /\ mpc = "commit" /\ mpc' = "wcrc"
      /\ UNCHANGED <<request, got, swaps>>
      /\ media' = [media EXCEPT ![drive_no][<<drive.track, drive.sector>>] = Payload]
  BY CommitIs
<1>2. /\ request \in Writes /\ drive_no = request.drive
      /\ <<drive.track, drive.sector>> = request.position
  <2>1. request \in Writes
    BY <1>1, Serving DEF MInv, RegistersInv, Reads, Writes
  <2>2. drive.track = wantedTrack /\ drive.sector = wantedSector  BY <1>1 DEF MInv, HeaderInv
  <2> QED BY <1>1, <2>1, <2>2, Serving
<1>3. media' = [media EXCEPT ![request.drive][request.position] = Payload]
  BY <1>1, <1>2
<1>4. ~(fetched \/ committed) /\ (fetched \/ committed)' = TRUE
  BY <1>1 DEF fetched, committed, At
<1>5. valueBar' = valueBar /\ answerBar' = answerBar
  BY <1>1 DEF valueBar, answerBar, fetched, At
<1>6. Service!PerformWrite
  BY <1>1, <1>2, <1>3, <1>4, <1>5 DEF Service!PerformWrite
<1> QED BY <1>6 DEF Service!Next

LEMMA WriteEndsRefines ==
  ASSUME MInv, WriteEnds
  PROVE  [Service!Next]_(Service!vars)
<1>1. UNCHANGED <<media, got, swaps>>
  <2>1. UNCHANGED <<got, swaps>>
    BY DEF WriteEnds, OutData, OutCW1, regs
  <2>2. (\E b : WriteData(b)) \/ (\E v : WriteCW2(v)) \/ WriteCW1(193, TRUE)
    BY DEF WriteEnds, OutData, OutCW1
  <2>3. UNCHANGED media
    BY <2>2 DEF WriteData, WriteCW2, WriteCW1, ReadCommand, WriteCommand, WriteCommit,
                CW1_WRITE_COMMIT
  <2> QED BY <2>1, <2>3
<1>2. CASE mpc \in {"wcrc", "wend1"}
  <2>1. mpc' \in {"wend1", "wend2"} /\ request' = request
    BY <1>2 DEF WriteEnds, OutData, OutCW1, At, Goto, regs
  <2>2. /\ committed /\ committed' /\ ~fetched /\ ~fetched'
    BY <1>2, <2>1 DEF committed, fetched, At
  <2>3. valueBar' = valueBar  BY <2>2 DEF valueBar
  <2>4. answerBar' = answerBar  BY <1>1, <2>1 DEF answerBar
  <2> QED BY <1>1, <2>1, <2>2, <2>3, <2>4, Unseen
<1>3. CASE mpc \notin {"wcrc", "wend1"}
  <2>1. mpc = "wend2" /\ mpc' = "idle" /\ request' = NoRequest
    BY <1>3 DEF WriteEnds, OutData, OutCW1, At, Goto, Finish
  <2>2. request # NoRequest  BY <2>1, Serving, RequestIsOne
  <2>3. committed /\ ~fetched /\ valueBar = <<>>
    BY <2>1 DEF committed, fetched, valueBar, At
  <2>4. (fetched \/ committed)' = FALSE /\ valueBar' = <<>>
    BY <2>1, NotPerformed DEF PerformedPlaces
  <2>5. answerBar' = <<>>  BY <1>1, <2>1 DEF answerBar, MInv, FieldInv
  <2>6. Service!Complete
    BY <1>1, <2>1, <2>2, <2>3, <2>4, <2>5
       DEF Service!Complete, Service!NoRequest, Service!NoValue, NoRequest
  <2> QED BY <2>6 DEF Service!Next
<1> QED BY <1>2, <1>3

LEMMA SwapRefines ==
  ASSUME MInv, NEW d \in Drive, NEW image \in Diskettes, SwapDiskette(d, image)
  PROVE  Service!Next
<1>1. /\ media' = [media EXCEPT ![d] = image] /\ swaps' = swaps + 1
      /\ UNCHANGED <<drives, mpc, request, got>>
  BY DEF SwapDiskette, ChangeDiskette, ctlVars, regs
<1>2. media \in [Drive -> Image] /\ image \in Image
  BY DiskettesAssumption DEF MInv, IInv, CtlInv
<1>3. media' \in [Drive -> [Position -> Sector]]  BY <1>1, <1>2 DEF Image
<1>4. \A other \in Drive \ {d} : media'[other] = media[other]  BY <1>1, <1>2
<1>5. (fetched' <=> fetched) /\ (committed' <=> committed)  BY <1>1 DEF fetched, committed, At
<1>6. (fetched \/ committed)' = (fetched \/ committed)  BY <1>5
<1>7. valueBar' = valueBar /\ answerBar' = answerBar  BY <1>1, <1>5 DEF valueBar, answerBar
<1>8. Service!Swap(d)  BY <1>1, <1>3, <1>4, <1>6, <1>7 DEF Service!Swap
<1> QED BY <1>8 DEF Service!Next

LEMMA StepRefines == MInv /\ [MNext]_mvars => [Service!Next]_(Service!vars)
<1> SUFFICES ASSUME MInv, [MNext]_mvars PROVE [Service!Next]_(Service!vars)
  OBVIOUS
<1>1. ASSUME NEW r \in Reads \cup Writes, Submit(r) PROVE Service!Next
  BY <1>1, SubmitRefines
<1>2. CASE SearchHeader
  BY <1>2, SearchUnseen
<1>3. CASE ReadField
  BY <1>3, FieldFoundUnseen, FieldMarkUnseen, FieldByteRefines, FieldCrcUnseen, ReadEndsRefines
     DEF ReadField
<1>4. CASE WriteField
  BY <1>4, WriteBeginsUnseen, CommitRefines, WriteEndsRefines DEF WriteField
<1>5. ASSUME NEW d \in Drive, NEW image \in Diskettes, SwapDiskette(d, image) PROVE Service!Next
  BY <1>5, SwapRefines
<1>6. CASE UNCHANGED mvars
  <2>1. UNCHANGED <<drives, media, mpc, request, got, swaps>>
    BY <1>6 DEF mvars, vars, regs
  <2>2. (fetched' <=> fetched) /\ (committed' <=> committed)  BY <2>1 DEF fetched, committed, At
  <2>3. valueBar' = valueBar /\ answerBar' = answerBar  BY <2>1, <2>2 DEF valueBar, answerBar
  <2> QED BY <2>1, <2>2, <2>3, Unseen
<1> QED BY <1>1, <1>2, <1>3, <1>4, <1>5, <1>6 DEF MNext, Monitor

\* Monitor, controller and drives together are a sector service, for every geometry and
\* diskettes: each request reads or writes the one sector it names, whole and at one
\* moment, of the diskette that is in the drive at that moment.
THEOREM SectorServiceRefinement == MSpec => ImplementsSectorService
<1>1. MInit => Service!Init  BY InitRefines
<1>2. MInv /\ [MNext]_mvars => [Service!Next]_(Service!vars)  BY StepRefines
<1> QED BY <1>1, <1>2, MInvariance, PTL DEF MSpec, ImplementsSectorService, Service!Spec
====
