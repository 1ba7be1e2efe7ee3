----------------------- MODULE DiskController_proofs -----------------------
(***************************************************************************)
(* Type correctness and the position invariants of the disk controller,    *)
(* for every geometry, number of drives and set of control words.          *)
(*                                                                         *)
(* All four invariants speak of one drive at a time, so the inductive      *)
(* invariant is a predicate DriveInv on a drive record, and the proof is a *)
(* lemma for each method of the drive followed by one step per action.     *)
(***************************************************************************)
EXTENDS DiskController, TLAPS

DriveInv(drv) ==
  /\ drv \in DriveType
  /\ Len(drv.wbuf) <= SECTOR_SIZE
  /\ drv.at_mark <=> AtMark(drv)
  /\ drv.at_crc <=> AtCrc(drv)
  /\ drv.state = "hdr" /\ drv.hpos >= 0 => drv.mark_seen
  /\ drv.state = "data" /\ drv.dpos > 0 => drv.data \in Sector
  /\ drv.state # "data" => drv.dpos = -2
  /\ drv.state = "inactive" => drv.hpos = -1

CtlInv ==
  /\ drive_no \in Drive
  /\ rd_state \in ReadStates
  /\ wr_state \in WriteStates
  /\ media \in [Drive -> Image]
  /\ err \in Errors

IInv ==
  /\ drives \in [Drive -> DriveType]
  /\ \A d \in Drive : DriveInv(drives[d])
  /\ CtlInv

-----------------------------------------------------------------------------
\* set_at_state changes the two flags and nothing else.
SameButFlags(r, drv) ==
  /\ r \in DriveType
  /\ r.state = drv.state /\ r.hpos = drv.hpos /\ r.dpos = drv.dpos
  /\ r.mark_seen = drv.mark_seen /\ r.wbuf = drv.wbuf /\ r.data = drv.data

AtMarkOf(drv)  == SetAtState(drv, TRUE, FALSE)
AtCrcOf(drv)   == SetAtState(drv, FALSE, TRUE)
AtNothing(drv) == SetAtState(drv, FALSE, FALSE)

LEMMA SetAtStateFields ==
  ASSUME NEW drv \in DriveType, NEW r
  PROVE  /\ r = AtMarkOf(drv) =>
              SameButFlags(r, drv) /\ r.at_mark = TRUE /\ r.at_crc = FALSE
         /\ r = AtCrcOf(drv) =>
              SameButFlags(r, drv) /\ r.at_mark = FALSE /\ r.at_crc = TRUE
         /\ r = AtNothing(drv) =>
              SameButFlags(r, drv) /\ r.at_mark = FALSE /\ r.at_crc = FALSE
  BY DEF SameButFlags, AtMarkOf, AtCrcOf, AtNothing, SetAtState, DriveType

\* reset() puts any drive whose head is on the disk into a state that satisfies
\* the invariant, whatever its counters and flags were.
LEMMA ResetInv ==
  ASSUME NEW drv,
         drv \in DriveType, Len(drv.wbuf) <= SECTOR_SIZE
  PROVE  DriveInv(Reset(drv))
  <1> DEFINE r == Reset(drv)
  <1>1. r = [drv EXCEPT !.hpos = -1, !.dpos = -2, !.mark_seen = FALSE,
                        !.state = "inactive", !.at_mark = TRUE, !.at_crc = FALSE]
    BY DEF Reset, SetAtState, DriveType
  <1> HIDE DEF r
  <1>2. r \in DriveType
    <2>1. -1 \in HeaderCount /\ -2 \in DataCount /\ "inactive" \in DriveState
      BY GeometryAssumption DEF HeaderCount, DataCount, DriveState, HPOS_END, DPOS_END
    <2> QED BY <1>1, <2>1 DEF DriveType
  <1>3. /\ r.wbuf = drv.wbuf /\ r.hpos = -1 /\ r.dpos = -2
        /\ r.state = "inactive" /\ r.at_mark = TRUE /\ r.at_crc = FALSE
    BY <1>1 DEF DriveType
  <1>4. AtMark(r) /\ ~AtCrc(r)
    BY <1>3 DEF AtMark, AtCrc
  <1>5. DriveInv(r)
    BY <1>2, <1>3, <1>4 DEF DriveInv
  <1> QED BY <1>5 DEF r

\* A new drive (DiskDrive.__init__) satisfies the invariant.
LEMMA NewDriveInv == DriveInv(NewDrive)
  <1> DEFINE blank == [track |-> 0, sector |-> 1, state |-> "inactive", hpos |-> -1,
                       dpos |-> -2, at_mark |-> TRUE, at_crc |-> FALSE,
                       mark_seen |-> FALSE, prepared |-> FALSE, wbuf |-> <<>>,
                       data |-> <<>>]
  <1>1. blank \in DriveType /\ Len(blank.wbuf) <= SECTOR_SIZE
    BY GeometryAssumption
       DEF DriveType, Track, SectorNo, HeaderCount, DataCount, DriveState, WriteBuffer,
           SectorBuffer, HPOS_END, DPOS_END
  <1>2. DriveInv(Reset(blank))
    BY <1>1, ResetInv
  <1> QED BY <1>2 DEF NewDrive

\* advance_sector and step_track keep the head on the disk.
LEMMA AdvanceSectorInv ==
  ASSUME NEW drv, DriveInv(drv)
  PROVE  DriveInv(AdvanceSector(drv)) /\ AdvanceSector(drv).state = "inactive"
  <1> DEFINE s == IF drv.sector + 1 > SECTORS THEN 1 ELSE drv.sector + 1
             moved == [drv EXCEPT !.sector = s]
  <1>1. s \in SectorNo
    BY GeometryAssumption DEF DriveInv, DriveType, SectorNo
  <1> HIDE DEF s
  <1>2. moved \in DriveType /\ Len(moved.wbuf) <= SECTOR_SIZE
    BY <1>1 DEF DriveInv, DriveType
  <1>3. DriveInv(Reset(moved)) /\ Reset(moved).state = "inactive"
    BY <1>2, ResetInv DEF Reset, SetAtState, DriveType
  <1> QED BY <1>3 DEF AdvanceSector, s

LEMMA StepTrackInv ==
  ASSUME NEW drv, DriveInv(drv), NEW direction \in {1, -1}
  PROVE  DriveInv(StepTrack(drv, direction))
  <1> DEFINE t == Clamp(drv.track + direction, 0, TRACKS - 1)
             moved == [drv EXCEPT !.track = t, !.sector = 1]
  <1>1. t \in Track /\ 1 \in SectorNo
    BY GeometryAssumption DEF DriveInv, DriveType, SectorNo, Track, Clamp
  <1> HIDE DEF t
  <1>2. moved \in DriveType /\ Len(moved.wbuf) <= SECTOR_SIZE
    BY <1>1 DEF DriveInv, DriveType
  <1>3. DriveInv(Reset(moved))
    BY <1>2, ResetInv
  <1> QED BY <1>3 DEF StepTrack, t

\* begin_read_phase never reaches the third phase of start(): a scan begun over
\* a data field is a header scan of the next sector.
LEMMA StartInv ==
  ASSUME NEW drv, DriveInv(drv), drv.state # "data"
  PROVE  DriveInv(Start(drv))
  <1> DEFINE r == Start(drv)
             st == IF drv.state = "inactive" THEN "hdr" ELSE "data"
  <1>1. drv.state \in {"inactive", "hdr"} /\ drv \in DriveType /\ drv.dpos = -2
    BY DEF DriveInv, DriveType, DriveState
  <1>2. r = [drv EXCEPT !.mark_seen = FALSE, !.state = st, !.at_mark = TRUE, !.at_crc = FALSE]
    BY <1>1 DEF Start, SetAtState, DriveType
  <1>3. st \in DriveState
    BY DEF DriveState
  <1>4. r \in DriveType
    BY <1>1, <1>2, <1>3 DEF DriveType
  <1>5. /\ r.wbuf = drv.wbuf /\ r.hpos = drv.hpos /\ r.dpos = -2
        /\ r.state = st /\ r.at_mark = TRUE /\ r.at_crc = FALSE
    BY <1>1, <1>2 DEF DriveType
  <1> HIDE DEF r
  <1>6. st = "hdr" => r.hpos = -1
    BY <1>1, <1>5 DEF DriveInv
  <1>7. AtMark(r) /\ ~AtCrc(r)
    BY <1>5, <1>6, GeometryAssumption DEF AtMark, AtCrc
  <1>8. DriveInv(r)
    BY <1>4, <1>5, <1>6, <1>7 DEF DriveInv
  <1> QED BY <1>8 DEF r

LEMMA BeginReadPhaseInv ==
  ASSUME NEW drv, DriveInv(drv)
  PROVE  DriveInv(BeginReadPhase(drv))
  <1>1. CASE drv.state = "data"
    BY <1>1, StartInv, AdvanceSectorInv DEF BeginReadPhase
  <1>2. CASE drv.state # "data"
    BY <1>2, StartInv DEF BeginReadPhase
  <1> QED BY <1>1, <1>2

\* Reading the status only records that a mark was seen.
LEMMA StatusReadInv ==
  ASSUME NEW drv, DriveInv(drv)
  PROVE  DriveInv(StatusRead(drv))
  BY DEF DriveInv, StatusRead, DriveType, AtMark, AtCrc

\* A byte read moves the head one byte and sets the flags for its new place.
LEMMA AfterHeaderByteInv ==
  ASSUME NEW drv, DriveInv(drv), drv.state = "hdr"
  PROVE  DriveInv(AfterHeaderByte(drv))
  <1> DEFINE r == AfterHeaderByte(drv)
             h == drv.hpos + 1
             hp == IF h > HPOS_END THEN HPOS_END ELSE h
             m == h \in {0, 16} \/ (h \in {2, 3, 5, 6} /\ drv.at_mark)
             c == h = 4 \/ (h \in {2, 3, 5, 6} /\ drv.at_crc)
  <1>1. CASE HeaderWaits(drv)
    BY <1>1 DEF AfterHeaderByte
  <1>2. CASE ~HeaderWaits(drv)
    <2>1. drv \in DriveType /\ drv.hpos \in -1..17 /\ hp \in 0..17 /\ hp \in HeaderCount
      <3>1. drv \in DriveType
        BY DEF DriveInv
      <3>2. drv.hpos \in HeaderCount
        BY <3>1 DEF DriveType
      <3>3. HeaderCount = -1..17 /\ HPOS_END = 17
        BY DEF HeaderCount, HPOS_END
      <3> QED BY <3>1, <3>2, <3>3
    <2>2. drv.mark_seen
      <3>1. drv.hpos >= 0 => drv.mark_seen
        BY DEF DriveInv
      <3>2. drv.hpos = -1 => drv.at_mark
        BY DEF DriveInv, AtMark
      <3>3. drv.hpos = -1 => drv.mark_seen
        BY <1>2, <3>2 DEF HeaderWaits
      <3> QED BY <2>1, <3>1, <3>3
    <2>3. /\ r \in DriveType
          /\ r.hpos = hp /\ (r.at_mark <=> m) /\ (r.at_crc <=> c) /\ r.state = "hdr"
          /\ r.dpos = drv.dpos /\ r.mark_seen = drv.mark_seen /\ r.wbuf = drv.wbuf
      <3> DEFINE next == [drv EXCEPT !.hpos = hp]
      <3>1. /\ next \in DriveType
            /\ next.hpos = hp /\ next.state = "hdr" /\ next.dpos = drv.dpos
            /\ next.mark_seen = drv.mark_seen /\ next.wbuf = drv.wbuf
            /\ next.at_mark = drv.at_mark /\ next.at_crc = drv.at_crc
        BY <2>1 DEF DriveType
      <3>2. /\ h \in {0, 16} => r = AtMarkOf(next)
            /\ h = 4 => r = AtCrcOf(next)
            /\ h \in {2, 3, 5, 6} => r = next
            /\ h \notin {0, 2, 3, 4, 5, 6, 16} => r = AtNothing(next)
        BY <1>2 DEF AfterHeaderByte, SetAtState, AtMarkOf, AtCrcOf, AtNothing
      <3> HIDE DEF r, next
      <3>3. CASE h \in {0, 16}
        <4>1. r = AtMarkOf(next)
          BY <3>2, <3>3
        <4>2. SameButFlags(r, next) /\ r.at_mark = TRUE /\ r.at_crc = FALSE
          BY <3>1, <4>1, SetAtStateFields
        <4>3. (m <=> TRUE) /\ (c <=> FALSE)
          BY <3>3
        <4> HIDE DEF m, c
        <4> QED BY <3>1, <4>2, <4>3 DEF SameButFlags
      <3>4. CASE h = 4
        <4>1. r = AtCrcOf(next)
          BY <3>2, <3>4
        <4>2. SameButFlags(r, next) /\ r.at_mark = FALSE /\ r.at_crc = TRUE
          BY <3>1, <4>1, SetAtStateFields
        <4>3. (m <=> FALSE) /\ (c <=> TRUE)
          BY <3>4
        <4> HIDE DEF m, c
        <4> QED BY <3>1, <4>2, <4>3 DEF SameButFlags
      <3>5. CASE h \in {2, 3, 5, 6}
        BY <3>1, <3>2, <3>5
      <3>6. CASE h \notin {0, 2, 3, 4, 5, 6, 16}
        <4>1. r = AtNothing(next)
          BY <3>2, <3>6
        <4>2. SameButFlags(r, next) /\ r.at_mark = FALSE /\ r.at_crc = FALSE
          BY <3>1, <4>1, SetAtStateFields
        <4>3. (m <=> FALSE) /\ (c <=> FALSE)
          BY <3>6
        <4> HIDE DEF m, c
        <4> QED BY <3>1, <4>2, <4>3 DEF SameButFlags
      <3> QED BY <3>3, <3>4, <3>5, <3>6
    <2> HIDE DEF r
    <2>6. /\ drv.at_mark <=> drv.hpos \in {-1, 0, 16}
          /\ drv.at_crc <=> drv.hpos \in 4..6
      BY DEF DriveInv, AtMark, AtCrc
    <2>7. (m <=> hp \in {-1, 0, 16}) /\ (c <=> hp \in 4..6)
      BY <2>1, <2>6 DEF HPOS_END
    <2>8. (r.at_mark <=> AtMark(r)) /\ (r.at_crc <=> AtCrc(r))
      BY <2>3, <2>7 DEF AtMark, AtCrc
    <2>9. DriveInv(r)
      BY <2>2, <2>3, <2>8 DEF DriveInv
    <2> QED BY <2>9 DEF r
  <1> QED BY <1>1, <1>2

LEMMA AfterDataByteInv ==
  ASSUME NEW drv, DriveInv(drv), drv.state = "data", ~Done(drv),
         NEW stored \in Sector
  PROVE  DriveInv(AfterDataByte(drv, stored))
  <1> DEFINE r == AfterDataByte(drv, stored)
             p == drv.dpos + 1
             sec == IF drv.dpos = 0 THEN stored ELSE drv.data
             m == drv.dpos = -2 \/ (drv.dpos \notin 0 .. SECTOR_SIZE - 1 /\ drv.at_mark)
             c == \/ drv.dpos = SECTOR_SIZE - 1
                  \/ drv.dpos \notin -2 .. SECTOR_SIZE - 1 /\ drv.at_crc
                  \/ drv.dpos = -1 /\ drv.at_crc
  <1>1. /\ drv \in DriveType /\ drv.dpos \in -2 .. SECTOR_SIZE + 2
        /\ SECTOR_SIZE \in Nat \ {0} /\ p \in DataCount
    BY GeometryAssumption DEF DriveInv, DriveType, DataCount, DPOS_END, Done
  <1>2. sec \in SectorBuffer /\ (p > 0 => sec \in Sector)
    BY <1>1 DEF DriveInv, DriveType, SectorBuffer
  <1>3. /\ r \in DriveType
        /\ r.dpos = p /\ r.data = sec /\ (r.at_mark <=> m) /\ (r.at_crc <=> c)
        /\ r.state = "data" /\ r.wbuf = drv.wbuf
    <2> DEFINE next == [drv EXCEPT !.dpos = p, !.data = sec]
    <2>1. /\ drv.dpos = -2 => r = AtMarkOf(next)
          /\ drv.dpos = SECTOR_SIZE - 1 => r = AtCrcOf(next)
          /\ drv.dpos \in 0 .. SECTOR_SIZE - 2 => r = AtNothing(next)
          /\ drv.dpos = -1 \/ drv.dpos >= SECTOR_SIZE => r = next
      <3>1. SECTOR_SIZE - 1 # -2 /\ SECTOR_SIZE - 1 \notin 0 .. SECTOR_SIZE - 2
            /\ -1 \notin 0 .. SECTOR_SIZE - 2 /\ -1 # SECTOR_SIZE - 1
        BY <1>1
      <3> QED BY <1>1, <3>1 DEF AfterDataByte, SetAtState, AtMarkOf, AtCrcOf, AtNothing
    <2> HIDE DEF sec
    <2>2. /\ next \in DriveType
          /\ next.dpos = p /\ next.data = sec /\ next.state = "data" /\ next.wbuf = drv.wbuf
          /\ next.at_mark = drv.at_mark /\ next.at_crc = drv.at_crc
      BY <1>1, <1>2 DEF DriveType
    <2> HIDE DEF r, next, p
    <2>3. CASE drv.dpos = -2
      <3>1. r = AtMarkOf(next)
        BY <2>1, <2>3
      <3>2. SameButFlags(r, next) /\ r.at_mark = TRUE /\ r.at_crc = FALSE
        BY <2>2, <3>1, SetAtStateFields
      <3>3. (m <=> TRUE) /\ (c <=> FALSE)
        BY <1>1, <2>3
      <3> HIDE DEF m, c
      <3> QED BY <2>2, <3>2, <3>3 DEF SameButFlags
    <2>4. CASE drv.dpos = SECTOR_SIZE - 1
      <3>1. r = AtCrcOf(next)
        BY <2>1, <2>4
      <3>2. SameButFlags(r, next) /\ r.at_mark = FALSE /\ r.at_crc = TRUE
        BY <2>2, <3>1, SetAtStateFields
      <3>3. (m <=> FALSE) /\ (c <=> TRUE)
        BY <1>1, <2>4
      <3> HIDE DEF m, c
      <3> QED BY <2>2, <3>2, <3>3 DEF SameButFlags
    <2>5. CASE drv.dpos \in 0 .. SECTOR_SIZE - 2
      <3>1. r = AtNothing(next)
        BY <2>1, <2>5
      <3>2. SameButFlags(r, next) /\ r.at_mark = FALSE /\ r.at_crc = FALSE
        BY <2>2, <3>1, SetAtStateFields
      <3>3. (m <=> FALSE) /\ (c <=> FALSE)
        BY <1>1, <2>5
      <3> HIDE DEF m, c
      <3> QED BY <2>2, <3>2, <3>3 DEF SameButFlags
    <2>6. CASE drv.dpos = -1 \/ drv.dpos >= SECTOR_SIZE
      BY <1>1, <2>1, <2>2, <2>6
    <2> QED BY <1>1, <2>3, <2>4, <2>5, <2>6
  <1> HIDE DEF r
  <1>6. /\ drv.at_mark <=> drv.dpos <= 0
        /\ drv.at_crc <=> drv.dpos >= SECTOR_SIZE
    BY DEF DriveInv, AtMark, AtCrc
  <1>7. (m <=> p <= 0) /\ (c <=> p >= SECTOR_SIZE)
    BY <1>1, <1>6
  <1>8. (r.at_mark <=> AtMark(r)) /\ (r.at_crc <=> AtCrc(r))
    BY <1>3, <1>7 DEF AtMark, AtCrc
  <1>9. DriveInv(r)
    BY <1>2, <1>3, <1>8 DEF DriveInv
  <1> QED BY <1>9 DEF r

LEMMA AfterReadInv ==
  ASSUME NEW drv, DriveInv(drv), ~Done(drv), NEW stored \in Sector
  PROVE  DriveInv(AfterRead(drv, stored))
  <1>1. drv.state \in {"inactive", "hdr", "data"}
    BY DEF DriveInv, DriveType, DriveState
  <1> QED BY <1>1, AfterHeaderByteInv, AfterDataByteInv DEF AfterRead

\* The write buffer: emptied, filled up to a sector, handed over whole.
LEMMA PrepareWriteInv ==
  ASSUME NEW drv, DriveInv(drv)
  PROVE  DriveInv(PrepareWrite(drv))
  <1>1. <<>> \in WriteBuffer /\ Len(<<>>) <= SECTOR_SIZE
    BY GeometryAssumption DEF WriteBuffer
  <1> QED BY <1>1 DEF DriveInv, PrepareWrite, DriveType, AtMark, AtCrc

LEMMA WriteAddByteInv ==
  ASSUME NEW drv, DriveInv(drv), CanAddByte(drv), NEW b \in Bytes
  PROVE  DriveInv(WriteAddByte(drv, b))
  <1> DEFINE w == Append(drv.wbuf, b)
  <1>1. drv.wbuf \in Seq(Bytes)
    BY DEF DriveInv, DriveType, WriteBuffer
  <1>2. w \in WriteBuffer /\ Len(w) <= SECTOR_SIZE
    BY <1>1, GeometryAssumption DEF CanAddByte, WriteBuffer
  <1> HIDE DEF w
  <1>3. WriteAddByte(drv, b) = [drv EXCEPT !.wbuf = w]
    BY DEF WriteAddByte, w
  <1> QED BY <1>2, <1>3 DEF DriveInv, DriveType, AtMark, AtCrc

LEMMA FullBufferIsSector ==
  ASSUME NEW drv, DriveInv(drv), CanCommit(drv)
  PROVE  drv.wbuf \in Sector
  BY GeometryAssumption DEF CanCommit, DriveInv, DriveType, WriteBuffer, Sector

LEMMA CommitWriteInv ==
  ASSUME NEW drv, DriveInv(drv), CanCommit(drv)
  PROVE  DriveInv(CommitWrite(drv))
  <1>1. drv.wbuf \in SectorBuffer /\ drv.wbuf \in Sector
    BY FullBufferIsSector DEF SectorBuffer
  <1> QED BY <1>1 DEF CommitWrite, DriveInv, DriveType, AtMark, AtCrc

-----------------------------------------------------------------------------
(***************************************************************************)
(* The controller: every action replaces at most one drive record.         *)
(***************************************************************************)
LEMMA OneDriveInv ==
  ASSUME IInv, NEW d \in Drive, NEW r, DriveInv(r), NEW ds,
         ds = [drives EXCEPT ![d] = r]
  PROVE  /\ ds \in [Drive -> DriveType]
         /\ \A e \in Drive : DriveInv(ds[e])
  <1>1. r \in DriveType
    BY DEF DriveInv
  <1> QED BY <1>1 DEF IInv

LEMMA SelectedDrive ==
  ASSUME IInv
  PROVE  /\ DriveInv(drive) /\ drive_no \in Drive
         /\ <<drive.track, drive.sector>> \in Position
         /\ StoredSector \in Sector
  <1>1. DriveInv(drive) /\ drive_no \in Drive
    BY DEF IInv, CtlInv, drive
  <1>2. <<drive.track, drive.sector>> \in Position
    BY <1>1 DEF DriveInv, DriveType, Position
  <1> QED BY <1>1, <1>2 DEF StoredSector, IInv, CtlInv, Image

\* The initial states: new drives, any images.
LEMMA InitInv == Init => IInv
  <1> SUFFICES ASSUME Init PROVE IInv
    OBVIOUS
  <1>1. NewDrive \in DriveType /\ DriveInv(NewDrive)
    BY NewDriveInv DEF DriveInv
  <1>2. 0 \in Drive
    BY DrivesAssumption DEF Drive
  <1>3. media \in [Drive -> Image]
    BY DiskettesAssumption DEF Init
  <1> QED BY <1>1, <1>2, <1>3 DEF Init, IInv, CtlInv, ReadStates, WriteStates, Errors

\* Whatever part of a write reaches the file, or of a dump, an image is left.
LEMMA FailedWriteIsImage ==
  ASSUME NEW image \in Image, NEW p \in Position, NEW s \in Sector,
         NEW left \in AfterFailedWrite(image, p, s)
  PROVE  left \in Image
  <1>1. \A q \in Position : image[q] \in [1 .. SECTOR_SIZE -> Bytes]
    BY DEF Image, Sector
  <1>2. s \in [1 .. SECTOR_SIZE -> Bytes] /\ 0 \in Bytes
    BY DiskettesAssumption DEF Sector
  <1>3. ASSUME NEW n, left = WrittenInPart(image, p, s, n)
        PROVE  left \in Image
    <2> DEFINE part == [i \in 1 .. SECTOR_SIZE |-> IF i <= n THEN s[i] ELSE image[p][i]]
    <2>1. part \in Sector
      BY <1>1, <1>2 DEF Sector
    <2>2. left = [image EXCEPT ![p] = part]
      BY <1>3 DEF WrittenInPart
    <2> HIDE DEF part
    <2> QED BY <2>1, <2>2 DEF Image
  <1>4. ASSUME NEW n, left = DumpedInPart(image, p, s, n)
        PROVE  left \in Image
    <2>1. \A q \in Position :
            [i \in 1 .. SECTOR_SIZE |->
               IF ByteNo(q, i) > n THEN 0 ELSE IF q = p THEN s[i] ELSE image[q][i]] \in Sector
      BY <1>1, <1>2 DEF Sector
    <2> QED BY <1>4, <2>1 DEF DumpedInPart, Image
  <1> QED BY <1>3, <1>4 DEF AfterFailedWrite

LEMMA WriteCommitStep ==
  ASSUME IInv, NEW hostOk \in BOOLEAN, WriteCommit(hostOk)
  PROVE  IInv'
  <1>1. CASE AbandonCommit("AttributeError") \/ AbandonCommit("RuntimeError")
    BY <1>1 DEF AbandonCommit, Raise, IInv, CtlInv, Errors, ctlVars
  <1>2. CASE CanCommit(drive) /\ drives' = [drives EXCEPT ![drive_no] = CommitWrite(drive)]
             /\ UNCHANGED <<drive_no, rd_state>>
    <2> DEFINE pos == <<drive.track, drive.sector>>
    <2>1. DriveInv(CommitWrite(drive)) /\ drive.wbuf \in Sector
      BY <1>2, SelectedDrive, CommitWriteInv, FullBufferIsSector
    <2>2. drives' \in [Drive -> DriveType] /\ \A e \in Drive : DriveInv(drives'[e])
      BY <1>2, <2>1, SelectedDrive, OneDriveInv
    <2>3. CASE media' = [media EXCEPT ![drive_no][pos] = drive.wbuf]
               /\ wr_state' = "off" /\ Ok
      <3>1. media' \in [Drive -> Image]
        BY <2>1, <2>3, SelectedDrive DEF IInv, CtlInv, Image
      <3> QED BY <1>2, <2>2, <2>3, <3>1 DEF IInv, CtlInv, Ok, WriteStates, Errors
    <2>4. CASE CommitFails
      <3>1. PICK image \in AfterFailedWrite(media[drive_no], pos, drive.wbuf) :
              media' = [media EXCEPT ![drive_no] = image]
        BY <2>4 DEF CommitFails
      <3>2. media[drive_no] \in Image /\ pos \in Position
        BY SelectedDrive DEF IInv, CtlInv
      <3>3. image \in Image
        BY <2>1, <3>1, <3>2, FailedWriteIsImage
      <3>4. media' \in [Drive -> Image]
        BY <3>1, <3>3, SelectedDrive DEF IInv, CtlInv
      <3> QED BY <1>2, <2>2, <2>4, <3>4 DEF IInv, CtlInv, CommitFails, Raise, Errors
    <2> QED BY <1>2, <2>3, <2>4, <1>1 DEF WriteCommit
  <1> QED BY <1>1, <1>2 DEF WriteCommit

LEMMA WriteCW1Step ==
  ASSUME IInv, NEW v, NEW hostOk \in BOOLEAN, WriteCW1(v, hostOk)
  PROVE  IInv'
  <1>1. CASE ReadCommand(v) /\ Ok /\ UNCHANGED <<drive_no, wr_state, media>>
    <2>1. CASE rd_state' = "s1" /\ UNCHANGED drives
      BY <1>1, <2>1 DEF IInv, CtlInv, Ok, ReadStates, Errors
    <2>2. CASE rd_state' = "run" /\ drives' = [drives EXCEPT ![drive_no] = BeginReadPhase(drive)]
      <3>1. DriveInv(BeginReadPhase(drive))
        BY SelectedDrive, BeginReadPhaseInv
      <3>2. drives' \in [Drive -> DriveType] /\ \A e \in Drive : DriveInv(drives'[e])
        BY <2>2, <3>1, SelectedDrive, OneDriveInv
      <3> QED BY <1>1, <2>2, <3>2 DEF IInv, CtlInv, Ok, ReadStates, Errors
    <2> QED BY <1>1, <2>1, <2>2 DEF ReadCommand
  <1>2. CASE WriteCommand(v) /\ Ok /\ UNCHANGED <<drive_no, rd_state, media>>
    <2>1. CASE wr_state' \in WriteStates /\ UNCHANGED drives
      BY <1>2, <2>1 DEF IInv, CtlInv, Ok, Errors
    <2>2. CASE wr_state' = "wdata" /\ drives' = [drives EXCEPT ![drive_no] = PrepareWrite(drive)]
      <3>1. DriveInv(PrepareWrite(drive))
        BY SelectedDrive, PrepareWriteInv
      <3>2. drives' \in [Drive -> DriveType] /\ \A e \in Drive : DriveInv(drives'[e])
        BY <2>2, <3>1, SelectedDrive, OneDriveInv
      <3> QED BY <1>2, <2>2, <3>2 DEF IInv, CtlInv, Ok, WriteStates, Errors
    <2> QED BY <1>2, <2>1, <2>2 DEF WriteCommand, WriteStates
  <1>3. CASE WriteCommit(hostOk)
    BY <1>3, WriteCommitStep
  <1>4. CASE Ok /\ UNCHANGED <<ctlVars, media>>
    BY <1>4 DEF IInv, CtlInv, Ok, ctlVars, Errors
  <1> QED BY <1>1, <1>2, <1>3, <1>4 DEF WriteCW1

LEMMA WriteCW2Step ==
  ASSUME IInv, NEW v, WriteCW2(v)
  PROVE  IInv'
  <1>1. CASE Raise("ValueError") /\ UNCHANGED <<ctlVars, media>>
    BY <1>1 DEF IInv, CtlInv, Raise, ctlVars, Errors
  <1>2. CASE ~(Raise("ValueError") /\ UNCHANGED <<ctlVars, media>>)
    <2> DEFINE d == v % 8
               r == IF StepsIn(v) THEN StepTrack(drives[d], 1)
                    ELSE IF StepsOut(v) THEN StepTrack(drives[d], -1) ELSE drives[d]
    <2>1. /\ d \in Drive /\ drive_no' = d /\ Ok /\ UNCHANGED <<rd_state, media>>
          /\ drives' = [drives EXCEPT ![d] = r]
          /\ wr_state' = IF ArmsWrite(v) THEN "w2" ELSE wr_state
      BY <1>2 DEF WriteCW2, IInv
    <2>2. DriveInv(r)
      BY <2>1, StepTrackInv DEF IInv
    <2> HIDE DEF d, r
    <2>3. drives' \in [Drive -> DriveType] /\ \A e \in Drive : DriveInv(drives'[e])
      BY <2>1, <2>2, OneDriveInv
    <2> QED BY <2>1, <2>3 DEF IInv, CtlInv, Ok, WriteStates, Errors
  <1> QED BY <1>1, <1>2

LEMMA WriteDataStep ==
  ASSUME IInv, NEW b \in Bytes, WriteData(b)
  PROVE  IInv'
  <1>1. CASE err' \in Errors /\ UNCHANGED <<ctlVars, media>>
    BY <1>1 DEF IInv, CtlInv, ctlVars
  <1>2. CASE CanAddByte(drive) /\ drives' = [drives EXCEPT ![drive_no] = WriteAddByte(drive, b)]
             /\ Ok /\ UNCHANGED <<drive_no, rd_state, wr_state, media>>
    <2>1. DriveInv(WriteAddByte(drive, b))
      BY <1>2, SelectedDrive, WriteAddByteInv
    <2>2. drives' \in [Drive -> DriveType] /\ \A e \in Drive : DriveInv(drives'[e])
      BY <1>2, <2>1, SelectedDrive, OneDriveInv
    <2> QED BY <1>2, <2>2 DEF IInv, CtlInv, Ok, Errors
  <1> QED BY <1>1, <1>2 DEF WriteData, Ok, Raise, Errors

LEMMA ReadStatusStep ==
  ASSUME IInv, ReadStatus
  PROVE  IInv'
  <1>1. DriveInv(StatusRead(drive))
    BY SelectedDrive, StatusReadInv
  <1>2. drives' \in [Drive -> DriveType] /\ \A e \in Drive : DriveInv(drives'[e])
    BY <1>1, SelectedDrive, OneDriveInv DEF ReadStatus
  <1> QED BY <1>2 DEF ReadStatus, IInv, CtlInv, Ok, Errors

LEMMA ReadDataStep ==
  ASSUME IInv, NEW hostOk \in BOOLEAN, ReadData(hostOk)
  PROVE  IInv'
  <1>0. CASE Fetches /\ ~hostOk
    BY <1>0 DEF ReadData, IInv, CtlInv, ctlVars, Raise, Errors
  <1>1. CASE DataFlows /\ ~(Fetches /\ ~hostOk)
    <2>1. DriveInv(AfterRead(drive, StoredSector))
      BY <1>1, SelectedDrive, AfterReadInv DEF DataFlows
    <2>2. drives' \in [Drive -> DriveType] /\ \A e \in Drive : DriveInv(drives'[e])
      BY <1>1, <2>1, SelectedDrive, OneDriveInv DEF ReadData
    <2> QED BY <1>1, <2>2 DEF ReadData, IInv, CtlInv, Ok, Errors
  <1>2. CASE ~DataFlows
    BY <1>2 DEF ReadData, Fetches, IInv, CtlInv, Ok, Errors
  <1> QED BY <1>0, <1>1, <1>2

LEMMA HostStep ==
  ASSUME IInv, NEW d \in Drive, NEW image \in Diskettes, ChangeDiskette(d, image)
  PROVE  IInv'
  <1>1. media' \in [Drive -> Image]
    BY DiskettesAssumption DEF ChangeDiskette, IInv, CtlInv
  <1> QED BY <1>1 DEF ChangeDiskette, ctlVars, IInv, CtlInv

\* The inductive step, action by action.
LEMMA NextInv == IInv /\ [Next]_vars => IInv'
  <1> SUFFICES ASSUME IInv, [Next]_vars PROVE IInv'
    OBVIOUS
  <1>1. ASSUME NEW v \in CW1Values, NEW hostOk \in BOOLEAN, WriteCW1(v, hostOk) PROVE IInv'
    BY <1>1, WriteCW1Step
  <1>2. ASSUME NEW v \in CW2Values, WriteCW2(v) PROVE IInv'
    BY <1>2, WriteCW2Step
  <1>3. ASSUME NEW b \in DataValues, WriteData(b) PROVE IInv'
    BY <1>3, WriteDataStep, PortValuesAssumption
  <1>4. CASE ReadStatus
    BY <1>4, ReadStatusStep
  <1>5. ASSUME NEW hostOk \in BOOLEAN, ReadData(hostOk) PROVE IInv'
    BY <1>5, ReadDataStep
  <1>6. CASE Host
    BY <1>6, HostStep DEF Host
  <1>7. CASE UNCHANGED vars
    BY <1>7 DEF vars, IInv, CtlInv
  <1> QED BY <1>1, <1>2, <1>3, <1>4, <1>5, <1>6, <1>7 DEF Next, Guest

-----------------------------------------------------------------------------
\* The inductive invariant holds in every reachable state.
THEOREM Invariance == Spec => []IInv
  <1> QED BY InitInv, NextInv, PTL DEF Spec

\* Every variable keeps its type: no guest program, drive change or host write
\* moves a head off the disk, a counter past its end, or a buffer past a sector.
THEOREM TypeCorrect == Spec => []TypeOK
  <1>1. IInv => TypeOK
    BY DEF IInv, CtlInv, DriveInv, TypeOK
  <1> QED BY <1>1, Invariance, PTL

\* The AM and CRC bits of the status port always describe the byte under the
\* head, for every guest program (at_mark and at_crc against hpos and dpos).
THEOREM StatusHonest == Spec => []FlagsTellPosition
  <1>1. IInv => FlagsTellPosition
    BY DEF IInv, DriveInv, FlagsTellPosition
  <1> QED BY <1>1, Invariance, PTL

\* No guest gets past the header mark without having been told of it.
THEOREM MarkBeforeHeader == Spec => []MarkSeenBeforeHeader
  <1>1. IInv => MarkSeenBeforeHeader
    BY DEF IInv, DriveInv, MarkSeenBeforeHeader
  <1> QED BY <1>1, Invariance, PTL

\* A data byte is only ever taken from a sector that was fetched whole.
THEOREM DataComesFromAFetchedSector == Spec => []FieldIsLoaded
  <1>1. IInv => FieldIsLoaded
    BY DEF IInv, DriveInv, FieldIsLoaded
  <1> QED BY <1>1, Invariance, PTL

-----------------------------------------------------------------------------
\* Putting back a record's own field changes nothing.
LEMMA SameData ==
  ASSUME NEW drv \in DriveType
  PROVE  drv = [drv EXCEPT !.data = drv.data]
  BY DEF DriveType

\* What FailureIsRepeatable says of one step.
Repeatable ==
  /\ UNCHANGED <<drive_no, rd_state, wr_state>>
  /\ \A d \in Drive : drives'[d] = [drives[d] EXCEPT !.data = drives'[d].data]
  /\ \A d \in Drive : media'[d] # media[d] =>
       d = drive_no /\ CanCommit(drive) /\ drives'[d].data = drive.wbuf

\* An operation refused before it changed anything, and a fetch that failed.
LEMMA RefusedIsRepeatable ==
  ASSUME IInv, UNCHANGED <<ctlVars, media>>
  PROVE  Repeatable
  <1>1. UNCHANGED <<drives, drive_no, rd_state, wr_state, media>>
    BY DEF ctlVars
  <1>2. \A d \in Drive : drives[d] = [drives[d] EXCEPT !.data = drives[d].data]
    BY SameData DEF IInv
  <1> QED BY <1>1, <1>2 DEF Repeatable

\* A commit that failed in the host: the buffer may have reached the image in part.
LEMMA FailedCommitIsRepeatable ==
  ASSUME IInv, CanCommit(drive), CommitFails, UNCHANGED <<drive_no, rd_state>>,
         drives' = [drives EXCEPT ![drive_no] = CommitWrite(drive)]
  PROVE  Repeatable
  <1>1. drives \in [Drive -> DriveType] /\ drive_no \in Drive /\ media \in [Drive -> Image]
    BY DEF IInv, CtlInv
  <1>2. ASSUME NEW d \in Drive, d # drive_no
        PROVE  /\ drives'[d] = [drives[d] EXCEPT !.data = drives'[d].data]
               /\ media'[d] = media[d]
    <2>1. drives'[d] = drives[d]
      BY <1>1, <1>2
    <2>2. media'[d] = media[d]
      BY <1>1, <1>2 DEF CommitFails
    <2> QED BY <1>1, <2>1, <2>2, SameData
  <1>3. drives'[drive_no] = [drives[drive_no] EXCEPT !.data = drives[drive_no].wbuf]
    BY <1>1 DEF CommitWrite, drive
  <1>4. drives'[drive_no].data = drives[drive_no].wbuf
    BY <1>1, <1>3 DEF DriveType
  <1>5. \A d \in Drive : drives'[d] = [drives[d] EXCEPT !.data = drives'[d].data]
    BY <1>2, <1>3, <1>4
  <1>6. \A d \in Drive : media'[d] # media[d] =>
          d = drive_no /\ CanCommit(drive) /\ drives'[d].data = drive.wbuf
    BY <1>2, <1>4 DEF drive
  <1>7. UNCHANGED wr_state
    BY DEF CommitFails
  <1> QED BY <1>5, <1>6, <1>7 DEF Repeatable

LEMMA FailureStep ==
  ASSUME IInv, [Next]_vars
  PROVE  [err' # "none" /\ ~Host => Repeatable]_vars
  <1> SUFFICES ASSUME Guest, err' # "none"
               PROVE  Repeatable
    BY DEF Next
  <1>1. ASSUME NEW v, NEW hostOk \in BOOLEAN, WriteCW1(v, hostOk)
        PROVE  Repeatable
    <2>1. WriteCommit(hostOk) \/ UNCHANGED <<ctlVars, media>>
      BY <1>1 DEF WriteCW1, Ok
    <2>2. CASE AbandonCommit("AttributeError") \/ AbandonCommit("RuntimeError")
      BY <2>2, RefusedIsRepeatable DEF AbandonCommit
    <2>3. CASE /\ CanCommit(drive) /\ CommitFails /\ UNCHANGED <<drive_no, rd_state>>
               /\ drives' = [drives EXCEPT ![drive_no] = CommitWrite(drive)]
      BY <2>3, FailedCommitIsRepeatable
    <2> QED BY <2>1, <2>2, <2>3, RefusedIsRepeatable DEF WriteCommit, Ok
  <1>2. ASSUME NEW v \in CW2Values, WriteCW2(v)
        PROVE  UNCHANGED <<ctlVars, media>>
    BY <1>2 DEF WriteCW2, Ok
  <1>3. ASSUME NEW b \in DataValues, WriteData(b)
        PROVE  UNCHANGED <<ctlVars, media>>
    BY <1>3 DEF WriteData, Ok
  <1>4. ~ReadStatus
    BY DEF ReadStatus, Ok
  <1>5. ASSUME NEW hostOk \in BOOLEAN, ReadData(hostOk)
        PROVE  UNCHANGED <<ctlVars, media>>
    BY <1>5 DEF ReadData, Ok
  <1> QED BY <1>1, <1>2, <1>3, <1>4, <1>5, RefusedIsRepeatable DEF Guest

\* For any geometry, guest and host: an operation of the controller that raises has
\* moved no head, changed no selection, buffer or command state, and left every image
\* alone but the one a full buffer was being written to.
THEOREM FailuresAreRepeatable == Spec => FailureIsRepeatable
  <1>1. IInv /\ [Next]_vars => [err' # "none" /\ ~Host => Repeatable]_vars
    BY FailureStep
  <1>2. [err' # "none" /\ ~Host => Repeatable]_vars
          <=> [err' # "none" /\ ~Host =>
                 /\ UNCHANGED <<drive_no, rd_state, wr_state>>
                 /\ \A d \in Drive : drives'[d] = [drives[d] EXCEPT !.data = drives'[d].data]
                 /\ \A d \in Drive : media'[d] # media[d] =>
                      d = drive_no /\ CanCommit(drive) /\ drives'[d].data = drive.wbuf]_vars
    BY DEF Repeatable
  <1> QED BY Invariance, <1>1, <1>2, PTL DEF Spec, FailureIsRepeatable
=============================================================================
