--------------------------- MODULE DiskController ---------------------------
(***************************************************************************)
(* The DIM-1030 disk controller (class IODiskController of                 *)
(* devices/disk.py) under an arbitrary guest program: any OUT or IN on its *)
(* five ports in any order, while the host changes the image files.        *)
(*                                                                         *)
(* media[d] is what DiskImage.read_sector returns for each sector of drive *)
(* d: what its file holds or, if it has none, what the cache does; the     *)
(* module DiskImage says how that comes about.  An operation that raises   *)
(* leaves its exception in err; the next operation clears it.              *)
(***************************************************************************)
EXTENDS DiskDrive

CONSTANTS NDRIVES,     \* drives 0 .. NDRIVES-1 have an image (8 in app.py)
          CW1Values,   \* the values a guest may write to O_CW1
          CW2Values,   \* the values a guest may write to O_CW2
          DataValues,  \* the values a guest may write to O_DATA
          Diskettes    \* the images the host puts into the drives

ASSUME DrivesAssumption == NDRIVES \in 1..8
ASSUME PortValuesAssumption ==
  CW1Values \subseteq 0..255 /\ CW2Values \subseteq 0..255 /\ DataValues \subseteq Bytes

Drive == 0 .. NDRIVES - 1
Image == [Position -> Sector]

\* 0 is what a short file is padded with.
ASSUME DiskettesAssumption == 0 \in Bytes /\ Diskettes \subseteq Image

VARIABLES drives, drive_no, rd_state, wr_state, media, err

ctlVars == <<drives, drive_no, rd_state, wr_state>>
vars == <<drives, drive_no, rd_state, wr_state, media, err>>

\* Control words of O_CW1 that the code knows; every other value is ignored.
CW1_READ_ARM     == 65    \* 0x41
CW1_READ_RUN     == 73    \* 0x49
CW1_WRITE_1      == 201   \* 0xc9
CW1_WRITE_3      == 161   \* 0xa1
CW1_WRITE_4      == 168   \* 0xa8
CW1_WRITE_DATA   == 169   \* 0xa9
CW1_WRITE_COMMIT == 173   \* 0xad

ReadStates  == {"off", "s1", "run"}
WriteStates == {"off", "w1", "w2", "w3", "w4", "wdata"}
Errors      == {"none", "ValueError", "AttributeError", "RuntimeError", "OSError"}

drive == drives[drive_no]
StoredSector == media[drive_no][<<drive.track, drive.sector>>]

-----------------------------------------------------------------------------
Ok == err' = "none"
Raise(e) == err' = e

\* commit_write raised before anything changed.
AbandonCommit(e) == Raise(e) /\ UNCHANGED <<ctlVars, media>>

\* The image is there: n bytes of the sector have reached its file, none of them if
\* it could not be opened.
WrittenInPart(image, p, s, n) ==
  [image EXCEPT ![p] = [i \in 1 .. SECTOR_SIZE |-> IF i <= n THEN s[i] ELSE image[p][i]]]

\* The image is missing, so that the cache answers, which has taken the sector by
\* then: n of its bytes have reached the file that was created, and the zeros a
\* short file is padded with answer for the others.  All of them, if that file
\* could not be created and the cache still answers.
ByteNo(p, i) == (p[1] * SECTORS + p[2] - 1) * SECTOR_SIZE + i
DumpedInPart(image, p, s, n) ==
  [q \in Position |-> [i \in 1 .. SECTOR_SIZE |->
     IF ByteNo(q, i) > n THEN 0 ELSE IF q = p THEN s[i] ELSE image[q][i]]]

\* What may be left of an image when write_sector raises.
AfterFailedWrite(image, p, s) ==
  {WrittenInPart(image, p, s, n) : n \in 0 .. SECTOR_SIZE}
    \cup {DumpedInPart(image, p, s, n) : n \in 0 .. TRACKS * SECTORS * SECTOR_SIZE}

\* Mutant: the command is counted as done before the commit has run.
CommitFailsAsDone ==
  /\ Raise("OSError")
  /\ \E image \in AfterFailedWrite(media[drive_no], <<drive.track, drive.sector>>, drive.wbuf) :
       media' = [media EXCEPT ![drive_no] = image]
  /\ wr_state' = "off"

\* The write to the image fails in the host's file system.
CommitFails ==
  /\ Raise("OSError")
  /\ \E image \in AfterFailedWrite(media[drive_no], <<drive.track, drive.sector>>, drive.wbuf) :
       media' = [media EXCEPT ![drive_no] = image]
  /\ UNCHANGED wr_state

\* 0xad: the image takes the buffer, or fails after self.data was assigned; only
\* when it has taken it does the write state go off.
WriteCommit(hostOk) ==
  \/ /\ ~drive.prepared
     /\ AbandonCommit("AttributeError")
  \/ /\ drive.prepared /\ ~CanCommit(drive)
     /\ AbandonCommit("RuntimeError")
  \/ /\ CanCommit(drive)
     /\ drives' = [drives EXCEPT ![drive_no] = CommitWrite(drive)]
     /\ \/ /\ hostOk
           /\ media' = [media EXCEPT ![drive_no][<<drive.track, drive.sector>>] = drive.wbuf]
           /\ wr_state' = "off"
           /\ Ok
        \/ ~hostOk /\ CommitFails
     /\ UNCHANGED <<drive_no, rd_state>>

ReadCommand(v) ==
  \/ /\ v = CW1_READ_ARM
     /\ rd_state' = "s1"
     /\ UNCHANGED drives
  \/ /\ v = CW1_READ_RUN
     /\ rd_state' = "run"
     /\ drives' = [drives EXCEPT ![drive_no] = BeginReadPhase(drive)]

WriteCommand(v) ==
  \/ v = CW1_WRITE_1 /\ wr_state' = "w1" /\ UNCHANGED drives
  \/ v = CW1_WRITE_3 /\ wr_state' = "w3" /\ UNCHANGED drives
  \/ v = CW1_WRITE_4 /\ wr_state' = "w4" /\ UNCHANGED drives
  \/ /\ v = CW1_WRITE_DATA
     /\ wr_state' = "wdata"
     /\ drives' = [drives EXCEPT ![drive_no] = PrepareWrite(drive)]

WriteCW1(v, hostOk) ==
  \/ ReadCommand(v) /\ Ok /\ UNCHANGED <<drive_no, wr_state, media>>
  \/ WriteCommand(v) /\ Ok /\ UNCHANGED <<drive_no, rd_state, media>>
  \/ v = CW1_WRITE_COMMIT /\ WriteCommit(hostOk)
  \/ /\ v \notin {CW1_READ_ARM, CW1_READ_RUN, CW1_WRITE_1, CW1_WRITE_3, CW1_WRITE_4,
                  CW1_WRITE_DATA, CW1_WRITE_COMMIT}
     /\ Ok
     /\ UNCHANGED <<ctlVars, media>>

\* The low three bits of O_CW2 select the drive; the rest steps its head or
\* arms a write.  val & 0x70 = 0x70, val & 0x60 = 0x60 and val & 0xf0 = 0xc0.
StepsIn(v)   == (v \div 16) % 8 = 7
StepsOut(v)  == ~StepsIn(v) /\ (v \div 32) % 4 = 3
ArmsWrite(v) == v \div 16 = 12

WriteCW2(v) ==
  \/ /\ v % 8 \notin Drive
     /\ Raise("ValueError")
     /\ UNCHANGED <<ctlVars, media>>
  \/ /\ v % 8 \in Drive
     /\ drive_no' = v % 8
     /\ drives' = [drives EXCEPT ![v % 8] = IF StepsIn(v) THEN StepTrack(@, 1)
                                            ELSE IF StepsOut(v) THEN StepTrack(@, -1)
                                            ELSE @]
     /\ wr_state' = IF ArmsWrite(v) THEN "w2" ELSE wr_state
     /\ Ok
     /\ UNCHANGED <<rd_state, media>>

WriteData(b) ==
  \/ /\ wr_state # "wdata"
     /\ Ok
     /\ UNCHANGED <<ctlVars, media>>
  \/ /\ wr_state = "wdata" /\ CanAddByte(drive)
     /\ drives' = [drives EXCEPT ![drive_no] = WriteAddByte(drive, b)]
     /\ Ok
     /\ UNCHANGED <<drive_no, rd_state, wr_state, media>>
  \/ /\ wr_state = "wdata" /\ ~CanAddByte(drive)
     /\ Raise(IF drive.prepared THEN "RuntimeError" ELSE "AttributeError")
     /\ UNCHANGED <<ctlVars, media>>

StatusBits ==
  {"DRY"} \cup (IF drive.track = 0 THEN {"T0"} ELSE {})
          \cup (IF drive.at_mark THEN {"AM"} ELSE {})
          \cup (IF drive.at_crc THEN {"CRC"} ELSE {})

ReadStatus ==
  /\ drives' = [drives EXCEPT ![drive_no] = StatusRead(drive)]
  /\ Ok
  /\ UNCHANGED <<drive_no, rd_state, wr_state, media>>

DataFlows == rd_state = "run" /\ ~Done(drive)

DataBits == IF DataFlows THEN ReadByte(drive, StoredSector) ELSE 0

\* The read that asks the image for its sector; a missing file does not fail it.
Fetches == DataFlows /\ drive.state = "data" /\ drive.dpos = 0

ReadData(hostOk) ==
  \/ /\ Fetches /\ ~hostOk
     /\ Raise("OSError")
     /\ UNCHANGED <<ctlVars, media>>
  \/ /\ ~Fetches \/ hostOk
     /\ drives' = IF DataFlows
                  THEN [drives EXCEPT ![drive_no] = AfterRead(drive, StoredSector)]
                  ELSE drives
     /\ Ok
     /\ UNCHANGED <<drive_no, rd_state, wr_state, media>>

-----------------------------------------------------------------------------
\* The host changes the diskette in a drive (README: "just copy a file over the
\* corresponding diskette image").
ChangeDiskette(d, image) ==
  /\ media' = [media EXCEPT ![d] = image]
  /\ UNCHANGED <<ctlVars, err>>

Init ==
  /\ drives = [d \in Drive |-> NewDrive]
  /\ drive_no = 0
  /\ rd_state = "off"
  /\ wr_state = "off"
  /\ media \in [Drive -> Diskettes]
  /\ err = "none"

\* Any port access; the host's file system may fail where it is called.
Guest ==
  \/ \E v \in CW1Values, hostOk \in BOOLEAN : WriteCW1(v, hostOk)
  \/ \E v \in CW2Values : WriteCW2(v)
  \/ \E b \in DataValues : WriteData(b)
  \/ ReadStatus
  \/ \E hostOk \in BOOLEAN : ReadData(hostOk)

Host == \E d \in Drive, image \in Diskettes : ChangeDiskette(d, image)

Next == Guest \/ Host

Spec == Init /\ [][Next]_vars

-----------------------------------------------------------------------------
(***************************************************************************)
(* Properties.                                                             *)
(***************************************************************************)

\* Every variable has its type, and no sequence of prepares, data bytes, commits
\* and drive changes makes a write buffer outgrow a sector; a sector number or a
\* byte count out of its range would index past the image or the sector buffer.
TypeOK ==
  /\ drives \in [Drive -> DriveType]
  /\ \A d \in Drive : Len(drives[d].wbuf) <= SECTOR_SIZE
  /\ drive_no \in Drive
  /\ rd_state \in ReadStates
  /\ wr_state \in WriteStates
  /\ media \in [Drive -> Image]
  /\ err \in Errors

\* The address-mark and CRC flags, which the guest polls to find its place in
\* the byte stream, are exactly a function of the head's place in the field: a
\* mark is announced only before and at the mark bytes (and after the trailing
\* gap of a header), a good CRC only over the CRC bytes of a field whose every
\* byte has gone by.
AtMark(drv) ==
  \/ drv.state = "inactive"
  \/ drv.state = "hdr" /\ drv.hpos \in {-1, 0, 16}
  \/ drv.state = "data" /\ drv.dpos <= 0
AtCrc(drv) ==
  \/ drv.state = "hdr" /\ drv.hpos \in 4..6
  \/ drv.state = "data" /\ drv.dpos >= SECTOR_SIZE
FlagsTellPosition ==
  \A d \in Drive : /\ drives[d].at_mark <=> AtMark(drives[d])
                   /\ drives[d].at_crc <=> AtCrc(drives[d])

\* "A data read before the AM status has been observed must not consume the FE
\* header mark" (_read_header): once the head is in a header, the guest has been
\* told of its mark.
MarkSeenBeforeHeader ==
  \A d \in Drive : drives[d].state = "hdr" /\ drives[d].hpos >= 0 => drives[d].mark_seen

\* While a data field goes by, the sector it comes from has been fetched whole,
\* and the counters of a phase that has not begun are where reset() left them.
FieldIsLoaded ==
  \A d \in Drive :
    LET drv == drives[d]
    IN  /\ drv.state = "data" /\ drv.dpos > 0 => drv.data \in Sector
        /\ drv.state # "data" => drv.dpos = -2
        /\ drv.state = "inactive" => drv.hpos = -1

\* An operation that raises leaves the selection, the command states and every head,
\* counter and buffer as they were, so that it can be repeated.  The image is another
\* matter: a full buffer may have reached it in part, but only that of the drive the
\* command was for, and no refused command reaches any.
FailureIsRepeatable ==
  [][err' # "none" /\ ~Host =>
       /\ UNCHANGED <<drive_no, rd_state, wr_state>>
       /\ \A d \in Drive : drives'[d] = [drives[d] EXCEPT !.data = drives'[d].data]
       /\ \A d \in Drive : media'[d] # media[d] =>
            d = drive_no /\ CanCommit(drive) /\ drives'[d].data = drive.wbuf]_vars
=============================================================================
