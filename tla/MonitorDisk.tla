---------------------------- MODULE MonitorDisk ----------------------------
(***************************************************************************)
(* The disk controller under the guest program it was written for: the     *)
(* sector read and write routines of the DIM-1003 monitor PROM, one port   *)
(* access a step.  The PROM is not part of src/src; what it does is taken  *)
(* from the comments of disk.py on how the PROMs poll the controller.      *)
(*                                                                         *)
(* A routine looks for the header of the sector it wants, counting the     *)
(* wrong ones, steps the head if a header shows the wrong track, and gives *)
(* up after as many wrong sectors as a track has.                          *)
(***************************************************************************)
EXTENDS DiskController

CONSTANTS GAP,          \* bytes the PROM reads between a header and its field
          Payload,      \* the sector a write request writes
          MaxRequests,  \* bound: requests in a behaviour
          MaxSwaps      \* bound: diskette swaps in a behaviour

ASSUME MonitorAssumption ==
  /\ GAP \in Nat /\ Payload \in Sector
  /\ MaxRequests \in Nat /\ MaxSwaps \in Nat

VARIABLES mpc,       \* where the routine is
          request,   \* what it was called for
          wrong,     \* headers it may still see of other sectors (register E)
          hdrTrack,  \* the track byte of the header
          hdrSector, \* the sector byte of the header
          count,     \* repetitions left of the current loop
          got,       \* the bytes of the data field read so far
          requests, swaps

regs == <<request, wrong, hdrTrack, hdrSector, count, got>>
mvars == <<vars, mpc, regs, requests, swaps>>

Reads  == [op : {"read"}, drive : Drive, position : Position]
Writes == [op : {"write"}, drive : Drive, position : Position]
NoRequest == <<>>

wantedTrack  == request.position[1]
wantedSector == request.position[2]

MInit ==
  /\ Init
  /\ mpc = "idle"
  /\ request = NoRequest
  /\ wrong = 0 /\ hdrTrack = 0 /\ hdrSector = 0 /\ count = 0
  /\ got = <<>>
  /\ requests = 0 /\ swaps = 0

-----------------------------------------------------------------------------
(***************************************************************************)
(* Port accesses.                                                          *)
(***************************************************************************)
At(s) == mpc = s
Goto(s) == mpc' = s

\* OUT to the control words, with nothing but the place in the routine changed.
OutCW1(from, v, to) ==
  At(from) /\ WriteCW1(v, TRUE) /\ Goto(to) /\ UNCHANGED <<regs, requests, swaps>>
OutCW2(from, v, to) ==
  At(from) /\ WriteCW2(v + request.drive) /\ Goto(to) /\ UNCHANGED <<regs, requests, swaps>>
OutData(from, b, to) ==
  At(from) /\ WriteData(b) /\ Goto(to) /\ UNCHANGED <<regs, requests, swaps>>

\* IN of a byte whose value the routine does not use.
InData(from, to) ==
  At(from) /\ ReadData(TRUE) /\ Goto(to) /\ UNCHANGED <<regs, requests, swaps>>

\* IN of the status, with a jump on one of its bits.
InStatus(from, bit, ifSet, ifClear) ==
  /\ At(from) /\ ReadStatus
  /\ mpc' = IF bit \in StatusBits THEN ifSet ELSE ifClear
  /\ UNCHANGED <<regs, requests, swaps>>

\* IN of a byte that has to be a mark.
InMark(from, mark, ifEqual, ifNot) ==
  /\ At(from) /\ ReadData(TRUE)
  /\ mpc' = IF DataBits = mark THEN ifEqual ELSE ifNot
  /\ UNCHANGED <<regs, requests, swaps>>

-----------------------------------------------------------------------------
(***************************************************************************)
(* A call, and the search for the header.                                  *)
(***************************************************************************)
Submit(r) ==
  /\ At("idle") /\ requests < MaxRequests
  /\ request' = r
  /\ requests' = requests + 1
  /\ wrong' = SECTORS
  /\ got' = <<>>
  /\ Goto("select")
  /\ UNCHANGED <<vars, hdrTrack, hdrSector, count, swaps>>

Select == OutCW2("select", 64, "arm")
ArmHeader == OutCW1("arm", CW1_READ_ARM, "run") \/ OutCW1("run", CW1_READ_RUN, "wait")
WaitForHeader == InStatus("wait", "AM", "mark", "wait")
HeaderMark == InMark("mark", MARK_HDR, "track", "arm")

TrackByte ==
  /\ At("track") /\ ReadData(TRUE) /\ Goto("side")
  /\ hdrTrack' = DataBits
  /\ UNCHANGED <<request, wrong, hdrSector, count, got, requests, swaps>>

SideByte == InData("side", "sector")

SectorByte ==
  /\ At("sector") /\ ReadData(TRUE)
  /\ hdrSector' = DataBits
  /\ mpc' = IF hdrTrack # wantedTrack THEN "offtrack" ELSE "ontrack"
  /\ UNCHANGED <<request, wrong, hdrTrack, count, got, requests, swaps>>

\* The wrong track: the header's CRC tells whether to believe it.
OffTrack == InData("offtrack", "offcrc") \/ InData("offcrc", "offstatus")

OffTrackStatus ==
  /\ At("offstatus") /\ ReadStatus
  /\ mpc' = IF "CRC" \notin StatusBits THEN "arm"
            ELSE IF hdrTrack < wantedTrack THEN "in1" ELSE "out1"
  /\ count' = IF hdrTrack < wantedTrack THEN wantedTrack - hdrTrack ELSE hdrTrack - wantedTrack
  /\ UNCHANGED <<request, wrong, hdrTrack, hdrSector, got, requests, swaps>>

\* 50 70 50 for every track inward, 60 40 for every track outward; then the
\* search begins anew.
StepPulse == OutCW2("in1", 80, "in2") \/ OutCW2("in2", 112, "in3") \/ OutCW2("out1", 96, "out2")

StepEnd(from, v, again) ==
  /\ At(from) /\ WriteCW2(v + request.drive)
  /\ count' = count - 1
  /\ mpc' = IF count = 1 THEN "arm" ELSE again
  /\ wrong' = SECTORS
  /\ UNCHANGED <<request, hdrTrack, hdrSector, got, requests, swaps>>

Seek == StepPulse \/ StepEnd("in3", 80, "in1") \/ StepEnd("out2", 64, "out1")

\* The right track: another sector's header is counted.
OnTrack ==
  /\ At("ontrack") /\ ReadData(TRUE)
  /\ wrong' = IF hdrSector = wantedSector THEN wrong ELSE wrong - 1
  /\ mpc' = IF hdrSector = wantedSector THEN "crc"
            ELSE IF wrong = 1 THEN "failed" ELSE "arm"
  /\ UNCHANGED <<request, hdrTrack, hdrSector, count, got, requests, swaps>>

HeaderCrc == InData("crc", "crcstatus")

HeaderStatus ==
  /\ At("crcstatus") /\ ReadStatus
  /\ count' = GAP
  /\ mpc' = IF "CRC" \in StatusBits THEN "gap" ELSE "arm"
  /\ UNCHANGED <<request, wrong, hdrTrack, hdrSector, got, requests, swaps>>

Gap ==
  /\ At("gap")
  /\ IF count > 0
     THEN ReadData(TRUE) /\ count' = count - 1 /\ UNCHANGED mpc
     ELSE UNCHANGED <<vars, count>> /\ Goto(IF request.op = "read" THEN "darm" ELSE "w1")
  /\ UNCHANGED <<request, wrong, hdrTrack, hdrSector, got, requests, swaps>>

SearchHeader ==
  \/ Select \/ ArmHeader \/ WaitForHeader \/ HeaderMark \/ TrackByte \/ SideByte \/ SectorByte
  \/ OffTrack \/ OffTrackStatus \/ Seek \/ OnTrack \/ HeaderCrc \/ HeaderStatus \/ Gap

-----------------------------------------------------------------------------
(***************************************************************************)
(* The data field.                                                         *)
(***************************************************************************)
ArmField == OutCW1("darm", CW1_READ_ARM, "drun") \/ OutCW1("drun", CW1_READ_RUN, "dprime")

\* A byte and a status, until the status shows the mark.
WaitForField == InData("dprime", "dwait") \/ InStatus("dwait", "AM", "dmark", "dprime")
FieldMark == InMark("dmark", MARK_DATA, "data", "failed")

FieldByte ==
  /\ At("data") /\ ReadData(TRUE)
  /\ got' = Append(got, DataBits)
  /\ mpc' = IF Len(got) + 1 = SECTOR_SIZE THEN "dcrc" ELSE "data"
  /\ UNCHANGED <<request, wrong, hdrTrack, hdrSector, count, requests, swaps>>

FieldCrc == InData("dcrc", "dstatus")

Finish == Goto("idle") /\ request' = NoRequest

ReadEnds ==
  /\ At("dstatus") /\ ReadStatus
  /\ IF "CRC" \in StatusBits THEN Finish ELSE Goto("failed") /\ UNCHANGED request
  /\ UNCHANGED <<wrong, hdrTrack, hdrSector, count, got, requests, swaps>>

ReadField == ArmField \/ WaitForField \/ FieldMark \/ FieldByte \/ FieldCrc \/ ReadEnds

\* C9 and C0 arm the write, A1 and A8 bring up gap and mark, whose bytes the
\* controller ignores, A9 starts the field and AD ends it; the CRC is ignored.
BeginWrite ==
  \/ OutCW1("w1", CW1_WRITE_1, "w2")
  \/ OutCW2("w2", 192, "w3")
  \/ OutCW1("w3", CW1_WRITE_3, "w4")
  \/ OutData("w4", Payload[1], "w5")
  \/ OutCW1("w5", CW1_WRITE_4, "w6")
  \/ OutData("w6", Payload[1], "w7")

StartField ==
  /\ At("w7") /\ WriteCW1(CW1_WRITE_DATA, TRUE)
  /\ count' = 1
  /\ Goto("wdata")
  /\ UNCHANGED <<request, wrong, hdrTrack, hdrSector, got, requests, swaps>>

PutByte ==
  /\ At("wdata") /\ WriteData(Payload[count])
  /\ count' = count + 1
  /\ mpc' = IF count = SECTOR_SIZE THEN "commit" ELSE "wdata"
  /\ UNCHANGED <<request, wrong, hdrTrack, hdrSector, got, requests, swaps>>

Commit == OutCW1("commit", CW1_WRITE_COMMIT, "wcrc")

WriteEnds ==
  \/ OutData("wcrc", Payload[1], "wend1")
  \/ OutCW1("wend1", 193, "wend2")
  \/ /\ At("wend2") /\ WriteCW2(64 + request.drive)
     /\ Finish
     /\ UNCHANGED <<wrong, hdrTrack, hdrSector, count, got, requests, swaps>>

WriteField == BeginWrite \/ StartField \/ PutByte \/ Commit \/ WriteEnds

-----------------------------------------------------------------------------
\* The host replaces the diskette of a drive.
SwapDiskette(d, image) ==
  /\ swaps < MaxSwaps
  /\ ChangeDiskette(d, image)
  /\ swaps' = swaps + 1
  /\ UNCHANGED <<mpc, regs, requests>>

Monitor == SearchHeader \/ ReadField \/ WriteField

MNext ==
  \/ \E r \in Reads \cup Writes : Submit(r)
  \/ Monitor
  \/ \E d \in Drive, image \in Diskettes : SwapDiskette(d, image)

MSpec == MInit /\ [][MNext]_mvars /\ WF_mvars(Monitor)

-----------------------------------------------------------------------------
(***************************************************************************)
(* Properties.                                                             *)
(***************************************************************************)

\* The routine's loops end within the controller's sequence of headers: it meets
\* the wanted sector before it has counted a whole track of others, its CRC is
\* good, and its field begins with the mark.
NeverGivesUp == ~At("failed")

\* The routine never drives the controller into an exception, which would end
\* the emulator.
NeverRaises == err = "none"

\* Requests served one after another, on whatever drives and sectors, with
\* diskettes swapped at any byte, are a sector service: a read returns one whole
\* sector that was in the drive, a write changes the sector it names and only it.
fetched == (At("data") /\ got # <<>>) \/ mpc \in {"dcrc", "dstatus"}
committed == mpc \in {"wcrc", "wend1", "wend2"}
valueBar == IF fetched THEN drives[request.drive].data ELSE <<>>
answerBar == IF request = NoRequest THEN got ELSE <<>>
Service == INSTANCE SectorService WITH
             performed <- fetched \/ committed, value <- valueBar, answer <- answerBar,
             swapped <- swaps
ImplementsSectorService == Service!Spec

\* Every request is served.
RequestsComplete == request # NoRequest ~> request = NoRequest
=============================================================================
