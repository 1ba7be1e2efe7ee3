--------------------------- MODULE MCMonitorDisk ---------------------------
(***************************************************************************)
(* MonitorDisk for TLC: two drives with two tracks of two sectors of two   *)
(* bytes.  Every sector of either diskette is told from every other.       *)
(***************************************************************************)
EXTENDS MonitorDisk

MCDiskette(base) == [p \in Position |-> [i \in 1 .. SECTOR_SIZE |-> base + p[1] * SECTORS + p[2]]]
MCDiskettes == {MCDiskette(0), MCDiskette(TRACKS * SECTORS)}
MCPayload == <<0, 9>>
MCControlWords == {}
=============================================================================
