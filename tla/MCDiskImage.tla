---------------------------- MODULE MCDiskImage ----------------------------
(***************************************************************************)
(* DiskImage for TLC: two tracks of two one-byte sectors, one diskette of  *)
(* the host's, one sector value to write.                                  *)
(***************************************************************************)
EXTENDS DiskImage

MCWriteValues == {<<1>>}
MCDiskettes == {<<2, 1, 2, 2>>}
=============================================================================
