------------------------------ MODULE DiskImage ------------------------------
(***************************************************************************)
(* One disk image (class DiskImage of disks/image.py): the cached bytes    *)
(* barr, the file they are written through to, and a host that copies,     *)
(* renames and removes that file while the emulator runs.  Every read and  *)
(* write opens the file afresh, so the system calls of one operation are   *)
(* steps of their own, and the emulator may die between any two.           *)
(***************************************************************************)
EXTENDS Integers, Sequences, FiniteSets

CONSTANTS TRACKS, SECTORS, SECTOR_SIZE, Bytes,
          WriteValues,   \* the sectors the controller writes
          Diskettes,     \* the complete image files the host has
          Inodes,        \* files of the host's file system; 0 is no file
          HostRaces,     \* whether the host acts during an operation
          MaxHostOps     \* bound: host actions in a behaviour

ASSUME GeometryAssumption ==
  /\ TRACKS \in Nat \ {0} /\ SECTORS \in Nat \ {0} /\ SECTOR_SIZE \in Nat \ {0}
ASSUME HostAssumption ==
  /\ HostRaces \in BOOLEAN /\ MaxHostOps \in Nat
  /\ Inodes \subseteq Nat \ {0} /\ Cardinality(Inodes) >= 4

IMG_LEN  == TRACKS * SECTORS * SECTOR_SIZE
Position == (0 .. TRACKS - 1) \X (1 .. SECTORS)
Sector   == [1 .. SECTOR_SIZE -> Bytes]
Blank    == [i \in 1 .. SECTOR_SIZE |-> 0]
NoFile   == 0

\* A diskette of the host's is an image whole: copying a file of another length over
\* one is its user's mistake.
ASSUME ContentsAssumption ==
  /\ 0 \in Bytes /\ WriteValues \subseteq Sector
  /\ \A d \in Diskettes : d \in Seq(Bytes) /\ Len(d) = IMG_LEN

VARIABLES path,      \* the inode under the image's name, or NoFile
          inode,     \* the bytes of each inode
          barr,      \* DiskImage.barr
          pc,        \* where the emulator is in an operation
          op,        \* the position and data of that operation
          fd,        \* the inode its open file has
          result,    \* what the last read returned
          copying,   \* the inode a host copy has truncated and not yet filled
          hostOps,   \* host actions so far
          old,       \* history: the sector of barr that a write replaced
          touched    \* history: the host has acted since the image was loaded

emuVars == <<barr, pc, op, fd, result, old>>
vars == <<path, inode, barr, pc, op, fd, result, copying, hostOps, old, touched>>

PCs == {"idle", "read", "write", "dump", "dumpwrite", "down"}
NoOp == [pos |-> <<0, 1>>, data |-> Blank]

-----------------------------------------------------------------------------
\* Mutant: sectors counted from 0, as tracks are.
OffsetFromZero(p) == (p[1] * SECTORS + p[2]) * SECTOR_SIZE

\* Mutant: the tracks overlap by a sector.
OffsetOverlapping(p) == (p[1] * (SECTORS - 1) + (p[2] - 1)) * SECTOR_SIZE

\* _get_offset: the byte where a sector begins.
Offset(p) == (p[1] * SECTORS + (p[2] - 1)) * SECTOR_SIZE

\* f.seek(offset); f.read(SECTOR_SIZE), and data.ljust(SECTOR_SIZE, b"\0")
Padded(f, off) ==
  [i \in 1 .. SECTOR_SIZE |-> IF off + i <= Len(f) THEN f[off + i] ELSE 0]

\* Bytes d written at off: a slice assignment to barr, or f.seek and f.write,
\* which leaves zeros where it went past the end of the file.
Patch(f, off, d) ==
  LET end == off + Len(d)
  IN  [i \in 1 .. (IF Len(f) > end THEN Len(f) ELSE end) |->
         IF i > off /\ i <= end THEN d[i - off]
         ELSE IF i <= Len(f) THEN f[i] ELSE 0]

Exists == path # NoFile
File == inode[path]
FreshInode == CHOOSE n \in Inodes : n \notin {path, fd, copying}
Quiet == HostRaces \/ copying = NoFile

Init ==
  /\ inode = [n \in Inodes |-> <<>>]
  /\ path = NoFile
  /\ barr = [i \in 1 .. IMG_LEN |-> 0]
  /\ pc = "idle"
  /\ op = NoOp
  /\ fd = NoFile
  /\ result = Blank
  /\ copying = NoFile
  /\ hostOps = 0
  /\ old = Blank
  /\ touched = FALSE

-----------------------------------------------------------------------------
(***************************************************************************)
(* Reading a sector.                                                       *)
(***************************************************************************)
\* open(self.fname, 'rb'); a missing file leaves the answer to the cache.
ReadOpen(p) ==
  /\ pc = "idle" /\ Quiet
  /\ \/ /\ Exists
        /\ fd' = path
        /\ pc' = "read"
        /\ op' = [pos |-> p, data |-> Blank]
        /\ UNCHANGED result
     \/ /\ ~Exists
        /\ result' = Padded(barr, Offset(p))
        /\ UNCHANGED <<fd, pc, op>>
  /\ UNCHANGED <<path, inode, barr, copying, hostOps, old, touched>>

ReadFile ==
  /\ pc = "read"
  /\ LET data == Padded(inode[fd], Offset(op.pos))
     IN  /\ barr' = Patch(barr, Offset(op.pos), data)
         /\ result' = data
  /\ fd' = NoFile /\ pc' = "idle" /\ op' = NoOp
  /\ UNCHANGED <<path, inode, copying, hostOps, old, touched>>

(***************************************************************************)
(* Writing a sector with flush=True.                                       *)
(***************************************************************************)
\* barr takes the data before open(self.fname, 'rb+').
WriteOpen(p, s) ==
  /\ pc = "idle" /\ Quiet
  /\ barr' = Patch(barr, Offset(p), s)
  /\ old' = Padded(barr, Offset(p))
  /\ op' = [pos |-> p, data |-> s]
  /\ \/ Exists /\ pc' = "write" /\ fd' = path
     \/ ~Exists /\ pc' = "dump" /\ UNCHANGED fd
  /\ UNCHANGED <<path, inode, result, copying, hostOps, touched>>

\* Mutant: the write goes where the file was opened, not where it sought.
WriteFileUnsought ==
  /\ pc = "write"
  /\ inode' = [inode EXCEPT ![fd] = Patch(@, 0, op.data)]
  /\ fd' = NoFile /\ pc' = "idle" /\ op' = NoOp
  /\ UNCHANGED <<path, barr, result, copying, hostOps, old, touched>>

WriteFile ==
  /\ pc = "write"
  /\ inode' = [inode EXCEPT ![fd] = Patch(@, Offset(op.pos), op.data)]
  /\ fd' = NoFile /\ pc' = "idle" /\ op' = NoOp
  /\ UNCHANGED <<path, barr, result, copying, hostOps, old, touched>>

\* except FileNotFoundError: open(self.fname, mode="wb") creates or truncates
\* whatever is there by now.
DumpOpen ==
  /\ pc = "dump"
  /\ LET n == IF Exists THEN path ELSE FreshInode
     IN  /\ path' = n /\ fd' = n
         /\ inode' = [inode EXCEPT ![n] = <<>>]
  /\ pc' = "dumpwrite"
  /\ UNCHANGED <<barr, op, result, copying, hostOps, old, touched>>

\* Mutant: only the sector is written to the new file.
DumpWriteSector ==
  /\ pc = "dumpwrite"
  /\ inode' = [inode EXCEPT ![fd] = Patch(@, Offset(op.pos), op.data)]
  /\ fd' = NoFile /\ pc' = "idle" /\ op' = NoOp
  /\ UNCHANGED <<path, barr, result, copying, hostOps, old, touched>>

DumpWrite ==
  /\ pc = "dumpwrite"
  /\ inode' = [inode EXCEPT ![fd] = Patch(@, 0, barr)]
  /\ fd' = NoFile /\ pc' = "idle" /\ op' = NoOp
  /\ UNCHANGED <<path, barr, result, copying, hostOps, old, touched>>

(***************************************************************************)
(* Death and rebirth of the emulator (load_disk_images).                   *)
(***************************************************************************)
Crash ==
  /\ pc # "down"
  /\ pc' = "down" /\ fd' = NoFile /\ op' = NoOp
  /\ barr' = [i \in 1 .. IMG_LEN |-> 0]
  /\ old' = Blank
  /\ UNCHANGED <<path, inode, result, copying, hostOps, touched>>

\* A file of the wrong length raises ValueError and the emulator does not start.
Loadable == Exists => Len(File) = IMG_LEN

Restart ==
  /\ pc = "down"
  /\ \/ /\ Loadable
        /\ pc' = "idle"
        /\ barr' = IF Exists THEN File ELSE barr
        /\ touched' = FALSE
     \/ ~Loadable /\ UNCHANGED <<pc, barr, touched>>
  /\ UNCHANGED <<path, inode, op, fd, result, copying, hostOps, old>>

-----------------------------------------------------------------------------
(***************************************************************************)
(* The host.                                                               *)
(***************************************************************************)
HostMayAct ==
  /\ hostOps < MaxHostOps
  /\ HostRaces \/ pc \in {"idle", "down"}

HostActs ==
  /\ hostOps' = hostOps + 1
  /\ touched' = TRUE
  /\ UNCHANGED emuVars

\* cp: truncate the file, or create it, then write it.
HostCopyBegin ==
  /\ HostMayAct /\ copying = NoFile
  /\ LET n == IF Exists THEN path ELSE FreshInode
     IN  /\ path' = n /\ copying' = n
         /\ inode' = [inode EXCEPT ![n] = <<>>]
  /\ HostActs

HostCopyEnd(d) ==
  /\ copying # NoFile
  /\ HostRaces \/ pc \in {"idle", "down"}
  /\ inode' = [inode EXCEPT ![copying] = Patch(@, 0, d)]
  /\ copying' = NoFile
  /\ touched' = TRUE
  /\ UNCHANGED <<path, hostOps, emuVars>>

\* mv: another file takes the name.
HostReplace(d) ==
  /\ HostMayAct /\ copying = NoFile
  /\ LET n == FreshInode
     IN  /\ path' = n
         /\ inode' = [inode EXCEPT ![n] = d]
  /\ UNCHANGED copying
  /\ HostActs

HostRemove ==
  /\ HostMayAct /\ copying = NoFile /\ Exists
  /\ path' = NoFile
  /\ UNCHANGED <<inode, copying>>
  /\ HostActs

-----------------------------------------------------------------------------
Emulator ==
  \/ \E p \in Position : ReadOpen(p) \/ \E s \in WriteValues : WriteOpen(p, s)
  \/ ReadFile \/ WriteFile \/ DumpOpen \/ DumpWrite
  \/ Crash \/ Restart

Host ==
  \/ HostCopyBegin \/ HostRemove
  \/ \E d \in Diskettes : HostCopyEnd(d) \/ HostReplace(d)

Next == Emulator \/ Host

Spec == Init /\ [][Next]_vars

-----------------------------------------------------------------------------
(***************************************************************************)
(* Properties.                                                             *)
(***************************************************************************)

\* Every variable has its type: barr keeps the length of an image, and an open
\* file is remembered exactly while an operation is under way.
TypeOK ==
  /\ path \in Inodes \cup {NoFile} /\ copying \in Inodes \cup {NoFile}
  /\ \A n \in Inodes : inode[n] \in Seq(Bytes)
  /\ barr \in Seq(Bytes) /\ Len(barr) = IMG_LEN
  /\ pc \in PCs /\ hostOps \in 0 .. MaxHostOps /\ touched \in BOOLEAN
  /\ op.pos \in Position /\ op.data \in Sector /\ result \in Sector /\ old \in Sector
  /\ fd \in Inodes \cup {NoFile}
  /\ fd # NoFile <=> pc \in {"read", "write", "dumpwrite"}

\* Read-through and write-through keep the cache equal to the file for as long
\* as nobody else touches it: falling back on the cache loses nothing.
CacheIsFile ==
  pc = "idle" /\ Exists /\ ~touched => barr = File

\* The file an undisturbed emulator leaves behind, at whatever step it dies, is
\* one the next start accepts, unless it died while creating it.
DiesLoadable ==
  ~touched /\ pc \notin {"dumpwrite", "down"} => Loadable

\* The image implements the sector store: what a read returns, what a write
\* changes and makes durable, and what a crash may lose, when the host changes
\* diskettes only between operations.
mediaBar ==
  [p \in Position |->
     CASE pc \in {"dump", "dumpwrite"} /\ p = op.pos -> old
       [] pc \in {"dump", "dumpwrite"} /\ p # op.pos -> Padded(barr, Offset(p))
       [] OTHER -> IF Exists THEN Padded(File, Offset(p)) ELSE Padded(barr, Offset(p))]
insertedBar == Exists /\ pc # "dumpwrite"
wholeBar == Loadable \/ pc = "dumpwrite"
epochBar == 2 * hostOps - (IF copying = NoFile THEN 0 ELSE 1)
Store == INSTANCE SectorStore WITH
           media <- mediaBar, inserted <- insertedBar, whole <- wholeBar,
           up <- pc # "down", last <- result, epoch <- epochBar
ImplementsSectorStore == Store!Spec

\* "If the file does not exist, creates the file and dumps the entire disk image
\* to the file" (write_sector): the dump never replaces a file that is there.
DumpOnlyIfMissing == [][DumpOpen => ~Exists]_vars
=============================================================================
