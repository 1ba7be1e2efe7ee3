-------------------------- MODULE DiskImage_proofs --------------------------
(***************************************************************************)
(* Theorems about DiskImage.  First the arithmetic of _get_offset (sectors *)
(* fit in the image and do not overlap) and of replacing bytes; then the   *)
(* inductive invariant, action by action; then, for a host that is at rest *)
(* during operations, that the image implements SectorStore.               *)
(***************************************************************************)
EXTENDS DiskImage, TLAPS, FiniteSetTheorems, SequenceTheorems

-----------------------------------------------------------------------------
(***************************************************************************)
(* Sectors within the bytes of an image.                                   *)
(***************************************************************************)
LEMMA TimesMonotone ==
  ASSUME NEW a \in Nat, NEW b \in Nat, NEW c \in Nat, a <= b
  PROVE  a * c <= b * c
<1> DEFINE d == b - a
<1>1. d \in Nat /\ b = a + d  OBVIOUS
<1>2. d * c \in Nat  BY <1>1
<1>3. (a + d) * c = a * c + d * c  BY <1>1
<1> QED BY <1>1, <1>2, <1>3

\* A sector is a number of its own, below the number of sectors.
Index(p) == p[1] * SECTORS + (p[2] - 1)

LEMMA IndexBounds ==
  ASSUME NEW p \in Position
  PROVE  /\ Index(p) \in Nat /\ Index(p) + 1 <= TRACKS * SECTORS
         /\ p[1] \in Nat /\ p[2] \in Nat /\ p[2] >= 1 /\ p[2] <= SECTORS
<1>1. /\ TRACKS \in Nat /\ SECTORS \in Nat
      /\ p[1] \in 0 .. TRACKS - 1 /\ p[2] \in 1 .. SECTORS
  BY GeometryAssumption DEF Position
<1>2. p[1] \in Nat /\ p[1] + 1 \in Nat /\ p[1] + 1 <= TRACKS  BY <1>1
<1>3. (p[1] + 1) * SECTORS <= TRACKS * SECTORS  BY <1>1, <1>2, TimesMonotone
<1>4. (p[1] + 1) * SECTORS = p[1] * SECTORS + SECTORS /\ p[1] * SECTORS \in Nat  BY <1>1, <1>2
<1>5. TRACKS * SECTORS \in Nat  BY <1>1
<1> DEFINE a == p[1] * SECTORS
<1> HIDE DEF a
<1>6. a \in Nat /\ a + SECTORS <= TRACKS * SECTORS /\ Index(p) = a + (p[2] - 1)
  BY <1>3, <1>4 DEF a, Index
<1> QED BY <1>1, <1>2, <1>5, <1>6

LEMMA IndexInjective ==
  ASSUME NEW p \in Position, NEW q \in Position, Index(p) = Index(q)
  PROVE  p = q
<1>1. /\ p = <<p[1], p[2]>> /\ q = <<q[1], q[2]>> /\ SECTORS \in Nat
  BY GeometryAssumption DEF Position
<1>2. ASSUME NEW r \in Position, NEW s \in Position, r[1] < s[1]
      PROVE  Index(r) < Index(s)
  <2>1. /\ r[1] \in Nat /\ s[1] \in Nat /\ r[2] \in Nat /\ s[2] \in Nat
        /\ r[2] <= SECTORS /\ s[2] >= 1
    BY IndexBounds
  <2>2. r[1] + 1 \in Nat /\ r[1] + 1 <= s[1]  BY <1>2, <2>1
  <2>3. (r[1] + 1) * SECTORS <= s[1] * SECTORS  BY <1>1, <2>1, <2>2, TimesMonotone
  <2>4. (r[1] + 1) * SECTORS = r[1] * SECTORS + SECTORS  BY <1>1, <2>1
  <2> DEFINE a == r[1] * SECTORS
             b == s[1] * SECTORS
  <2>5. a \in Nat /\ b \in Nat  BY <1>1, <2>1
  <2>6. a + SECTORS <= b  BY <2>3, <2>4
  <2>7. Index(r) = a + (r[2] - 1) /\ Index(s) = b + (s[2] - 1)  BY DEF Index
  <2> HIDE DEF a, b
  <2> QED BY <1>1, <2>1, <2>5, <2>6, <2>7
<1>3. p[1] \in Nat /\ q[1] \in Nat /\ p[2] \in Nat /\ q[2] \in Nat /\ Index(p) \in Nat /\ Index(q) \in Nat
  BY IndexBounds
<1>4. ~(p[1] < q[1]) /\ ~(q[1] < p[1])  BY <1>2, <1>3
<1>5. p[1] = q[1]  BY <1>3, <1>4
<1>6. p[2] = q[2]
  <2> DEFINE a == p[1] * SECTORS
  <2>1. a \in Nat  BY <1>1, <1>3
  <2>2. Index(p) = a + (p[2] - 1) /\ Index(q) = a + (q[2] - 1)  BY <1>5 DEF Index
  <2>3. \A x, y, z \in Nat : z + (x - 1) = z + (y - 1) => x = y  OBVIOUS
  <2>4. a + (p[2] - 1) = a + (q[2] - 1)  BY <2>2
  <2> HIDE DEF a
  <2> QED BY <1>3, <2>1, <2>3, <2>4
<1> QED BY <1>1, <1>5, <1>6

\* _get_offset: within the image, and sectors do not overlap.
LEMMA OffsetBounds ==
  ASSUME NEW p \in Position
  PROVE  Offset(p) \in Nat /\ Offset(p) + SECTOR_SIZE <= IMG_LEN
<1>1. Index(p) \in Nat /\ Index(p) + 1 \in Nat /\ Index(p) + 1 <= TRACKS * SECTORS  BY IndexBounds
<1>2. SECTOR_SIZE \in Nat /\ TRACKS * SECTORS \in Nat  BY GeometryAssumption
<1>3. (Index(p) + 1) * SECTOR_SIZE <= (TRACKS * SECTORS) * SECTOR_SIZE
  BY <1>1, <1>2, TimesMonotone
<1>4. (Index(p) + 1) * SECTOR_SIZE = Index(p) * SECTOR_SIZE + SECTOR_SIZE
  BY <1>1, <1>2
<1>5. Offset(p) = Index(p) * SECTOR_SIZE /\ IMG_LEN = (TRACKS * SECTORS) * SECTOR_SIZE
  BY DEF Offset, Index, IMG_LEN
<1>6. Index(p) * SECTOR_SIZE \in Nat  BY <1>1, <1>2
<1> QED BY <1>3, <1>4, <1>5, <1>6

LEMMA OffsetsDisjoint ==
  ASSUME NEW p \in Position, NEW q \in Position, p # q
  PROVE  Offset(p) + SECTOR_SIZE <= Offset(q) \/ Offset(q) + SECTOR_SIZE <= Offset(p)
<1>0. SECTOR_SIZE \in Nat /\ Index(p) \in Nat /\ Index(q) \in Nat  BY GeometryAssumption, IndexBounds
<1>1. Index(p) # Index(q)  BY IndexInjective
<1>2. ASSUME NEW a \in Nat, NEW b \in Nat, a < b
      PROVE  a * SECTOR_SIZE + SECTOR_SIZE <= b * SECTOR_SIZE
  <2>1. a + 1 \in Nat /\ a + 1 <= b  BY <1>2
  <2>2. (a + 1) * SECTOR_SIZE <= b * SECTOR_SIZE  BY <1>0, <1>2, <2>1, TimesMonotone
  <2>3. (a + 1) * SECTOR_SIZE = a * SECTOR_SIZE + SECTOR_SIZE  BY <1>0
  <2> QED BY <2>2, <2>3
<1>3. Offset(p) = Index(p) * SECTOR_SIZE /\ Offset(q) = Index(q) * SECTOR_SIZE
  BY DEF Offset, Index
<1>4. Index(p) < Index(q) \/ Index(q) < Index(p)  BY <1>0, <1>1
<1> QED BY <1>0, <1>2, <1>3, <1>4

-----------------------------------------------------------------------------
(***************************************************************************)
(* Reading and replacing a sector's bytes.                                 *)
(***************************************************************************)
LEMMA SectorIsSeq ==
  ASSUME NEW d \in Sector
  PROVE  d \in Seq(Bytes) /\ Len(d) = SECTOR_SIZE /\ \A i \in 1 .. SECTOR_SIZE : d[i] \in Bytes
<1>1. SECTOR_SIZE \in Nat  BY GeometryAssumption
<1>2. d \in [1 .. SECTOR_SIZE -> Bytes]  BY DEF Sector
<1>3. d \in Seq(Bytes)  BY <1>1, <1>2, SeqDef
<1>4. Len(d) = SECTOR_SIZE  BY <1>1, <1>2, <1>3, LenProperties
<1> QED BY <1>2, <1>3, <1>4

LEMMA PaddedType ==
  ASSUME NEW f \in Seq(Bytes), NEW off \in Nat
  PROVE  Padded(f, off) \in Sector
<1>1. ASSUME NEW i \in 1 .. SECTOR_SIZE
      PROVE  (IF off + i <= Len(f) THEN f[off + i] ELSE 0) \in Bytes
  <2>1. SECTOR_SIZE \in Nat /\ 0 \in Bytes /\ Len(f) \in Nat
    BY GeometryAssumption, ContentsAssumption, LenProperties
  <2>2. CASE off + i <= Len(f)
    <3>1. off + i \in 1 .. Len(f)  BY <2>1, <2>2
    <3> QED BY <2>2, <3>1, ElementOfSeq
  <2> QED BY <2>1, <2>2
<1> QED BY <1>1 DEF Padded, Sector

\* What Patch does, byte by byte.
LEMMA PatchIs ==
  ASSUME NEW f \in Seq(Bytes), NEW off \in Nat, NEW d \in Seq(Bytes)
  PROVE  LET n == IF Len(f) > off + Len(d) THEN Len(f) ELSE off + Len(d)
         IN  /\ Patch(f, off, d) \in Seq(Bytes) /\ Len(Patch(f, off, d)) = n
             /\ \A i \in 1 .. n : Patch(f, off, d)[i] =
                  IF i > off /\ i <= off + Len(d) THEN d[i - off]
                  ELSE IF i <= Len(f) THEN f[i] ELSE 0
<1> DEFINE end == off + Len(d)
           n == IF Len(f) > end THEN Len(f) ELSE end
           at(i) == IF i > off /\ i <= end THEN d[i - off] ELSE IF i <= Len(f) THEN f[i] ELSE 0
           patch == [i \in 1 .. n |-> at(i)]
<1>1. Len(f) \in Nat /\ Len(d) \in Nat /\ 0 \in Bytes  BY LenProperties, ContentsAssumption
<1>2. end \in Nat /\ n \in Nat  BY <1>1
<1>3. ASSUME NEW i \in 1 .. n PROVE at(i) \in Bytes
  <2>1. CASE i > off /\ i <= end
    <3>1. i - off \in 1 .. Len(d)  BY <1>1, <1>2, <2>1
    <3>2. d[i - off] \in Bytes  BY <3>1, ElementOfSeq
    <3> QED BY <2>1, <3>2
  <2>2. CASE ~(i > off /\ i <= end) /\ i <= Len(f)
    <3>1. i \in 1 .. Len(f)  BY <1>1, <1>2, <2>2
    <3>2. f[i] \in Bytes  BY <3>1, ElementOfSeq
    <3> QED BY <2>2, <3>2
  <2>3. CASE ~(i > off /\ i <= end) /\ ~(i <= Len(f))  BY <1>1, <2>3
  <2> QED BY <2>1, <2>2, <2>3
<1>4. Patch(f, off, d) = patch  BY DEF Patch
<1> HIDE DEF n, at
<1>5. patch \in [1 .. n -> Bytes]  BY <1>3
<1>6. patch \in Seq(Bytes)  BY <1>2, <1>5, SeqDef
<1>7. Len(patch) = n  BY <1>2, <1>5, <1>6, LenProperties
<1>8. \A i \in 1 .. n : patch[i] = at(i)  OBVIOUS
<1> HIDE DEF patch
<1> QED BY <1>4, <1>6, <1>7, <1>8 DEF n, at

\* Replacing bytes that are there keeps the length.
LEMMA PatchInside ==
  ASSUME NEW f \in Seq(Bytes), Len(f) = IMG_LEN, NEW p \in Position, NEW s \in Sector
  PROVE  Patch(f, Offset(p), s) \in Seq(Bytes) /\ Len(Patch(f, Offset(p), s)) = IMG_LEN
<1>1. Offset(p) \in Nat /\ Offset(p) + SECTOR_SIZE <= IMG_LEN  BY OffsetBounds
<1>2. s \in Seq(Bytes) /\ Len(s) = SECTOR_SIZE  BY SectorIsSeq
<1>3. IMG_LEN \in Nat /\ SECTOR_SIZE \in Nat  BY LenProperties, GeometryAssumption
<1> QED BY <1>1, <1>2, <1>3, PatchIs

\* A sector put back where it was read.
LEMMA PatchPadded ==
  ASSUME NEW f \in Seq(Bytes), Len(f) = IMG_LEN, NEW p \in Position
  PROVE  Patch(f, Offset(p), Padded(f, Offset(p))) = f
<1> DEFINE off == Offset(p)
           s == Padded(f, off)
           g == Patch(f, off, s)
<1>1. off \in Nat /\ off + SECTOR_SIZE <= IMG_LEN  BY OffsetBounds
<1>2. s \in Sector /\ s \in Seq(Bytes) /\ Len(s) = SECTOR_SIZE  BY <1>1, PaddedType, SectorIsSeq
<1>3. \A j \in 1 .. SECTOR_SIZE : s[j] = IF off + j <= Len(f) THEN f[off + j] ELSE 0  BY DEF Padded
<1>4. IMG_LEN \in Nat /\ SECTOR_SIZE \in Nat  BY LenProperties, GeometryAssumption
<1> HIDE DEF off, s
<1>5. g \in Seq(Bytes) /\ Len(g) = IMG_LEN
      /\ \A i \in 1 .. IMG_LEN : g[i] = IF i > off /\ i <= off + SECTOR_SIZE THEN s[i - off] ELSE f[i]
  <2> DEFINE n == IF Len(f) > off + Len(s) THEN Len(f) ELSE off + Len(s)
  <2>1. n = IMG_LEN  BY <1>1, <1>2, <1>4
  <2>2. /\ g \in Seq(Bytes) /\ Len(g) = n
        /\ \A i \in 1 .. n : g[i] = IF i > off /\ i <= off + Len(s) THEN s[i - off]
                                    ELSE IF i <= Len(f) THEN f[i] ELSE 0
    BY <1>1, <1>2, PatchIs
  <2> HIDE DEF n
  <2>3. \A i \in 1 .. IMG_LEN : i <= Len(f)  BY <1>4
  <2> QED BY <1>2, <2>1, <2>2, <2>3
<1> HIDE DEF g
<1>6. ASSUME NEW i \in 1 .. IMG_LEN PROVE g[i] = f[i]
  <2>1. CASE i > off /\ i <= off + SECTOR_SIZE
    <3>1. i - off \in 1 .. SECTOR_SIZE /\ off + (i - off) = i /\ i <= Len(f)  BY <1>1, <1>4, <2>1
    <3>2. s[i - off] = f[i]  BY <1>3, <3>1
    <3> QED BY <1>5, <2>1, <3>2
  <2>2. CASE ~(i > off /\ i <= off + SECTOR_SIZE)  BY <1>5, <2>2
  <2> QED BY <2>1, <2>2
<1> QED BY <1>5, <1>6, SeqEqual DEF g, s, off

\* The whole image written to an empty file.
LEMMA PatchEmpty ==
  ASSUME NEW f \in Seq(Bytes), Len(f) = 0, NEW d \in Seq(Bytes)
  PROVE  Patch(f, 0, d) = d
<1> DEFINE g == Patch(f, 0, d)
<1>1. Len(d) \in Nat /\ 0 \in Nat  BY LenProperties
<1>2. (IF Len(f) > 0 + Len(d) THEN Len(f) ELSE 0 + Len(d)) = Len(d)  BY <1>1
<1> DEFINE n == IF Len(f) > 0 + Len(d) THEN Len(f) ELSE 0 + Len(d)
<1>3. /\ g \in Seq(Bytes) /\ Len(g) = n
      /\ \A i \in 1 .. n : g[i] = IF i > 0 /\ i <= 0 + Len(d) THEN d[i - 0]
                                  ELSE IF i <= Len(f) THEN f[i] ELSE 0
  BY <1>1, PatchIs
<1>4. n = Len(d)  BY <1>2
<1> HIDE DEF n
<1>5. \A i \in 1 .. Len(d) : g[i] = d[i]
  <2>1. \A i \in 1 .. Len(d) : i > 0 /\ i <= 0 + Len(d) /\ i - 0 = i  BY <1>1
  <2> QED BY <1>3, <1>4, <2>1
<1> HIDE DEF g
<1> QED BY <1>3, <1>4, <1>5, SeqEqual DEF g

\* What is read back: the sector itself, or another unchanged.
LEMMA ReadBack ==
  ASSUME NEW f \in Seq(Bytes), NEW p \in Position, NEW q \in Position, NEW s \in Sector
  PROVE  Padded(Patch(f, Offset(p), s), Offset(q)) = IF p = q THEN s ELSE Padded(f, Offset(q))
<1> DEFINE off == Offset(p)
           at == Offset(q)
           g == Patch(f, off, s)
           n == IF Len(f) > off + SECTOR_SIZE THEN Len(f) ELSE off + SECTOR_SIZE
<1>1. off \in Nat /\ at \in Nat /\ SECTOR_SIZE \in Nat /\ Len(f) \in Nat
  BY OffsetBounds, GeometryAssumption, LenProperties
<1>2. s \in Seq(Bytes) /\ Len(s) = SECTOR_SIZE  BY SectorIsSeq
<1>3. p # q => off + SECTOR_SIZE <= at \/ at + SECTOR_SIZE <= off  BY OffsetsDisjoint
<1>4. s = [j \in 1 .. SECTOR_SIZE |-> s[j]]  BY DEF Sector
<1>5. p = q => at = off  OBVIOUS
<1> HIDE DEF off, at
<1>6. Len(g) = n /\ \A i \in 1 .. n : g[i] = IF i > off /\ i <= off + SECTOR_SIZE THEN s[i - off]
                                            ELSE IF i <= Len(f) THEN f[i] ELSE 0
  BY <1>1, <1>2, PatchIs
<1> HIDE DEF g
<1>7. ASSUME NEW j \in 1 .. SECTOR_SIZE
      PROVE  (IF at + j <= n THEN g[at + j] ELSE 0)
               = IF p = q THEN s[j] ELSE IF at + j <= Len(f) THEN f[at + j] ELSE 0
  <2>0. at + j \in Nat /\ at + j >= 1 /\ n \in Nat /\ Len(f) <= n /\ off + SECTOR_SIZE <= n  BY <1>1
  <2>1. CASE p = q
    <3>1. at + j \in 1 .. n /\ at + j > off /\ at + j <= off + SECTOR_SIZE /\ (at + j) - off = j
      BY <1>1, <1>5, <2>0, <2>1
    <3> HIDE DEF n
    <3>2. g[at + j] = s[j]  BY <1>6, <3>1
    <3> QED BY <2>1, <3>1, <3>2
  <2>2. CASE p # q
    <3>1. ~(at + j > off /\ at + j <= off + SECTOR_SIZE)  BY <1>1, <1>3, <2>2
    <3>2. at + j <= n => at + j \in 1 .. n  BY <2>0
    <3>3. at + j <= Len(f) => at + j <= n  BY <1>1, <2>0
    <3> HIDE DEF n
    <3>4. at + j <= n => g[at + j] = IF at + j <= Len(f) THEN f[at + j] ELSE 0
      BY <1>6, <3>1, <3>2
    <3> QED BY <2>2, <3>3, <3>4
  <2> QED BY <2>1, <2>2
<1>8. Padded(g, at) = [j \in 1 .. SECTOR_SIZE |-> IF at + j <= n THEN g[at + j] ELSE 0]
  BY <1>6 DEF Padded
<1>9. Padded(f, at) = [j \in 1 .. SECTOR_SIZE |-> IF at + j <= Len(f) THEN f[at + j] ELSE 0]
  BY DEF Padded
<1> HIDE DEF n
<1>10. CASE p = q  BY <1>4, <1>7, <1>8, <1>10 DEF g, off, at
<1>11. CASE p # q  BY <1>7, <1>8, <1>9, <1>11 DEF g, off, at
<1> QED BY <1>10, <1>11

-----------------------------------------------------------------------------
(***************************************************************************)
(* The inductive invariant.                                                *)
(***************************************************************************)
\* While only the emulator has touched the file: the open file is the one under the
\* name, and the cache differs from it by no more than the write under way.
CacheInv ==
  ~touched =>
    /\ fd # NoFile => fd = path
    /\ pc \in {"idle", "read"} /\ Exists => barr = File
    /\ pc = "write" => Len(File) = IMG_LEN /\ barr = Patch(File, Offset(op.pos), op.data)
    /\ pc = "dump" => ~Exists
    /\ pc = "dumpwrite" => Len(File) = 0

IInv == TypeOK /\ DOMAIN inode = Inodes /\ CacheInv

LEMMA FreshIsThere ==
  FreshInode \in Inodes /\ FreshInode \notin {path, fd, copying} /\ FreshInode # NoFile
<1>1. \E n \in Inodes : n \notin {path, fd, copying}
  <2> SUFFICES ASSUME Inodes \subseteq {path, fd, copying} PROVE FALSE
    OBVIOUS
  <2> DEFINE one == {path}
             two == one \cup {fd}
             three == two \cup {copying}
  <2>1. IsFiniteSet(one) /\ Cardinality(one) = 1  BY FS_Singleton
  <2>2. IsFiniteSet(two) /\ Cardinality(two) <= 2  BY <2>1, FS_AddElement
  <2>3. Cardinality(two) \in Nat  BY <2>2, FS_CardinalityType
  <2> HIDE DEF one, two
  <2>4. IsFiniteSet(three) /\ Cardinality(three) <= 3 /\ Cardinality(three) \in Nat
    <3>1. IsFiniteSet(three) /\ (Cardinality(three) = Cardinality(two) \/ Cardinality(three) = Cardinality(two) + 1)
      BY <2>2, FS_AddElement
    <3> QED BY <2>2, <2>3, <3>1
  <2>5. Inodes \in SUBSET three  BY DEF one, two
  <2> HIDE DEF three
  <2>6. Cardinality(Inodes) <= Cardinality(three) /\ IsFiniteSet(Inodes)  BY <2>4, <2>5, FS_Subset
  <2>7. Cardinality(Inodes) \in Nat  BY <2>6, FS_CardinalityType
  <2> QED BY <2>4, <2>6, <2>7, HostAssumption
<1> QED BY <1>1, HostAssumption DEF FreshInode, NoFile

LEMMA Inside ==
  ASSUME TypeOK
  PROVE  /\ Exists => path \in Inodes /\ File \in Seq(Bytes)
         /\ Offset(op.pos) \in Nat /\ Offset(op.pos) + SECTOR_SIZE <= IMG_LEN
         /\ IMG_LEN \in Nat /\ NoFile \notin Inodes
         /\ \A p \in Position : Padded(barr, Offset(p)) \in Sector
BY OffsetBounds, PaddedType, LenProperties, HostAssumption DEF TypeOK, Exists, File, NoFile

LEMMA BlankTypes ==
  /\ Blank \in Sector /\ NoOp.pos \in Position /\ NoOp.data \in Sector
  /\ [i \in 1 .. IMG_LEN |-> 0] \in Seq(Bytes) /\ Len([i \in 1 .. IMG_LEN |-> 0]) = IMG_LEN
  /\ <<>> \in Seq(Bytes) /\ Len(<<>>) = 0
<1>1. TRACKS \in Nat \ {0} /\ SECTORS \in Nat \ {0} /\ SECTOR_SIZE \in Nat \ {0} /\ 0 \in Bytes
  BY GeometryAssumption, ContentsAssumption
<1>2. Blank \in Sector  BY <1>1 DEF Blank, Sector
<1>3. NoOp.pos \in Position /\ NoOp.data \in Sector  BY <1>1, <1>2 DEF NoOp, Position
<1>4. <<0, 1>> \in Position  BY <1>3 DEF NoOp
<1>5. IMG_LEN \in Nat  BY <1>1 DEF IMG_LEN
<1> DEFINE zeros == [i \in 1 .. IMG_LEN |-> 0]
<1>6. zeros \in [1 .. IMG_LEN -> Bytes]  BY <1>1
<1> HIDE DEF zeros
<1>7. zeros \in Seq(Bytes) /\ Len(zeros) = IMG_LEN  BY <1>5, <1>6, SeqDef, LenProperties
<1> QED BY <1>2, <1>3, <1>7, EmptySeq DEF zeros

LEMMA InitInv == Init => IInv
<1> SUFFICES ASSUME Init PROVE IInv
  OBVIOUS
<1>1. TypeOK
  <2>1. hostOps \in 0 .. MaxHostOps  BY HostAssumption DEF Init
  <2>2. \A n \in Inodes : inode[n] \in Seq(Bytes)  BY BlankTypes DEF Init
  <2>3. barr \in Seq(Bytes) /\ Len(barr) = IMG_LEN  BY BlankTypes DEF Init
  <2>4. op.pos \in Position /\ op.data \in Sector /\ result \in Sector /\ old \in Sector
    BY BlankTypes DEF Init
  <2>5. path = NoFile /\ copying = NoFile /\ fd = NoFile /\ pc = "idle" /\ touched = FALSE  BY DEF Init
  <2> QED BY <2>1, <2>2, <2>3, <2>4, <2>5 DEF TypeOK, PCs
<1>2. DOMAIN inode = Inodes /\ CacheInv  BY DEF Init, CacheInv, Exists
<1> QED BY <1>1, <1>2 DEF IInv

\* Reading: the cache takes what the file has.
LEMMA ReadOpenInv ==
  ASSUME IInv, NEW p \in Position, ReadOpen(p)
  PROVE  IInv'
<1>1. UNCHANGED <<path, inode, barr, copying, hostOps, old, touched>> /\ pc = "idle" /\ TypeOK
  BY DEF ReadOpen, IInv
<1>2. CASE Exists /\ fd' = path /\ pc' = "read" /\ op' = [pos |-> p, data |-> Blank] /\ UNCHANGED result
  <2>1. op'.pos = p /\ op'.data = Blank  BY <1>2
  <2>2. TypeOK'  BY <1>1, <1>2, <2>1, BlankTypes DEF TypeOK, PCs, Exists
  <2>3. CacheInv'  BY <1>1, <1>2 DEF IInv, CacheInv, Exists, File
  <2> QED BY <1>1, <2>2, <2>3 DEF IInv
<1>3. CASE ~Exists /\ result' = Padded(barr, Offset(p)) /\ UNCHANGED <<fd, pc, op>>
  <2>1. result' \in Sector  BY <1>1, <1>3, Inside
  <2>2. TypeOK'  BY <1>1, <1>3, <2>1 DEF TypeOK
  <2>3. CacheInv'  BY <1>1, <1>3 DEF IInv, CacheInv, Exists, File
  <2> QED BY <1>1, <2>2, <2>3 DEF IInv
<1> QED BY <1>2, <1>3 DEF ReadOpen

LEMMA ReadFileInv == IInv /\ ReadFile => IInv'
<1> SUFFICES ASSUME IInv, ReadFile PROVE IInv'
  OBVIOUS
<1> DEFINE data == Padded(inode[fd], Offset(op.pos))
<1>1. /\ pc = "read" /\ barr' = Patch(barr, Offset(op.pos), data) /\ result' = data
      /\ fd' = NoFile /\ pc' = "idle" /\ op' = NoOp
      /\ UNCHANGED <<path, inode, copying, hostOps, old, touched>> /\ TypeOK
  BY DEF ReadFile, IInv
<1>2. fd \in Inodes /\ inode[fd] \in Seq(Bytes)  BY <1>1 DEF TypeOK
<1>3. data \in Sector  BY <1>1, <1>2, Inside, PaddedType
<1>4. barr' \in Seq(Bytes) /\ Len(barr') = IMG_LEN
  <2> HIDE DEF data
  <2> QED BY <1>1, <1>3, PatchInside DEF TypeOK
<1>5. TypeOK'  BY <1>1, <1>3, <1>4, BlankTypes DEF TypeOK, PCs
<1>6. CacheInv'
  <2> SUFFICES ASSUME ~touched PROVE Exists => barr' = File
    BY <1>1 DEF CacheInv, Exists, File
  <2>1. fd = path /\ barr = inode[fd]
    BY <1>1, <1>2, HostAssumption DEF IInv, CacheInv, TypeOK, Exists, File, NoFile
  <2>2. Patch(barr, Offset(op.pos), Padded(barr, Offset(op.pos))) = barr
    BY <1>1, PatchPadded DEF TypeOK
  <2> QED BY <1>1, <2>1, <2>2 DEF File
<1> QED BY <1>1, <1>5, <1>6 DEF IInv

\* Writing: the cache is ahead of the file until the file has the sector.
LEMMA WriteOpenInv ==
  ASSUME IInv, NEW p \in Position, NEW s \in WriteValues, WriteOpen(p, s)
  PROVE  IInv'
<1>1. /\ pc = "idle" /\ barr' = Patch(barr, Offset(p), s) /\ old' = Padded(barr, Offset(p))
      /\ op' = [pos |-> p, data |-> s]
      /\ \/ Exists /\ pc' = "write" /\ fd' = path
         \/ ~Exists /\ pc' = "dump" /\ UNCHANGED fd
      /\ UNCHANGED <<path, inode, result, copying, hostOps, touched>> /\ TypeOK
  BY DEF WriteOpen, IInv
<1>2. s \in Sector /\ op'.pos = p /\ op'.data = s  BY <1>1, ContentsAssumption
<1>3. barr' \in Seq(Bytes) /\ Len(barr') = IMG_LEN  BY <1>1, <1>2, PatchInside DEF TypeOK
<1>4. old' \in Sector  BY <1>1, Inside
<1>5. TypeOK'  BY <1>1, <1>2, <1>3, <1>4 DEF TypeOK, PCs, Exists
<1>6. CacheInv'
  <2> SUFFICES ASSUME ~touched PROVE CacheInv'
    BY <1>1 DEF CacheInv
  <2>1. Exists => barr = File /\ Len(File) = IMG_LEN  BY <1>1 DEF IInv, CacheInv, TypeOK
  <2> QED BY <1>1, <1>2, <2>1 DEF CacheInv, Exists, File, IInv, TypeOK
<1> QED BY <1>1, <1>5, <1>6 DEF IInv

LEMMA WriteFileInv == IInv /\ WriteFile => IInv'
<1> SUFFICES ASSUME IInv, WriteFile PROVE IInv'
  OBVIOUS
<1> DEFINE new == Patch(inode[fd], Offset(op.pos), op.data)
<1>1. /\ pc = "write" /\ inode' = [inode EXCEPT ![fd] = new]
      /\ fd' = NoFile /\ pc' = "idle" /\ op' = NoOp
      /\ UNCHANGED <<path, barr, result, copying, hostOps, old, touched>> /\ TypeOK
      /\ DOMAIN inode = Inodes
  BY DEF WriteFile, IInv
<1>2. fd \in Inodes /\ inode[fd] \in Seq(Bytes) /\ fd # NoFile
  BY <1>1 DEF TypeOK
<1>3. new \in Seq(Bytes)
  <2>1. op.data \in Seq(Bytes) /\ Offset(op.pos) \in Nat  BY <1>1, SectorIsSeq, Inside DEF TypeOK
  <2> QED BY <1>2, <2>1, PatchIs
<1> HIDE DEF new
<1>4. /\ DOMAIN inode' = Inodes /\ inode'[fd] = new
      /\ \A n \in Inodes : inode'[n] \in Seq(Bytes)
  BY <1>1, <1>2, <1>3 DEF TypeOK
<1>5. TypeOK'  BY <1>1, <1>4, BlankTypes DEF TypeOK, PCs
<1>6. CacheInv'
  <2> SUFFICES ASSUME ~touched PROVE barr' = inode'[path]
    BY <1>1 DEF CacheInv, Exists, File
  <2>1. fd = path /\ barr = new  BY <1>1, <1>2 DEF IInv, CacheInv, File, new
  <2> QED BY <1>1, <1>4, <2>1
<1> QED BY <1>4, <1>5, <1>6 DEF IInv

\* A missing file is created, and takes the cache whole.
LEMMA DumpInv == IInv /\ (DumpOpen \/ DumpWrite) => IInv'
<1> SUFFICES ASSUME IInv, DumpOpen \/ DumpWrite PROVE IInv'
  OBVIOUS
<1>0. TypeOK /\ DOMAIN inode = Inodes /\ NoFile \notin Inodes  BY Inside DEF IInv
<1>1. CASE DumpOpen
  <2> DEFINE n == IF Exists THEN path ELSE FreshInode
  <2>1. /\ pc = "dump" /\ pc' = "dumpwrite" /\ path' = n /\ fd' = n
        /\ inode' = [inode EXCEPT ![n] = <<>>]
        /\ UNCHANGED <<barr, op, result, copying, hostOps, old, touched>>
    BY <1>1 DEF DumpOpen
  <2>2. n \in Inodes  BY <1>0, Inside, FreshIsThere
  <2> HIDE DEF n
  <2>3. /\ DOMAIN inode' = Inodes /\ Len(inode'[n]) = 0
        /\ \A m \in Inodes : inode'[m] \in Seq(Bytes)
    BY <1>0, <2>1, <2>2, BlankTypes DEF TypeOK
  <2>4. TypeOK'  BY <1>0, <2>1, <2>2, <2>3 DEF TypeOK, PCs
  <2>5. CacheInv'  BY <2>1, <2>3 DEF CacheInv, File
  <2> QED BY <2>3, <2>4, <2>5 DEF IInv
<1>2. CASE DumpWrite
  <2> DEFINE new == Patch(inode[fd], 0, barr)
  <2>1. /\ pc = "dumpwrite" /\ inode' = [inode EXCEPT ![fd] = new]
        /\ fd' = NoFile /\ pc' = "idle" /\ op' = NoOp
        /\ UNCHANGED <<path, barr, result, copying, hostOps, old, touched>>
    BY <1>2 DEF DumpWrite
  <2>2. fd \in Inodes /\ inode[fd] \in Seq(Bytes) /\ fd # NoFile
    BY <1>0, <2>1 DEF TypeOK
  <2>3. new \in Seq(Bytes)  BY <1>0, <2>2, PatchIs DEF TypeOK
  <2> HIDE DEF new
  <2>4. /\ DOMAIN inode' = Inodes /\ inode'[fd] = new
        /\ \A n \in Inodes : inode'[n] \in Seq(Bytes)
    BY <1>0, <2>1, <2>2, <2>3 DEF TypeOK
  <2>5. TypeOK'  BY <1>0, <2>1, <2>4, BlankTypes DEF TypeOK, PCs
  <2>6. CacheInv'
    <3> SUFFICES ASSUME ~touched PROVE barr' = inode'[path]
      BY <2>1 DEF CacheInv, Exists, File
    <3>1. fd = path /\ Len(inode[fd]) = 0  BY <2>1, <2>2 DEF IInv, CacheInv, File
    <3>2. new = barr  BY <1>0, <2>2, <3>1, PatchEmpty DEF new, TypeOK
    <3> QED BY <2>1, <2>4, <3>1, <3>2
  <2> QED BY <2>4, <2>5, <2>6 DEF IInv
<1> QED BY <1>1, <1>2

LEMMA DeathInv == IInv /\ (Crash \/ Restart) => IInv'
<1> SUFFICES ASSUME IInv, Crash \/ Restart PROVE IInv'
  OBVIOUS
<1>0. TypeOK  BY DEF IInv
<1>1. CASE Crash
  <2>1. TypeOK'  BY <1>0, <1>1, BlankTypes DEF Crash, TypeOK, PCs
  <2>2. CacheInv' /\ DOMAIN inode' = Inodes  BY <1>1 DEF Crash, CacheInv, IInv
  <2> QED BY <2>1, <2>2 DEF IInv
<1>2. CASE Restart
  <2>1. /\ pc = "down" /\ UNCHANGED <<path, inode, op, fd, result, copying, hostOps, old>>
        /\ \/ /\ Loadable /\ pc' = "idle" /\ touched' = FALSE
              /\ barr' = IF Exists THEN File ELSE barr
           \/ UNCHANGED <<pc, barr, touched>>
    BY <1>2 DEF Restart
  <2>2. barr' \in Seq(Bytes) /\ Len(barr') = IMG_LEN
    BY <1>0, <2>1, Inside DEF TypeOK, Loadable
  <2>3. TypeOK'  BY <1>0, <2>1, <2>2 DEF TypeOK, PCs
  <2>4. CacheInv'
    BY <1>0, <2>1 DEF CacheInv, IInv, TypeOK, Exists, File
  <2> QED BY <2>1, <2>3, <2>4 DEF IInv
<1> QED BY <1>1, <1>2

LEMMA HostInv == IInv /\ Host => IInv'
<1> SUFFICES ASSUME IInv, Host PROVE IInv'
  OBVIOUS
<1>0. TypeOK /\ DOMAIN inode = Inodes /\ NoFile \notin Inodes  BY Inside DEF IInv
<1>1. /\ UNCHANGED emuVars /\ touched' = TRUE
      /\ hostOps' = hostOps \/ (hostOps < MaxHostOps /\ hostOps' = hostOps + 1)
  BY DEF Host, HostCopyBegin, HostCopyEnd, HostReplace, HostRemove, HostActs, HostMayAct
<1>2. /\ path' \in Inodes \cup {NoFile} /\ copying' \in Inodes \cup {NoFile}
      /\ DOMAIN inode' = Inodes /\ \A n \in Inodes : inode'[n] \in Seq(Bytes)
  <2>1. CASE HostCopyBegin
    <3> DEFINE n == IF Exists THEN path ELSE FreshInode
    <3>1. path' = n /\ copying' = n /\ inode' = [inode EXCEPT ![n] = <<>>]
      BY <2>1 DEF HostCopyBegin
    <3>2. n \in Inodes  BY <1>0, Inside, FreshIsThere
    <3> HIDE DEF n
    <3> QED BY <1>0, <3>1, <3>2, BlankTypes DEF TypeOK
  <2>2. ASSUME NEW d \in Diskettes, HostCopyEnd(d) PROVE path' \in Inodes \cup {NoFile} /\ copying' \in Inodes \cup {NoFile}
                      /\ DOMAIN inode' = Inodes /\ \A n \in Inodes : inode'[n] \in Seq(Bytes)
    <3> DEFINE new == Patch(inode[copying], 0, d)
    <3>1. /\ copying # NoFile /\ copying' = NoFile /\ path' = path
          /\ inode' = [inode EXCEPT ![copying] = new]
      BY <2>2 DEF HostCopyEnd
    <3>2. copying \in Inodes /\ inode[copying] \in Seq(Bytes) /\ d \in Seq(Bytes)
      BY <1>0, <3>1, ContentsAssumption DEF TypeOK
    <3>3. new \in Seq(Bytes)  BY <3>2, PatchIs
    <3> HIDE DEF new
    <3> QED BY <1>0, <3>1, <3>2, <3>3 DEF TypeOK
  <2>3. ASSUME NEW d \in Diskettes, HostReplace(d) PROVE path' \in Inodes \cup {NoFile} /\ copying' \in Inodes \cup {NoFile}
                      /\ DOMAIN inode' = Inodes /\ \A n \in Inodes : inode'[n] \in Seq(Bytes)
    <3> DEFINE n == FreshInode
    <3>1. path' = n /\ copying' = copying /\ inode' = [inode EXCEPT ![n] = d]
      BY <2>3 DEF HostReplace
    <3>2. n \in Inodes /\ d \in Seq(Bytes)  BY FreshIsThere, ContentsAssumption
    <3> HIDE DEF n
    <3> QED BY <1>0, <3>1, <3>2 DEF TypeOK
  <2>4. CASE HostRemove  BY <1>0, <2>4 DEF HostRemove, TypeOK
  <2> QED BY <2>1, <2>2, <2>3, <2>4 DEF Host
<1>3. TypeOK'
  <2>1. hostOps' \in 0 .. MaxHostOps  BY <1>0, <1>1, HostAssumption DEF TypeOK
  <2> QED BY <1>0, <1>1, <1>2, <2>1 DEF TypeOK, emuVars
<1>4. CacheInv'  BY <1>1 DEF CacheInv
<1> QED BY <1>2, <1>3, <1>4 DEF IInv

LEMMA NextInv == IInv /\ [Next]_vars => IInv'
<1> SUFFICES ASSUME IInv, [Next]_vars PROVE IInv'
  OBVIOUS
<1>1. CASE UNCHANGED vars
  BY <1>1 DEF vars, IInv, TypeOK, CacheInv, Exists, File
<1> QED BY <1>1, ReadOpenInv, ReadFileInv, WriteOpenInv, WriteFileInv, DumpInv, DeathInv, HostInv
        DEF Next, Emulator

-----------------------------------------------------------------------------
\* The inductive invariant holds of every state of the image and its file.
THEOREM Invariance == Spec => []IInv
<1> QED BY InitInv, NextInv, PTL DEF Spec

\* The type invariant, for any geometry and contents, whether or not the host acts
\* during an operation.
THEOREM TypeCorrect == Spec => []TypeOK
<1>1. IInv => TypeOK  BY DEF IInv
<1> QED BY Invariance, <1>1, PTL

\* As long as only the emulator has touched the file, its cache is the file, after any
\* number of reads, writes, deaths and restarts: read_sector and write_sector keep
\* barr, and a restart loads it.
THEOREM CacheFollows == Spec => []CacheIsFile
<1>1. IInv => CacheIsFile  BY DEF IInv, CacheInv, CacheIsFile
<1> QED BY Invariance, <1>1, PTL

\* An emulator that dies leaves a file that the next one loads, unless it was creating
\* it or the host had touched it.
THEOREM DeathLeavesLoadable == Spec => []DiesLoadable
<1>1. IInv => DiesLoadable
  <2> SUFFICES ASSUME IInv, ~touched, pc \notin {"dumpwrite", "down"}, Exists
               PROVE  Len(File) = IMG_LEN
    BY DEF DiesLoadable, Loadable
  <2> QED BY DEF IInv, CacheInv, TypeOK, PCs
<1> QED BY Invariance, <1>1, PTL

-----------------------------------------------------------------------------
(***************************************************************************)
(* Refinement: with the host at rest during operations, a read takes       *)
(* effect when the answer is known, a write when the file has the sector,  *)
(* and every other step of an operation is a stutter.                      *)
(***************************************************************************)
\* A copy under way has emptied the file under the name, and no operation runs; an
\* operation has that file open; and a file in place can be loaded.
SoloInv ==
  /\ copying # NoFile => path = copying /\ Len(File) = 0 /\ pc \in {"idle", "down"}
  /\ fd # NoFile => fd = path
  /\ pc = "dump" => ~Exists
  /\ pc = "dumpwrite" => Len(File) = 0
  /\ pc \in {"dump", "dumpwrite"} => Padded(barr, Offset(op.pos)) = op.data
  /\ copying = NoFile /\ pc \notin {"dumpwrite", "down"} => Loadable

\* What a read of p would answer between two operations.
Answer(p) == IF Exists THEN Padded(File, Offset(p)) ELSE Padded(barr, Offset(p))

LEMMA MediaIs ==
  pc \notin {"dump", "dumpwrite"} => mediaBar = [p \in Position |-> Answer(p)]
BY DEF mediaBar, Answer

LEMMA MediaIsNext ==
  pc' \notin {"dump", "dumpwrite"} => mediaBar' = [p \in Position |-> Answer(p)']
BY DEF mediaBar, Answer

\* Until a missing file has been created, the sectors are those before the write.
LEMMA MediaInDump ==
  /\ pc \in {"dump", "dumpwrite"} =>
       mediaBar = [p \in Position |-> IF p = op.pos THEN old ELSE Padded(barr, Offset(p))]
  /\ pc' \in {"dump", "dumpwrite"} =>
       mediaBar' = [p \in Position |-> IF p = op'.pos THEN old' ELSE Padded(barr', Offset(p))]
BY DEF mediaBar

\* A step that the store does not see.
LEMMA Unseen ==
  ASSUME mediaBar' = mediaBar, insertedBar' <=> insertedBar, wholeBar' <=> wholeBar,
         pc' # "down" <=> pc # "down", UNCHANGED <<result, hostOps, copying>>
  PROVE  UNCHANGED Store!vars
<1>1. insertedBar' = insertedBar  BY DEF insertedBar
<1>2. wholeBar' = wholeBar  BY DEF wholeBar
<1>3. (pc # "down")' = (pc # "down")  OBVIOUS
<1>4. epochBar' = epochBar  BY DEF epochBar
<1> QED BY <1>1, <1>2, <1>3, <1>4 DEF Store!vars

LEMMA PositiveLength == IMG_LEN \in Nat /\ IMG_LEN # 0
<1>1. TRACKS \in Nat \ {0} /\ SECTORS \in Nat \ {0} /\ SECTOR_SIZE \in Nat \ {0}
  BY GeometryAssumption
<1>2. \A a, b \in Nat \ {0} : a * b \in Nat \ {0}  OBVIOUS
<1>3. TRACKS * SECTORS \in Nat \ {0}  BY <1>1, <1>2
<1> QED BY <1>1, <1>2, <1>3 DEF IMG_LEN

LEMMA ZerosAreBlank ==
  ASSUME NEW f, f = [i \in 1 .. IMG_LEN |-> 0] \/ f = <<>>, NEW p \in Position
  PROVE  Padded(f, Offset(p)) = Blank
<1>1. Offset(p) \in Nat /\ SECTOR_SIZE \in Nat /\ Len(f) \in Nat
  BY OffsetBounds, GeometryAssumption, BlankTypes, LenProperties
<1>2. ASSUME NEW i \in 1 .. SECTOR_SIZE
      PROVE  (IF Offset(p) + i <= Len(f) THEN f[Offset(p) + i] ELSE 0) = 0
  <2>1. CASE f = [j \in 1 .. IMG_LEN |-> 0]
    <3>1. Offset(p) + i \in 1 .. IMG_LEN  BY <1>1, OffsetBounds, PositiveLength
    <3> QED BY <2>1, <3>1
  <2>2. CASE f = <<>>
    <3>1. ~(Offset(p) + i <= Len(f))  BY <1>1, <2>2, BlankTypes
    <3> QED BY <3>1
  <2> QED BY <2>1, <2>2
<1> QED BY <1>2 DEF Padded, Blank

LEMMA EmptyFileIsBlank ==
  ASSUME NEW f \in Seq(Bytes), Len(f) = 0, NEW p \in Position
  PROVE  Padded(f, Offset(p)) = Blank
<1>1. f = <<>>  BY EmptySeq
<1> QED BY <1>1, ZerosAreBlank

LEMMA InitRefines == Init => SoloInv /\ Store!Init
<1> SUFFICES ASSUME Init PROVE SoloInv /\ Store!Init
  OBVIOUS
<1>1. /\ path = NoFile /\ pc = "idle" /\ copying = NoFile /\ hostOps = 0 /\ result = Blank
      /\ fd = NoFile /\ barr = [i \in 1 .. IMG_LEN |-> 0]
  BY DEF Init
<1>2. SoloInv  BY <1>1 DEF SoloInv, Exists, Loadable
<1>3. mediaBar = Store!BlankImage
  <2>1. \A p \in Position : Answer(p) = Blank  BY <1>1, ZerosAreBlank DEF Answer, Exists
  <2> QED BY <1>1, <2>1, MediaIs DEF Store!BlankImage
<1>4. insertedBar = FALSE  BY <1>1 DEF insertedBar, Exists
<1>5. wholeBar = TRUE  BY <1>1 DEF wholeBar, Loadable, Exists
<1>6. (pc # "down") = TRUE  BY <1>1
<1>7. epochBar = 0  BY <1>1 DEF epochBar
<1> QED BY <1>1, <1>2, <1>3, <1>4, <1>5, <1>6, <1>7 DEF Store!Init

\* A read of a missing file answers from the cache at once; one of a file that is
\* there has yet to read it.
LEMMA ReadOpenRefines ==
  ASSUME HostRaces = FALSE, IInv, SoloInv, NEW p \in Position, ReadOpen(p)
  PROVE  SoloInv' /\ [Store!Next]_(Store!vars)
<1>1. /\ UNCHANGED <<path, inode, barr, copying, hostOps, old, touched>>
      /\ pc = "idle" /\ copying = NoFile
  BY DEF ReadOpen, Quiet
<1>2. \A q \in Position : Answer(q)' = Answer(q)  BY <1>1 DEF Answer, Exists, File
<1>3. CASE Exists /\ fd' = path /\ pc' = "read" /\ UNCHANGED result
  <2>1. SoloInv'  BY <1>1, <1>3 DEF SoloInv, Exists, File, Loadable
  <2>2. mediaBar' = mediaBar  BY <1>1, <1>2, <1>3, MediaIs, MediaIsNext
  <2>3. UNCHANGED Store!vars
    BY <1>1, <1>3, <2>2, Unseen DEF insertedBar, wholeBar, Loadable, Exists, File
  <2> QED BY <2>1, <2>3
<1>4. CASE ~Exists /\ result' = Padded(barr, Offset(p)) /\ UNCHANGED <<fd, pc, op>>
  <2>1. SoloInv'  BY <1>1, <1>4 DEF SoloInv, Exists, File, Loadable
  <2>2. mediaBar' = mediaBar  BY <1>1, <1>2, <1>4, MediaIs, MediaIsNext
  <2>3. result' = mediaBar[p]  BY <1>1, <1>4, MediaIs DEF Answer
  <2>4. insertedBar' = insertedBar  BY <1>1, <1>4 DEF insertedBar, Exists
  <2>5. wholeBar' = wholeBar  BY <1>1, <1>4 DEF wholeBar, Loadable, Exists, File
  <2>6. epochBar' = epochBar  BY <1>1 DEF epochBar
  <2>7. Store!Read(p)  BY <1>1, <1>4, <2>2, <2>3, <2>4, <2>5, <2>6 DEF Store!Read
  <2> QED BY <2>1, <2>7 DEF Store!Next
<1> QED BY <1>3, <1>4 DEF ReadOpen

LEMMA ReadFileRefines ==
  ASSUME IInv, SoloInv, ReadFile
  PROVE  SoloInv' /\ [Store!Next]_(Store!vars)
<1>1. /\ pc = "read" /\ result' = Padded(inode[fd], Offset(op.pos))
      /\ fd' = NoFile /\ pc' = "idle"
      /\ UNCHANGED <<path, inode, copying, hostOps>>
  BY DEF ReadFile
<1>2. fd # NoFile /\ fd = path /\ Exists /\ op.pos \in Position
  BY <1>1 DEF IInv, TypeOK, SoloInv, Exists
<1>3. SoloInv'  BY <1>1, <1>2 DEF SoloInv, Exists, File, Loadable
<1>4. \A q \in Position : Answer(q)' = Answer(q)  BY <1>1, <1>2 DEF Answer, Exists, File
<1>5. mediaBar' = mediaBar  BY <1>1, <1>4, MediaIs, MediaIsNext
<1>6. result' = mediaBar[op.pos]  BY <1>1, <1>2, MediaIs DEF Answer, File
<1>7. insertedBar' = insertedBar  BY <1>1 DEF insertedBar, Exists
<1>8. wholeBar' = wholeBar  BY <1>1 DEF wholeBar, Loadable, Exists, File
<1>9. epochBar' = epochBar  BY <1>1 DEF epochBar
<1>10. Store!Read(op.pos)  BY <1>1, <1>5, <1>6, <1>7, <1>8, <1>9 DEF Store!Read
<1> QED BY <1>2, <1>3, <1>10 DEF Store!Next

\* Until the file has it, a write has not happened.
LEMMA WriteOpenRefines ==
  ASSUME HostRaces = FALSE, IInv, SoloInv, NEW p \in Position, NEW s \in WriteValues, WriteOpen(p, s)
  PROVE  SoloInv' /\ [Store!Next]_(Store!vars)
<1>1. /\ pc = "idle" /\ copying = NoFile
      /\ barr' = Patch(barr, Offset(p), s) /\ old' = Padded(barr, Offset(p))
      /\ op' = [pos |-> p, data |-> s]
      /\ \/ Exists /\ pc' = "write" /\ fd' = path
         \/ ~Exists /\ pc' = "dump" /\ UNCHANGED fd
      /\ UNCHANGED <<path, inode, result, copying, hostOps>>
  BY DEF WriteOpen, Quiet
<1>2. s \in Sector /\ op'.pos = p /\ op'.data = s /\ barr \in Seq(Bytes)
  BY <1>1, ContentsAssumption DEF IInv, TypeOK
<1>3. \A q \in Position : Padded(barr', Offset(q)) = IF p = q THEN s ELSE Padded(barr, Offset(q))
  BY <1>1, <1>2, ReadBack
<1>4. SoloInv'
  <2>1. fd' # NoFile => fd' = path'  BY <1>1 DEF SoloInv
  <2>2. Padded(barr', Offset(op'.pos)) = op'.data  BY <1>2, <1>3
  <2> QED BY <1>1, <2>1, <2>2 DEF SoloInv, Exists, File, Loadable
<1>5. mediaBar' = mediaBar
  <2>1. mediaBar = [q \in Position |-> Answer(q)]  BY <1>1, MediaIs
  <2>2. CASE Exists
    <3>1. \A q \in Position : Answer(q)' = Answer(q)  BY <1>1, <2>2 DEF Answer, Exists, File
    <3> QED BY <1>1, <2>1, <2>2, <3>1, MediaIsNext
  <2>3. CASE ~Exists
    <3>1. \A q \in Position : (IF q = op'.pos THEN old' ELSE Padded(barr', Offset(q))) = Answer(q)
      BY <1>1, <1>2, <1>3, <2>3 DEF Answer
    <3>2. mediaBar' = [q \in Position |-> IF q = op'.pos THEN old' ELSE Padded(barr', Offset(q))]
      BY <1>1, <2>3, MediaInDump
    <3> QED BY <2>1, <3>1, <3>2
  <2> QED BY <2>2, <2>3
<1>6. UNCHANGED Store!vars
  BY <1>1, <1>5, Unseen DEF insertedBar, wholeBar, Loadable, Exists, File
<1> QED BY <1>4, <1>6

\* The file has the sector: the write happens, and the length is kept.
LEMMA WriteFileRefines ==
  ASSUME IInv, SoloInv, WriteFile
  PROVE  SoloInv' /\ [Store!Next]_(Store!vars)
<1> DEFINE new == Patch(inode[fd], Offset(op.pos), op.data)
<1>1. /\ pc = "write" /\ inode' = [inode EXCEPT ![fd] = new]
      /\ fd' = NoFile /\ pc' = "idle"
      /\ UNCHANGED <<path, barr, result, copying, hostOps>>
  BY DEF WriteFile
<1>2. /\ fd # NoFile /\ fd = path /\ Exists /\ op.pos \in Position /\ op.data \in Sector
      /\ fd \in Inodes /\ DOMAIN inode = Inodes /\ inode[fd] \in Seq(Bytes) /\ copying = NoFile
  BY <1>1 DEF IInv, TypeOK, SoloInv, Exists
<1>3. Len(inode[fd]) = IMG_LEN  BY <1>1, <1>2 DEF SoloInv, Loadable, File
<1>4. new \in Seq(Bytes) /\ Len(new) = IMG_LEN  BY <1>2, <1>3, PatchInside
<1>5. \A q \in Position : Padded(new, Offset(q)) =
         IF op.pos = q THEN op.data ELSE Padded(inode[fd], Offset(q))
  BY <1>2, ReadBack
<1> HIDE DEF new
<1>6. Exists' /\ File' = new /\ Len(File) = IMG_LEN  BY <1>1, <1>2, <1>3 DEF Exists, File
<1>7. SoloInv'  BY <1>1, <1>2, <1>4, <1>6 DEF SoloInv, Loadable
<1>8. mediaBar' = [mediaBar EXCEPT ![op.pos] = op.data]
  <2>1. \A q \in Position : Answer(q)' = IF op.pos = q THEN op.data ELSE Answer(q)
    BY <1>2, <1>5, <1>6 DEF Answer, File
  <2>2. mediaBar = [q \in Position |-> Answer(q)] /\ mediaBar' = [q \in Position |-> Answer(q)']
    BY <1>1, MediaIs, MediaIsNext
  <2> QED BY <1>2, <2>1, <2>2
<1>9. insertedBar' = TRUE  BY <1>1, <1>6 DEF insertedBar
<1>10. wholeBar' = wholeBar  BY <1>1, <1>4, <1>6 DEF wholeBar, Loadable
<1>11. epochBar' = epochBar  BY <1>1 DEF epochBar
<1>12. Store!Write(op.pos, op.data)
  BY <1>1, <1>8, <1>9, <1>10, <1>11 DEF Store!Write
<1> QED BY <1>2, <1>7, <1>12 DEF Store!Next

LEMMA DumpOpenRefines ==
  ASSUME IInv, SoloInv, DumpOpen
  PROVE  SoloInv' /\ [Store!Next]_(Store!vars)
<1>0. TypeOK /\ DOMAIN inode = Inodes /\ ~Exists /\ copying = NoFile
  BY DEF IInv, DumpOpen, SoloInv
<1>1. /\ pc = "dump" /\ pc' = "dumpwrite" /\ path' = FreshInode /\ fd' = FreshInode
      /\ inode' = [inode EXCEPT ![FreshInode] = <<>>]
      /\ UNCHANGED <<barr, op, result, copying, hostOps, old>>
  BY <1>0 DEF DumpOpen
<1>2. FreshInode \in Inodes  BY FreshIsThere
<1>3. Len(File') = 0  BY <1>0, <1>1, <1>2, BlankTypes DEF File
<1>4. SoloInv'
  <2>1. Padded(barr', Offset(op'.pos)) = op'.data  BY <1>1 DEF SoloInv
  <2> QED BY <1>0, <1>1, <1>3, <2>1 DEF SoloInv, File
<1>5. mediaBar' = mediaBar  BY <1>1, MediaInDump
<1>6. UNCHANGED Store!vars
  BY <1>0, <1>1, <1>5, Unseen DEF insertedBar, wholeBar, Loadable
<1> QED BY <1>4, <1>6

\* The new file has the cache, and with it the sector: the write happens.
LEMMA DumpWriteRefines ==
  ASSUME IInv, SoloInv, DumpWrite
  PROVE  SoloInv' /\ [Store!Next]_(Store!vars)
<1>0. TypeOK /\ DOMAIN inode = Inodes  BY DEF IInv
<1>1. /\ pc = "dumpwrite" /\ inode' = [inode EXCEPT ![fd] = Patch(inode[fd], 0, barr)]
      /\ fd' = NoFile /\ pc' = "idle"
      /\ UNCHANGED <<path, barr, result, copying, hostOps>>
  BY DEF DumpWrite
<1>2. /\ fd # NoFile /\ fd = path /\ Exists /\ op.pos \in Position /\ op.data \in Sector
      /\ fd \in Inodes /\ inode[fd] \in Seq(Bytes) /\ Len(inode[fd]) = 0 /\ copying = NoFile
      /\ barr \in Seq(Bytes) /\ Len(barr) = IMG_LEN
      /\ Padded(barr, Offset(op.pos)) = op.data
  BY <1>0, <1>1 DEF TypeOK, SoloInv, Exists, File
<1>3. Patch(inode[fd], 0, barr) = barr  BY <1>2, PatchEmpty
<1>4. Exists' /\ File' = barr  BY <1>0, <1>1, <1>2, <1>3 DEF Exists, File
<1>5. SoloInv'  BY <1>1, <1>2, <1>4 DEF SoloInv, Loadable
<1>6. mediaBar' = [mediaBar EXCEPT ![op.pos] = op.data]
  <2>1. \A q \in Position : Answer(q)' = Padded(barr, Offset(q))  BY <1>4 DEF Answer, File
  <2>2. /\ mediaBar = [q \in Position |-> IF q = op.pos THEN old ELSE Padded(barr, Offset(q))]
        /\ mediaBar' = [q \in Position |-> Answer(q)']
    BY <1>1, MediaInDump, MediaIsNext
  <2> QED BY <1>2, <2>1, <2>2
<1>7. insertedBar' = TRUE  BY <1>1, <1>4 DEF insertedBar
<1>8. wholeBar' = wholeBar  BY <1>1, <1>2, <1>4 DEF wholeBar, Loadable
<1>9. epochBar' = epochBar  BY <1>1 DEF epochBar
<1>10. Store!Write(op.pos, op.data)
  BY <1>1, <1>6, <1>7, <1>8, <1>9 DEF Store!Write
<1> QED BY <1>2, <1>5, <1>10 DEF Store!Next

\* A death loses nothing that was in a file, and all that was not.
LEMMA CrashRefines ==
  ASSUME IInv, SoloInv, Crash
  PROVE  SoloInv' /\ [Store!Next]_(Store!vars)
<1>0. TypeOK  BY DEF IInv
<1>1. /\ pc # "down" /\ pc' = "down" /\ fd' = NoFile
      /\ barr' = [i \in 1 .. IMG_LEN |-> 0]
      /\ UNCHANGED <<path, inode, result, copying, hostOps>>
  BY DEF Crash
<1>2. SoloInv'  BY <1>1 DEF SoloInv, File
<1>3. epochBar' = epochBar  BY <1>1 DEF epochBar
<1>4. mediaBar' = [p \in Position |-> Answer(p)']  BY <1>1, MediaIsNext
<1>5. CASE insertedBar
  <2>1. Exists /\ pc # "dumpwrite" /\ pc # "dump"  BY <1>5 DEF insertedBar, SoloInv
  <2>2. \A p \in Position : Answer(p)' = Answer(p)  BY <1>1, <2>1 DEF Answer, Exists, File
  <2>3. mediaBar' = mediaBar  BY <1>4, <2>1, <2>2, MediaIs
  <2>4. insertedBar' = insertedBar  BY <1>1, <2>1 DEF insertedBar, Exists
  <2>5. wholeBar' = wholeBar  BY <1>1, <2>1 DEF wholeBar, Loadable, Exists, File
  <2>6. Store!Crash  BY <1>1, <1>3, <1>5, <2>3, <2>4, <2>5 DEF Store!Crash
  <2> QED BY <1>2, <2>6 DEF Store!Next
<1>6. CASE ~insertedBar
  <2>1. ~Exists \/ pc = "dumpwrite"  BY <1>6 DEF insertedBar
  <2>2. mediaBar' = Store!BlankImage
    <3>1. \A p \in Position : Answer(p)' = Blank
      <4>1. CASE ~Exists
        BY <1>1, <4>1, ZerosAreBlank DEF Answer, Exists
      <4>2. CASE Exists
        <5>1. Len(File) = 0 /\ File \in Seq(Bytes)  BY <1>0, <2>1, <4>2, Inside DEF SoloInv
        <5>2. File' = File /\ Exists'  BY <1>1, <4>2 DEF File, Exists
        <5> QED BY <5>1, <5>2, EmptyFileIsBlank DEF Answer
      <4> QED BY <4>1, <4>2
    <3> QED BY <1>4, <3>1 DEF Store!BlankImage
  <2>3. CASE ~Exists
    <3>1. insertedBar' = insertedBar  BY <1>1, <1>6, <2>3 DEF insertedBar, Exists
    <3>2. wholeBar' = wholeBar  BY <1>1, <2>3 DEF wholeBar, Loadable, Exists
    <3>3. Store!Crash  BY <1>1, <1>3, <1>6, <2>2, <3>1, <3>2 DEF Store!Crash
    <3> QED BY <1>2, <3>3 DEF Store!Next
  <2>4. CASE Exists
    <3>1. Len(File) = 0 /\ IMG_LEN # 0  BY <2>1, <2>4, PositiveLength DEF SoloInv
    <3>2. insertedBar' = TRUE  BY <1>1, <2>4 DEF insertedBar, Exists
    <3>3. wholeBar' = FALSE  BY <1>1, <2>4, <3>1 DEF wholeBar, Loadable, Exists, File
    <3>4. Store!Crash  BY <1>1, <1>3, <1>6, <2>2, <3>2, <3>3 DEF Store!Crash
    <3> QED BY <1>2, <3>4 DEF Store!Next
  <2> QED BY <2>3, <2>4
<1> QED BY <1>5, <1>6

\* Only what can be loaded is started with.
LEMMA RestartRefines ==
  ASSUME IInv, SoloInv, Restart
  PROVE  SoloInv' /\ [Store!Next]_(Store!vars)
<1>1. /\ pc = "down" /\ UNCHANGED <<path, inode, op, fd, result, copying, hostOps, old>>
      /\ \/ /\ Loadable /\ pc' = "idle"
            /\ barr' = IF Exists THEN File ELSE barr
         \/ UNCHANGED <<pc, barr>>
  BY DEF Restart
<1>2. (Loadable' <=> Loadable) /\ (Exists' <=> Exists) /\ File' = File
  BY <1>1 DEF Loadable, Exists, File
<1>3. SoloInv'  BY <1>1, <1>2 DEF SoloInv
<1>4. pc' \in {"down", "idle"} /\ (Exists => \A q \in Position : Padded(File', Offset(q)) = Padded(File, Offset(q)))
      /\ (~Exists => barr' = barr)
  BY <1>1, <1>2
<1>5. \A q \in Position : Answer(q)' = Answer(q)  BY <1>2, <1>4 DEF Answer
<1>6. mediaBar' = mediaBar  BY <1>1, <1>4, <1>5, MediaIs, MediaIsNext
<1>7. (insertedBar' <=> insertedBar) /\ (wholeBar' <=> wholeBar)
  BY <1>1, <1>2, <1>4 DEF insertedBar, wholeBar
<1>8. CASE pc' = "down"  BY <1>1, <1>3, <1>6, <1>7, <1>8, Unseen
<1>9. CASE pc' = "idle"
  <2>1. wholeBar  BY <1>1, <1>9 DEF wholeBar
  <2>2. insertedBar' = insertedBar  BY <1>7 DEF insertedBar
  <2>3. wholeBar' = wholeBar  BY <1>7 DEF wholeBar
  <2>4. epochBar' = epochBar  BY <1>1 DEF epochBar
  <2>5. Store!Restart  BY <1>1, <1>6, <1>9, <2>1, <2>2, <2>3, <2>4 DEF Store!Restart
  <2> QED BY <1>3, <2>5 DEF Store!Next
<1> QED BY <1>4, <1>8, <1>9

\* Whatever the host does between two operations, the store's host may do.
LEMMA HostRefines ==
  ASSUME HostRaces = FALSE, IInv, SoloInv, Host
  PROVE  SoloInv' /\ [Store!Next]_(Store!vars)
<1>0. TypeOK /\ DOMAIN inode = Inodes /\ NoFile \notin Inodes /\ TypeOK'
  BY HostInv, Inside DEF IInv
<1>1. pc \in {"idle", "down"} /\ UNCHANGED emuVars /\ fd = NoFile
  <2>1. pc \in {"idle", "down"} /\ UNCHANGED emuVars
    BY DEF Host, HostCopyBegin, HostCopyEnd, HostReplace, HostRemove, HostActs, HostMayAct
  <2> QED BY <1>0, <2>1 DEF TypeOK
<1>2. SoloInv' /\ epochBar' > epochBar
  <2>1. hostOps \in Nat  BY <1>0 DEF TypeOK
  <2>2. CASE HostCopyBegin
    <3> DEFINE n == IF Exists THEN path ELSE FreshInode
    <3>1. /\ path' = n /\ copying' = n /\ inode' = [inode EXCEPT ![n] = <<>>]
          /\ copying = NoFile /\ hostOps' = hostOps + 1
      BY <2>2 DEF HostCopyBegin, HostActs
    <3>2. n \in Inodes /\ n # NoFile  BY <1>0, Inside, FreshIsThere
    <3> HIDE DEF n
    <3>3. Len(File') = 0  BY <1>0, <3>1, <3>2, BlankTypes DEF File
    <3>4. SoloInv'  BY <1>1, <3>1, <3>2, <3>3 DEF SoloInv, emuVars, File
    <3>5. epochBar' > epochBar  BY <2>1, <3>1, <3>2 DEF epochBar
    <3> QED BY <3>4, <3>5
  <2>3. ASSUME NEW d \in Diskettes, HostCopyEnd(d) PROVE SoloInv' /\ epochBar' > epochBar
    <3>1. /\ copying # NoFile /\ copying' = NoFile /\ path' = path /\ hostOps' = hostOps
          /\ inode' = [inode EXCEPT ![copying] = Patch(inode[copying], 0, d)]
      BY <2>3 DEF HostCopyEnd
    <3>2. /\ path = copying /\ path \in Inodes /\ inode[path] \in Seq(Bytes) /\ Len(inode[path]) = 0
          /\ d \in Seq(Bytes) /\ Len(d) = IMG_LEN
      BY <1>0, <3>1, ContentsAssumption DEF SoloInv, File, TypeOK
    <3>3. Patch(inode[path], 0, d) = d  BY <3>2, PatchEmpty
    <3>4. File' = d  BY <1>0, <3>1, <3>2, <3>3 DEF File
    <3>5. SoloInv'  BY <1>1, <3>1, <3>2, <3>4 DEF SoloInv, emuVars, Loadable
    <3>6. epochBar' > epochBar  BY <2>1, <3>1 DEF epochBar
    <3> QED BY <3>5, <3>6
  <2>4. ASSUME NEW d \in Diskettes, HostReplace(d) PROVE SoloInv' /\ epochBar' > epochBar
    <3>1. /\ path' = FreshInode /\ copying = NoFile /\ copying' = NoFile /\ hostOps' = hostOps + 1
          /\ inode' = [inode EXCEPT ![FreshInode] = d]
      BY <2>4 DEF HostReplace, HostActs
    <3>2. FreshInode \in Inodes /\ Len(d) = IMG_LEN  BY FreshIsThere, ContentsAssumption
    <3>3. File' = d  BY <1>0, <3>1, <3>2 DEF File
    <3>4. SoloInv'  BY <1>1, <3>1, <3>2, <3>3 DEF SoloInv, emuVars, Loadable
    <3>5. epochBar' > epochBar  BY <2>1, <3>1 DEF epochBar
    <3> QED BY <3>4, <3>5
  <2>5. CASE HostRemove
    <3>1. /\ path' = NoFile /\ copying = NoFile /\ copying' = NoFile /\ hostOps' = hostOps + 1
      BY <2>5 DEF HostRemove, HostActs
    <3>2. SoloInv'  BY <1>1, <3>1 DEF SoloInv, emuVars, Loadable, Exists
    <3>3. epochBar' > epochBar  BY <2>1, <3>1 DEF epochBar
    <3> QED BY <3>2, <3>3
  <2> QED BY <2>2, <2>3, <2>4, <2>5 DEF Host
<1>3. mediaBar' \in Store!Image
  <2>1. pc' \notin {"dump", "dumpwrite"}  BY <1>1 DEF emuVars
  <2>2. ASSUME NEW p \in Position PROVE Answer(p)' \in Sector
    <3>1. Offset(p) \in Nat /\ barr' \in Seq(Bytes)  BY <1>0, OffsetBounds DEF TypeOK
    <3>2. Exists' => File' \in Seq(Bytes)  BY <1>0 DEF TypeOK, Exists, File
    <3>3. Padded(barr', Offset(p)) \in Sector  BY <3>1, PaddedType
    <3>4. Exists' => Padded(File', Offset(p)) \in Sector  BY <3>1, <3>2, PaddedType
    <3> QED BY <3>3, <3>4 DEF Answer
  <2> QED BY <2>1, <2>2, MediaIsNext DEF Store!Image
<1>4. insertedBar' \in BOOLEAN  BY DEF insertedBar
<1>5. wholeBar' \in BOOLEAN  BY DEF wholeBar
<1>6. (pc # "down")' = (pc # "down") /\ result' = result  BY <1>1 DEF emuVars
<1>7. Store!Host  BY <1>2, <1>3, <1>4, <1>5, <1>6 DEF Store!Host
<1> QED BY <1>2, <1>7 DEF Store!Next

LEMMA StepRefines ==
  ASSUME HostRaces = FALSE, IInv, SoloInv, [Next]_vars
  PROVE  SoloInv' /\ [Store!Next]_(Store!vars)
<1>1. CASE UNCHANGED vars
  <2>1. SoloInv'  BY <1>1 DEF vars, SoloInv, File, Exists, Loadable
  <2>2. UNCHANGED Store!vars
    <3>1. mediaBar' = mediaBar  BY <1>1 DEF vars, mediaBar, Exists, File
    <3>2. (insertedBar' <=> insertedBar) /\ (wholeBar' <=> wholeBar)
      BY <1>1 DEF vars, insertedBar, wholeBar, Loadable, Exists, File
    <3> QED BY <1>1, <3>1, <3>2, Unseen DEF vars
  <2> QED BY <2>1, <2>2
<1> QED BY <1>1, ReadOpenRefines, ReadFileRefines, WriteOpenRefines, WriteFileRefines,
           DumpOpenRefines, DumpWriteRefines, CrashRefines, RestartRefines, HostRefines
        DEF Next, Emulator

\* Where the host changes diskettes only between operations, the image is a durable
\* store of sectors: every answer is the file's, every write is in the file when
\* write_sector returns, and a death at any system call loses nothing of a file.
THEOREM Refinement == HostRaces = FALSE => (Spec => ImplementsSectorStore)
<1> SUFFICES ASSUME HostRaces = FALSE PROVE Spec => ImplementsSectorStore
  OBVIOUS
<1>1. Init => SoloInv /\ Store!Init  BY InitRefines
<1>2. IInv /\ SoloInv /\ [Next]_vars => SoloInv' /\ [Store!Next]_(Store!vars)  BY StepRefines
<1> QED BY <1>1, <1>2, Invariance, PTL DEF Spec, ImplementsSectorStore, Store!Spec
=============================================================================
