------------------------------ MODULE FileLayer ------------------------------
(***************************************************************************)
(* unixfilesystem_init() and chksumfile_byinumber() of TP3-FileSystem, with *)
(* the inode_iget(), inode_indexlookup(), file_getblock() and              *)
(* diskimg_readsector() they call, on one file of a disk image.  SHA-1 is  *)
(* external: what the code feeds it is kept instead of a digest.           *)
(*                                                                         *)
(* A sector is known by the path of addresses that leads to it: the image  *)
(* is any tree of distinct sectors.  One sector, that of the inode too, may *)
(* fail to be read from some block on; or the image may end before it,     *)
(* unless it is the inode's; the bootblock may be another's.               *)
(***************************************************************************)
EXTENDS InodeGeometry

CONSTANTS
  Faults,   \* what may happen to one sector: a subset of {"error", "short"}
  Onsets,   \* after how many blocks it may begin to happen
  Junk      \* what an uninitialised buffer holds

ASSUME FileLayerAssumption ==
  /\ Faults \subseteq {"error", "short"}
  /\ Onsets \subseteq Nat
  /\ Junk \notin Seq(Int)

Slots  == 0..SingleCount
Places == 0..AddCount - 1

\* Every sector the tree of a large or of a small file may have.
SmallSectors == {<<i>> : i \in Slots}
LargeSectors ==
  SmallSectors \cup {<<i, p>> : i \in Slots, p \in Places}
               \cup {<<SingleCount, p, q>> : p, q \in Places}

\* The images: a file of any size its tree has room for.
Files ==
  [alloc : BOOLEAN, large : BOOLEAN,
   i_size0 : 0..Size0Range - 1, i_size1 : 0..Size1Range - 1]
WellFormed(f) == f.large \/ MaxBlocks(GetSize(f)) <= SingleCount + 1

\* The sectors outside the tree; that of the inode has no path either.
IListSector      == <<-3>>
BootblockSector  == <<-2>>
SuperblockSector == <<-1>>

NoFault  == [kind |-> "none", at |-> <<>>, from |-> 0]
BadMagic == [kind |-> "magic", at |-> BootblockSector, from |-> 0]
FaultSet == {NoFault, BadMagic}
            \cup [kind : Faults, from : Onsets,
                  at : LargeSectors \cup {BootblockSector, SuperblockSector}]
            \cup [kind : Faults \ {"short"}, from : Onsets, at : {IListSector}]

VARIABLES
  file,     \* the inode
  fault,    \* the sector that is not what it should be, and since which block
  offset,   \* the loop variable
  fed,      \* the bytes given to SHA1_Update() so far
  result    \* "unmounted", "mounted", "running" in the loop, then "error" for
            \* NULL or -1, "ok" otherwise

vars == <<file, fault, offset, fed, result>>

Init ==
  /\ file \in {f \in Files : WellFormed(f)}
  /\ fault \in FaultSet
  /\ offset = 0 /\ fed = <<>> /\ result = "unmounted"

\* diskimg_readsector(): -1, or what read() returns, 0 past the end.
Faulty(kind, s) ==
  fault.kind = kind /\ fault.at = s /\ fault.from * SectorSize <= offset
ReadSector(s) ==
  IF Faulty("error", s) THEN -1 ELSE IF Faulty("short", s) THEN 0 ELSE SectorSize

\* The program goes on only with a file system whose two blocks were read whole.
UnixfilesystemInit ==
  /\ result = "unmounted"
  /\ result' = IF /\ ReadSector(BootblockSector) = SectorSize
                   /\ fault.kind # "magic"
                   /\ ReadSector(SuperblockSector) = SectorSize
                THEN "mounted" ELSE "error"
  /\ UNCHANGED <<file, fault, offset, fed>>

\* inode_iget(): its sector cannot be read, or it is not allocated.
IgetFails == ReadSector(IListSector) = -1 \/ ~file.alloc

\* chksumfile_byinumber() up to its loop.
ChksumfileByinumber ==
  /\ result = "mounted"
  /\ result' = IF IgetFails THEN "error" ELSE "running"
  /\ UNCHANGED <<file, fault, offset, fed>>

\* The reads that inode_indexlookup() makes are of the proper prefixes of the
\* path; what it returns when a sector was past the end is what its buffer held.
IndexSectors(path) == {SubSeq(path, 1, k) : k \in 1..Len(path) - 1}

LookupFails(path) == \E s \in IndexSectors(path) : ReadSector(s) = -1
Lookup(path) == IF \E s \in IndexSectors(path) : ReadSector(s) = 0 THEN Junk ELSE path

\* The bytes of a sector, and what is left in buf by a read past the end.
Bytes(s) == [j \in 1..SectorSize |-> IF s = Junk \/ ReadSector(s) = 0
                                     THEN Junk ELSE <<s, j>>]

\* Whether a result of diskimg_readsector() is taken for an error.
IgnoreError(r) == FALSE                                      \* mutant of IsError
IsError(r)     == r < 0

\* file_getblock(), which reads the inode again, and the end of the loop's body.
GetBlock ==
  LET size  == GetSize(file)
      b     == offset \div SectorSize
      path  == AddressPath(file.large, b)
      block == Lookup(path)
  IN  /\ result = "running" /\ offset < size
      /\ IF \/ IgetFails
            \/ b >= MaxBlocks(size)
            \/ LookupFails(path)
            \/ block # Junk /\ IsError(ReadSector(block))
         THEN result' = "error" /\ UNCHANGED <<offset, fed>>
         ELSE /\ fed' = fed \o SubSeq(Bytes(block), 1, ValidBytes(size, b))
              /\ offset' = offset + SectorSize
              /\ UNCHANGED result
      /\ UNCHANGED <<file, fault>>

Final ==
  /\ result = "running" /\ offset >= GetSize(file)
  /\ result' = "ok"
  /\ UNCHANGED <<file, fault, offset, fed>>

Next == UnixfilesystemInit \/ ChksumfileByinumber \/ GetBlock \/ Final

Spec == Init /\ [][Next]_vars
-----------------------------------------------------------------------------
TypeOK ==
  /\ file \in Files /\ fault \in FaultSet
  /\ offset \in 0..GetSize(file) + SectorSize
  /\ result \in {"unmounted", "mounted", "running", "error", "ok"}
  /\ Len(fed) <= GetSize(file)

\* The data sectors of the file in order, read off the tree from left to right
\* without any arithmetic on block numbers: the next one is under the same
\* address as long as that has another, and else under the next address.
FirstLeaf == IF file.large THEN <<0, 0>> ELSE <<0>>
NextLeaf(s) ==
  LET n == Len(s)
  IN  IF n = 1 \/ s[n] < AddCount - 1 THEN [s EXCEPT ![n] = @ + 1]
      ELSE IF n = 2 /\ s[1] < SingleCount - 1 THEN <<s[1] + 1, 0>>
      ELSE IF n = 2 THEN <<SingleCount, 0, 0>>
      ELSE <<s[1], s[2] + 1, 0>>
Leaves[k \in 1..MaxBlocks(GetSize(file))] ==
  IF k = 1 THEN FirstLeaf ELSE NextLeaf(Leaves[k - 1])

Content == [k \in 1..GetSize(file) |->
              <<Leaves[(k - 1) \div SectorSize + 1], ((k - 1) % SectorSize) + 1>>]

\* The digest is of the file: every byte of it, once, in order, and nothing
\* after its end.  At any time what was fed is a prefix of it.
DigestIsOfFile ==
  fault.kind # "short" =>
    /\ fed = SubSeq(Content, 1, Len(fed))
    /\ result = "ok" => fed = Content

\* The call fails exactly when the image is no file system, or the inode is free,
\* or a sector cannot be read when it is needed: that of the inode before the
\* first block, and for each block that of the inode, its data and what leads to
\* it.  The end of the image is an error only in front of the superblock's.
NeededFor(k) == IndexSectors(Leaves[k]) \cup {Leaves[k], IListSector}
FileSystem   == ~(fault.at \in {BootblockSector, SuperblockSector} /\ fault.from = 0)
Unreadable   ==
  /\ fault.kind = "error"
  /\ \/ fault.at = IListSector /\ fault.from = 0
     \/ \E k \in DOMAIN Leaves : fault.from < k /\ fault.at \in NeededFor(k)

ErrorsAreReported ==
  /\ result = "ok" => FileSystem /\ file.alloc /\ ~Unreadable
  /\ result = "error" => ~FileSystem \/ ~file.alloc \/ Unreadable
=============================================================================
