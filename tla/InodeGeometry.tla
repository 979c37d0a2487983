---------------------------- MODULE InodeGeometry ----------------------------
(***************************************************************************)
(* The arithmetic of TP3-FileSystem/inode.c and file.c: where inode i is   *)
(* on the disk, which addresses lead to block b of a file, how long a file *)
(* is and how many of a block's bytes belong to it.  Everything the code   *)
(* fixes with a #define or a field width is a constant here, so that the   *)
(* model checker can use a small disk and the proofs hold for any.         *)
(***************************************************************************)
EXTENDS Integers, Sequences

CONSTANTS
  SectorSize,    \* DISKIMG_SECTOR_SIZE, 512
  InodeCount,    \* SECTOR_INODE_COUNT, 16
  AddCount,      \* SECTOR_ADD_COUNT, 256
  SingleCount,   \* SINGLE_INDIRECT_SECTORS, 7: i_addr has one element more
  Size1Range,    \* 2^16, the values of i_size1
  Size0Range     \* 2^8, the values of i_size0

\* A file whose size fits in three bytes fits in the address tree.
ASSUME GeometryAssumption ==
  /\ SectorSize \in Nat \ {0} /\ InodeCount \in Nat \ {0}
  /\ AddCount \in Nat \ {0} /\ SingleCount \in Nat \ {0}
  /\ Size1Range \in Nat \ {0} /\ Size0Range \in Nat \ {0}
  /\ Size0Range * Size1Range <= (AddCount * SingleCount + AddCount * AddCount) * SectorSize

InodeStartSector == 2
FromZero(inumber) == inumber                                 \* mutant of Index
Index(inumber)    == inumber - 1

\* inode_iget(): the sector of an inode, and its position there.
InodeSector(inumber)   == InodeStartSector + Index(inumber) \div InodeCount
InodePosition(inumber) == Index(inumber) % InodeCount

\* inode_getsize().
GetSize(inode) == inode.i_size0 * Size1Range + inode.i_size1

\* How many blocks a file has, and how many bytes of block b are the file's.
MaxBlocks(size) == (size + SectorSize - 1) \div SectorSize

WholeBlock(size, b) == SectorSize                            \* mutant of ValidBytes
ValidBytes(size, b) ==
  LET remaining == size - b * SectorSize
  IN  IF remaining < SectorSize THEN remaining ELSE SectorSize

\* inode_indexlookup(): the index to follow in i_addr, then in each sector of
\* addresses that is read on the way.
IndirectAddCount == AddCount * SingleCount

NotRestarted(large, b) ==                                    \* mutant of AddressPath
  IF ~large THEN <<b>>
  ELSE IF b < IndirectAddCount THEN <<b \div AddCount, b % AddCount>>
  ELSE <<SingleCount, b \div AddCount, b % AddCount>>

AddressPath(large, b) ==
  IF ~large THEN <<b>>
  ELSE IF b < IndirectAddCount THEN <<b \div AddCount, b % AddCount>>
  ELSE LET restarted == b - IndirectAddCount
       IN  <<SingleCount, restarted \div AddCount, restarted % AddCount>>
=============================================================================
