---------------------------- MODULE DiskStream ----------------------------
(***************************************************************************)
(* Reading bytes from a disk that delivers sectors (src/disk/streamer.c,   *)
(* src/disk/disk.c).                                                       *)
(*                                                                         *)
(* What a byte of the disk holds does not matter to anything that moves    *)
(* bytes, so each byte is represented by its position on the disk: a read  *)
(* is right if it returns the right positions in the right order.          *)
(***************************************************************************)
EXTENDS Integers, Sequences

CONSTANT SectorSize   \* MULTITASK_OS_KERNELSHELL_SECTOR_SIZE, 512

ASSUME SectorAssumption == SectorSize \in Nat \ {0}

\* disk_read_block for one sector: the buffer, from offset 0 on.
Sector(lba) == [i \in 0 .. SectorSize - 1 |-> lba * SectorSize + i]

\* total_to_read: what this sector can give of the bytes asked for.
Fits(offset, total) ==
  IF offset + total >= SectorSize
    THEN total - ((offset + total) - SectorSize) ELSE total

\* diskstreamer_read of total bytes at stream->pos = pos.  A read that ends
\* with a sector calls itself once more for no bytes at all.
DiskstreamerRead[total \in Nat] ==
  [pos \in Nat |->
     LET offset == pos % SectorSize
         buf == Sector(pos \div SectorSize)
         total_to_read == Fits(offset, total)
         out == [i \in 1 .. total_to_read |-> buf[offset + i - 1]]
     IN  IF offset + total >= SectorSize
           THEN out \o DiskstreamerRead[total - total_to_read][pos + total_to_read]
           ELSE out]
=============================================================================
