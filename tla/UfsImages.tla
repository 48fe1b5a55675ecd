----------------------------- MODULE UfsImages ------------------------------
(***************************************************************************)
(* Images for the runs, of about 200 blocks: the table sizes are the real  *)
(* ones, the environment is 8 blocks long and the partitions one or two    *)
(* 4096-byte sectors each.                                                 *)
(***************************************************************************)
EXTENDS FwupImage

Part(slot, name, first, count) ==
    [slot |-> slot, name |-> name, id |-> name, first |-> first,
     last |-> first + count - 1]

\* The order of fwup-common.conf: environment, config, efi, slots, data.
Plain == {Part(0, "config", 56, 8), Part(1, "efi", 64, 8), Part(2, "rootfs-a", 72, 8),
          Part(3, "rootfs-b", 80, 8), Part(4, "data", 88, 16)}
\* Slots in another order than the partitions, and a gap between two of them.
Permuted == {Part(5, "config", 56, 8), Part(1, "efi", 64, 8), Part(9, "rootfs-a", 80, 8),
             Part(3, "rootfs-b", 88, 8), Part(0, "data", 96, 8)}
Unaligned == (Plain \ {Part(4, "data", 88, 16)}) \cup {Part(4, "data", 88, 20)}
InFront == (Plain \ {Part(0, "config", 56, 8)}) \cup {Part(0, "config", 40, 8)}
DataInside == (Plain \ {Part(4, "data", 88, 16), Part(3, "rootfs-b", 80, 8)})
                \cup {Part(4, "data", 80, 8), Part(3, "rootfs-b", 88, 16)}
NoData == Plain \ {Part(4, "data", 88, 16)}
TwoEfi == Plain \cup {Part(6, "efi", 48, 8)}

Fwup(parts, n, length) == FwupImageOf(parts, n, length, 48, 8, "guid")

\* The block at position b replaced.
Patch(f, b, block) == [f EXCEPT !.at[b] = block]

Images ==
    LET plain == Fwup(Plain, 137, 192)
        h == plain.at[1]
        Rehash(x) == [x EXCEPT !.crc = HeaderCrc(x)]
    IN  [plain |-> plain,
         permuted |-> Fwup(Permuted, 140, 176),
         tight |-> Fwup(Plain, 137, 144),     \* too little behind its backup header
         unaligned |-> Fwup(Unaligned, 141, 192),
         inFront |-> Fwup(InFront, 137, 192),
         dataInside |-> Fwup(DataInside, 137, 192),
         noData |-> Fwup(NoData, 137, 192),
         twoEfi |-> Fwup(TwoEfi, 137, 192),
         cut |-> Slice(plain, 0, 120),
         short |-> Slice(plain, 0, 3),
         shortArray |-> Slice(plain, 0, 20),
         noMbr |-> Patch(plain, 0, [plain.at[0] EXCEPT !.signed = FALSE]),
         badHeader |-> Patch(plain, 1, [h EXCEPT !.backup_lba = 150]),
         badEntries |-> Patch(plain, 2, Zero),
         nearBackup |-> Patch(plain, 1, Rehash([h EXCEPT !.backup_lba = 1]))]

Of(tenths, unit) == [tenths |-> tenths, unit |-> unit]
=============================================================================
