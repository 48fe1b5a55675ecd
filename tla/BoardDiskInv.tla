---------------------------- MODULE BoardDiskInv ----------------------------
(***************************************************************************)
(* The inductive invariant behind the theorems about BoardDisk.            *)
(***************************************************************************)
EXTENDS BoardDisk

Image == Source[from.input]

\* The disk holds an image whose size argument was the size of the disk, and
\* keeps it while the second piece of the same invocation is written.
Sized == lba = DST_SECTOR => parse_size(from.size) = 512 * DiskBlocks
Held == stage \in {"img", "complete"} \/ (edl = "backup" /\ from = args)

\* The tables such a disk can have: on UFS the one the script makes of the
\* layout, on NVMe the layout itself, before and after expand-data.
Converted ==
    {[p EXCEPT !.first = new_first(p),
               !.last = IF p = Highest(Layout) THEN DiskBlocks \div DST_SECTOR - 6
                        ELSE new_last(p)]
       : p \in Layout}
FirstTable == IF lba = SRC_SECTOR THEN Layout ELSE Converted
LastTable == IF lba = SRC_SECTOR THEN Expanded ELSE Converted

OnDisk == parse_gpt(disk, lba).partitions

\* A table in front whose array follows the header.
FrontTable(d, ss) ==
    /\ GptValid(d, ss)
    /\ d.at[ss].entries_lba = 2 /\ d.at[ss].entries_len = GPT_ENTRIES

\* On UFS the headers are those build_new_gpt makes for this disk.
PrimaryMade(d) ==
    LET h == d.at[DST_SECTOR]
    IN /\ h.current_lba = 1 /\ h.backup_lba = DiskBlocks \div DST_SECTOR - 1
       /\ h.entries_crc = FileCrc(build_entries_bytes(Converted))

BackupMade(d) ==
    LET h == d.at[DiskBlocks - DST_SECTOR]
    IN /\ HeaderValid(h)
       /\ h.current_lba = DiskBlocks \div DST_SECTOR - 1 /\ h.backup_lba = 1
       /\ h.entries_lba = DiskBlocks \div DST_SECTOR - 5 /\ h.entries_len = GPT_ENTRIES
       /\ h.entries_crc = FileCrc(build_entries_bytes(Converted))
       /\ \A i \in 0 .. GPT_ENTRIES - 1 :
            d.at[DiskBlocks - DST_BACKUP_SECTORS * DST_SECTOR + i] = EntriesBlock(Converted, i)

\* Every partition ends in front of the backup table.
Fits == \A p \in Layout : p.last < DiskBlocks - BackupBlocks

\* The blocks that no step after the flashing may touch.
Static == {EnvAt} \cup UNION {Blocks(p, SRC_SECTOR) : p \in {q \in Layout : q.name # "data"}}

DataEnd(parts) == (Named(parts, "data").last + 1) * lba
DataStart == Named(Layout, "data").first

KeptOn(d) ==
    /\ FrontTable(d, lba)
    /\ parse_gpt(d, lba).partitions \in {FirstTable, LastTable}
    /\ \A b \in Static : d.at[b] = Image.at[b]
    /\ lba = DST_SECTOR => PrimaryMade(d)

DiskKept ==
    Held /\ Sized =>
        /\ from.input \in FwupSources
        /\ Fits
        /\ KeptOn(disk)
        /\ lba = DST_SECTOR /\ stage = "complete" => BackupMade(disk)

\* The kernel has read the table on the disk, or the one before expand-data.
KernelKept == Held /\ Sized /\ kernel # {} => kernel \in {FirstTable, OnDisk}

AppKept ==
    Held /\ Sized =>
        \A b \in app : b \in DataStart .. DataEnd(OnDisk) - 1 /\ disk.at[b] = AppMark

Task == [name : {"none", "expand-data", "factory-reset"},
         left : SUBSET {"front", "backup", "trim", "memset"}]

DiskTyped ==
    /\ IsImage(disk) /\ disk = [len |-> DiskBlocks, at |-> disk.at]
    /\ lba \in {SRC_SECTOR, DST_SECTOR}
    /\ from \in Arguments
    /\ edl \in {"none", "raw", "img", "backup", "full"}
    /\ task \in Task
    /\ kernel = {} => task = NoTask
    /\ kernel # {} => stage \in {"img", "complete"}
    /\ task.name = "expand-data" => lba = SRC_SECTOR

\* A file is written while nothing else happens.
EdlAlone ==
    edl # "none" =>
        /\ kernel = {} /\ app = {} /\ stage = "torn"
        /\ from.input \in FwupSources
        /\ edl = "raw" <=> lba = SRC_SECTOR
        /\ edl # "raw" => pc = "done" /\ args.full = (edl = "full")
        /\ edl \in {"img", "full"} => from = args
        /\ FlashAt(edl) + FlashFile(edl).len <= DiskBlocks

DiskInv == DiskTyped /\ EdlAlone /\ DiskKept /\ KernelKept /\ AppKept
=============================================================================
