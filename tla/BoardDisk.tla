----------------------------- MODULE BoardDisk ------------------------------
(***************************************************************************)
(* The boot disk of a rubik_pi3 or dragon_q6a from the flashing on: the    *)
(* image of "fwup -t complete" is written over EDL, either verbatim to a   *)
(* disk with 512-byte sectors (NVMe) or as the output of mk_ufs_image.py   *)
(* to one with 4096-byte sectors (UFS); the firmware and the kernel read   *)
(* the table; the tasks expand-data and factory-reset of fwup-ops.conf     *)
(* change it or the data.  EDL writes, tasks and the power may stop        *)
(* anywhere; a disk may be flashed again.                                  *)
(***************************************************************************)
EXTENDS MkUfsImage, FwupImage

CONSTANTS
    DiskBlocks,   \* size of the disk
    EnvAt,        \* UBOOT_ENV_OFFSET
    ResetBlocks   \* blocks that factory-reset fills with 0xff

ASSUME DiskAssumption ==
    /\ DiskBlocks \in Nat /\ DiskBlocks % DST_SECTOR = 0
    /\ EnvAt \in Nat /\ EnvAt < DiskBlocks
    /\ ResetBlocks \in Nat

VARIABLES
    disk,      \* what the disk holds
    lba,       \* its sector size in blocks: 1 or DST_SECTOR
    edl,       \* the file being written over EDL, or "none"
    stage,     \* how far the last flashing came
    from,      \* the command line whose image was flashed
    kernel,    \* the partitions the running kernel has read; {}: not running
    task,      \* the fwup task in progress and what it still has to write
    app        \* blocks the application has written since the last mkfs

diskVars == << disk, lba, edl, stage, from, kernel, task, app >>
allVars == << vars, diskVars >>

NoTask == [name |-> "none", left |-> {}]
FsMark == Content("superblock", 0)
AppMark == Content("application", 0)
Erased == [kind |-> "erased"]
-----------------------------------------------------------------------------
(***************************************************************************)
(* External: what EDK2, GRUB and Linux take for the partition table, the   *)
(* primary copy if it is valid and else the one in the last sector.        *)
(***************************************************************************)
BackupValid(d, ss) ==
    LET h == d.at[d.len - ss]
    IN /\ HeaderValid(h)
       /\ h.current_lba * ss = d.len - ss
       /\ EntriesValid(d, h, ss)

Table(d, ss) ==
    IF GptValid(d, ss) THEN parse_gpt(d, ss).partitions
    ELSE IF BackupValid(d, ss)
         THEN parse_entries(EntriesOf(d, d.at[d.len - ss], ss))
         ELSE {}

Named(parts, name) == CHOOSE p \in parts : p.name = name
Blocks(p, ss) == p.first * ss .. (p.last + 1) * ss - 1

LayoutMutant ==
    parse_gpt(Source[CHOOSE x \in FwupSources : x # from.input], SRC_SECTOR).partitions
\* The partitions of the image installed, as fwup_include/fwup-common.conf of
\* that image gives them: the ops archive on the disk was built with them.
Layout == parse_gpt(Source[from.input], SRC_SECTOR).partitions

\* The layouts put the environment between the table of a UFS module and the
\* partitions, and factory-reset fills less than a data partition.
ASSUME LayoutAssumption ==
    \A x \in FwupSources :
        LET parts == parse_gpt(Source[x], SRC_SECTOR).partitions
            data == Named(parts, "data")
        IN /\ DST_FRONT <= EnvAt
           /\ \A p \in parts : EnvAt < p.first
           /\ Source[x].at[EnvAt] = Content("env", 0)
           /\ data.first + ResetBlocks <= data.last + 1

BoardInit ==
    /\ Init
    /\ disk = Zeros(DiskBlocks)
    /\ lba \in {SRC_SECTOR, DST_SECTOR}
    /\ edl = "none"
    /\ stage = "blank"
    /\ from = args
    /\ kernel = {}
    /\ task = NoTask
    /\ app = {}
-----------------------------------------------------------------------------
(***************************************************************************)
(* Flashing (docs/flashing.md, README.md), while the board does not run.   *)
(* The first blocks of a file arrive before the rest.                      *)
(***************************************************************************)
FlashFile(f) == IF f = "raw" THEN Source[from.input] ELSE files[f]
FlashAtMutant(f) == IF f = "backup" THEN (S - 6) * DST_SECTOR ELSE 0
FlashAt(f) == IF f = "backup" THEN (S - 5) * DST_SECTOR ELSE 0

\* The image that was used: what fwup wrote for NVMe, for UFS a file of the
\* last invocation of the script, if that has printed its commands.
MayFlash(f) ==
    IF lba = SRC_SECTOR THEN f = "raw"
    ELSE /\ pc = "done"
         /\ IF args.full THEN f = "full"
            ELSE f = "img" \/ (f = "backup" /\ stage = "img")

EdlBegin(f, a) ==
    /\ kernel = {} /\ edl = "none"
    /\ MayFlash(f) /\ a.input \in FwupSources
    /\ a = IF f = "backup" THEN from ELSE IF f = "raw" THEN a ELSE args
    /\ from' = a
    /\ LET file == IF f = "raw" THEN Source[a.input] ELSE files[f]
       IN /\ FlashAt(f) + file.len <= disk.len
          /\ disk' = Write(disk, FlashAt(f), Slice(file, 0, GPT_ENTRIES))
    /\ edl' = f
    /\ stage' = "torn"
    /\ app' = {}
    /\ UNCHANGED << vars, lba, kernel, task >>

EdlFinish ==
    /\ edl # "none"
    /\ disk' = Write(disk, FlashAt(edl), FlashFile(edl))
    /\ stage' = IF edl = "img" THEN "img"
                ELSE IF edl = "backup" /\ from # args THEN "mixed" ELSE "complete"
    /\ edl' = "none"
    /\ UNCHANGED << vars, lba, from, kernel, task, app >>

EdlCut ==
    /\ edl # "none"
    /\ edl' = "none"
    /\ UNCHANGED << vars, disk, lba, stage, from, kernel, task, app >>
-----------------------------------------------------------------------------
\* The board comes up from slot A and makes the filesystem of the data
\* partition if it finds none.
Boot ==
    /\ kernel = {} /\ edl = "none"
    /\ stage \in {"img", "complete"}
    /\ LET parts == Table(disk, lba)
           data == Named(parts, "data")
           fresh == disk.at[data.first * lba] # FsMark
       IN /\ parts # {}
          /\ kernel' = parts
          /\ disk' = IF fresh THEN [disk EXCEPT !.at[data.first * lba] = FsMark] ELSE disk
          /\ app' = IF fresh THEN {} ELSE app
    /\ UNCHANGED << vars, lba, edl, stage, from, task >>

\* A reboot or a power cut, in the middle of a task too.
Down ==
    /\ kernel # {}
    /\ kernel' = {}
    /\ task' = NoTask
    /\ UNCHANGED << vars, disk, lba, edl, stage, from, app >>

\* The application fills its filesystem up to the end of the partition.
AppWrite ==
    /\ kernel # {} /\ task = NoTask
    /\ LET data == Named(kernel, "data")
           b == (data.last + 1) * lba - 1
       IN /\ disk.at[data.first * lba] = FsMark
          /\ disk' = [disk EXCEPT !.at[b] = AppMark]
          /\ app' = app \cup {b}
    /\ UNCHANGED << vars, lba, edl, stage, from, kernel, task >>
-----------------------------------------------------------------------------
(***************************************************************************)
(* expand-data: the table rewritten for the disk it is on, in sectors of   *)
(* 512 bytes.  Which copy gpt_write puts first is not known here.          *)
(***************************************************************************)
ExpandedMutant ==
    {[p EXCEPT !.last = IF p.name = "data" THEN disk.len - 1 ELSE @] : p \in Layout}
Expanded ==
    {[p EXCEPT !.last = IF p.name = "data" THEN disk.len - FWUP_FRONT ELSE @]
       : p \in Layout}

\* The platform variables lie in the environment; "do not run it on UFS".
MayExpandMutant == disk.at[EnvAt] = Content("env", 0)
MayExpand ==
    /\ disk.at[EnvAt] = Content("env", 0)
    /\ lba = SRC_SECTOR

ExpandBegin ==
    /\ kernel # {} /\ task = NoTask
    /\ MayExpand
    /\ task' = [name |-> "expand-data", left |-> {"front", "backup"}]
    /\ UNCHANGED << vars, disk, lba, edl, stage, from, kernel, app >>

ExpandWrite(x) ==
    /\ task.name = "expand-data" /\ x \in task.left
    /\ disk' = IF x = "front"
               THEN Write(disk, 0, FwupFront(Expanded, disk.len, "guid"))
               ELSE Write(disk, disk.len - FWUP_BACKUP,
                          FwupBackup(Expanded, disk.len, "guid"))
    /\ task' = IF task.left = {x} THEN NoTask ELSE [task EXCEPT !.left = @ \ {x}]
    /\ UNCHANGED << vars, lba, edl, stage, from, kernel, app >>

\* factory-reset: the data partition of the layout trimmed, if the device
\* takes trims, and the filesystem's head overwritten.
ResetBegin ==
    /\ kernel # {} /\ task = NoTask
    /\ task' = [name |-> "factory-reset", left |-> {"trim", "memset"}]
    /\ UNCHANGED << vars, disk, lba, edl, stage, from, kernel, app >>

Overwrite(at, count, block) ==
    [disk EXCEPT !.at = [b \in DOMAIN @ |-> IF b \in at .. at + count - 1
                                            THEN block ELSE disk.at[b]]]

ResetWriteMutant ==
    /\ task.name = "factory-reset"
    /\ disk' = Overwrite(Named(Layout, "data").first, 40, Zero)
    /\ task' = NoTask
    /\ app' = {}
    /\ UNCHANGED << vars, lba, edl, stage, from, kernel >>
ResetWrite ==
    /\ task.name = "factory-reset"
    /\ LET data == Named(Layout, "data")
       IN IF "trim" \in task.left
          THEN /\ \/ disk' = Overwrite(data.first, data.last - data.first + 1, Zero)
                  \/ disk' = disk
               /\ task' = [task EXCEPT !.left = {"memset"}]
          ELSE /\ disk' = Overwrite(data.first, ResetBlocks, Erased)
               /\ task' = NoTask
    /\ app' = {}
    /\ UNCHANGED << vars, lba, edl, stage, from, kernel >>
-----------------------------------------------------------------------------
\* A script that is killed prints no commands; it is left out here.
Script == ((\E a \in Arguments : Start(a)) \/ Step) /\ UNCHANGED diskVars

BoardNext ==
    \/ /\ lba = DST_SECTOR /\ edl = "none" /\ kernel = {}
       /\ Script
    \/ \E f \in {"raw", "img", "backup", "full"} : \E a \in Arguments \cup {from} : EdlBegin(f, a)
    \/ EdlFinish \/ EdlCut
    \/ Boot \/ Down \/ AppWrite
    \/ ExpandBegin \/ (\E x \in {"front", "backup"} : ExpandWrite(x))
    \/ ResetBegin \/ ResetWrite

BoardSpec == BoardInit /\ [][BoardNext]_allVars
-----------------------------------------------------------------------------
\* The disk holds an image whose size argument was the size of the disk.
Installed ==
    /\ stage \in {"img", "complete"} /\ edl = "none"
    /\ lba = DST_SECTOR => parse_size(from.size) = 512 * DiskBlocks

\* Room for the backup copy of the table at the end of the disk.
BackupBlocks == IF lba = SRC_SECTOR THEN FWUP_BACKUP ELSE DST_BACKUP_SECTORS * DST_SECTOR

\* From the first complete piece on, through first boots, tasks and cuts at any
\* point, the table that is found describes the partitions of the installed
\* layout at the bytes fwup's constants name, the data partition at least as
\* large and clear of the backup table, and the environment and the other
\* partitions hold what was flashed: "every on-device code path is identical" on
\* both kinds of disk.
SlotsSurvive ==
    Installed =>
        LET parts == Table(disk, lba)
        IN /\ {p.name : p \in parts} = EXPECTED_PARTITION_NAMES
           /\ \A p \in Layout :
                LET q == Named(parts, p.name)
                IN /\ q.first * lba = p.first
                   /\ IF p.name = "data"
                      THEN /\ (q.last + 1) * lba >= p.last + 1
                           /\ (q.last + 1) * lba + BackupBlocks <= disk.len
                      ELSE /\ (q.last + 1) * lba = p.last + 1
                           /\ \A b \in Blocks(p, SRC_SECTOR) :
                                disk.at[b] = Source[from.input].at[b]
           /\ disk.at[EnvAt] = Content("env", 0)

\* On a UFS disk flashed with both pieces of one invocation the two copies of
\* the table stay valid and name each other, whatever was on the disk before.
TablesAgree ==
    Installed /\ stage = "complete" /\ lba = DST_SECTOR =>
        LET primary == disk.at[DST_SECTOR]
            backup == disk.at[disk.len - DST_SECTOR]
        IN /\ GptValid(disk, DST_SECTOR)
           /\ BackupValid(disk, DST_SECTOR)
           /\ primary.backup_lba = backup.current_lba
           /\ backup.backup_lba = primary.current_lba
           /\ primary.entries_crc = backup.entries_crc

\* What the application wrote stays, inside the data partition of the table,
\* until the next reset or flashing: expand-data is "safe to re-run and runs
\* with /data mounted".
DataKept ==
    Installed /\ app # {} =>
        LET data == Blocks(Named(Table(disk, lba), "data"), lba)
        IN \A b \in app : b \in data /\ disk.at[b] = AppMark

\* The kernel's view of the partitions, stale between expand-data and the
\* reboot, stays within the partitions of the table on the disk.
StaleTableSafe ==
    Installed =>
        LET parts == Table(disk, lba)
        IN \A p \in kernel : /\ p.first >= Named(parts, p.name).first
                              /\ p.last <= Named(parts, p.name).last

\* factory-reset, which knows block numbers of 512 bytes only, writes nothing
\* outside the data partition of the table on the disk.
ResetInsideData ==
    [][ResetWrite /\ Installed =>
         LET data == Blocks(Named(Table(disk, lba), "data"), lba)
         IN \A b \in 0 .. disk.len - 1 : b \in data \/ disk'.at[b] = disk.at[b]
      ]_allVars
=============================================================================
