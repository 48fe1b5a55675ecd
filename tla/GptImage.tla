------------------------------ MODULE GptImage ------------------------------
(***************************************************************************)
(* Disk images and the GUID partition table on them, as                    *)
(* tools/mk_ufs_image.py reads and writes them.                            *)
(*                                                                         *)
(* The unit is a block of 512 bytes, fwup's sector; a sector of the UFS    *)
(* module is DST_SECTOR blocks.  A file or a disk is a record of its       *)
(* length and of what each block holds: zeros, a protective MBR, a GPT     *)
(* header, a part of the array of partition entries, or content.  LBAs in  *)
(* a table count sectors of the table's own size ss, 1 or 8 blocks.          *)
(***************************************************************************)
EXTENDS Integers, FiniteSets

CONSTANT MbrLimit   \* largest sector count an MBR entry can state (2^32 - 1)

ASSUME MbrAssumption == MbrLimit \in Nat

SRC_SECTOR == 1                                 \* blocks per sector
DST_SECTOR == 8
SLOTS_PER_BLOCK == 4                            \* entries of 128 bytes
GPT_ENTRIES == 32                               \* blocks of a 128-entry array
DST_ENTRIES_SECTORS == GPT_ENTRIES \div DST_SECTOR
DST_FIRST_USABLE == 2 + DST_ENTRIES_SECTORS
DST_FRONT == DST_FIRST_USABLE * DST_SECTOR      \* blocks before it
DST_BACKUP_SECTORS == DST_ENTRIES_SECTORS + 1

EXPECTED_PARTITION_NAMES == {"config", "efi", "rootfs-a", "rootfs-b", "data"}

Least(x, y) == IF x < y THEN x ELSE y
Greatest(x, y) == IF x > y THEN x ELSE y
-----------------------------------------------------------------------------
(***************************************************************************)
(* Files and disks                                                         *)
(***************************************************************************)
Zero == [kind |-> "zero"]
Content(name, i) == [kind |-> "content", of |-> name, at |-> i]

IsImage(f) ==
    /\ f.len \in Nat
    /\ f.at = [b \in 0 .. f.len - 1 |-> f.at[b]]

Zeros(n) == [len |-> n, at |-> [b \in 0 .. n - 1 |-> Zero]]
Empty == Zeros(0)

\* Bytes from a up to, not including, b; short at the end of the file.
Slice(f, a, b) ==
    LET n == Greatest(0, Least(b, f.len) - a)
    IN [len |-> n, at |-> [i \in 0 .. n - 1 |-> f.at[a + i]]]

\* f after seek(pos) and write(chunk).
Write(f, pos, chunk) ==
    LET n == Greatest(f.len, pos + chunk.len)
    IN [len |-> n,
        at |-> [b \in 0 .. n - 1 |->
                  IF pos <= b /\ b < pos + chunk.len THEN chunk.at[b - pos]
                  ELSE IF b < f.len THEN f.at[b] ELSE Zero]]

Extend(f, chunk) == Write(f, f.len, chunk)
-----------------------------------------------------------------------------
(***************************************************************************)
(* Structures.  An entry keeps its slot, its name, its first and last LBA, *)
(* and id for the type and unique GUIDs and attributes, which are copied.  *)
(* A CRC is the value it protects, wrapped: the model leaves collisions    *)
(* out, and a corrupted structure is one whose CRC field has stayed.       *)
(***************************************************************************)
crc32(value) == [crc |-> value]

build_protective_mbr(total) ==
    [kind |-> "mbr", signed |-> TRUE, ptype |-> "gpt",
     sectors |-> Least(total - 1, MbrLimit)]

\* Block i of the array of entries of parts; empty slots are zeros.
EntriesBlock(parts, i) ==
    LET here == {p \in parts : p.slot \div SLOTS_PER_BLOCK = i}
    IN IF here = {} THEN Zero ELSE [kind |-> "entries", slots |-> here]

build_entries_bytes(parts) ==
    [len |-> GPT_ENTRIES,
     at |-> [i \in 0 .. GPT_ENTRIES - 1 |-> EntriesBlock(parts, i)]]

\* The CRC of a whole file: its length and its non-zero blocks.
FileCrc(f) ==
    crc32([len |-> f.len,
           used |-> {<<i, f.at[i]>> : i \in {j \in 0 .. f.len - 1 : f.at[j] # Zero}}])

HeaderCrc(h) == crc32([h EXCEPT !.crc = 0])

build_gpt_header(current, backup, first, last, guid, entries, entriesCrc) ==
    LET h == [kind |-> "header", signature |-> TRUE, size |-> 92,
              current_lba |-> current, backup_lba |-> backup,
              first_usable |-> first, last_usable |-> last,
              disk_guid |-> guid, entries_lba |-> entries,
              entries_len |-> GPT_ENTRIES, entries_crc |-> entriesCrc,
              crc |-> 0]
    IN [h EXCEPT !.crc = HeaderCrc(h)]
-----------------------------------------------------------------------------
(***************************************************************************)
(* Reading a table.  A header that fails any test is a GptError.           *)
(***************************************************************************)
HeaderValid(h) ==
    /\ h.kind = "header"
    /\ h.signature
    /\ h.size <= 92
    /\ h.crc = HeaderCrc(h)

\* What the fields of a header and of the entries can hold.
Entry == [slot : Nat, name : STRING, id : STRING, first : Nat, last : Nat]
WellFormed(block) ==
    /\ block.kind = "header" =>
         {block.backup_lba, block.entries_lba, block.entries_len} \subseteq Nat
    /\ block.kind = "entries" => block.slots \subseteq Entry /\ IsFiniteSet(block.slots)

\* The array a header points to, wherever it lies on f.
EntriesOf(f, h, ss) ==
    Slice(f, h.entries_lba * ss, h.entries_lba * ss + h.entries_len)

EntriesValid(f, h, ss) ==
    /\ EntriesOf(f, h, ss).len = h.entries_len
    /\ FileCrc(EntriesOf(f, h, ss)) = h.entries_crc

\* The non-empty entries of an array.
parse_entries(array) ==
    UNION {array.at[i].slots : i \in {j \in 0 .. array.len - 1 :
                                        array.at[j].kind = "entries"}}

GptValid(f, ss) ==
    /\ f.len >= 6 * ss
    /\ f.at[0].kind = "mbr"
    /\ f.at[0].signed
    /\ f.at[0].ptype = "gpt"
    /\ HeaderValid(f.at[ss])
    /\ EntriesValid(f, f.at[ss], ss)

parse_gpt(f, ss) ==
    LET h == f.at[ss]
    IN [disk_guid |-> h.disk_guid, backup_lba |-> h.backup_lba,
        first_usable |-> h.first_usable, last_usable |-> h.last_usable,
        entries_len |-> h.entries_len,
        partitions |-> parse_entries(EntriesOf(f, h, ss))]
=============================================================================
