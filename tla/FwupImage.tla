----------------------------- MODULE FwupImage ------------------------------
(***************************************************************************)
(* External: the partition tables fwup's gpt_write makes, always for       *)
(* 512-byte sectors, and the images "fwup -a -t complete" writes.  Taken   *)
(* from what mk_ufs_image.py and the fwup files of the repository say of   *)
(* them: MBR, header and 32 blocks of entries in front, the same reversed  *)
(* at the end, then zeros up to a round length.                            *)
(***************************************************************************)
EXTENDS GptImage

FWUP_FRONT == 2 + GPT_ENTRIES
FWUP_BACKUP == GPT_ENTRIES + 1

FwupHeader(current, backup, entries, parts, n, guid) ==
    build_gpt_header(current, backup, FWUP_FRONT, n - FWUP_FRONT, guid, entries,
                     FileCrc(build_entries_bytes(parts)))

\* The first blocks and the last blocks of a table for n blocks.
FwupFront(parts, n, guid) ==
    [len |-> FWUP_FRONT,
     at |-> [b \in 0 .. FWUP_FRONT - 1 |->
               IF b = 0 THEN build_protective_mbr(n)
               ELSE IF b = 1 THEN FwupHeader(1, n - 1, 2, parts, n, guid)
               ELSE EntriesBlock(parts, b - 2)]]

FwupBackup(parts, n, guid) ==
    [len |-> FWUP_BACKUP,
     at |-> [b \in 0 .. FWUP_BACKUP - 1 |->
               IF b < GPT_ENTRIES THEN EntriesBlock(parts, b)
               ELSE FwupHeader(n - 1, 1, n - FWUP_BACKUP, parts, n, guid)]]

\* What lies in block b between the tables: a partition, or the U-Boot
\* environment of envCount blocks from envAt.
Body(parts, envAt, envCount, b) ==
    LET in == {p \in parts : p.first <= b /\ b <= p.last}
    IN IF in # {} THEN LET p == CHOOSE p \in in : TRUE
                       IN Content(p.name, b - p.first)
       ELSE IF envAt <= b /\ b < envAt + envCount THEN Content("env", b - envAt)
       ELSE Zero

\* An image with its table made for n blocks, padded to length blocks.
FwupImageOf(parts, n, length, envAt, envCount, guid) ==
    Write(Write([len |-> length,
                 at |-> [b \in 0 .. length - 1 |-> Body(parts, envAt, envCount, b)]],
                0, FwupFront(parts, n, guid)),
          n - FWUP_BACKUP, FwupBackup(parts, n, guid))
=============================================================================
