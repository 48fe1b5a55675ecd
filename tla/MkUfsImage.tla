----------------------------- MODULE MkUfsImage -----------------------------
(***************************************************************************)
(* tools/mk_ufs_image.py of rubik_pi3 and dragon_q6a: one invocation after *)
(* the other, each step of main() an action, over output files that stay   *)
(* from one invocation to the next.  pc names the step; the other local    *)
(* variables of main() keep their names and their last values.             *)
(*                                                                         *)
(* Lengths and offsets are in blocks of 512 bytes (see GptImage), the size *)
(* on the command line and disk_bytes in bytes.                            *)
(***************************************************************************)
EXTENDS GptImage

CONSTANTS
    Tools,        \* the copies of the script: "rubik_pi3", "dragon_q6a"
    Source,       \* the images at hand, by name
    FwupSources,  \* names of those that "fwup -t complete" has written
    Arguments,    \* the command lines: input, size and full
    MaxInvocations \* bound on how often the script is run

ASSUME ToolAssumption ==
    /\ Tools \subseteq {"rubik_pi3", "dragon_q6a"}
    /\ FwupSources \subseteq DOMAIN Source
    /\ {"img", "full"} \cap DOMAIN Source = {}
    /\ Arguments # {}
    /\ Arguments \subseteq [input : DOMAIN Source \cup {"img", "full"}, full : BOOLEAN,
                            size : [tenths : Nat, unit : {"B", "K", "M", "G", "T"}]]
    /\ MaxInvocations \in Nat

\* The fields of a header and of an entry are unsigned, and names decode.
ASSUME SourceAssumption ==
    \A x \in DOMAIN Source :
        /\ IsImage(Source[x])
        /\ \A b \in 0 .. Source[x].len - 1 : WellFormed(Source[x].at[b])

VARIABLES
    tool,        \* whose copy of the script
    args,        \* input, size and full of the invocation
    pc,          \* its next step, or how it ended
    source,      \* source_data
    src,         \* what parse_gpt found in it
    translated,  \* its partitions in LBAs of the target
    built,       \* front, backup_gpt and headers of the new table
    files,       \* <out>.img, <out>-backup-gpt.bin and <out>-full.img
    touched,     \* has this invocation opened an output file?
    invocations  \* how often the script has been started

locals == << source, src, translated, built >>
output == << files, touched, invocations >>
vars == << tool, args, pc, locals, output >>

Checks == {"args", "parse", "validate", "translate", "verify", "locate"}
Writing == {"openImg", "front", "body", "pad", "openBackup", "backup",
            "openFull", "fullFront", "fullBody", "fullBackup"}
Ended == {"idle", "done", "failed", "killed"}
-----------------------------------------------------------------------------
(***************************************************************************)
(* parse_size: a number and a power of 1024, rounded half to even.         *)
(***************************************************************************)
Multiplier(unit) ==
    CASE unit = "B" -> 1
      [] unit = "K" -> 1024
      [] unit = "M" -> 1024 * 1024
      [] unit = "G" -> 1024 * 1024 * 1024
      [] unit = "T" -> 1024 * 1024 * 1024 * 1024

RoundTenths(n) ==
    LET q == n \div 10
        r == n % 10
    IN IF r > 5 \/ (r = 5 /\ q % 2 = 1) THEN q + 1 ELSE q

parse_size(size) == RoundTenths(size.tenths * Multiplier(size.unit))

SectorBytes == 512 * DST_SECTOR
disk_bytes == parse_size(args.size)
S == disk_bytes \div SectorBytes
last_usable == S - 6
-----------------------------------------------------------------------------
validate_sourceMutant(gpt) ==
    /\ {p.name : p \in gpt.partitions} = EXPECTED_PARTITION_NAMES
    /\ Cardinality(gpt.partitions) = 5
    /\ \A p \in gpt.partitions : p.first % DST_SECTOR = 0 /\ (p.last + 1) % DST_SECTOR = 0
\* The five partitions, each on 4096-byte boundaries behind the new front.
validate_source(gpt) ==
    /\ {p.name : p \in gpt.partitions} = EXPECTED_PARTITION_NAMES
    /\ Cardinality(gpt.partitions) = 5
    /\ \A p \in gpt.partitions :
         /\ p.first % DST_SECTOR = 0
         /\ (p.last + 1) % DST_SECTOR = 0
         /\ p.first >= DST_FRONT

new_first(p) == p.first \div DST_SECTOR
new_lastMutant(p) == (p.last + 1) \div DST_SECTOR
new_last(p) == (p.last + 1) \div DST_SECTOR - 1

\* max_start_byte: the first of the partitions that start highest.
Highest(parts) ==
    CHOOSE p \in parts :
        \A q \in parts : p.first > q.first \/ (p.first = q.first /\ p.slot <= q.slot)

\* The size rubik_pi3 asks for before any LBA arithmetic.
AboveFloor(parts) ==
    /\ disk_bytes >= 512 * (DST_FRONT + DST_BACKUP_SECTORS * DST_SECTOR)
    /\ \A p \in parts : disk_bytes >= 512 * (p.last + 1)

TranslatableUnbounded(parts) == Highest(parts).name = "data"
TranslatableStrict(parts) ==
    /\ tool = "rubik_pi3" => AboveFloor(parts)
    /\ Highest(parts).name = "data"
    /\ last_usable > new_last(Highest(parts))
Translatable(parts) ==
    /\ tool = "rubik_pi3" => AboveFloor(parts)
    /\ Highest(parts).name = "data"
    /\ last_usable >= new_last(Highest(parts))

translate_partitions(parts) ==
    {[p EXCEPT !.first = new_first(p),
               !.last = IF p = Highest(parts) THEN last_usable ELSE new_last(p)]
       : p \in parts}
-----------------------------------------------------------------------------
\* The two headers name each other and each the copy of the array beside it.
build_new_gpt(guid, parts) ==
    LET array == build_entries_bytes(parts)
        primary == build_gpt_header(1, S - 1, DST_FIRST_USABLE, last_usable,
                                    guid, 2, FileCrc(array))
        backup == build_gpt_header(S - 1, 1, DST_FIRST_USABLE, last_usable,
                                   guid, S - 5, FileCrc(array))
    IN [front |->
          [Zeros(DST_FRONT) EXCEPT
             !.at = [b \in 0 .. DST_FRONT - 1 |->
                       IF b = 0 THEN build_protective_mbr(S)
                       ELSE IF b = DST_SECTOR THEN primary
                       ELSE IF b >= 2 * DST_SECTOR THEN array.at[b - 2 * DST_SECTOR]
                       ELSE Zero]],
        backup_gpt |->
          [len |-> DST_BACKUP_SECTORS * DST_SECTOR,
           at |-> [b \in 0 .. DST_BACKUP_SECTORS * DST_SECTOR - 1 |->
                     IF b < GPT_ENTRIES THEN array.at[b]
                     ELSE IF b = GPT_ENTRIES THEN backup ELSE Zero]],
        entries_bytes |-> array, entries_crc |-> FileCrc(array),
        primary_header |-> primary, backup_header |-> backup,
        last_usable |-> last_usable]

self_verify(new, guid, parts) ==
    /\ FileCrc(new.entries_bytes) = new.entries_crc
    /\ \A h \in {new.primary_header, new.backup_header} :
         /\ HeaderValid(h)
         /\ h.disk_guid = guid
         /\ h.entries_crc = new.entries_crc
    /\ GptValid(new.front, DST_SECTOR)
    /\ LET again == parse_gpt(new.front, DST_SECTOR)
       IN /\ again.disk_guid = guid
          /\ again.first_usable = DST_FIRST_USABLE
          /\ again.last_usable = new.last_usable
          /\ again.backup_lba = S - 1
          /\ {<<p.slot, p.name, p.first, p.last>> : p \in again.partitions} =
             {<<p.slot, p.name, p.first, p.last>> : p \in parts}
-----------------------------------------------------------------------------
(***************************************************************************)
(* The source's own backup table, which the output must not carry on.      *)
(***************************************************************************)
stale_backup_start == src.backup_lba
stale_backup_len == src.entries_len + 1

Locatable ==
    /\ tool = "rubik_pi3" => stale_backup_start >= DST_FRONT
    /\ stale_backup_start + stale_backup_len <= source.len

\* body[rel : rel + n] = zeros, with Python's reading of a negative index: it
\* counts from the end, and an empty range is where the zeros are inserted.
SpliceZeros(body, rel, n) ==
    LET Index(i) == IF i < 0 THEN Greatest(0, body.len + i) ELSE Least(i, body.len)
        from == Index(rel)
        to == Greatest(from, Index(rel + n))
    IN Extend(Extend(Slice(body, 0, from), Zeros(n)), Slice(body, to, body.len))

TwoPieceBody ==
    SpliceZeros(Slice(source, DST_FRONT, source.len),
                stale_backup_start - DST_FRONT, stale_backup_len)

FullBody == Slice(source, DST_FRONT, stale_backup_start)

Padding(f) == Zeros((-f.len) % DST_SECTOR)
-----------------------------------------------------------------------------
(***************************************************************************)
(* What the script relies on fwup for, and does not check.                 *)
(***************************************************************************)
Apart(parts) ==
    \A p, q \in parts : p = q \/ p.last < q.first \/ q.last < p.first

\* What validate_source relies on fwup for: partitions apart from each other
\* and in front of the source's backup table.
Orderly(parts, backup) ==
    /\ \A p \in parts : p.first <= p.last /\ p.last < backup - GPT_ENTRIES
    /\ Apart(parts)

\* External: an image that "fwup -t complete" has written from a fwup-common.conf
\* of the repository.  The array follows the header; the slots are those of an
\* array of 128 entries; data lies behind the other partitions.
FwupWritten(f) ==
    LET h == f.at[SRC_SECTOR]
        gpt == parse_gpt(f, SRC_SECTOR)
    IN /\ GptValid(f, SRC_SECTOR)
       /\ h.entries_lba = 2 /\ h.entries_len = GPT_ENTRIES
       /\ h.backup_lba < f.len
       /\ validate_source(gpt)
       /\ Orderly(gpt.partitions, h.backup_lba)
       /\ Highest(gpt.partitions).name = "data"
       /\ \A p \in gpt.partitions : p.slot < SLOTS_PER_BLOCK * GPT_ENTRIES

ASSUME FwupAssumption == \A x \in FwupSources : FwupWritten(Source[x])
-----------------------------------------------------------------------------
NoSrc == [partitions |-> {}]
NotBuilt == [front |-> Empty]

Init ==
    /\ tool \in Tools
    /\ args = CHOOSE a \in Arguments : TRUE
    /\ pc = "idle"
    /\ source = Empty
    /\ src = NoSrc
    /\ translated = {}
    /\ built = NotBuilt
    /\ files = [f \in {"img", "backup", "full"} |-> Empty]
    /\ touched = FALSE
    /\ invocations = 0

\* The command line, and the whole input read into memory.
Start(a) ==
    /\ pc \in Ended
    /\ invocations < MaxInvocations
    /\ invocations' = invocations + 1
    /\ pc' = "args"
    /\ args' = a
    /\ source' = IF a.input \in DOMAIN Source THEN Source[a.input] ELSE files[a.input]
    /\ src' = NoSrc
    /\ translated' = {}
    /\ built' = NotBuilt
    /\ touched' = FALSE
    /\ UNCHANGED << tool, files >>

Passes ==
    \/ pc = "args" /\ disk_bytes % SectorBytes = 0
    \/ pc = "parse" /\ GptValid(source, SRC_SECTOR)
    \/ pc = "validate" /\ validate_source(src)
    \/ pc = "translate" /\ Translatable(src.partitions)
    \/ pc = "verify" /\ self_verify(built, src.disk_guid, translated)
    \/ pc = "locate" /\ Locatable

\* A GptError, or main() returning 1 itself.
Reject ==
    /\ pc \in Checks
    /\ ~Passes
    /\ pc' = "failed"
    /\ UNCHANGED << tool, args, locals, output >>

CheckSize ==
    /\ pc = "args" /\ Passes
    /\ pc' = "parse"
    /\ UNCHANGED << tool, args, locals, output >>

ParseMutant ==
    /\ pc = "parse" /\ (Passes \/ GptValid(source, DST_SECTOR))
    /\ pc' = "validate"
    /\ src' = parse_gpt(source, IF Passes THEN SRC_SECTOR ELSE DST_SECTOR)
    /\ UNCHANGED << tool, args, source, translated, built, output >>
Parse ==
    /\ pc = "parse" /\ Passes
    /\ pc' = "validate"
    /\ src' = parse_gpt(source, SRC_SECTOR)
    /\ UNCHANGED << tool, args, source, translated, built, output >>

Validate ==
    /\ pc = "validate" /\ Passes
    /\ pc' = "translate"
    /\ UNCHANGED << tool, args, locals, output >>

Translate ==
    /\ pc = "translate" /\ Passes
    /\ pc' = "build"
    /\ translated' = translate_partitions(src.partitions)
    /\ UNCHANGED << tool, args, source, src, built, output >>

Build ==
    /\ pc = "build"
    /\ pc' = "verify"
    /\ built' = build_new_gpt(src.disk_guid, translated)
    /\ UNCHANGED << tool, args, source, src, translated, output >>

Verify ==
    /\ pc = "verify" /\ Passes
    /\ pc' = "locate"
    /\ UNCHANGED << tool, args, locals, output >>

Locate ==
    /\ pc = "locate" /\ Passes
    /\ pc' = IF args.full THEN "openFull" ELSE "openImg"
    /\ UNCHANGED << tool, args, locals, output >>
-----------------------------------------------------------------------------
\* One call on output file f: what it holds afterwards, and the next step.
Emit(here, f, content, next) ==
    /\ pc = here
    /\ pc' = next
    /\ files' = [files EXCEPT ![f] = content]
    /\ touched' = TRUE
    /\ UNCHANGED << tool, args, locals, invocations >>

WriteImg ==
    \/ Emit("openImg", "img", Empty, "front")
    \/ Emit("front", "img", Extend(files.img, built.front), "body")
    \/ Emit("body", "img", Extend(files.img, TwoPieceBody), "pad")
    \/ Emit("pad", "img", Extend(files.img, Padding(files.img)), "openBackup")

WriteBackupMutant ==
    \/ Emit("openBackup", "backup", files.backup, "backup")
    \/ Emit("backup", "backup", Extend(files.backup, built.backup_gpt), "done")
WriteBackup ==
    \/ Emit("openBackup", "backup", Empty, "backup")
    \/ Emit("backup", "backup", Extend(files.backup, built.backup_gpt), "done")

WriteFull ==
    \/ Emit("openFull", "full", Zeros(S * DST_SECTOR), "fullFront")
    \/ Emit("fullFront", "full", Write(files.full, 0, built.front), "fullBody")
    \/ Emit("fullBody", "full", Write(files.full, DST_FRONT, FullBody), "fullBackup")
    \/ Emit("fullBackup", "full",
            Write(files.full, (S - 5) * DST_SECTOR, built.backup_gpt), "done")

\* A kill, a full file system, an unhandled exception: what is written stays.
Interrupt ==
    /\ pc \notin Ended
    /\ pc' = "killed"
    /\ UNCHANGED << tool, args, locals, output >>

Step ==
    \/ CheckSize \/ Parse \/ Validate \/ Translate \/ Build \/ Verify \/ Locate
    \/ Reject
    \/ WriteImg \/ WriteBackup \/ WriteFull

Next == (\E a \in Arguments : Start(a)) \/ Step \/ Interrupt

Spec == Init /\ [][Next]_vars
-----------------------------------------------------------------------------
(***************************************************************************)
(* Properties.  Done: the last invocation has returned 0; Out is the disk  *)
(* image it left.                                                          *)
(***************************************************************************)
Done == pc = "done"
Out == IF args.full THEN files.full ELSE files.img
SourceParts == parse_gpt(source, SRC_SECTOR).partitions
OutParts == parse_gpt(Out, DST_SECTOR).partitions

\* Neither copy of the script rejects a partition that ends before it begins.
Forward == \A p \in SourceParts : p.first <= p.last

TypeOK ==
    /\ tool \in Tools
    /\ args \in Arguments
    /\ pc \in Checks \cup {"build"} \cup Writing \cup Ended
    /\ IsImage(source)
    /\ \A p \in translated : p.first \in Nat /\ p.last \in Nat
    /\ \A f \in {"img", "backup", "full"} : IsImage(files[f])
    /\ touched \in BOOLEAN
    /\ invocations \in 0 .. MaxInvocations

\* The table of a finished image is valid at 4096-byte sectors and describes
\* the source's partitions at the bytes where they were; the data partition
\* begins where it did, has not shrunk and ends with the usable area, clear of
\* the backup table (translate_partitions, build_new_gpt).
LayoutKept ==
    Done /\ Forward =>
        LET new == OutParts
        IN /\ GptValid(Out, DST_SECTOR)
           /\ ~args.full => Out.len % DST_SECTOR = 0
           /\ Out.at[0].sectors = Least(S - 1, MbrLimit)
           /\ \A q \in new : \E p \in SourceParts : p.slot = q.slot
           /\ \A p \in SourceParts : \E q \in new :
                /\ q.slot = p.slot /\ q.name = p.name /\ q.id = p.id
                /\ q.first * DST_SECTOR = p.first
                /\ (q.last + 1) * DST_SECTOR >= p.last + 1
                /\ IF p.name = "data"
                   THEN q.last + 1 = S - DST_BACKUP_SECTORS
                   ELSE (q.last + 1) * DST_SECTOR = p.last + 1
           /\ Orderly(SourceParts, src.backup_lba) => Apart(new)

\* Every block of a partition, and every block between the new front and the
\* partitions, the U-Boot environment included, holds what the source holds
\* there (the bodies main() writes between the two tables).
ContentsKept ==
    Done /\ Orderly(SourceParts, src.backup_lba) =>
        \A p \in SourceParts : \A b \in Least(DST_FRONT, p.first) .. p.last :
            Out.at[b] = source.at[b]

\* The backup table of a finished invocation, at the LBA it prints, and the
\* primary table in the image name each other and describe the same
\* partitions, whatever earlier invocations left in the other files.
BackupMirrors ==
    Done /\ Forward =>
        LET backup == IF args.full THEN Slice(files.full, (S - 5) * DST_SECTOR,
                                              S * DST_SECTOR)
                      ELSE files.backup
            h == backup.at[GPT_ENTRIES]
            primary == Out.at[DST_SECTOR]
        IN /\ backup.len = DST_BACKUP_SECTORS * DST_SECTOR
           /\ HeaderValid(h)
           /\ h.current_lba = S - 1 /\ primary.backup_lba = h.current_lba
           /\ h.backup_lba = primary.current_lba /\ h.backup_lba = 1
           /\ h.entries_lba = S - 5
           /\ FileCrc(Slice(backup, 0, GPT_ENTRIES)) = h.entries_crc
           /\ h.entries_crc = primary.entries_crc
           /\ h.disk_guid = primary.disk_guid
           /\ args.full /\ stale_backup_start <= S * DST_SECTOR =>
                files.full.len = S * DST_SECTOR

\* An image for 4096-byte sectors, finished or cut off, is never taken for a
\* source: a second conversion would scale its LBAs again (parse_gpt).
NeverConvertedTwice ==
    args.input \in {"img", "full"} =>
        pc \in {"idle", "args", "parse", "failed", "killed"}

\* An invocation that returns 1 has opened no output file, so the pieces of an
\* earlier one are still a pair (self_verify runs "before any file is written").
ErrorWritesNothing == pc = "failed" => ~touched

\* An image that fwup has written is rejected only for a size that is no whole
\* number of sectors, on a module without room for it, or for want of the 32
\* blocks behind the source's backup header that the test for "truncated before
\* its own backup GPT" asks for: neither the other checks nor self_verify get in
\* the way.
FwupImageAccepted ==
    pc = "failed" /\ args.input \in FwupSources =>
        \/ disk_bytes % SectorBytes # 0
        \/ \E p \in SourceParts :
             p.last + 1 + DST_BACKUP_SECTORS * DST_SECTOR > S * DST_SECTOR
        \/ source.at[1].backup_lba + GPT_ENTRIES >= source.len

\* The image carries nothing of the source's own backup table: "locate the
\* source's own (stale, 512-LBA) backup GPT via the parsed header" and zero it.
StaleBackupGone ==
    Done /\ args.input \in FwupSources =>
        \A b \in source.at[1].backup_lba - GPT_ENTRIES .. source.at[1].backup_lba :
            b < Out.len => Out.at[b] = Zero \/ (args.full /\ b >= (S - 5) * DST_SECTOR)
=============================================================================
