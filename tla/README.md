# Verification of the Vagus Nerves systems

The repository holds Nerves systems (bootable Linux images with an update
scheme) for eleven boards. What has behaviour of its own in it is small and
unforgiving: the fwup task files that write firmware to a device in the field,
the boot script and boot configuration that choose a slot afterwards, and a few
tools. This directory holds TLA+ models of that behaviour, TLC runs over small
instances, and proofs checked by TLAPS.

Paths below are relative to `src/`. "Rubik" is `rubik_pi3/base`.

## 1. Inventory

| component | state it keeps | operations | hard behaviour | status |
|---|---|---|---|---|
| GRUB A/B updates: `rubik_pi3/base`, `dragon_q6a/base` (`fwup.conf`, `fwup-ops.conf`, `grub.cfg`) | two rootfs partitions; `grubenv` on the EFI partition; U-Boot variables `nerves_fw_active`, per-slot metadata, `nerves_fw_validated` flags | `upgrade.a/b`, `revert.a/b`, `prevent-revert.a/b`, `validate`, `status`, slot choice at boot | power cut or abort between any two operations; two sources of truth (`nerves_fw_active` for fwup, `grubenv` for GRUB); tasks issued before the reboot | modelled: `GrubAB` |
| x86_64 (`fwup.conf`, `fwup-ops.conf`, `grub.cfg`) | the same without per-slot validation | the same | the same | modelled: `GrubAB` with a constant |
| First installation on the GRUB boards | everything above plus the boot files | `complete` | cut and repeated; implicit slot-A fallback of `grub.cfg` | modelled: `GrubBoard` |
| Raspberry Pi tryboot A/B (`rpi*/fwup.conf.eex`, `rpi*/fwup-ops.conf`) | boot and rootfs partition per slot, `autoboot.txt`, U-Boot variables, the reboot parameter | `upgrade.a/b`, `validate.a/b`, `revert.a/b`, `prevent-revert.a/b`, one-time boot of the other slot | as above, plus a trial boot that must roll back | modelled: `TrybootAB` |
| Migration from the old Pi layout (`upgrade.old-a/b`) | both partition tables | one task each | new partitions overlap the old ones while the old system runs; cut and repeated | modelled: `PiMigration` |
| `tools/mk_ufs_image.py` of `rubik_pi3` and `dragon_q6a` | the files `<out>.img`, `<out>-backup-gpt.bin`, `<out>-full.img`; the parsed, translated and built tables within one invocation | parse, validate, translate, build, self-verify, locate the old backup table, write | LBA arithmetic at boundaries; slices with computed indices; killed between files that belong together; run again on old files or on its own output | modelled: `MkUfsImage` |
| Boot disk of the GRUB boards: flashing over EDL, `expand-data`, `factory-reset` | the partition table (two copies) and the blocks behind it; the kernel's copy of the table | the flash commands the script prints; one task each | two sector sizes on two kinds of disk; a cut between two copies of a table; a kernel that keeps the old one | partly: `BoardDisk` |
| `test_src/venus_dec_smoke.c` | V4L2 buffer queues, the state of the decode loop | queue access units, STOP, poll, events, reclaim, harvest | a driver that runs concurrently and delivers frames, events and errors in any order, or nothing | modelled: `VenusDec` |
| `provision` | environment block | sets variables | - | not modelled |
| `scripts/sync-base.sh`, `Makefile`, `.github/workflows/build.yml` | product trees, CI jobs | sync, drift test | partial installation, fragment merging | planned |
| `usr/sbin/rubik-usb-fw`, `rubik-boardid`, `erlinit.config` | none | run once at boot | - | not modelled |
| Buildroot recipes, kernel configuration, docs | none | - | - | not modelled |

**How the parts interact.** The running system (Nerves.Runtime, outside this
repository) starts fwup with an `upgrade` or `ops` archive. fwup picks the first
task whose requirements hold and executes its operations: it writes partitions,
sets variables in the U-Boot environment block, and at the end changes what the
boot program reads. The boot program (GRUB with `grub.cfg`, or the Raspberry Pi
firmware with `autoboot.txt`) chooses a slot at the next power-up. Nothing else
synchronises the two: they communicate through the disk only. On the GRUB boards
the first image comes from a host: `fwup -a -t complete` writes it for 512-byte
sectors, `mk_ufs_image.py` converts it if the boot disk is a UFS module with
4096-byte sectors, and `edl-ng` flashes the files the script names.

**What makes each component correct.** For the update schemes: whatever is cut,
a board boots, an upgrade can be retried, a slot that `revert` accepts boots,
the running system is not overwritten, firmware for another board is refused,
and a switch or a trial takes effect. For the migration: no write lands in the
mounted old rootfs, and data stays where it was. For the image builder: the
output describes and holds the same bytes, its two tables match, and a failed or
repeated run does no harm. For the boot disk: firmware and kernel find the same
partitions after any cut, and nothing outside the data partition is touched. For
the decoder loop: it ends, and its verdict is right both ways. For the sync:
after an interrupted sync the drift test notices. The hazards, each at its line, are in
`PROJECT.json`.

## 2. Modules

| module | role |
|---|---|
| `FwSlots` | slots, images, metadata: vocabulary and constants of all others |
| `GrubAB` | the GRUB update protocol, properties included |
| `SlotInventory` | abstract specification of an A/B scheme; `GrubAB` implements it |
| `GrubABInv` | the inductive invariants of `GrubAB` |
| `GrubABProofs` | the theorems about `GrubAB` |
| `GrubBoard` | the task `complete` composed with `GrubAB` |
| `GrubBoardInv`, `GrubBoardProofs` | its invariant and theorems |
| `TrybootAB` | the Raspberry Pi protocol, properties included |
| `TrybootABInv`, `TrybootABProofs` | its invariants (`IInv`, `BoardInv`, `CarefulInv`) and theorems |
| `PiMigration` | the migration to the tryboot layout, composed with `TrybootAB` |
| `PiMigrationInv`, `PiMigrationProofs` | its invariant and theorems |
| `GptImage` | files as blocks, GUID partition tables on them, parser and builders |
| `MkUfsImage` | `mk_ufs_image.py`, main() step by step, properties included |
| `MkUfsImageProofs` | its inductive invariant and theorems |
| `FwupImage` | external: the tables and images fwup writes |
| `BoardDisk` | `MkUfsImage` composed with flashing, booting, `expand-data`, `factory-reset` |
| `BoardDiskInv`, `BoardDiskProofs` | its invariant and theorems |
| `VenusDec` | the decoder smoke test and an external driver |
| `VenusDecInv`, `VenusDecProofs` | its invariants and theorems |
| `UfsImages` | test images for the runs |
| `MCGrubAB`, `MCGrubBoard`, `MCTrybootAB`, `MCPiMigration`, `MCMkUfsImage`, `MCBoardDisk`, `MCVenusDec` | instances for TLC |

### GrubAB

*State.* `rootfs` is the pair of rootfs partitions, each with the image whose
squashfs it holds completely or `NoImage`. `grubenv` is the slot named by
`boot` in `/EFI/BOOT/grubenv` (`none`: the file is missing or empty). `active`,
`meta`, `validated` and `fwValidated` are the U-Boot variables
`nerves_fw_active`, `<slot>.nerves_fw_*`, `<slot>.nerves_fw_validated` and
`nerves_fw_validated`. `running` and `runImg` are the live system. `job` is the
task in progress with its next operation, and `switched` remembers that a task
changed the slot since the last boot.

*Actions.* `StartUpgrade`, `StartRevert`, `StartPreventRevert` are the
requirements of the tasks (`fwup.conf:111-118,177-184`,
`fwup-ops.conf:111-201`). One parameterised action stands for a task's `.a` and
`.b` variants, which the files write out twice; the variants were compared line
by line. `UnsetKey` ... `WriteGrubenv` are the operations, in the order of the
file: upgrade is *unset, trim, write, set, drop the global flag, set the
target's flag, clear the other's, activate, grubenv*. A rootfs write and a
`fat_write` take two steps, so that a cut finds the partition or file
incomplete. `Validate` is one write. `Boot` is the slot choice of
`grub.cfg:61-83`. `PowerCut` and `Abort` lose the rest of a task; no task has an
`on-error` section. `status` changes nothing; what it reports is the subject of
`StatusTruthful`, a theorem (`CarefulStatus`) without a run.

*Metadata.* Of the variables a task clears and sets, four are kept: platform
and architecture, which tasks test, and version and uuid, which `prevent-revert`
leaves behind. The others (author, description, product, VCS id, misc) are
cleared and set next to these and no task tests them.

### GrubBoard

`complete` is a sequence of operations (`CompleteOps`) in the order fwup
executes them: `on-init`, then the resources in archive order, then
`on-finish`. The installation may be cut and repeated until the board has
booted. `HandOver` shows that what a first boot finds is what `GrubAB` starts
from, so `GrubAB`'s `Init` is not an assumption for these boards.

### TrybootAB

*State.* As above, with `bootfs` for the boot partitions, `autoboot` for the
slot that `autoboot.txt` boots by default, `param` for the reboot parameter
`"0 tryboot"` held by the running system, and `try` for the firmware's one-time
flag. *Actions.* The tasks ask which partition `/` is on
(`require-path-at-offset`), so guards use `running`, not a variable on disk.
`BootSlot` is the meaning of the two `autoboot` files
(`fwup-common.conf:159-176`). `TryFails` is the firmware going back to the
default slot. `Bootable` does not compare the boot files with the rootfs,
because nothing does: a board boots a kernel of one image with the rootfs of
another. `Complete` is the stronger condition, and the properties say where it
holds.

### PiMigration

*State.* The variables of `TrybootAB` are the new layout. `oldBoot`,
`oldRootfs` and `oldData` say what of the old layout is intact, `table` which
partition table is on the disk, `oldActive` the slot the old table names.
Partitions of both layouts are extents in 512-byte blocks, with the sums of
`fwup-common.conf:70-98`. *Actions.* `MigrateOps` lists the operations of
`upgrade.old-a` and `upgrade.old-b` (`rpi4/fwup.conf.eex:127-261`; the two are
one list over `NewSlot`). `WriteExtent` formats or begins to write an extent
and ruins everything of either layout that it overlaps; `Fill` completes it;
`SetVariable` is one assignment; `WriteTable` is `mbr_write` with the boot
records of the logical partitions. `OldDown` and `AbortMigration` cut it,
`OldUpgrade` is an update of the old system by its own tasks between two
attempts. `BootNew` is the first boot from the new table; after it, `Live`
takes every step of `TrybootAB`.

*External.* The size of the old boot partitions is not in the repository;
38630 follows from the old rootfs A beginning right behind two of them
(77324 = 63 + 2 * 38630 + 1). The old system's own tasks are reduced to what
they leave. fwup writes one boot record per logical partition at the start of
the extended partition (`EBR_COUNT`).

An old system on slot B is safe until the new table is written. One on slot A
is not: the new autoboot partition lies on the old rootfs A, and the tasks say
"Do not power off or interrupt this update". Such a cut leaves a board that
does not boot, which is why deadlock is not checked. For an old slot B there is
a limit the files do not name: on rpi4 256288 blocks lie between the new rootfs
A (110080) and the old rootfs B (366368), while `assert-size-lte` admits
272666. `OldSlotBSpared` is checked at 256288 and holds up to there.

### GptImage and MkUfsImage

*Data.* The unit is a block of 512 bytes. A block is zero, a protective MBR, a
header, four partition entries, or content named after where it came from, so
that a block in the wrong place is another value. A header and an entry keep the
fields the script reads or writes; type GUID, unique GUID and attributes, which
it copies, are one field `id`. A CRC is the value it protects, wrapped, so a
corrupted structure is one whose CRC does not fit. Numbers are not scaled: 128
entries fill 32 blocks, the new front is 48, the backup table 40.

*State.* `source`, `src`, `translated` and `built` are the variables of
`main()`; `files` the three output files, which stay from one invocation to the
next; `touched` says whether this one has opened an output file. `tool` is the
copy of the script: rubik_pi3's has two tests that dragon_q6a's lacks, a floor
for the size (`AboveFloor`) and one on the place of the source's backup table
(in `Locatable`). All other lines of the two `main()`s are equal.

*Actions.* `Start` reads the command line and the input, which may be an output
of an earlier invocation. `CheckSize`, `Parse`, `Validate`, `Translate`,
`Build`, `Verify` and `Locate` are the steps in their order, with `Passes` as
the condition of each and `Reject` as the way out. Every `open` and every
`write` is a step of `WriteImg`, `WriteBackup` or `WriteFull`; `Interrupt` ends
an invocation before any of them. `SpliceZeros` follows Python's reading of
`body[a:b] = zeros` with negative and inverted bounds, which dragon_q6a's copy
can reach.

### BoardDisk

*State.* `disk` is the boot disk with sectors of `lba` blocks (NVMe or UFS),
`edl` the file being flashed, `stage` how far a flashing came, `from` the
command line of the image on the disk, `kernel` the partitions the running
kernel has read, `task` the fwup task with its remaining writes, `app` the
blocks the application has written. *Actions.* `Script` is any step of
`MkUfsImage`. `EdlBegin`, `EdlFinish` and `EdlCut` write a file where the
commands that `print_summary` prints put it. `Boot` reads the table the way
firmware and kernel do, primary copy first, and makes the filesystem if there is
none. `ExpandBegin` and `ExpandWrite` are `expand-data`, whose `gpt_write`
writes two copies in an order this repository does not tell; `ResetBegin` and
`ResetWrite` are `trim`, which has no effect without `--enable-trim`, and
`raw_memset`. The operator follows the warning of `fwup-ops.conf:44-55` and does
not run `expand-data` on 4096-byte sectors; the mutant of `SlotsSurvive` shows
what happens otherwise. The ops archive is that of the installed image
(`Layout`). Two things a host can do are left unclaimed. The two pieces of
invocations with different arguments, flashed on one disk, are stage `mixed`; it
does not count as `Installed`, since its primary table may name the backup of
another disk. And the files beside each other right after the script was killed
may be of two invocations; it prints no flash commands then, and `MayFlash` takes
files of a finished invocation only. `BackupMirrors` says of those that nothing of
a killed one is left in them.

### VenusDec

*State.* The variables of `main()` with their names, the position in the loop,
and the driver's side: buffers queued and done, pictures decoded and not yet
delivered, events. A stream is the sequence of its NAL units; `split_aus` looks
at one of them in each `SplitNal`, with `pos` for `i` and `open` for the bytes
from `au_start` on. *Actions.* One per part of the loop body. `DequeueEvent`,
`Harvest` and `QueueAu` handle one item at a time, so the driver may act between
two of them; `Reclaim` takes all finished OUTPUT buffers at once, which differs
only in a buffer that finishes meanwhile and is then taken one iteration later.
*External.* The driver reads buffers in order, announces the format once, gives
a frame per picture, ends a drain by a last frame, an empty last buffer or
`EPIPE` only, and may raise the EOS event before the last buffer is done. It may
stop altogether, once, or send a wrong event or a broken frame. `fault` records
the first such deviation, a failed call, or a poll that timed out although the
driver had something left to do.

## 3. Runs

| run | constants | shows | distinct states |
|---|---|---|---|
| `grub_any` | cuts anywhere, no reboot required | unconditional guarantees and the refinement | 778,048 |
| `grub_careful` | no cut inside a switch, reboot after it | bootable at every cut, running slot spared, a switch takes effect | 46,672 |
| `grub_board` | from blank media | hand-over to the update protocol, however the installation was cut | 319,946 |
| `try_any` | cuts anywhere, no reboot required | unconditional guarantees | 229,483 |
| `try_careful` | default slot changed without a cut, reboot after an upgrade or revert | bootable whenever the board is down, trials roll back, the board comes up | 4,073 |
| `pi_migration` | offsets and counts of rpi4, largest rootfs the old slot B tolerates | migration and the life after it | 34,971 |
| `ufs_image` | both scripts, 15 inputs and their own output, five sizes, two invocations | layout, contents and backup kept; no double conversion; fwup's images accepted | 16,194 |
| `ufs_board` | two images, both sector sizes, two conversions, any flashings, tasks and cuts | one valid table with the layout of the image at all times; data kept; tasks stay in the data partition | 37,697 |
| `venus` | four streams, two buffers a queue | termination, whole pictures, intact bitstream, verdict right both ways | 205,403 |
| `grub_noreboot`, `pi_migration_rpi3_64`, `ufs_stale` | as named | three places where the code does not do what a comment says | counterexamples |

The runs check what the parts promise. The strengthened invariants the proofs
rest on (`IInv`, `CarefulInv`, `BoardInv`, `InstallInv`, `MInv`, `MigratedInv`,
`UInv`, `DiskInv`, `LoopInv`, `DecInv`, `SplitInv`, `SoundInv`) and the type
invariants of `GrubAB` and `TrybootAB` were checked the same way while
the proofs were written, are proved now for every value of the constants, and
have no run any more; `ErrorWritesNothing`, that an error of `mk_ufs_image.py`
finds no output file opened, is a theorem only as well.

*Bounds.* The state of both protocols is finite for a finite set of images; no
counter is cut off. Three images suffice: the factory image, an update (any
upgrade replaces one image by the other or itself) and one that agrees on the
platform and differs in architecture, the only pair of metadata the guards can
confuse. A fourth image adds no case: every guard and property compares at most
two images with each other or one with the factory image. `grub_board` uses two,
since the installation writes one image only. `pi_migration` uses the real block
numbers, so nothing is scaled. x86_64 is `GrubAB` with `TracksSlotValidation = FALSE`; `grub_noreboot` is about
it, and the theorems hold for both values.

`MaxInvocations` is 2: an invocation depends on earlier ones through the output
files only, and a second one finds every combination of whole, cut and missing
files that a first one leaves. `UfsImages` has two regular images (one with the
slots out of order and a gap), one with too little behind its backup header, and
twelve that each break one condition of the script. Partitions are one or two
sectors of 4096 bytes long, as little as can be told apart; module sizes are the
smallest that fits, one sector less, a larger one, one below the floor and one
that is no whole number of sectors. `MbrLimit` is 25, so that the sector count
saturates for some modules. `BoardDisk` has a disk of 240 blocks and erases
`ResetBlocks` = 2 of 256 blocks, less than a partition as there. `VenusDec` has
two buffers for 4 and 8, `MIN_FRAMES` 2 for 10, `MAX_AUS` 4 for 256, 14
iterations for 4000 and 2 idle polls for 200: streams are longer than the
buffers, one is longer than `MAX_AUS` and one shorter than `MIN_FRAMES`, each
queue is full and empty in some state, and a sound driver needs fewer iterations
than there are, which `SoundDriverPasses` confirms.

*Fairness.* `FairSpec` assumes that a powered board boots (`WF(Boot)`), that
fwup finishes what it started unless it is cut (`WF(JobStep)`), and that
whoever switched slots reboots (`WF(switched /\ Reboot)`), which
Nerves.Runtime's upgrade procedure does. Nothing is assumed about power cuts
ceasing, about new tasks being started, or about the order in which an operator
starts them. `SwitchTakesEffect` and `ComesUp` need no more. `VenusDec` assumes
`WF(Program)`: the test is one process, the kernel schedules it, and `poll()`
returns after two seconds. Nothing is assumed of the driver, so `Terminates`
holds for one that never answers.

*Deadlock* is left unchecked where a board may really stop: in the runs with
cuts inside a switch, a board whose selected slot was overwritten stays at the
GRUB prompt or in the firmware; in `ufs_image`, `ufs_board` and `venus` the
invocations are used up or the program has ended.

### What the disagreements mean

Each `violation` run checks a comment of the source:

* `grub_noreboot`: "This task upgrades the B partition, so make sure we're running
  on A" (`x86_64/fwup.conf:269-270`, `rubik_pi3/base/fwup.conf:178-179`) is tested
  with `nerves_fw_active`, which an upgrade has already changed. The counterexample
  is a complete `upgrade.b` and, in the same boot, an `upgrade.a` that comes to its
  `raw_write`. The run takes x86_64, where two upgrades are the shortest way
  there; on the other two boards an upgrade stopped before its last variable,
  `revert.b` and `upgrade.a` are shorter.
* `pi_migration_rpi3_64`: the offsets "have been cleverly calculated so that
  APP_PART_OFFSET is the exact same" (`rpi3_64/fwup_include/fwup-common.conf:92-94`):
  154368 + 2 * 272666 = 699700 is not 77324 + 2 * 289044 = 655412. The sums of
  rpi5 differ too (1310544 and 1310759). Those of the other systems agree.
* `ufs_stale`: "locate the source's own (stale, 512-LBA) backup GPT via the
  parsed header" (`rubik_pi3/base/tools/mk_ufs_image.py:525`). BackupLBA names
  the backup header, and the entries lie in front of it. What is zeroed is the
  header and the 32 blocks behind; the old entries stay in the image, where
  nothing refers to them. For the same reason an intact image with fewer than 32
  blocks behind its backup header is refused as "truncated before its own backup
  GPT" (line 543): `FwupImageAccepted` names that case.

Further places where the files say more than they do have no run of their own:

* "Check that we're running on B" of `prevent-revert.a`
  (`rubik_pi3/base/fwup-ops.conf:112`) tests `nerves_fw_active` too. After an
  upgrade or a revert and before the reboot it unsets the metadata of the running
  slot and, with `--enable-trim`, trims its rootfs. `RunningSlotUntouched` therefore
  needs `OperatorSkipsReboot = FALSE`; `OfferedSlotTruthful` and the refinement hold
  without it.
* Writing `grubenv` last protects a programming that is aborted midway
  (`rubik_pi3/base/fwup.conf:20-22`), except between `nerves_fw_active` and
  `grubenv`. GRUB and fwup then disagree, and the next task treats as spare the
  slot GRUB boots: `AlwaysBootable` needs `CutsInSwitch = FALSE`. What the order of
  operations does give at such a cut is `CutSwitchBootable`: both slots are whole.
* "won't hurt anything" (`rpi4/fwup.conf.eex:371`) presumes that the default slot
  is the running one; after a revert it is the other one until the reboot:
  `UpgradeHarmless` needs `OperatorSkipsReboot = FALSE`.
* The parameter `"0 tryboot"` of a finished upgrade stays set when a second upgrade
  of the same boot invalidates and overwrites the slot and is stopped. The reboot
  tries what is left, and if that boots, `validate` accepts a slot without its
  platform, from which no upgrade is possible any more, or with the boot files of
  one image and the rootfs of another. `ValidatedUpgradable` fails with
  `OperatorSkipsReboot = TRUE` for this reason; `ValidatedBootable` does not.
* `rpi0_2/fwup.conf.eex:331` announces a test of platform and architecture and
  makes half of it: `OnlyBoardFirmware` needs `ChecksArch = TRUE`. So do
  `upgrade.old-a` and `upgrade.old-b` on every system but rpi3_64
  (`rpi4/fwup.conf.eex:132-133`); `PiMigration` follows them with
  `MigrationChecksArch`.
* After a revert the active slot keeps the flag `0` that an upgrade gave it,
  although "the fwup configuration for this device always validates"
  (`rubik_pi3/base/fwup-ops.conf:235`).
* `revert` on the Raspberry Pi reads only the validated flag, which
  `prevent-revert` clears after the "variables that fwup uses to allow reverting
  images" (`rpi4/fwup-ops.conf:51`), so a task cut in between leaves the revert
  possible.
* A module whose usable area just holds the data partition may be shorter than
  the image file, and the script accepts it, although the comment at
  `mk_ufs_image.py:311-315` wants to keep the flash from writing "past the end of
  the device". With `--full` the file then grows past `--disk-bytes` if the
  source's backup table lies beyond it; `BackupMirrors` states the length under
  that condition.
* `factory-reset` trims `APP_PART_COUNT` blocks (`rubik_pi3/base/fwup-ops.conf:101`),
  which is the data partition before it grew: "Erasing all writable data" leaves
  the rest to the new filesystem.

## 4. Proofs

All theorems hold for every set of images, platforms and architectures that
satisfies `ImagesAssumption` (the factory image is an image, `NoImage` and
`None` are distinct from what they must be distinct from) and for both values of
each Boolean constant unless the theorem assumes one.

**GrubAB.** The safety properties alone are not inductive: `OfferedSlotTruthful`
says nothing about a slot whose platform is unset, and that is the slot an
upgrade fills. `IInv` adds what a task in progress has established by its
position: which slot it works on relative to `nerves_fw_active`
(`JobTargetsSpare`), which operations belong to it (`JobShape`), which
variables are already cleared or set and whether the rootfs is complete
(`JobProgress`). The key step is `SetActive`: the target is the slot in force
from then on, and `JobProgress` says it is complete and described. From
`Inductive` follow `TypeCorrect`, `UpgradeRetriable`, `OffersTruthful`,
`BoardFirmware`, `RunningSlotSpared` and `Refinement`. `OneSlotValidated` needs
one more fact, `ValidationInv`: when the other slot's flag is cleared, the
target's is set. `CutSwitchBoots` is inductive relative to `IInv`: the task that
comes to `SetActive` finds both slots complete, and only `nerves_fw_active` and
`grubenv` change from there to its end. The refinement maps the slot in force to `nerves_fw_active` and
the stock of a slot to its rootfs if both platform and architecture are set.
Clearing the platform withdraws a slot, setting the architecture offers it, and
every other operation stutters.

The theorems `CarefulBoots`, `CarefulSparesRunning` and `CarefulStatus` assume
`CutsInSwitch = FALSE` and `OperatorSkipsReboot = FALSE`; their invariant
`CarefulInv` says that GRUB, fwup and the running system agree on the slot
except inside a switch and until the reboot (`Careful`). Neither assumption can
be dropped (section 3).

**GrubBoard.** What `GrubAB` starts from is itself proved. `InstallInv` says of
a board not yet booted that slot B and the global flag are untouched
(`Unshipped`), that the operations of `complete` executed so far have set their
variables (`InstallProgress`), and that boot files on the EFI partition mean a
finished environment (`BootFilesMark`): a repeated installation formats that
partition before it clears the environment, so boot files of an earlier try
never stand beside a half-written one. This holds at every cut and gives
`HandsOver`. From the first boot on `InstallInv` is `IInv` of `GrubAB`, whose
preservation is cited; `ShippedSafely` and `ShippedCarefully` are what
`GrubAB`'s theorems say, now of a board that was installed and not of one
assumed to be complete.

**TrybootAB.** `IInv` says that a task's target is never the running slot
(`JobSlot`), that the running slot's partitions are intact (`RunningIntact`),
that the target has lost its validated flag before its partitions may be
written (`TargetWithdrawn`), and that the running slot is validated while the
other one is invalidated (`RunningValidated`). It yields `RunningSpared`,
`RevertsToBootable` and `AlwaysFallback` for any operator and any cut.
`BoardFirmware` assumes `ChecksArch = TRUE`, that is, every system but rpi0_2.

The theorems `DownBootable`, `HarmlessUpgrade`, `NoDeadEnd` and `TrialsEnd`
assume `CutsInSwitch = FALSE` and `OperatorSkipsReboot = FALSE`. `CarefulInv`
adds where in its life the board is (`Phases`: no task follows a switch before
the reboot, the reboot parameter exists only in between) and which slots are
whole: a validated one, with its metadata unless `prevent-revert` has begun to
remove it (`ValidatedIntact`); the running one (`RunningComplete`); one to be
tried, which is not validated yet (`TrialIntact`); the target of an upgrade as
far as the upgrade has come (`Progress`). The default slot is validated or is
just being validated (`DefaultValidated`), a validated system runs from it
until a revert (`RunsDefault`), and a revert leads to a validated slot
(`RevertTarget`).

**PiMigration.** The theorems hold for every layout of which
`LayoutAssumption` holds: counts are numbers and the boot records end before
the new rootfs A. `NewLayoutDisjoint` derives from it that no operation of the
migration ruins what an earlier one wrote. `MInv` then follows the task:
`Eras` separates the old system, the migrated disk and the migrated board;
`MigrationProgress` collects what the operations so far have established, so
that `WriteTable` finds a complete slot (`NewLayoutBoots`); `HandOverInv` shows
that this implies `IInv` of `TrybootAB`, whose preservation is cited and not
proved again. Results: `MigratesToBootable`, `MigratedSafely` and, with the two
operating assumptions, `MigratedCarefully`. `DataSurvives` assumes that the data
partition has one offset in both layouts, as the comment on `APP_PART_OFFSET`
promises; `pi_migration_rpi3_64` shows a system where it has two.
`OldSlotBKept` assumes `SparesOldB`, three inequalities between the two layouts
that rpi4 satisfies for images of at most 256288 blocks.

**MkUfsImage.** The theorems hold for every set of source images whose fields
are unsigned and whose arrays are finite (`SourceAssumption`), for every command
line, both copies of the script and any number of invocations. No image needs to
be fwup's. The properties speak of finished invocations; `UInv` follows an
invocation there. `Progress` says for each `pc` which checks have passed and
that `src`, `translated` and `built` are what their functions return;
`FilesByStage` what the output files hold between two writes. The lemmas below
it compute: the new table parses back to the translated partitions
(`GptValid` and `parse_gpt` of the front at 4096-byte sectors), writes do not
overlap the blocks a later property reads, the splice of zeros starts behind the
last partition. `Sourced` and `OwnFile` give `ConvertedOnce`: block 1 of any
file the script has begun is zero, and a source has its header there.
`LayoutPreserved` and `BackupPaired` assume, through `Forward`, partitions that
do not end before they begin, `ContentsPreserved`, through `Orderly`, that they
lie apart and in front of the source's backup table. The script tests neither,
and fwup's images are so.

`FwupAccepted` is the converse, that no check rejects a good image. It speaks of
the inputs in `FwupSources`, of which `FwupWritten` is assumed: a valid table at
512-byte sectors whose array follows its header, partitions that pass
`validate_source`, apart from each other and in front of the backup table, "data"
last. What is left is to show that the translated partitions pass the tests of
`translate_partitions`, that the built table passes `self_verify`, and that
`Locatable` fails only for the short tail the property names.

**BoardDisk.** The theorems hold for every set of sources, every geometry, size
of the disk and number of erased blocks that satisfies `FwupAssumption` and
`LayoutAssumption` (the environment lies behind the front of a converted table
and in front of the first partition, and "data" is at least as long as what
`factory-reset` erases), and for both sector sizes. `DiskInv` stands on `UInv`:
a file that is flashed is one the script has finished. `Held` says when the disk
holds an installation at all: from the first complete piece on, and while the
second piece of the same invocation is written. It holds that the table in front
is one of two, as flashed or as `expand-data` leaves it (`FirstTable`,
`LastTable`), that no block of `Static` has changed, and that on UFS both headers
are those that `build_new_gpt` makes for a disk of this size (`PrimaryMade`,
`BackupMade`); this is why a primary and a backup flashed at different times fit.
`KernelKept` is needed since a kernel keeps the table it booted with: what it
knows is the first table or the one on the disk, and both begin "data" at the same
block. `AppKept` puts the application's blocks inside the data partition.
`EdlAlone` keeps flashing apart from the running system. Results:
`PartitionsSurvive`, `CopiesAgree`, `DataSurvives`, `StaleKernelSafe`, and for
the step `ResetWrite` `ResetConfined`. They hold for boards where `expand-data`
is not run on 4096-byte sectors, as the task file warns.

**VenusDec.** The theorems hold for every set of streams, any number of buffers
in either queue and every bound, and, unless they say so, for every behaviour of
the driver, faulty ones included. `InOrder` is the bookkeeping: the driver has
taken the first access units, the queue holds the following ones in order, in
pairwise different buffers that are neither free nor waiting to be dequeued.
`Counted` relates the two sides: frames counted plus sound buffers still to be
harvested are the pictures delivered without an error. `Stopped` is STOP behind
the last unit. Hence `Intact`, `StopsLast` and `Truthful`.

`WholePictures` assumes `PictureStreams`: a slice that continues a picture
follows a slice, as H.264 orders NAL units. `SplitInv` says that the unit begun
ends with the NAL unit before `pos` and holds the beginning of exactly one
picture as soon as it holds a slice.

`SoundPasses` is about a driver that neither fails nor lets a poll time out with
work left. It excludes each way to exit status 1, and `SoundInv` has a part for
each. `Announced`: the format is announced once, so "mid-stream resolution
change" does not occur, and the EOS event comes behind it. `BuffersKept`,
`Delivered` and `CaptureKept`: if nothing is ready and the driver has nothing to
do, some buffer would be free, so all units are queued, taken and announced and
the drain has come to its end, which is an answer; neither `poll timeout` nor
`sustained POLLERR` is left. `Verdicts`: by the time the end is known all
pictures but one are delivered, and all delivered ones are counted before the
loop ends. `Spent`: an iteration that does not end the loop has reclaimed an
access unit, harvested a frame, dequeued the announcement or been an idle poll
in front of it. So there are at most `2 * MAX_AUS + MAX_POLLERR + 1` of them,
and `IterationsAssumption` is that the bound of the loop is larger: 4000 in the
code, where the sum is 713.

**Only model-checked.** Liveness (`SwitchTakesEffect`, `ComesUp`, `Terminates`),
since the prover does not handle fairness, and that the images `FwupImage` builds
for the runs satisfy `FwupWritten`, which TLC evaluates as an assumption. Every
safety invariant and action property of a passing run is a theorem.

## 5. Assumptions and what is left out

* fwup runs one task at a time, and its writes reach the disk in the order of
  the task file. Any caching inside fwup is external and not
  modelled.
* A single write of the U-Boot environment block is atomic, as is a file's
  directory entry.
* Media start without an installation (`grub_board`), and the installation of a
  Raspberry Pi is complete before `TrybootAB` begins.
* The operator may start any task at any time when none is running; with
  `OperatorSkipsReboot = FALSE` not between a switch and its reboot.
* Every image in the model was built by this repository's rules: its metadata
  tells the truth about its contents, and the ops archive is the running
  image's.
* CRCs do not collide. A call that writes to an output file of
  `mk_ufs_image.py` is one step: a kill between two calls is modelled, a call
  that writes a part is not, nor is a source file that changes while it is read.
* A file flashed over EDL arrives in order, and a cut leaves the first 32 blocks
  or nothing new. `gpt_write` writes each copy of the table at once.
* The V4L2 driver grants as many buffers as it is asked for.
* GRUB, the Raspberry Pi firmware, fwup and Nerves.Runtime are external and
  modelled from how the files here use them. Kernel crashes after a successful
  load appear as power cuts; an image that boots and is faulty appears as one
  that the operator reverts.

**Not modelled.** `sync-base.sh` and the workflow (files copied and fragments
merged by hand in a checkout, where version control shows every half-done
state); `provision` and the environment blocks of `post-build.sh` (assignments
without a condition); the rounding error of `float` in `parse_size` above 2^53;
`print_summary` except for the flash commands; the boot-time scripts and the
build configuration (no state that outlives a call).

## 6. Plan

1. Done: `GrubAB` with proofs and refinement, `GrubBoard`, `TrybootAB` with
   proofs.
2. Done: `CarefulInv` of `TrybootAB` with theorems for all its safety
   properties. Left: an abstract trial-and-rollback specification for
   `TrybootAB` to implement.
3. Done: `PiMigration` with proofs. Left: the same run on the geometry of rpi5,
   whose old boot partitions have another size.
4. Done: `MkUfsImage`, `BoardDisk` and `VenusDec` with proofs.
5. Done: theorems for `FwupImageAccepted`, `BoardDisk` and the rest of
   `VenusDec`.
6. `BoardDisk` as an implementation of an abstract disk with one table.
7. `SyncBase`: installation of base files, interruption, and the drift test.
8. Done: `GrubBoard` with proofs. Left: an installation over media that holds
   another one.
