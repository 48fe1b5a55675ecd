-------------------------- MODULE BoardDiskProofs ---------------------------
(***************************************************************************)
(* Proofs about BoardDisk: the table, the environment, the partitions and  *)
(* the application's data on the boot disk, for every layout fwup writes,  *)
(* every size of disk, and flashings, boots, tasks and cuts in any order.  *)
(***************************************************************************)
EXTENDS BoardDiskInv, MkUfsImageProofs

-----------------------------------------------------------------------------
(***************************************************************************)
(* The layout of an image that fwup has written.                           *)
(***************************************************************************)
\* The partition of a name, where names tell partitions apart.
Distinct(parts) == \A p, q \in parts : p.name = q.name => p = q

LEMMA NamedIs ==
    ASSUME NEW parts, Distinct(parts), NEW p \in parts
    PROVE  Named(parts, p.name) = p
<1>1. Named(parts, p.name) = CHOOSE q \in parts : q.name = p.name
  BY DEF Named
<1>2. \A q \in parts : q.name = p.name <=> q = p
  BY DEF Distinct
<1> QED
  BY <1>1, <1>2

\* What the proofs use of a layout with its backup header at block backup of a
\* file of len blocks.
IsLayout(parts, backup, len) ==
    /\ ValidParts(parts) /\ Distinct(parts)
    /\ {p.name : p \in parts} = EXPECTED_PARTITION_NAMES
    /\ backup \in Nat /\ len \in Nat /\ backup < len
    /\ LET data == Named(parts, "data")
       IN /\ data \in parts /\ data.name = "data" /\ data = Highest(parts)
          /\ \A p \in parts : p.name # "data" => p # data /\ p.last < data.first
          /\ EnvAt < data.first
          /\ data.first + ResetBlocks <= data.last + 1
    /\ \A p \in parts :
         /\ p \in Entry /\ p.slot < 128
         /\ p.first \in Nat /\ p.last \in Nat /\ p.slot \in Nat
         /\ p.first % 8 = 0 /\ (p.last + 1) % 8 = 0
         /\ p.first >= 48 /\ p.first <= p.last /\ p.last < backup - 32
         /\ EnvAt < p.first

LEMMA FwupLayout ==
    ASSUME NEW x \in FwupSources
    PROVE  LET f == Source[x]
               parts == parse_gpt(f, 1).partitions
           IN /\ IsImage(f) /\ FrontTable(f, 1)
              /\ IsLayout(parts, f.at[1].backup_lba, f.len)
              /\ EnvAt \in Nat /\ EnvAt >= 48 /\ EnvAt < f.len
              /\ f.at[EnvAt] = Content("env", 0)
              /\ parse_gpt(f, 1).backup_lba = f.at[1].backup_lba
              /\ parse_gpt(f, 1).entries_len = 32
<1> DEFINE f == Source[x]
           parts == parse_gpt(f, 1).partitions
           H == Highest(parts)
<1>1. IsImage(f) /\ \A b \in 0 .. f.len - 1 : WellFormed(f.at[b])
  BY ToolAssumption, SourceAssumption
<1>2. FwupWritten(f)
  BY FwupAssumption
<1>3. /\ GptValid(f, 1) /\ validate_source(parse_gpt(f, 1))
      /\ f.at[1].entries_lba = 2 /\ f.at[1].entries_len = 32
      /\ f.at[1].backup_lba < f.len
      /\ Orderly(parts, f.at[1].backup_lba)
      /\ H.name = "data" /\ \A p \in parts : p.slot < 128
  BY <1>2, Sizes DEF FwupWritten
<1>4. FrontTable(f, 1)
  BY <1>3, Sizes DEF FrontTable
<1>5. ValidParts(parts)
  BY <1>1, <1>3, ValidImage
<1>6. f.at[1].backup_lba \in Nat /\ parse_gpt(f, 1).backup_lba = f.at[1].backup_lba
      /\ parse_gpt(f, 1).entries_len = 32
  <2>1. parse_gpt(f, 1).backup_lba = f.at[1].backup_lba
        /\ parse_gpt(f, 1).entries_len = f.at[1].entries_len
    BY DEF parse_gpt
  <2> QED BY <1>1, <1>3, <2>1, ParsedImage
<1>7. /\ EnvAt \in Nat /\ EnvAt >= 48 /\ f.at[EnvAt] = Content("env", 0)
      /\ \A p \in parts : EnvAt < p.first
      /\ Named(parts, "data").first + ResetBlocks <= Named(parts, "data").last + 1
  BY DiskAssumption, LayoutAssumption, Sizes
<1> HIDE DEF f, parts
<1>8. /\ Distinct(parts) /\ H \in parts /\ parts \subseteq Entry
      /\ {p.name : p \in parts} = EXPECTED_PARTITION_NAMES
      /\ \A p \in parts : AsHigh(H, p)
      /\ \A p \in parts : /\ p.first \in Nat /\ p.last \in Nat /\ p.slot \in Nat
                          /\ p.first % 8 = 0 /\ (p.last + 1) % 8 = 0 /\ p.first >= 48
  BY <1>5 DEF ValidParts, Distinct
<1> HIDE DEF H
<1>9. Named(parts, "data") = H
  BY <1>3, <1>8, NamedIs
<1>10. \A p \in parts : /\ p.first <= p.last /\ p.last < f.at[1].backup_lba - 32
                        /\ p.first <= H.first
                        /\ p.name # "data" => p # H /\ p.last < H.first
  BY <1>3, <1>8, Sizes DEF Orderly, Apart, AsHigh
<1>11. f.len \in Nat /\ EnvAt < f.len
  <2>1. H.first \in Nat /\ H.last \in Nat /\ EnvAt < H.first /\ H.first <= H.last
        /\ H.last < f.at[1].backup_lba - 32
    BY <1>7, <1>8, <1>10
  <2>2. f.len \in Nat
    BY <1>1 DEF IsImage
  <2> QED BY <1>3, <1>6, <1>7, <2>1, <2>2
<1>12. IsLayout(parts, f.at[1].backup_lba, f.len)
  BY <1>3, <1>5, <1>6, <1>7, <1>8, <1>9, <1>10, <1>11 DEF IsLayout, H
<1> QED
  BY <1>1, <1>4, <1>6, <1>7, <1>11, <1>12 DEF f, parts

-----------------------------------------------------------------------------
(***************************************************************************)
(* Tables in front: only the blocks up to the end of the array matter.     *)
(***************************************************************************)
\* Two files that agree on the blocks of an array have the same slice there.
LEMMA SameSlice ==
    ASSUME NEW d, IsImage(d), NEW e, IsImage(e), NEW a \in Nat,
           d.len >= a + 32, e.len >= a + 32,
           \A i \in 0 .. 31 : e.at[a + i] = d.at[a + i]
    PROVE  Slice(e, a, a + 32) = Slice(d, a, a + 32)
<1>1. \A f : f.len \in Nat /\ f.len >= a + 32 =>
             Slice(f, a, a + 32) = [len |-> 32, at |-> [i \in 0 .. 31 |-> f.at[a + i]]]
  <2> SUFFICES ASSUME NEW f, f.len \in Nat, f.len >= a + 32
               PROVE  Slice(f, a, a + 32) = [len |-> 32, at |-> [i \in 0 .. 31 |-> f.at[a + i]]]
    OBVIOUS
  <2> DEFINE k == Greatest(0, Least(a + 32, f.len) - a)
  <2>1. k = 32
    BY DEF Greatest, Least
  <2>2. Slice(f, a, a + 32) = [len |-> k, at |-> [i \in 0 .. k - 1 |-> f.at[a + i]]]
    BY DEF Slice
  <2>3. 0 .. k - 1 = 0 .. 31
    BY <2>1
  <2> HIDE DEF k
  <2> QED BY <2>1, <2>2, <2>3
<1>2. d.len \in Nat /\ e.len \in Nat
  BY DEF IsImage
<1>3. [i \in 0 .. 31 |-> e.at[a + i]] = [i \in 0 .. 31 |-> d.at[a + i]]
  OBVIOUS
<1> QED
  BY <1>1, <1>2, <1>3

LEMMA FrontAgrees ==
    ASSUME NEW ss \in {1, 8}, NEW d, IsImage(d), FrontTable(d, ss),
           NEW e, IsImage(e), e.len >= 2 * ss + 32,
           \A b \in 0 .. 2 * ss + 31 : e.at[b] = d.at[b]
    PROVE  /\ FrontTable(e, ss) /\ parse_gpt(e, ss) = parse_gpt(d, ss)
           /\ e.at[ss] = d.at[ss]
<1> DEFINE h == d.at[ss]
           a == 2 * ss
<1>1. /\ d.len \in Nat /\ e.len \in Nat /\ a \in Nat /\ e.len >= a + 32 /\ e.len >= 6 * ss
      /\ 0 \in 0 .. a + 31 /\ ss \in 0 .. a + 31
      /\ \A i \in 0 .. 31 : a + i \in 0 .. a + 31
  <2>1. d.len \in Nat /\ e.len \in Nat
    BY DEF IsImage
  <2>2. CASE ss = 1 BY <2>1, <2>2
  <2>3. CASE ss = 8 BY <2>1, <2>3
  <2> QED BY <2>2, <2>3
<1>2. h.entries_lba = 2 /\ h.entries_len = 32 /\ GptValid(d, ss)
  BY Sizes DEF FrontTable
<1>3. e.at[ss] = h /\ e.at[0] = d.at[0] /\ \A i \in 0 .. 31 : e.at[a + i] = d.at[a + i]
  BY <1>1
<1>4. \A f : EntriesOf(f, h, ss) = Slice(f, a, a + 32)
  BY <1>2 DEF EntriesOf
<1> HIDE DEF h, a
<1>5. d.len >= a + 32
  <2>1. Slice(d, a, a + 32).len = 32
    BY <1>2, <1>4 DEF GptValid, EntriesValid, h
  <2>2. Sliced(Slice(d, a, a + 32), d, a, a + 32)
    BY <1>1, SliceImage
  <2>3. 32 = Greatest(0, Least(a + 32, d.len) - a)
    BY <2>1, <2>2 DEF Sliced
  <2> QED BY <1>1, <2>3 DEF Greatest, Least
<1>6. EntriesOf(e, h, ss) = EntriesOf(d, h, ss)
  <2>1. Slice(e, a, a + 32) = Slice(d, a, a + 32)
    <3>1. \A i \in 0 .. 31 : e.at[a + i] = d.at[a + i]
      BY <1>3
    <3>2. a \in Nat /\ e.len >= a + 32 /\ d.len >= a + 32
      BY <1>1, <1>5
    <3> QED BY <3>1, <3>2, SameSlice, Zenon
  <2> QED BY <1>4, <2>1
<1>7. GptValid(e, ss)
  <2>1. EntriesValid(e, h, ss)
    BY <1>2, <1>6 DEF GptValid, EntriesValid, h
  <2>2. e.at[0].kind = "mbr" /\ e.at[0].signed /\ e.at[0].ptype = "gpt"
    BY <1>2, <1>3, Zenon DEF GptValid
  <2>3. HeaderValid(h)
    BY <1>2 DEF GptValid, h
  <2> QED BY <1>1, <1>3, <2>1, <2>2, <2>3 DEF GptValid
<1>8. parse_gpt(e, ss) = parse_gpt(d, ss)
  BY <1>3, <1>6 DEF parse_gpt, h
<1> QED
  BY <1>2, <1>3, <1>7, <1>8, Sizes DEF FrontTable, h

\* The first blocks gpt_write makes are such a table.
LEMMA FwupFrontTable ==
    ASSUME NEW parts, NEW n \in Nat, NEW guid, \A p \in parts : p.slot \in Nat /\ p.slot < 128
    PROVE  LET f == FwupFront(parts, n, guid)
           IN /\ IsImage(f) /\ f.len = 34
              /\ FrontTable(f, 1) /\ parse_gpt(f, 1).partitions = parts
<1> DEFINE f == FwupFront(parts, n, guid)
           h == FwupHeader(1, n - 1, 2, parts, n, guid)
           at == [b \in 0 .. 33 |->
                    IF b = 0 THEN build_protective_mbr(n)
                    ELSE IF b = 1 THEN h ELSE EntriesBlock(parts, b - 2)]
<1>1. f = [len |-> 34, at |-> at]
  BY Sizes DEF FwupFront, FWUP_FRONT
<1>2. /\ HeaderValid(h) /\ h.entries_lba = 2 /\ h.entries_len = 32
      /\ h.entries_crc = FileCrc(build_entries_bytes(parts))
  BY MadeHeader DEF FwupHeader
<1> HIDE DEF f, h
<1>3. /\ at[0] = build_protective_mbr(n) /\ at[1] = h
      /\ \A i \in 0 .. 31 : at[2 + i] = EntriesBlock(parts, i)
      /\ at = [b \in 0 .. 33 |-> at[b]]
  OBVIOUS
<1> HIDE DEF at
<1>4. /\ f.len = 34 /\ f.at[0] = build_protective_mbr(n) /\ f.at[1] = h
      /\ \A i \in 0 .. 31 : f.at[2 + i] = EntriesBlock(parts, i)
      /\ IsImage(f)
  BY <1>1, <1>3 DEF IsImage
<1>5. /\ GptValid(f, 1)
      /\ parse_gpt(f, 1).partitions = {p \in parts : p.slot \div 4 \in 0 .. 31}
  <2>1. 2 * 1 = 2 /\ 34 >= 2 * 1 + 32 /\ 1 \in {1, 8}
    OBVIOUS
  <2> QED BY <1>2, <1>4, <2>1, FrontRead
<1>6. \A p \in parts : p.slot \div 4 \in 0 .. 31
  <2>1. \A k \in Nat : k < 128 => k \div 4 \in 0 .. 31
    OBVIOUS
  <2> QED BY <2>1
<1>7. {p \in parts : p.slot \div 4 \in 0 .. 31} = parts
  BY <1>6
<1>8. FrontTable(f, 1)
  BY <1>2, <1>4, <1>5, Sizes DEF FrontTable
<1> QED
  BY <1>4, <1>5, <1>7, <1>8 DEF f

\* Nor is the backup copy longer than its room.
LEMMA FwupBackupImage ==
    ASSUME NEW parts, NEW n, NEW guid
    PROVE  IsImage(FwupBackup(parts, n, guid)) /\ FwupBackup(parts, n, guid).len = 33
<1> DEFINE at == [b \in 0 .. 32 |->
                    IF b < 32 THEN EntriesBlock(parts, b)
                    ELSE FwupHeader(n - 1, 1, n - FWUP_BACKUP, parts, n, guid)]
<1>1. FwupBackup(parts, n, guid) = [len |-> 33, at |-> at]
  BY Sizes DEF FwupBackup, FWUP_BACKUP
<1>2. at = [b \in 0 .. 32 |-> at[b]]
  OBVIOUS
<1> HIDE DEF at
<1> QED
  BY <1>1, <1>2 DEF IsImage

-----------------------------------------------------------------------------
(***************************************************************************)
(* The tables a disk can have: they name the partitions of the layout and  *)
(* put them at the same bytes.                                             *)
(***************************************************************************)
\* q stands for p in a table for sectors of lba blocks.
StandsFor(q, p) ==
    /\ q.name = p.name /\ q.first * lba = p.first
    /\ q.first \in Nat /\ q.last \in Nat
    /\ q.slot = p.slot
    /\ IF p.name = "data"
       THEN (q.last + 1) * lba >= p.last + 1 /\ (q.last + 1) * lba + BackupBlocks <= DiskBlocks
       ELSE (q.last + 1) * lba = p.last + 1

Maps(T) ==
    /\ Distinct(T) /\ {q.name : q \in T} = EXPECTED_PARTITION_NAMES
    /\ \A p \in Layout : Named(T, p.name) \in T /\ StandsFor(Named(T, p.name), p)
    /\ \A q \in T : \E p \in Layout : q = Named(T, p.name)

LEMMA MapsBy ==
    ASSUME Distinct(Layout), {p.name : p \in Layout} = EXPECTED_PARTITION_NAMES,
           NEW m, \A p \in Layout : StandsFor(m[p], p)
    PROVE  Maps({m[p] : p \in Layout})
<1> DEFINE T == {m[p] : p \in Layout}
<1>1. \A p \in Layout : m[p].name = p.name
  BY DEF StandsFor
<1>2. Distinct(T)
  BY <1>1 DEF Distinct
<1>3. {q.name : q \in T} = EXPECTED_PARTITION_NAMES
  BY <1>1
<1>4. \A p \in Layout : Named(T, p.name) = m[p]
  <2> SUFFICES ASSUME NEW p \in Layout PROVE Named(T, p.name) = m[p]
    OBVIOUS
  <2>1. m[p] \in T
    OBVIOUS
  <2> HIDE DEF T
  <2>2. Named(T, m[p].name) = m[p]
    BY <1>2, <2>1, NamedIs
  <2> QED BY <1>1, <2>2
<1>5. \A p \in Layout : m[p] \in T
  OBVIOUS
<1>6. \A q \in T : \E p \in Layout : q = m[p]
  OBVIOUS
<1> HIDE DEF T
<1> QED
  BY <1>2, <1>3, <1>4, <1>5, <1>6 DEF Maps, T

LEMMA Blocked ==
    /\ lba = 1 => BackupBlocks = 33
    /\ lba = 8 => BackupBlocks = 40
BY Sizes DEF BackupBlocks, FWUP_BACKUP

LEMMA TablesMap ==
    ASSUME from.input \in FwupSources, lba \in {1, 8}, disk.len = DiskBlocks, Fits,
           NEW T, T \in {FirstTable, LastTable}
    PROVE  Maps(T)
<1> DEFINE B == Image.at[1].backup_lba
<1>1. IsLayout(Layout, B, Image.len)
  BY FwupLayout, Sizes DEF Layout, Image
<1>2. /\ Distinct(Layout) /\ {p.name : p \in Layout} = EXPECTED_PARTITION_NAMES
      /\ DiskBlocks \in Nat /\ DiskBlocks % 8 = 0
      /\ Highest(Layout) \in Layout /\ Highest(Layout).name = "data"
  BY <1>1, DiskAssumption, Sizes DEF IsLayout
<1>3. \A p \in Layout :
        /\ p \in Entry /\ p.first \in Nat /\ p.last \in Nat
        /\ p.first % 8 = 0 /\ (p.last + 1) % 8 = 0 /\ p.first <= p.last
        /\ p.first >= 48
        /\ p.last < DiskBlocks - BackupBlocks
        /\ p.name = "data" <=> p = Highest(Layout)
  BY <1>1, <1>2 DEF IsLayout, Fits, Distinct
<1>4. CASE lba = 1 /\ T = Layout
  <2> DEFINE m == [p \in Layout |-> p]
  <2>1. \A p \in Layout : StandsFor(m[p], p)
    BY <1>2, <1>3, <1>4, Blocked DEF StandsFor
  <2>2. T = {m[p] : p \in Layout}
    BY <1>4
  <2> HIDE DEF m
  <2> QED BY <1>2, <2>1, <2>2, MapsBy
<1>5. CASE lba = 1 /\ T = Expanded
  <2> DEFINE m == [p \in Layout |->
                     [p EXCEPT !.last = IF p.name = "data" THEN DiskBlocks - 34 ELSE @]]
  <2>1. ASSUME NEW p \in Layout PROVE StandsFor(m[p], p)
    <3>1. /\ m[p].name = p.name /\ m[p].first = p.first /\ m[p].slot = p.slot
          /\ m[p].last = IF p.name = "data" THEN DiskBlocks - 34 ELSE p.last
      BY <1>3 DEF Entry
    <3> HIDE DEF m
    <3>2. p.first * 1 = p.first /\ p.last < DiskBlocks - 33 /\ BackupBlocks = 33
      BY <1>3, <1>5, Blocked
    <3> QED BY <1>2, <1>3, <1>5, <3>1, <3>2 DEF StandsFor
  <2>2. T = {m[p] : p \in Layout}
    BY <1>5, Sizes DEF Expanded, FWUP_FRONT
  <2> HIDE DEF m
  <2> QED BY <1>2, <2>1, <2>2, MapsBy
<1>6. CASE lba = 8 /\ T = Converted
  <2> DEFINE m == [p \in Layout |->
                     [p EXCEPT !.first = new_first(p),
                               !.last = IF p = Highest(Layout) THEN DiskBlocks \div 8 - 6
                                        ELSE new_last(p)]]
  <2>1. ASSUME NEW p \in Layout PROVE StandsFor(m[p], p)
    <3>1. /\ m[p].name = p.name /\ m[p].first = new_first(p) /\ m[p].slot = p.slot
          /\ m[p].last = IF p.name = "data" THEN DiskBlocks \div 8 - 6 ELSE new_last(p)
      BY <1>3 DEF Entry
    <3> HIDE DEF m
    <3>2. new_first(p) \in Nat /\ new_first(p) * 8 = p.first
      BY <1>3, Sizes DEF new_first
    <3>3. new_last(p) \in Nat /\ (new_last(p) + 1) * 8 = p.last + 1
      BY <1>3, Sizes DEF new_last
    <3>4. /\ DiskBlocks \div 8 \in Nat /\ (DiskBlocks \div 8) * 8 = DiskBlocks
          /\ p.last < DiskBlocks - 40 /\ BackupBlocks = 40
      BY <1>2, <1>3, <1>6, Blocked
    <3>5. DiskBlocks \div 8 - 6 \in Nat
      BY <1>3, <3>4
    <3> QED BY <1>3, <1>6, <3>1, <3>2, <3>3, <3>4, <3>5 DEF StandsFor
  <2>2. T = {m[p] : p \in Layout}
    BY <1>6, Sizes DEF Converted
  <2> HIDE DEF m
  <2> QED BY <1>2, <2>1, <2>2, MapsBy
<1> QED
  BY <1>4, <1>5, <1>6, Sizes DEF FirstTable, LastTable

\* Where the data partition lies in any of them.
LEMMA DataRange ==
    ASSUME from.input \in FwupSources, lba \in {1, 8}, disk.len = DiskBlocks, Fits,
           NEW T, T \in {FirstTable, LastTable}
    PROVE  LET data == Named(T, "data")
           IN /\ data.first * lba = DataStart /\ DataStart \in Nat /\ DataStart >= 48
              /\ DataEnd(T) \in Nat /\ DataEnd(T) = (data.last + 1) * lba
              /\ Named(Layout, "data").last + 1 <= DataEnd(T)
              /\ DataStart < DataEnd(T)
              /\ DataStart + ResetBlocks <= DataEnd(T)
              /\ DataEnd(T) <= DiskBlocks - BackupBlocks
              /\ DataEnd(FirstTable) <= DataEnd(T)
<1> DEFINE p == Named(Layout, "data")
           q == Named(T, "data")
<1>1. IsLayout(Layout, Image.at[1].backup_lba, Image.len)
  BY FwupLayout, Sizes DEF Layout, Image
<1>2. /\ p \in Layout /\ p.name = "data" /\ p.first \in Nat /\ p.last \in Nat
      /\ p.first >= 48 /\ p.first <= p.last /\ p.first + ResetBlocks <= p.last + 1
  BY <1>1 DEF IsLayout
<1>3. StandsFor(q, p)
  BY <1>2, TablesMap DEF Maps
<1>4. DataStart = p.first /\ DataEnd(T) = (q.last + 1) * lba
  BY DEF DataStart, DataEnd
<1> HIDE DEF p, q
<1>5. /\ q.first * lba = p.first /\ q.first \in Nat /\ q.last \in Nat
      /\ (q.last + 1) * lba >= p.last + 1
      /\ (q.last + 1) * lba + BackupBlocks <= DiskBlocks
  BY <1>2, <1>3 DEF StandsFor
<1>6. DiskBlocks \in Nat /\ ResetBlocks \in Nat /\ BackupBlocks \in Nat
      /\ (q.last + 1) * lba \in Nat
  <2>1. BackupBlocks \in Nat
    BY Blocked
  <2>2. CASE lba = 1 BY <1>5, <2>1, <2>2, DiskAssumption
  <2>3. CASE lba = 8 BY <1>5, <2>1, <2>3, DiskAssumption
  <2> QED BY <2>2, <2>3
<1>7. DataEnd(FirstTable) <= DataEnd(T)
  <2>1. CASE T = FirstTable
    BY <1>4, <1>6, <2>1
  <2>2. CASE T # FirstTable
    <3>1. lba = 1 /\ FirstTable = Layout
      BY <2>2, Sizes DEF FirstTable, LastTable
    <3>2. DataEnd(FirstTable) = (p.last + 1) * lba
      BY <3>1 DEF DataEnd, p
    <3> QED BY <1>2, <1>4, <1>5, <3>1, <3>2
  <2> QED BY <2>1, <2>2
<1> QED
  BY <1>2, <1>4, <1>5, <1>6, <1>7 DEF p, q

\* It ends highest in the last of them.
LEMMA LastEnds ==
    ASSUME from.input \in FwupSources, lba \in {1, 8}, disk.len = DiskBlocks, Fits,
           NEW T, T \in {FirstTable, LastTable}
    PROVE  DataEnd(T) <= DataEnd(LastTable)
<1>1. CASE lba = 8
  <2>1. T = LastTable
    BY <1>1, Sizes DEF FirstTable, LastTable
  <2> QED BY <1>1, <2>1, DataRange
<1>2. CASE lba = 1
  <2> DEFINE p == Named(Layout, "data")
             q == [p EXCEPT !.last = DiskBlocks - 34]
  <2>1. /\ p \in Layout /\ p.name = "data" /\ p \in Entry
    BY FwupLayout, Sizes DEF Layout, Image, IsLayout
  <2>2. q = [p EXCEPT !.last = IF p.name = "data" THEN DiskBlocks - 34 ELSE @]
    BY <2>1
  <2>3. q \in Expanded
    BY <2>1, <2>2, Sizes DEF Expanded, FWUP_FRONT
  <2>4. q.name = "data" /\ q.last = DiskBlocks - 34
    BY <2>1 DEF Entry
  <2> HIDE DEF p, q
  <2>5. LastTable = Expanded
    BY <1>2, Sizes DEF LastTable
  <2>6. Distinct(LastTable)
    BY TablesMap DEF Maps
  <2>7. Named(LastTable, "data") = q
    BY <2>3, <2>4, <2>5, <2>6, NamedIs
  <2>8. DataEnd(LastTable) = (DiskBlocks - 34 + 1) * lba
    BY <2>4, <2>7 DEF DataEnd
  <2>9. DataEnd(T) \in Nat /\ DataEnd(T) <= DiskBlocks - BackupBlocks /\ BackupBlocks = 33
    BY <1>2, DataRange, Blocked
  <2> QED BY <1>2, <2>8, <2>9, DiskAssumption
<1> QED
  BY <1>1, <1>2

\* The environment and the other partitions lie in front of it, behind the
\* table and within what main() copies of the image.
LEMMA StaticRange ==
    ASSUME from.input \in FwupSources, lba \in {1, 8}, Fits, NEW b \in Static
    PROVE  /\ b \in Nat /\ b >= 48 /\ b < DataStart
           /\ b < DiskBlocks - BackupBlocks
           /\ b < Image.at[1].backup_lba - 32
           /\ b < Image.len
<1> DEFINE data == Named(Layout, "data")
           B == Image.at[1].backup_lba
<1>1. /\ IsLayout(Layout, B, Image.len) /\ EnvAt \in Nat /\ EnvAt >= 48
  BY FwupLayout, Sizes DEF Layout, Image
<1>2. /\ B \in Nat /\ Image.len \in Nat /\ B < Image.len
      /\ data \in Layout /\ data.first \in Nat /\ data.last \in Nat
      /\ data.first <= data.last
      /\ EnvAt < data.first /\ data.last < B - 32
      /\ data.last < DiskBlocks - BackupBlocks
      /\ DiskBlocks \in Nat /\ BackupBlocks \in Nat
  BY <1>1, Blocked, DiskAssumption DEF IsLayout, Fits
<1>3. CASE b = EnvAt
  BY <1>1, <1>2, <1>3 DEF DataStart
<1>4. ASSUME NEW p \in Layout, p.name # "data", b \in Blocks(p, SRC_SECTOR)
      PROVE  b \in Nat /\ b >= 48 /\ b < data.first
  <2>1. p.first \in Nat /\ p.last \in Nat /\ p.first >= 48 /\ p.last < data.first
    BY <1>1, <1>4 DEF IsLayout
  <2>2. b \in p.first .. p.last
    BY <1>4, <2>1, Sizes DEF Blocks
  <2> QED BY <1>2, <2>1, <2>2
<1>5. b = EnvAt \/ \E p \in Layout : p.name # "data" /\ b \in Blocks(p, SRC_SECTOR)
  BY DEF Static
<1>6. b \in Nat /\ b >= 48 /\ b < data.first
  BY <1>1, <1>2, <1>3, <1>4, <1>5
<1> QED
  BY <1>2, <1>6 DEF DataStart

-----------------------------------------------------------------------------
(***************************************************************************)
(* Writes to the disk that leave it installed.                             *)
(***************************************************************************)
\* Writes behind the other partitions.
LEMMA InsideData ==
    ASSUME from.input \in FwupSources, lba \in {1, 8}, Fits,
           disk.len = DiskBlocks, IsImage(disk), KeptOn(disk),
           NEW e, IsImage(e), e.len = DiskBlocks,
           \A b \in 0 .. DiskBlocks - 1 : b < DataStart => e.at[b] = disk.at[b]
    PROVE  KeptOn(e) /\ parse_gpt(e, lba) = parse_gpt(disk, lba)
<1>1. /\ DataStart \in Nat /\ DataStart >= 48 /\ DiskBlocks \in Nat /\ BackupBlocks \in Nat
      /\ DataStart < DiskBlocks - BackupBlocks
  BY DataRange, DiskAssumption, Blocked
<1>2. \A b \in 0 .. 2 * lba + 31 : e.at[b] = disk.at[b]
  <2> SUFFICES ASSUME NEW b \in 0 .. 2 * lba + 31 PROVE e.at[b] = disk.at[b]
    OBVIOUS
  <2>1. b \in 0 .. 47
    <3>1. CASE lba = 1 BY <3>1
    <3>2. CASE lba = 8 BY <3>2
    <3> QED BY <3>1, <3>2
  <2> QED BY <1>1, <2>1
<1>3. DiskBlocks >= 2 * lba + 32
  <2>1. CASE lba = 1 BY <1>1, <2>1
  <2>2. CASE lba = 8 BY <1>1, <2>2
  <2> QED BY <2>1, <2>2
<1>4. /\ FrontTable(e, lba) /\ parse_gpt(e, lba) = parse_gpt(disk, lba)
      /\ e.at[lba] = disk.at[lba]
  BY <1>2, <1>3, FrontAgrees DEF KeptOn
<1>5. \A b \in Static : e.at[b] = Image.at[b]
  <2> SUFFICES ASSUME NEW b \in Static PROVE e.at[b] = Image.at[b]
    OBVIOUS
  <2>1. b \in Nat /\ b < DataStart
    BY StaticRange
  <2> QED BY <1>1, <2>1 DEF KeptOn
<1>6. lba = 8 => PrimaryMade(e)
  BY <1>4, Sizes DEF KeptOn, PrimaryMade
<1>7. KeptOn(e)
  BY <1>4, <1>5, <1>6, Sizes DEF KeptOn
<1> QED
  BY <1>4, <1>7

\* Writes in front of the backup table of a UFS disk.
LEMMA BackupStays ==
    ASSUME DiskBlocks >= 40, BackupMade(disk),
           NEW e, \A b \in 0 .. DiskBlocks - 1 : b >= DiskBlocks - 40 => e.at[b] = disk.at[b]
    PROVE  BackupMade(e)
<1>1. DiskBlocks \in Nat
  BY DiskAssumption
<1>2. e.at[DiskBlocks - 8] = disk.at[DiskBlocks - 8]
  BY <1>1
<1>3. \A i \in 0 .. 31 : e.at[DiskBlocks - 40 + i] = disk.at[DiskBlocks - 40 + i]
  BY <1>1
<1> QED
  BY <1>2, <1>3, Sizes DEF BackupMade

-----------------------------------------------------------------------------
(***************************************************************************)
(* Steps.  While neither the disk nor the installed image is exchanged,    *)
(* what is said of the layout stays.                                       *)
(***************************************************************************)
Steady == UNCHANGED << lba, from >> /\ disk'.len = disk.len

LEMMA SameLayout ==
    ASSUME Steady
    PROVE  /\ Layout' = Layout /\ Image' = Image /\ Sized' = Sized
           /\ Fits' = Fits /\ BackupBlocks' = BackupBlocks
           /\ FirstTable' = FirstTable /\ LastTable' = LastTable
           /\ Static' = Static /\ DataStart' = DataStart /\ Converted' = Converted
<1>1. lba' = lba /\ from' = from /\ disk'.len = disk.len
  BY DEF Steady
<1>2. Layout' = Layout /\ Image' = Image /\ Sized' = Sized /\ BackupBlocks' = BackupBlocks
  BY <1>1 DEF Layout, Image, Sized, BackupBlocks
<1>3. Expanded' = Expanded /\ Converted' = Converted /\ Static' = Static
      /\ DataStart' = DataStart /\ Fits' = Fits
  BY <1>1, <1>2 DEF Expanded, Converted, Static, DataStart, Fits
<1>4. FirstTable' = FirstTable /\ LastTable' = LastTable
  BY <1>1, <1>2, <1>3 DEF FirstTable, LastTable
<1> QED
  BY <1>2, <1>3, <1>4

\* The disk a step leaves is as it was seen to be.
LEMMA KeptNext ==
    ASSUME Steady, NEW e, disk' = e
    PROVE  /\ KeptOn(e) => KeptOn(disk)'
           /\ BackupMade(e) => BackupMade(disk)'
           /\ OnDisk' = parse_gpt(e, lba).partitions
           /\ \A parts : DataEnd(parts)' = DataEnd(parts)
<1>1. lba' = lba
  BY DEF Steady
<1>2. PrimaryMade(e) => PrimaryMade(disk)'
  BY SameLayout DEF PrimaryMade
<1>3. KeptOn(e) => KeptOn(disk)'
  BY <1>1, <1>2, SameLayout DEF KeptOn
<1>4. BackupMade(e) => BackupMade(disk)'
  BY SameLayout DEF BackupMade
<1>5. OnDisk' = parse_gpt(e, lba).partitions
  BY <1>1 DEF OnDisk
<1>6. \A parts : DataEnd(parts)' = DataEnd(parts)
  BY <1>1 DEF DataEnd
<1> QED
  BY <1>3, <1>4, <1>5, <1>6

-----------------------------------------------------------------------------
(***************************************************************************)
(* The three ways in which steps change the disk.                          *)
(***************************************************************************)
\* e is a disk of the same size.
SameSize(e) == IsImage(e) /\ e = [len |-> DiskBlocks, at |-> e.at]

LEMMA DiskIs ==
    ASSUME DiskTyped
    PROVE  /\ SameSize(disk) /\ IsImage(disk) /\ disk.len = DiskBlocks
           /\ DiskBlocks \in Nat /\ DiskBlocks % 8 = 0 /\ lba \in {1, 8}
<1>1. SameSize(disk)
  BY DEF DiskTyped, SameSize
<1> QED
  BY <1>1, DiskAssumption, Sizes DEF DiskTyped, SameSize

LEMMA OneBlock ==
    ASSUME DiskTyped, NEW x, NEW v
    PROVE  LET e == [disk EXCEPT !.at[x] = v]
           IN /\ SameSize(e)
              /\ \A b \in 0 .. DiskBlocks - 1 : e.at[b] = IF b = x THEN v ELSE disk.at[b]
<1> DEFINE e == [disk EXCEPT !.at[x] = v]
           at == [disk.at EXCEPT ![x] = v]
<1>1. disk = [len |-> DiskBlocks, at |-> disk.at]
  BY DEF DiskTyped
<1>2. disk.at = [b \in 0 .. DiskBlocks - 1 |-> disk.at[b]]
  BY <1>1 DEF DiskTyped, IsImage
<1>3. e = [len |-> DiskBlocks, at |-> at]
  BY <1>1
<1>4. \A b \in 0 .. DiskBlocks - 1 : at[b] = IF b = x THEN v ELSE disk.at[b]
  BY <1>2
<1>5. at = [b \in 0 .. DiskBlocks - 1 |-> at[b]]
  BY <1>2
<1> HIDE DEF e, at
<1>6. SameSize(e)
  BY <1>3, <1>5, DiskAssumption DEF SameSize, IsImage
<1> QED
  BY <1>3, <1>4, <1>6 DEF e

LEMMA ManyBlocks ==
    ASSUME DiskTyped, NEW x, NEW n, NEW v
    PROVE  LET e == Overwrite(x, n, v)
           IN /\ SameSize(e)
              /\ \A b \in 0 .. DiskBlocks - 1 :
                   e.at[b] = IF b \in x .. x + n - 1 THEN v ELSE disk.at[b]
<1> DEFINE e == Overwrite(x, n, v)
           at == [b \in DOMAIN disk.at |-> IF b \in x .. x + n - 1 THEN v ELSE disk.at[b]]
<1>1. disk = [len |-> DiskBlocks, at |-> disk.at]
  BY DEF DiskTyped
<1>2. disk.at = [b \in 0 .. DiskBlocks - 1 |-> disk.at[b]]
  BY <1>1 DEF DiskTyped, IsImage
<1>3. e = [disk EXCEPT !.at = at]
  BY DEF Overwrite
<1>4. DOMAIN disk.at = 0 .. DiskBlocks - 1
  BY <1>2
<1>5. at = [b \in 0 .. DiskBlocks - 1 |-> at[b]]
      /\ \A b \in 0 .. DiskBlocks - 1 :
           at[b] = IF b \in x .. x + n - 1 THEN v ELSE disk.at[b]
  BY <1>4
<1> HIDE DEF e, at
<1>6. e = [len |-> DiskBlocks, at |-> at]
  BY <1>1, <1>3
<1>7. SameSize(e)
  BY <1>5, <1>6, DiskAssumption DEF SameSize, IsImage
<1> QED
  BY <1>5, <1>6, <1>7 DEF e

LEMMA FilePart ==
    ASSUME DiskTyped, NEW chunk, IsImage(chunk), NEW pos \in Nat,
           pos + chunk.len <= DiskBlocks
    PROVE  LET e == Write(disk, pos, chunk)
           IN /\ SameSize(e)
              /\ \A b \in 0 .. DiskBlocks - 1 :
                   e.at[b] = IF pos <= b /\ b < pos + chunk.len THEN chunk.at[b - pos]
                             ELSE disk.at[b]
<1> DEFINE e == Write(disk, pos, chunk)
<1>1. IsImage(disk) /\ disk.len = DiskBlocks /\ DiskBlocks \in Nat /\ chunk.len \in Nat
  BY DiskIs DEF IsImage
<1>2. Written(e, disk, pos, chunk)
  BY <1>1, WriteImage
<1>3. e = [len |-> e.len, at |-> e.at]
  BY DEF Write
<1> HIDE DEF e
<1>4. e.len = DiskBlocks
  BY <1>1, <1>2 DEF Written, Greatest
<1> QED
  BY <1>1, <1>2, <1>3, <1>4 DEF Written, SameSize, e

\* What a table in front that the invariant describes is taken for.
LEMMA TableRead ==
    ASSUME NEW d, NEW ss, FrontTable(d, ss)
    PROVE  Table(d, ss) = parse_gpt(d, ss).partitions
BY DEF FrontTable, Table

\* What the invariant says of an installed disk, in one place.
LEMMA Holding ==
    ASSUME DiskInv, Held, Sized
    PROVE  /\ from.input \in FwupSources /\ Fits /\ KeptOn(disk)
           /\ IsImage(disk) /\ disk.len = DiskBlocks /\ DiskBlocks \in Nat /\ lba \in {1, 8}
           /\ FrontTable(disk, lba) /\ OnDisk \in {FirstTable, LastTable}
           /\ Table(disk, lba) = OnDisk
           /\ DataStart \in Nat /\ DataStart >= 48 /\ DataStart < DataEnd(OnDisk)
           /\ DataStart < DataEnd(FirstTable)
           /\ DataEnd(OnDisk) \in Nat /\ DataEnd(FirstTable) \in Nat
           /\ DataEnd(OnDisk) <= DiskBlocks - BackupBlocks
           /\ DataEnd(FirstTable) <= DataEnd(OnDisk)
           /\ Named(OnDisk, "data").first * lba = DataStart
<1>1. /\ from.input \in FwupSources /\ Fits /\ KeptOn(disk)
      /\ IsImage(disk) /\ disk.len = DiskBlocks /\ DiskBlocks \in Nat /\ lba \in {1, 8}
  BY DiskIs DEF DiskInv, DiskKept
<1>2. FrontTable(disk, lba) /\ OnDisk \in {FirstTable, LastTable}
  BY <1>1 DEF KeptOn, OnDisk
<1>3. Table(disk, lba) = OnDisk
  BY <1>2, TableRead DEF OnDisk
<1>4. FirstTable \in {FirstTable, LastTable}
  OBVIOUS
<1> QED
  BY <1>1, <1>2, <1>3, <1>4, DataRange

\* A step that exchanges neither the image nor the table.
LEMMA SteadyStep ==
    ASSUME DiskInv, Steady, SameSize(disk'), Held' => Held,
           stage' = "complete" => stage = "complete",
           Held /\ Sized =>
             \A b \in 0 .. DiskBlocks - 1 :
               b < DataStart \/ (lba = 8 /\ stage' = "complete" /\ b >= DiskBlocks - 40)
               => disk'.at[b] = disk.at[b]
    PROVE  DiskKept' /\ (Held /\ Sized => OnDisk' = OnDisk)
<1>1. ASSUME Held, Sized
      PROVE  KeptOn(disk)' /\ OnDisk' = OnDisk
  <2>1. KeptOn(disk') /\ parse_gpt(disk', lba) = parse_gpt(disk, lba)
    BY <1>1, Holding, InsideData DEF SameSize
  <2> QED BY <2>1, KeptNext DEF OnDisk
<1>2. ASSUME Held, Sized, lba = 8, stage' = "complete"
      PROVE  BackupMade(disk)'
  <2>1. DiskBlocks >= 40
    BY <1>1, <1>2, Holding, Blocked
  <2>2. BackupMade(disk)
    BY <1>2, Sizes DEF DiskInv, DiskKept
  <2>3. BackupMade(disk')
    BY <1>2, <2>1, <2>2, BackupStays
  <2> QED BY <2>3, KeptNext
<1>3. Fits' = Fits /\ Sized' = Sized /\ lba' = lba /\ from' = from
  BY SameLayout DEF Steady
<1> QED
  BY <1>1, <1>2, <1>3, Holding, Sizes DEF DiskKept

\* The application's blocks, when the data partition gets no smaller.
LEMMA AppStep ==
    ASSUME DiskInv, Steady, Held' => Held,
           Held /\ Sized =>
             /\ OnDisk' \in {OnDisk, LastTable}
             /\ \A b \in app' :
                  \/ b \in app /\ disk'.at[b] = disk.at[b]
                  \/ b \in DataStart .. DataEnd(OnDisk) - 1 /\ disk'.at[b] = AppMark
    PROVE  AppKept'
<1> SUFFICES ASSUME Held', Sized', NEW b \in app'
             PROVE  b \in DataStart' .. DataEnd(OnDisk)' - 1 /\ disk'.at[b] = AppMark
  BY DEF AppKept
<1>1. Held /\ Sized /\ DataStart' = DataStart
  BY SameLayout
<1>2. DataEnd(OnDisk)' = DataEnd(OnDisk')
  BY DEF DataEnd, Steady
<1>3. DataEnd(OnDisk) <= DataEnd(OnDisk') /\ DataEnd(OnDisk') \in Nat
  <2>1. OnDisk' \in {FirstTable, LastTable}
    BY <1>1, Holding
  <2>2. DataEnd(OnDisk') \in Nat /\ DataEnd(OnDisk) \in Nat
    <3>1. \A T \in {FirstTable, LastTable} : DataEnd(T) \in Nat
      BY <1>1, Holding, DataRange
    <3> QED BY <1>1, <2>1, <3>1, Holding
  <2>3. CASE OnDisk' = OnDisk
    BY <2>2, <2>3
  <2>4. CASE OnDisk' = LastTable
    <3>1. DataEnd(OnDisk) <= DataEnd(LastTable)
      BY <1>1, Holding, LastEnds
    <3> QED BY <2>2, <2>4, <3>1
  <2> QED BY <1>1, <2>2, <2>3, <2>4
<1>4. b \in app => b \in DataStart .. DataEnd(OnDisk) - 1 /\ disk.at[b] = AppMark
  BY <1>1 DEF DiskInv, AppKept
<1>5. b \in DataStart .. DataEnd(OnDisk) - 1 /\ disk'.at[b] = AppMark
  BY <1>1, <1>4
<1>6. DataStart \in Nat /\ DataEnd(OnDisk) \in Nat
  BY <1>1, Holding
<1> QED
  BY <1>1, <1>2, <1>3, <1>5, <1>6

LEMMA SameDisk ==
    ASSUME DiskInv, UNCHANGED << disk, lba, from >>
    PROVE  Steady /\ SameSize(disk')
BY DiskIs DEF DiskInv, Steady

\* Steps that leave the disk and what is known of it alone.
LEMMA QuietStep ==
    ASSUME DiskInv, UNCHANGED << disk, lba, from, stage, app >>, Held' => Held,
           kernel' \in {kernel, {}}, DiskTyped', EdlAlone'
    PROVE  DiskInv'
<1>1. Steady /\ SameSize(disk')
  BY SameDisk
<1>2. DiskKept' /\ (Held /\ Sized => OnDisk' = OnDisk)
  BY <1>1, SteadyStep
<1>3. AppKept'
  BY <1>1, <1>2, AppStep
<1>4. KernelKept'
  <2>1. Sized' = Sized /\ FirstTable' = FirstTable
    BY <1>1, SameLayout
  <2> QED BY <1>2, <2>1 DEF DiskInv, KernelKept
<1> QED
  BY <1>2, <1>3, <1>4 DEF DiskInv

-----------------------------------------------------------------------------
\* The disk as it comes, and the script at work beside it.
LEMMA InitDiskInv == BoardInit => DiskInv
<1> SUFFICES ASSUME BoardInit PROVE DiskInv
  OBVIOUS
<1>1. /\ disk = Zeros(DiskBlocks) /\ lba \in {SRC_SECTOR, DST_SECTOR}
      /\ edl = "none" /\ stage = "blank" /\ from = args
      /\ kernel = {} /\ task = NoTask /\ app = {} /\ Init
  BY DEF BoardInit
<1>2. IsImage(disk) /\ disk = [len |-> DiskBlocks, at |-> disk.at]
  BY <1>1, ZerosImage, DiskAssumption DEF Zeros
<1>3. args \in Arguments
  BY <1>1, ToolAssumption DEF Init
<1>4. task \in Task /\ task.name # "expand-data"
  BY <1>1 DEF NoTask, Task
<1>5. ~Held
  BY <1>1 DEF Held
<1>6. DiskTyped
  BY <1>1, <1>2, <1>3, <1>4 DEF DiskTyped
<1>7. EdlAlone
  BY <1>1 DEF EdlAlone
<1> QED
  BY <1>5, <1>6, <1>7 DEF DiskInv, DiskKept, KernelKept, AppKept

LEMMA ScriptInv ==
    ASSUME UInv, DiskInv, Script, edl = "none"
    PROVE  UInv' /\ DiskInv'
<1>1. UNCHANGED diskVars
  BY DEF Script
<1>2. /\ UNCHANGED << disk, lba, from, stage, app >>
      /\ kernel' = kernel /\ edl' = edl /\ task' = task
  BY <1>1 DEF diskVars
<1>3. UInv'
  BY StartUInv, StepUInv DEF Script
<1>4. Held' => Held
  BY <1>2 DEF Held
<1>5. DiskTyped'
  BY <1>2 DEF DiskInv, DiskTyped
<1>6. EdlAlone'
  BY <1>2 DEF EdlAlone
<1> QED
  BY <1>2, <1>3, <1>4, <1>5, <1>6, QuietStep

LEMMA StutterInv ==
    ASSUME UInv, DiskInv, UNCHANGED allVars
    PROVE  UInv' /\ DiskInv'
<1>1. UNCHANGED vars /\ UNCHANGED diskVars
  BY DEF allVars
<1>2. /\ UNCHANGED << disk, lba, from, stage, app >>
      /\ kernel' = kernel /\ edl' = edl /\ task' = task
  BY <1>1 DEF diskVars
<1>3. UInv'
  BY <1>1, StutterUInv
<1>4. args' = args /\ pc' = pc /\ files' = files
  BY <1>1 DEF vars, output
<1>5. Held' => Held
  BY <1>2, <1>4 DEF Held
<1>6. DiskTyped'
  BY <1>2 DEF DiskInv, DiskTyped
<1>7. EdlAlone'
  BY <1>2, <1>4 DEF DiskInv, EdlAlone, FlashAt, FlashFile, S, disk_bytes
<1> QED
  BY <1>2, <1>3, <1>5, <1>6, <1>7, QuietStep

-----------------------------------------------------------------------------
(***************************************************************************)
(* The steps of a running board.  UNCHANGED vars keeps what is known of    *)
(* the script; none of them writes in front of the data partition.         *)
(***************************************************************************)
LEMMA BootInv == ASSUME DiskInv, Boot PROVE DiskInv'
<1> DEFINE parts == Table(disk, lba)
           data == Named(parts, "data")
           x == data.first * lba
           fresh == disk.at[x] # FsMark
<1>1. /\ kernel = {} /\ edl = "none" /\ stage \in {"img", "complete"} /\ parts # {}
      /\ kernel' = parts
      /\ disk' = IF fresh THEN [disk EXCEPT !.at[x] = FsMark] ELSE disk
      /\ app' = IF fresh THEN {} ELSE app
      /\ lba' = lba /\ edl' = edl /\ stage' = stage /\ from' = from /\ task' = task
  BY DEF Boot
<1> HIDE DEF parts, x, fresh
<1>2. /\ SameSize(disk')
      /\ \A b \in 0 .. DiskBlocks - 1 : b # x => disk'.at[b] = disk.at[b]
  <2>1. CASE fresh
    BY <1>1, <2>1, OneBlock DEF DiskInv
  <2>2. CASE ~fresh
    BY <1>1, <2>2, DiskIs DEF DiskInv
  <2> QED BY <2>1, <2>2
<1>3. Steady
  BY <1>1, <1>2, DiskIs DEF Steady, DiskInv, SameSize
<1>4. Held /\ edl' = "none"
  BY <1>1 DEF Held
<1>5. Sized => parts = OnDisk /\ x = DataStart
  BY <1>4, Holding DEF parts, x
<1>6. ASSUME Sized, NEW b \in 0 .. DiskBlocks - 1,
             b < DataStart \/ (lba = 8 /\ b >= DiskBlocks - 40)
      PROVE  disk'.at[b] = disk.at[b]
  <2>1. x = DataStart /\ DataStart \in Nat /\ DiskBlocks \in Nat
        /\ (lba = 8 => DataStart < DiskBlocks - 40)
    BY <1>4, <1>5, <1>6, Holding, Blocked
  <2> QED BY <1>2, <1>6, <2>1
<1>7. DiskKept' /\ (Sized => OnDisk' = OnDisk)
  BY <1>1, <1>2, <1>3, <1>4, <1>6, SteadyStep
<1>8. AppKept'
  <2>1. \A b \in app' : b \in app /\ disk'.at[b] = disk.at[b]
    BY <1>1
  <2> QED BY <1>3, <1>4, <1>7, <2>1, AppStep
<1>9. KernelKept'
  <2>1. Sized' = Sized
    BY <1>3, SameLayout
  <2> QED BY <1>1, <1>5, <1>7, <2>1 DEF KernelKept
<1>10. DiskTyped'
  BY <1>1, <1>2 DEF DiskInv, DiskTyped, SameSize
<1>11. EdlAlone'
  BY <1>4 DEF EdlAlone
<1> QED
  BY <1>7, <1>8, <1>9, <1>10, <1>11 DEF DiskInv

LEMMA DownInv == ASSUME DiskInv, Down PROVE DiskInv'
<1>1. /\ kernel # {} /\ kernel' = {} /\ task' = NoTask
      /\ UNCHANGED << disk, lba, from, stage, app >> /\ edl' = edl
  BY DEF Down
<1>2. edl = "none" /\ task' \in Task /\ task'.name # "expand-data"
  BY <1>1 DEF DiskInv, EdlAlone, NoTask, Task
<1>3. DiskTyped' /\ EdlAlone' /\ (Held' => Held)
  BY <1>1, <1>2 DEF DiskInv, DiskTyped, EdlAlone, Held
<1> QED
  BY <1>1, <1>3, QuietStep

LEMMA TaskBeginInv ==
    ASSUME DiskInv, ExpandBegin \/ ResetBegin
    PROVE  DiskInv'
<1>1. /\ kernel # {} /\ kernel' = kernel
      /\ UNCHANGED << disk, lba, from, stage, app >> /\ edl' = edl
      /\ task' \in Task /\ (task'.name = "expand-data" => lba = SRC_SECTOR)
  BY DEF ExpandBegin, ResetBegin, MayExpand, Task
<1>2. edl = "none"
  BY <1>1 DEF DiskInv, EdlAlone
<1>3. DiskTyped' /\ EdlAlone' /\ (Held' => Held)
  BY <1>1, <1>2 DEF DiskInv, DiskTyped, EdlAlone, Held
<1> QED
  BY <1>1, <1>3, QuietStep

\* The kernel's table is the one on the disk, or ends earlier.
LEMMA AppWriteInv == ASSUME DiskInv, AppWrite PROVE DiskInv'
<1> DEFINE x == (Named(kernel, "data").last + 1) * lba - 1
<1>1. /\ kernel # {} /\ kernel' = kernel /\ task' = task
      /\ disk' = [disk EXCEPT !.at[x] = AppMark] /\ app' = app \cup {x}
      /\ lba' = lba /\ edl' = edl /\ stage' = stage /\ from' = from
  BY DEF AppWrite
<1>2. x = DataEnd(kernel) - 1
  BY DEF DataEnd
<1> HIDE DEF x
<1>3. edl = "none"
  BY <1>1 DEF DiskInv, EdlAlone
<1>4. /\ SameSize(disk')
      /\ \A b \in 0 .. DiskBlocks - 1 :
           disk'.at[b] = IF b = x THEN AppMark ELSE disk.at[b]
  BY <1>1, OneBlock DEF DiskInv
<1>5. Steady
  BY <1>1, <1>4, DiskIs DEF Steady, DiskInv, SameSize
<1>6. Held' => Held
  BY <1>1, <1>3 DEF Held
<1>7. ASSUME Held, Sized
      PROVE  /\ x \in DataStart .. DataEnd(OnDisk) - 1
             /\ DataEnd(OnDisk) <= DiskBlocks - BackupBlocks
             /\ DataStart \in Nat /\ DataEnd(OnDisk) \in Nat /\ DiskBlocks \in Nat
  <2>1. kernel \in {FirstTable, OnDisk}
    BY <1>1, <1>7 DEF DiskInv, KernelKept
  <2> QED BY <1>2, <1>7, <2>1, Holding
<1>8. ASSUME Held, Sized, NEW b \in 0 .. DiskBlocks - 1,
             b < DataStart \/ (lba = 8 /\ b >= DiskBlocks - 40)
      PROVE  disk'.at[b] = disk.at[b]
  <2>1. lba = 8 => BackupBlocks = 40
    BY Blocked
  <2>2. b # x
    BY <1>7, <1>8, <2>1
  <2> QED BY <1>4, <2>2
<1>9. DiskKept' /\ (Held /\ Sized => OnDisk' = OnDisk)
  BY <1>1, <1>4, <1>5, <1>6, <1>8, SteadyStep
<1>10. AppKept'
  <2>1. ASSUME Held, Sized, NEW b \in app'
        PROVE  \/ b \in app /\ disk'.at[b] = disk.at[b]
               \/ b \in DataStart .. DataEnd(OnDisk) - 1 /\ disk'.at[b] = AppMark
    <3>1. b \in DataStart .. DataEnd(OnDisk) - 1
      BY <1>1, <1>7, <2>1 DEF DiskInv, AppKept
    <3>2. b \in 0 .. DiskBlocks - 1
      <4>1. BackupBlocks \in Nat
        BY <1>7, Holding, Blocked, <2>1
      <4> QED BY <1>7, <2>1, <3>1, <4>1
    <3>3. b # x => b \in app
      BY <1>1, <2>1
    <3> QED BY <1>4, <3>1, <3>2, <3>3
  <2> QED BY <1>5, <1>6, <1>9, <2>1, AppStep
<1>11. KernelKept'
  <2>1. Sized' = Sized /\ FirstTable' = FirstTable
    BY <1>5, SameLayout
  <2> QED BY <1>1, <1>6, <1>9, <2>1 DEF DiskInv, KernelKept
<1>12. DiskTyped'
  BY <1>1, <1>4 DEF DiskInv, DiskTyped, SameSize
<1>13. EdlAlone'
  BY <1>1, <1>3 DEF EdlAlone
<1> QED
  BY <1>9, <1>10, <1>11, <1>12, <1>13 DEF DiskInv

\* Both writes of factory-reset stay between the first block of the data
\* partition and the end it has in the table on the disk.
LEMMA ResetRange ==
    ASSUME DiskInv, ResetWrite
    PROVE  /\ SameSize(disk')
           /\ Held /\ Sized =>
                \A b \in 0 .. DiskBlocks - 1 :
                  b \notin DataStart .. DataEnd(OnDisk) - 1 => disk'.at[b] = disk.at[b]
<1> DEFINE data == Named(Layout, "data")
<1>1. \/ disk' = Overwrite(data.first, data.last - data.first + 1, Zero)
      \/ disk' = disk
      \/ disk' = Overwrite(data.first, ResetBlocks, Erased)
  BY DEF ResetWrite
<1>2. ASSUME Held, Sized
      PROVE  /\ data.first = DataStart /\ DataStart \in Nat /\ data.last \in Nat
             /\ DataEnd(OnDisk) \in Nat
             /\ data.last + 1 <= DataEnd(OnDisk)
             /\ DataStart + ResetBlocks <= DataEnd(OnDisk)
  <2>1. /\ from.input \in FwupSources /\ lba \in {1, 8} /\ disk.len = DiskBlocks /\ Fits
        /\ OnDisk \in {FirstTable, LastTable}
    BY <1>2, Holding
  <2>2. data.last \in Nat
    BY <2>1, FwupLayout, Sizes DEF Layout, Image, IsLayout
  <2> QED BY <2>1, <2>2, DataRange DEF DataStart
<1>3. ResetBlocks \in Nat /\ DiskBlocks \in Nat
  BY DiskAssumption
<1> HIDE DEF data
<1>4. CASE disk' = Overwrite(data.first, data.last - data.first + 1, Zero)
  <2>1. /\ SameSize(disk')
        /\ \A b \in 0 .. DiskBlocks - 1 :
             disk'.at[b] = IF b \in data.first .. data.first + (data.last - data.first + 1) - 1
                           THEN Zero ELSE disk.at[b]
    BY <1>4, ManyBlocks DEF DiskInv
  <2> QED BY <1>2, <1>3, <2>1
<1>5. CASE disk' = disk
  BY <1>5, DiskIs DEF DiskInv
<1>6. CASE disk' = Overwrite(data.first, ResetBlocks, Erased)
  <2>1. /\ SameSize(disk')
        /\ \A b \in 0 .. DiskBlocks - 1 :
             disk'.at[b] = IF b \in data.first .. data.first + ResetBlocks - 1
                           THEN Erased ELSE disk.at[b]
    BY <1>6, ManyBlocks DEF DiskInv
  <2> QED BY <1>2, <1>3, <2>1
<1> QED
  BY <1>1, <1>4, <1>5, <1>6

LEMMA ResetWriteInv == ASSUME DiskInv, ResetWrite PROVE DiskInv'
<1>1. /\ task.name = "factory-reset" /\ app' = {} /\ kernel' = kernel
      /\ task' \in Task /\ task'.name # "expand-data"
      /\ lba' = lba /\ edl' = edl /\ stage' = stage /\ from' = from
  <2>1. task' = NoTask \/ task' = [task EXCEPT !.left = {"memset"}]
    BY DEF ResetWrite
  <2>2. task.name = "factory-reset" => task' \in Task /\ task'.name # "expand-data"
    BY <2>1 DEF NoTask, Task, DiskInv, DiskTyped
  <2> QED BY <2>2 DEF ResetWrite
<1>2. kernel # {} /\ edl = "none"
  <2>1. task # NoTask
    BY <1>1 DEF NoTask
  <2> QED BY <2>1 DEF DiskInv, DiskTyped, EdlAlone
<1>3. SameSize(disk')
  BY ResetRange
<1>4. Steady /\ (Held' => Held)
  BY <1>1, <1>2, <1>3, DiskIs DEF Steady, DiskInv, SameSize, Held
<1>5. ASSUME Held, Sized, NEW b \in 0 .. DiskBlocks - 1,
             b < DataStart \/ (lba = 8 /\ b >= DiskBlocks - 40)
      PROVE  disk'.at[b] = disk.at[b]
  <2>1. /\ DataEnd(OnDisk) \in Nat /\ DataStart \in Nat /\ DiskBlocks \in Nat
        /\ DataEnd(OnDisk) <= DiskBlocks - BackupBlocks
    BY <1>5, Holding
  <2>2. lba = 8 => BackupBlocks = 40
    BY Blocked
  <2>3. b \notin DataStart .. DataEnd(OnDisk) - 1
    BY <1>5, <2>1, <2>2
  <2> QED BY <1>5, <2>3, ResetRange
<1>6. DiskKept' /\ (Held /\ Sized => OnDisk' = OnDisk)
  BY <1>1, <1>3, <1>4, <1>5, SteadyStep
<1>7. KernelKept'
  <2>1. Sized' = Sized /\ FirstTable' = FirstTable
    BY <1>4, SameLayout
  <2> QED BY <1>1, <1>4, <1>6, <2>1 DEF DiskInv, KernelKept
<1>8. DiskTyped' /\ EdlAlone' /\ AppKept'
  BY <1>1, <1>2, <1>3 DEF DiskInv, DiskTyped, SameSize, EdlAlone, AppKept
<1> QED
  BY <1>6, <1>7, <1>8 DEF DiskInv

\* The two writes of expand-data: a table for the layout grown to this disk.
LEMMA ExpandedFront ==
    ASSUME DiskInv, Held, Sized, lba = 1,
           NEW e, e = Write(disk, 0, FwupFront(Expanded, disk.len, "guid"))
    PROVE  /\ SameSize(e) /\ KeptOn(e) /\ parse_gpt(e, lba).partitions = LastTable
           /\ \A b \in 0 .. DiskBlocks - 1 : b >= 34 => e.at[b] = disk.at[b]
<1> DEFINE f == FwupFront(Expanded, disk.len, "guid")
<1>1. /\ from.input \in FwupSources /\ Fits /\ KeptOn(disk)
      /\ disk.len = DiskBlocks /\ DiskBlocks \in Nat /\ lba \in {1, 8}
      /\ DataStart \in Nat /\ DataStart >= 48 /\ DataStart < DiskBlocks
  <2>1. BackupBlocks = 33
    BY Blocked
  <2> QED BY <2>1, Holding
<1>2. LastTable = Expanded
  BY Sizes DEF LastTable
<1>3. \A p \in Expanded : p.slot \in Nat /\ p.slot < 128
  <2>1. \A p \in Layout : p \in Entry /\ p.slot \in Nat /\ p.slot < 128
    BY <1>1, FwupLayout, Sizes DEF Layout, Image, IsLayout
  <2>2. ASSUME NEW q \in Expanded
        PROVE  q.slot \in Nat /\ q.slot < 128
    <3>1. PICK p \in Layout :
            q = [p EXCEPT !.last = IF p.name = "data" THEN disk.len - FWUP_FRONT ELSE @]
      BY DEF Expanded
    <3>2. q.slot = p.slot
      BY <2>1, <3>1 DEF Entry
    <3> QED BY <2>1, <3>2
  <2> QED BY <2>2
<1>4. IsImage(f) /\ f.len = 34 /\ FrontTable(f, 1) /\ parse_gpt(f, 1).partitions = Expanded
  BY <1>1, <1>3, FwupFrontTable
<1> HIDE DEF f
<1>5. /\ SameSize(e)
      /\ \A b \in 0 .. DiskBlocks - 1 :
           e.at[b] = IF 0 <= b /\ b < 0 + f.len THEN f.at[b - 0] ELSE disk.at[b]
  <2>1. 0 + f.len <= DiskBlocks
    BY <1>1, <1>4
  <2> QED BY <1>4, <2>1, FilePart DEF DiskInv, f
<1>6. \A b \in 0 .. 33 : e.at[b] = f.at[b]
  <2> SUFFICES ASSUME NEW b \in 0 .. 33 PROVE e.at[b] = f.at[b]
    OBVIOUS
  <2>1. b \in 0 .. DiskBlocks - 1 /\ 0 <= b /\ b < 0 + f.len /\ b - 0 = b
    BY <1>1, <1>4
  <2> QED BY <1>5, <2>1
<1>7. \A b \in 0 .. DiskBlocks - 1 : b >= 34 => e.at[b] = disk.at[b]
  BY <1>1, <1>4, <1>5
<1>8. FrontTable(e, 1) /\ parse_gpt(e, 1) = parse_gpt(f, 1)
  <2>1. IsImage(e) /\ e.len >= 2 * 1 + 32 /\ 1 \in {1, 8}
    BY <1>1, <1>5 DEF SameSize
  <2>2. \A b \in 0 .. 2 * 1 + 31 : e.at[b] = f.at[b]
    BY <1>6
  <2> QED BY <1>4, <2>1, <2>2, FrontAgrees
<1>9. \A b \in Static : e.at[b] = Image.at[b]
  <2> SUFFICES ASSUME NEW b \in Static PROVE e.at[b] = Image.at[b]
    OBVIOUS
  <2>1. b \in Nat /\ b >= 48 /\ b < DataStart
    BY <1>1, StaticRange
  <2> QED BY <1>1, <1>7, <2>1 DEF KeptOn
<1> QED
  BY <1>2, <1>4, <1>5, <1>7, <1>8, <1>9, Sizes DEF KeptOn

LEMMA ExpandedBackup ==
    ASSUME DiskInv, Held, Sized, lba = 1,
           NEW e, e = Write(disk, disk.len - FWUP_BACKUP,
                            FwupBackup(Expanded, disk.len, "guid"))
    PROVE  /\ SameSize(e) /\ KeptOn(e) /\ parse_gpt(e, lba).partitions = OnDisk
           /\ \A b \in 0 .. DiskBlocks - 34 : e.at[b] = disk.at[b]
<1> DEFINE f == FwupBackup(Expanded, disk.len, "guid")
           x == disk.len - FWUP_BACKUP
<1>1. /\ from.input \in FwupSources /\ Fits /\ KeptOn(disk) /\ IsImage(disk)
      /\ disk.len = DiskBlocks /\ DiskBlocks \in Nat /\ lba \in {1, 8}
      /\ DataStart \in Nat /\ DataStart >= 48 /\ DataStart < DiskBlocks - 33
  <2>1. BackupBlocks = 33
    BY Blocked
  <2> QED BY <2>1, Holding
<1>2. IsImage(f) /\ f.len = 33
  BY FwupBackupImage
<1>3. x = DiskBlocks - 33 /\ x \in Nat /\ x + f.len <= DiskBlocks
  BY <1>1, <1>2, Sizes DEF FWUP_BACKUP
<1> HIDE DEF f, x
<1>4. /\ SameSize(e)
      /\ \A b \in 0 .. DiskBlocks - 1 :
           e.at[b] = IF x <= b /\ b < x + f.len THEN f.at[b - x] ELSE disk.at[b]
  <2>1. e = Write(disk, x, f)
    BY DEF f, x
  <2> QED BY <1>2, <1>3, <2>1, FilePart DEF DiskInv
<1>5. \A b \in 0 .. DiskBlocks - 34 : e.at[b] = disk.at[b]
  BY <1>1, <1>3, <1>4
<1>6. KeptOn(e) /\ parse_gpt(e, lba) = parse_gpt(disk, lba)
  <2>1. \A b \in 0 .. DiskBlocks - 1 : b < DataStart => e.at[b] = disk.at[b]
    BY <1>1, <1>5
  <2>2. IsImage(e) /\ e.len = DiskBlocks
    BY <1>4 DEF SameSize
  <2> QED BY <1>1, <2>1, <2>2, InsideData
<1> QED
  BY <1>4, <1>5, <1>6 DEF OnDisk

LEMMA ExpandWriteInv ==
    ASSUME DiskInv, NEW x \in {"front", "backup"}, ExpandWrite(x)
    PROVE  DiskInv'
<1>1. /\ task.name = "expand-data" /\ kernel' = kernel /\ app' = app
      /\ task' \in Task
      /\ lba' = lba /\ edl' = edl /\ stage' = stage /\ from' = from
  BY DEF ExpandWrite, DiskInv, DiskTyped, Task, NoTask
<1>2. kernel # {} /\ edl = "none" /\ lba = 1 /\ stage \in {"img", "complete"}
  <2>1. task # NoTask
    BY <1>1 DEF NoTask
  <2> QED BY <1>1, <2>1, Sizes DEF DiskInv, DiskTyped, EdlAlone
<1>3. Held /\ Sized
  BY <1>2, Sizes DEF Held, Sized
<1>4. /\ SameSize(disk') /\ KeptOn(disk')
      /\ parse_gpt(disk', lba).partitions \in {OnDisk, LastTable}
      /\ \A b \in 34 .. DiskBlocks - 34 : disk'.at[b] = disk.at[b]
  <2>1. DiskBlocks \in Nat
    BY DiskAssumption
  <2>2. CASE x = "front"
    <3>1. disk' = Write(disk, 0, FwupFront(Expanded, disk.len, "guid"))
      BY <2>2 DEF ExpandWrite
    <3>2. /\ SameSize(disk') /\ KeptOn(disk')
          /\ parse_gpt(disk', lba).partitions = LastTable
          /\ \A b \in 0 .. DiskBlocks - 1 : b >= 34 => disk'.at[b] = disk.at[b]
      BY <1>2, <1>3, <3>1, ExpandedFront
    <3> QED BY <2>1, <3>2
  <2>3. CASE x = "backup"
    <3>1. disk' = Write(disk, disk.len - FWUP_BACKUP,
                        FwupBackup(Expanded, disk.len, "guid"))
      BY <2>3 DEF ExpandWrite
    <3>2. /\ SameSize(disk') /\ KeptOn(disk')
          /\ parse_gpt(disk', lba).partitions = OnDisk
          /\ \A b \in 0 .. DiskBlocks - 34 : disk'.at[b] = disk.at[b]
      BY <1>2, <1>3, <3>1, ExpandedBackup
    <3> QED BY <2>1, <3>2
  <2> QED BY <2>2, <2>3
<1>5. Steady
  BY <1>1, <1>4, DiskIs DEF Steady, DiskInv, SameSize
<1>6. KeptOn(disk)' /\ OnDisk' \in {OnDisk, LastTable}
  BY <1>4, <1>5, KeptNext
<1>7. DiskKept'
  <2>1. Fits' = Fits /\ lba' # DST_SECTOR
    BY <1>1, <1>2, <1>5, SameLayout, Sizes
  <2>2. from.input \in FwupSources /\ Fits
    BY <1>3, Holding
  <2> QED BY <1>1, <1>6, <2>1, <2>2 DEF DiskKept
<1>8. KernelKept'
  <2>1. kernel \in {FirstTable, OnDisk} /\ OnDisk \in {FirstTable, LastTable}
    BY <1>2, <1>3, Holding DEF DiskInv, KernelKept
  <2>2. FirstTable' = FirstTable
    BY <1>5, SameLayout
  <2> QED BY <1>1, <1>6, <2>1, <2>2 DEF KernelKept
<1>9. AppKept'
  <2>1. ASSUME NEW b \in app'
        PROVE  b \in app /\ disk'.at[b] = disk.at[b]
    <3>1. b \in app /\ b \in DataStart .. DataEnd(OnDisk) - 1
      BY <1>1, <1>3 DEF DiskInv, AppKept
    <3>2. /\ DataStart \in Nat /\ DataStart >= 48 /\ DiskBlocks \in Nat
          /\ DataEnd(OnDisk) \in Nat /\ DataEnd(OnDisk) <= DiskBlocks - 33
      <4>1. BackupBlocks = 33
        BY <1>2, Blocked
      <4> QED BY <1>3, <4>1, Holding
    <3>3. b \in 34 .. DiskBlocks - 34
      BY <3>1, <3>2
    <3> QED BY <1>4, <3>1, <3>3
  <2> QED BY <1>3, <1>5, <1>6, <2>1, AppStep
<1>10. DiskTyped' /\ EdlAlone'
  BY <1>1, <1>2, <1>4, Sizes DEF DiskInv, DiskTyped, EdlAlone, SameSize
<1> QED
  BY <1>6, <1>7, <1>8, <1>9, <1>10 DEF DiskInv

-----------------------------------------------------------------------------
(***************************************************************************)
(* Flashing.                                                               *)
(***************************************************************************)
\* The size argument of the image on the disk, in sectors.
LEMMA SizeOf ==
    ASSUME lba = 8, from = args, Sized
    PROVE  /\ S = DiskBlocks \div 8 /\ S \in Nat /\ S * 8 = DiskBlocks
           /\ (S - 5) * 8 = DiskBlocks - 40 /\ last_usable = DiskBlocks \div 8 - 6
<1>1. DiskBlocks \in Nat /\ DiskBlocks % 8 = 0
  BY DiskAssumption, Sizes
<1>2. disk_bytes = 512 * DiskBlocks /\ SectorBytes = 4096
  BY Sizes DEF Sized, disk_bytes, SectorBytes
<1>3. S = (512 * DiskBlocks) \div 4096
  BY <1>2 DEF S
<1>4. S = DiskBlocks \div 8
  BY <1>1, <1>3
<1> QED
  BY <1>1, <1>4 DEF last_usable

\* What the last invocation of the script has left, when its input is an image
\* of fwup's and its size argument the size of the disk.
LEMMA FinishedFwup ==
    ASSUME UInv, Done, lba = 8, from = args, Sized, from.input \in FwupSources
    PROVE  /\ Fits /\ translated = Converted /\ Forward
           /\ source = Image /\ src.partitions = Layout
           /\ src.backup_lba = Image.at[1].backup_lba
<1>1. /\ Typed /\ Sourced /\ Established /\ pc # "idle"
      /\ SourceParts = src.partitions /\ ValidParts(src.partitions)
  BY Finished
<1>2. source = Image /\ FwupWritten(source)
  BY <1>1, FwupSource DEF Image
<1>3. src.partitions = Layout
  BY <1>1, <1>2 DEF SourceParts, Layout, Image
<1>4. Translatable(src.partitions) /\ translated = translate_partitions(src.partitions)
  BY <1>1 DEF Established, IsTranslated
<1>5. /\ \A p \in src.partitions : p.first <= p.last
      /\ Apart(src.partitions)
  BY <1>1, <1>2 DEF FwupWritten, Orderly, SourceParts
<1>6. \A p \in src.partitions : p.last < (S - 5) * 8
  BY <1>1, <1>4, <1>5, BeforeBackup
<1>7. Fits
  BY <1>3, <1>6, SizeOf, Blocked DEF Fits
<1>8. translated = Converted
  <2>1. \A p \in Layout :
          [p EXCEPT !.first = new_first(p),
                    !.last = IF p = Highest(Layout) THEN last_usable ELSE new_last(p)]
          = [p EXCEPT !.first = new_first(p),
                      !.last = IF p = Highest(Layout) THEN DiskBlocks \div DST_SECTOR - 6
                               ELSE new_last(p)]
    BY SizeOf, Sizes
  <2> QED BY <1>3, <1>4, <2>1, Zenon DEF translate_partitions, Converted
<1>9. Forward
  BY <1>1, <1>5 DEF Forward
<1>10. src.backup_lba = Image.at[1].backup_lba
  BY <1>1, <1>2, Sizes DEF Established, IsParsed, parse_gpt
<1> QED
  BY <1>2, <1>3, <1>7, <1>8, <1>9, <1>10

\* The disk image of such an invocation, written from block 0 on, installs it.
LEMMA FlashedUfs ==
    ASSUME UInv, Done, lba = 8, from = args, Sized, from.input \in FwupSources,
           NEW e, IsImage(e), e.len = DiskBlocks, Out.len <= DiskBlocks,
           \A b \in 0 .. Out.len - 1 : e.at[b] = Out.at[b]
    PROVE  Fits /\ KeptOn(e)
<1>1. /\ Fits /\ translated = Converted /\ Forward
      /\ source = Image /\ src.backup_lba = Image.at[1].backup_lba
  BY FinishedFwup
<1>2. /\ Typed /\ Sourced /\ Established /\ pc # "idle"
      /\ Out = IF args.full THEN Full3 ELSE Img3
  BY Finished
<1>3. Fronted(Out) /\ GptValid(Out, 8) /\ OutParts = translated
  BY <1>1, OutFronted, ReadBack
<1>4. /\ Out.at[8] = built.primary_header
      /\ built.primary_header.entries_lba = 2 /\ built.primary_header.entries_len = 32
      /\ built.primary_header.current_lba = 1
      /\ built.primary_header.backup_lba = S - 1
      /\ built.primary_header.entries_crc = FileCrc(build_entries_bytes(Converted))
  <2>1. IsBuilt
    BY <1>2 DEF Established
  <2>2. built.front.at[8] = built.primary_header
    BY <2>1, BuiltShape DEF FrontOf
  <2>3. Out.at[8] = built.front.at[8]
    BY <1>3 DEF Fronted
  <2> QED BY <1>1, <2>1, <2>2, <2>3, Headers
<1>5. FrontTable(Out, 8)
  BY <1>3, <1>4, Sizes DEF FrontTable
<1>6. /\ FrontTable(e, 8) /\ parse_gpt(e, 8) = parse_gpt(Out, 8)
      /\ e.at[8] = Out.at[8]
  <2>1. /\ IsImage(Out) /\ Out.len \in Nat /\ Out.len >= 48 /\ DiskBlocks \in Nat
    BY <1>3, DiskAssumption DEF Fronted, IsImage
  <2>2. e.len >= 2 * 8 + 32 /\ \A b \in 0 .. 2 * 8 + 31 : e.at[b] = Out.at[b]
    BY <2>1
  <2> QED BY <1>5, <2>1, <2>2, FrontAgrees
<1>7. parse_gpt(e, 8).partitions = FirstTable
  BY <1>1, <1>3, <1>6, Sizes DEF OutParts, FirstTable
<1>8. \A b \in Static : e.at[b] = Image.at[b]
  <2> SUFFICES ASSUME NEW b \in Static PROVE e.at[b] = Image.at[b]
    OBVIOUS
  <2>1. /\ b \in Nat /\ b >= 48 /\ b < DiskBlocks - 40
        /\ b < src.backup_lba - 32
    BY <1>1, StaticRange, Blocked
  <2>2. src.backup_lba \in Nat /\ b \in 48 .. src.backup_lba - 1
    <3>1. src.backup_lba \in Nat
      BY <1>2, ParsedSource DEF Established
    <3> QED BY <2>1, <3>1
  <2>3. b < Out.len /\ Out.at[b] = source.at[b]
    <3>1. CASE args.full
      <4>1. /\ Full3.len >= S * 8
            /\ b < (S - 5) * 8 => Full3.at[b] = source.at[b]
        BY <1>2, <2>2, FullShape DEF Established
      <4>2. Full3.len \in Nat
        <5>1. IsImage(Out)
          BY <1>3 DEF Fronted
        <5> QED BY <1>2, <3>1, <5>1 DEF IsImage
      <4> QED BY <1>2, <2>1, <3>1, <4>1, <4>2, SizeOf, DiskAssumption
    <3>2. CASE ~args.full
      BY <1>2, <2>2, <3>2, ImgShape DEF Established
    <3> QED BY <3>1, <3>2
  <2>4. Out.len \in Nat
    BY <1>3 DEF Fronted, IsImage
  <2> QED BY <1>1, <2>1, <2>3, <2>4
<1>9. PrimaryMade(e)
  BY <1>4, <1>6, SizeOf, Sizes DEF PrimaryMade
<1> QED
  BY <1>1, <1>6, <1>7, <1>8, <1>9, Sizes DEF KeptOn

\* The backup table of such an invocation, in its place.
LEMMA FlashedBackup ==
    ASSUME UInv, Done, lba = 8, from = args, Sized, from.input \in FwupSources,
           NEW w, BackupOf(w, translated, built.backup_header),
           NEW e, \A i \in 0 .. 39 : e.at[DiskBlocks - 40 + i] = w.at[i]
    PROVE  BackupMade(e)
<1>1. IsBuilt /\ translated = Converted
  BY Finished, FinishedFwup DEF Established
<1>2. /\ HeaderValid(built.backup_header)
      /\ built.backup_header.current_lba = S - 1
      /\ built.backup_header.backup_lba = 1
      /\ built.backup_header.entries_lba = S - 5
      /\ built.backup_header.entries_len = 32
      /\ built.backup_header.entries_crc = FileCrc(build_entries_bytes(Converted))
  <2>1. built.backup_header =
          build_gpt_header(S - 1, 1, DST_FIRST_USABLE, last_usable, src.disk_guid, S - 5,
                           FileCrc(build_entries_bytes(translated)))
    BY <1>1 DEF IsBuilt, build_new_gpt
  <2> QED BY <1>1, <2>1, MadeHeader
<1>3. /\ DiskBlocks \in Nat /\ DiskBlocks - 8 = DiskBlocks - 40 + 32
      /\ 32 \in 0 .. 39 /\ \A i \in 0 .. 31 : i \in 0 .. 39
  BY DiskAssumption
<1>4. e.at[DiskBlocks - 8] = built.backup_header
  BY <1>3 DEF BackupOf
<1>5. \A i \in 0 .. 31 : e.at[DiskBlocks - 40 + i] = EntriesBlock(Converted, i)
  BY <1>1, <1>3 DEF BackupOf
<1> QED
  BY <1>2, <1>4, <1>5, SizeOf, Sizes DEF BackupMade

\* A finished invocation leaves files whose places on a disk are blocks of it.
LEMMA FileImages ==
    ASSUME UInv, NEW f \in {"raw", "img", "backup", "full"},
           f # "raw" => pc = "done", f = "raw" => from.input \in FwupSources
    PROVE  IsImage(FlashFile(f)) /\ FlashAt(f) \in Nat
<1>1. CASE f = "raw"
  BY <1>1, FwupLayout DEF FlashFile, FlashAt
<1>2. CASE f # "raw"
  <2>1. IsImage(files[f])
    BY <1>2 DEF UInv, Files, OwnFile
  <2>2. Done /\ Typed /\ ValidParts(src.partitions) /\ Translatable(src.partitions)
    BY <1>2, Finished DEF Done, Established, IsTranslated
  <2>3. S \in Nat /\ S >= 6
    BY <2>2, Room
  <2>4. (S - 5) * 8 \in Nat
    BY <2>3
  <2> QED BY <1>2, <2>1, <2>4, Sizes DEF FlashFile, FlashAt
<1> QED
  BY <1>1, <1>2

LEMMA EdlBeginInv ==
    ASSUME UInv, DiskInv, NEW f \in {"raw", "img", "backup", "full"},
           NEW a \in Arguments \cup {from}, EdlBegin(f, a)
    PROVE  DiskInv'
<1> DEFINE file == IF f = "raw" THEN Source[a.input] ELSE files[f]
           chunk == Slice(file, 0, GPT_ENTRIES)
<1>1. /\ kernel = {} /\ edl = "none" /\ MayFlash(f) /\ a.input \in FwupSources
      /\ a = IF f = "backup" THEN from ELSE IF f = "raw" THEN a ELSE args
      /\ from' = a /\ FlashAt(f) + file.len <= disk.len
      /\ disk' = Write(disk, FlashAt(f), chunk)
      /\ edl' = f /\ stage' = "torn" /\ app' = {}
      /\ lba' = lba /\ kernel' = kernel /\ task' = task
      /\ args' = args /\ pc' = pc /\ files' = files
  BY DEF EdlBegin, vars, output
<1>2. a \in Arguments
  BY DEF DiskInv, DiskTyped
<1>3. /\ f # "raw" => pc = "done" /\ args.full = (f = "full")
      /\ f = "raw" <=> lba = SRC_SECTOR
      /\ f = "backup" => stage = "img"
  <2>1. args.full \in BOOLEAN
    BY ToolAssumption DEF UInv, Typed
  <2>2. IF lba = SRC_SECTOR THEN f = "raw"
        ELSE /\ pc = "done"
             /\ IF args.full THEN f = "full"
                ELSE f = "img" \/ (f = "backup" /\ stage = "img")
    BY <1>1 DEF MayFlash
  <2>3. CASE args.full
    BY <2>1, <2>2, <2>3
  <2>4. CASE ~args.full
    BY <2>1, <2>2, <2>4
  <2> QED BY <2>3, <2>4
<1>4. IsImage(file) /\ FlashAt(f) \in Nat
  <2>1. CASE f = "raw"
    BY <1>1, <2>1, FwupLayout DEF FlashAt
  <2>2. CASE f # "raw"
    BY <1>3, <2>2, FileImages DEF FlashFile
  <2> QED BY <2>1, <2>2
<1>5. IsImage(chunk) /\ chunk.len <= file.len /\ chunk.len \in Nat /\ chunk.len <= 32
      /\ file.len \in Nat
  <2>1. Sliced(chunk, file, 0, 32)
    BY <1>4, SliceImage, Sizes
  <2> HIDE DEF file, chunk
  <2>2. file.len \in Nat /\ chunk.len = Greatest(0, Least(32, file.len) - 0)
    BY <1>4, <2>1 DEF Sliced, IsImage
  <2> QED BY <2>1, <2>2 DEF Sliced, Greatest, Least
<1> HIDE DEF chunk
<1>6. disk.len = DiskBlocks /\ DiskBlocks \in Nat /\ lba \in {1, 8}
  BY DiskIs DEF DiskInv
<1>7. /\ SameSize(disk')
      /\ \A b \in 0 .. DiskBlocks - 1 : b < FlashAt(f) => disk'.at[b] = disk.at[b]
  <2> HIDE DEF file
  <2>1. FlashAt(f) + chunk.len <= DiskBlocks
    BY <1>1, <1>4, <1>5, <1>6
  <2>2. /\ SameSize(disk')
        /\ \A b \in 0 .. DiskBlocks - 1 :
             disk'.at[b] = IF FlashAt(f) <= b /\ b < FlashAt(f) + chunk.len
                           THEN chunk.at[b - FlashAt(f)] ELSE disk.at[b]
    BY <1>1, <1>4, <1>5, <2>1, FilePart DEF DiskInv
  <2> QED BY <1>4, <2>2
<1>8. DiskTyped'
  BY <1>1, <1>2, <1>7 DEF DiskInv, DiskTyped, SameSize
<1>9. EdlAlone'
  <2>1. FlashAt(edl)' = FlashAt(f)
    BY <1>1 DEF FlashAt, S, disk_bytes
  <2>2. FlashFile(edl)' = file
    BY <1>1 DEF FlashFile
  <2> HIDE DEF file
  <2>3. FlashAt(edl)' + FlashFile(edl)'.len <= DiskBlocks
    BY <1>1, <1>6, <2>1, <2>2
  <2> QED BY <1>1, <1>3, <2>3 DEF EdlAlone
<1>10. DiskKept'
  <2>1. CASE f = "backup" /\ from = args
    <3>1. Held /\ lba = 8 /\ from' = from
      BY <1>1, <1>3, <1>6, <2>1, Sizes DEF Held
    <3>2. ASSUME Sized, NEW b \in 0 .. DiskBlocks - 1, b < DataStart
          PROVE  disk'.at[b] = disk.at[b]
      <4>1. FlashAt(f) = DiskBlocks - 40
        BY <2>1, <3>1, <3>2, SizeOf, Sizes DEF FlashAt
      <4>2. DataStart \in Nat /\ DataStart < DiskBlocks - 40
        BY <3>1, <3>2, Holding, Blocked
      <4> QED BY <1>6, <1>7, <3>2, <4>1, <4>2
    <3>3. Steady
      BY <1>1, <1>6, <1>7, <3>1 DEF Steady, SameSize
    <3> QED BY <1>1, <1>7, <3>1, <3>2, <3>3, SteadyStep
  <2>2. CASE ~(f = "backup" /\ from = args)
    <3>1. ~Held'
      BY <1>1, <2>2 DEF Held
    <3> QED BY <3>1 DEF DiskKept
  <2> QED BY <2>1, <2>2
<1> QED
  BY <1>1, <1>8, <1>9, <1>10 DEF DiskInv, KernelKept, AppKept

LEMMA EdlCutInv == ASSUME DiskInv, EdlCut PROVE DiskInv'
<1>1. /\ UNCHANGED << disk, lba, from, stage, app >>
      /\ edl # "none" /\ edl' = "none" /\ kernel' = kernel /\ task' = task
  BY DEF EdlCut
<1>2. ~Held'
  BY <1>1 DEF Held, DiskInv, EdlAlone
<1>3. DiskTyped' /\ EdlAlone'
  BY <1>1 DEF DiskInv, DiskTyped, EdlAlone
<1> QED
  BY <1>1, <1>2, <1>3, QuietStep

\* The whole file has arrived.
LEMMA EdlFinishInv == ASSUME UInv, DiskInv, EdlFinish PROVE DiskInv'
<1> DEFINE file == FlashFile(edl)
           x == FlashAt(edl)
<1>1. /\ edl # "none" /\ edl' = "none" /\ disk' = Write(disk, x, file)
      /\ stage' = IF edl = "img" THEN "img"
                  ELSE IF edl = "backup" /\ from # args THEN "mixed" ELSE "complete"
      /\ lba' = lba /\ from' = from /\ kernel' = kernel /\ task' = task /\ app' = app
  BY DEF EdlFinish
<1>2. /\ kernel = {} /\ app = {} /\ stage = "torn" /\ from.input \in FwupSources
      /\ edl \in {"raw", "img", "backup", "full"}
      /\ edl = "raw" <=> lba = 1
      /\ edl # "raw" => pc = "done" /\ args.full = (edl = "full")
      /\ edl \in {"img", "full"} => from = args
      /\ x + file.len <= DiskBlocks
  BY <1>1, Sizes DEF DiskInv, DiskTyped, EdlAlone
<1>3. IsImage(file) /\ x \in Nat /\ file.len \in Nat
  <2>1. IsImage(file) /\ x \in Nat
    BY <1>2, FileImages
  <2> QED BY <2>1 DEF IsImage
<1>4. disk.len = DiskBlocks /\ DiskBlocks \in Nat /\ lba \in {1, 8}
  BY DiskIs DEF DiskInv
<1> HIDE DEF file, x
<1>5. /\ SameSize(disk')
      /\ \A b \in 0 .. DiskBlocks - 1 :
           disk'.at[b] = IF x <= b /\ b < x + file.len THEN file.at[b - x] ELSE disk.at[b]
  BY <1>1, <1>2, <1>3, FilePart DEF DiskInv
<1>6. Steady /\ IsImage(disk') /\ disk'.len = DiskBlocks
  BY <1>1, <1>4, <1>5 DEF Steady, SameSize
<1>7. DiskTyped' /\ EdlAlone' /\ KernelKept' /\ AppKept'
  BY <1>1, <1>2, <1>5 DEF DiskInv, DiskTyped, EdlAlone, SameSize, KernelKept, AppKept
<1>8. ASSUME edl = "raw"
      PROVE  Fits /\ KeptOn(disk')
  <2>1. file = Image /\ x = 0 /\ lba = 1 /\ Image.len <= DiskBlocks
    BY <1>2, <1>3, <1>8 DEF FlashFile, FlashAt, Image, file, x
  <2>2. /\ IsImage(Image) /\ FrontTable(Image, 1) /\ Image.len \in Nat
        /\ IsLayout(Layout, Image.at[1].backup_lba, Image.len)
        /\ Image.len > 48
    <3>1. /\ IsImage(Image) /\ FrontTable(Image, 1)
          /\ IsLayout(Layout, Image.at[1].backup_lba, Image.len)
          /\ EnvAt \in Nat /\ EnvAt >= 48 /\ EnvAt < Image.len
      BY <1>2, FwupLayout, Sizes DEF Image, Layout
    <3> QED BY <3>1 DEF IsImage
  <2>3. \A b \in 0 .. Image.len - 1 : disk'.at[b] = Image.at[b]
    BY <1>4, <1>5, <2>1, <2>2
  <2>4. FrontTable(disk', 1) /\ parse_gpt(disk', 1) = parse_gpt(Image, 1)
    <3>1. disk'.len >= 2 * 1 + 32 /\ \A b \in 0 .. 2 * 1 + 31 : disk'.at[b] = Image.at[b]
      BY <1>4, <1>6, <2>1, <2>2, <2>3
    <3> QED BY <1>6, <2>2, <3>1, FrontAgrees
  <2>5. Fits
    <3>1. BackupBlocks = 33
      BY <2>1, Blocked
    <3> QED BY <1>4, <2>1, <2>2, <3>1 DEF Fits, IsLayout
  <2>6. \A b \in Static : disk'.at[b] = Image.at[b]
    BY <1>2, <1>4, <2>2, <2>3, <2>5, StaticRange
  <2>7. parse_gpt(disk', 1).partitions = FirstTable
    BY <2>1, <2>4, Sizes DEF FirstTable, Layout, Image
  <2> QED BY <2>1, <2>4, <2>5, <2>6, <2>7, Sizes DEF KeptOn
<1>9. ASSUME edl \in {"img", "full"}, Sized
      PROVE  Fits /\ KeptOn(disk')
  <2>1. /\ Done /\ lba = 8 /\ from = args /\ from.input \in FwupSources
        /\ file = Out /\ x = 0
    BY <1>2, <1>4, <1>9 DEF Done, Out, FlashFile, FlashAt, file, x
  <2>2. Out.len <= DiskBlocks /\ \A b \in 0 .. Out.len - 1 : disk'.at[b] = Out.at[b]
    BY <1>2, <1>3, <1>4, <1>5, <2>1
  <2> QED BY <1>6, <1>9, <2>1, <2>2, FlashedUfs
<1>10. ASSUME edl = "full", Sized
       PROVE  BackupMade(disk')
  <2>1. /\ Done /\ lba = 8 /\ from = args /\ args.full
        /\ file = files.full /\ x = 0
    BY <1>2, <1>4, <1>10 DEF Done, FlashFile, FlashAt, file, x
  <2>2. /\ Typed /\ Sourced /\ Established /\ pc # "idle" /\ files.full = Full3
    BY <2>1, Finished
  <2>3. /\ Full3.len >= S * 8
        /\ \A i \in 0 .. 39 : Full3.at[(S - 5) * 8 + i] = built.backup_gpt.at[i]
    BY <2>2, FullShape DEF Established
  <2>4. DiskBlocks >= 40
    <3>1. S >= 6
      BY <2>2, Room, ValidSource DEF Established, IsTranslated
    <3> QED BY <1>10, <2>1, <3>1, SizeOf
  <2>5. \A i \in 0 .. 39 : disk'.at[DiskBlocks - 40 + i] = built.backup_gpt.at[i]
    <3> SUFFICES ASSUME NEW i \in 0 .. 39
                 PROVE  disk'.at[DiskBlocks - 40 + i] = built.backup_gpt.at[i]
      OBVIOUS
    <3>1. S * 8 = DiskBlocks /\ (S - 5) * 8 = DiskBlocks - 40
      BY <1>10, <2>1, SizeOf
    <3>2. DiskBlocks - 40 + i \in 0 .. DiskBlocks - 1
          /\ DiskBlocks - 40 + i < 0 + file.len /\ 0 <= DiskBlocks - 40 + i
          /\ DiskBlocks - 40 + i - 0 = DiskBlocks - 40 + i
      BY <1>3, <1>4, <2>1, <2>2, <2>3, <2>4, <3>1
    <3>3. disk'.at[DiskBlocks - 40 + i] = file.at[DiskBlocks - 40 + i]
      BY <1>5, <2>1, <3>2
    <3> QED BY <2>1, <2>2, <2>3, <3>1, <3>3
  <2>6. BackupOf(built.backup_gpt, translated, built.backup_header)
    BY <2>2, BuiltShape DEF Established
  <2> QED BY <1>2, <1>10, <2>1, <2>5, <2>6, FlashedBackup
<1>11. ASSUME edl = "backup", from = args, Sized
       PROVE  Fits /\ KeptOn(disk') /\ BackupMade(disk')
  <2>1. Held /\ Done /\ lba = 8 /\ ~args.full /\ file = files.backup /\ x = DiskBlocks - 40
    BY <1>2, <1>4, <1>11, SizeOf, Sizes DEF Held, Done, FlashFile, FlashAt, file, x
  <2>2. BackupOf(file, translated, built.backup_header)
    BY <2>1, Finished, Backup1Shape DEF Established
  <2>3. /\ Fits /\ KeptOn(disk) /\ IsImage(disk)
        /\ DataStart \in Nat /\ DataStart < DiskBlocks - 40
    BY <1>11, <2>1, Holding, Blocked
  <2>4. \A b \in 0 .. DiskBlocks - 1 : b < DataStart => disk'.at[b] = disk.at[b]
    BY <1>4, <1>5, <2>1, <2>3
  <2>5. KeptOn(disk')
    BY <1>2, <1>4, <1>6, <2>3, <2>4, InsideData
  <2>6. \A i \in 0 .. 39 : disk'.at[DiskBlocks - 40 + i] = file.at[i]
    <3> SUFFICES ASSUME NEW i \in 0 .. 39
                 PROVE  disk'.at[DiskBlocks - 40 + i] = file.at[i]
      OBVIOUS
    <3>1. file.len = 40
      BY <2>2 DEF BackupOf
    <3> DEFINE b == DiskBlocks - 40 + i
    <3>2. b \in 0 .. DiskBlocks - 1 /\ x <= b /\ b < x + file.len /\ b - x = i
      BY <1>4, <2>1, <2>3, <3>1
    <3> HIDE DEF b
    <3>3. disk'.at[b] = file.at[b - x]
      BY <1>5, <3>2
    <3> QED BY <3>2, <3>3 DEF b
  <2>7. BackupMade(disk')
    BY <1>2, <1>11, <2>1, <2>2, <2>6, FlashedBackup
  <2> QED BY <2>3, <2>5, <2>7
<1>12. DiskKept'
  <2> SUFFICES ASSUME Held', Sized'
               PROVE  /\ from.input \in FwupSources /\ Fits' /\ KeptOn(disk)'
                      /\ lba = 8 /\ stage' = "complete" => BackupMade(disk)'
    BY <1>1, Sizes DEF DiskKept
  <2>1. Fits' = Fits /\ Sized
    BY <1>6, SameLayout
  <2>2. edl = "backup" => from = args
    BY <1>1 DEF Held
  <2>3. Fits /\ KeptOn(disk')
    BY <1>2, <1>8, <1>9, <1>11, <2>1, <2>2
  <2>4. lba = 8 /\ stage' = "complete" => BackupMade(disk')
    BY <1>1, <1>2, <1>10, <1>11, <2>1, <2>2
  <2> QED BY <1>2, <1>6, <2>1, <2>3, <2>4, KeptNext
<1> QED
  BY <1>7, <1>12 DEF DiskInv

-----------------------------------------------------------------------------
(***************************************************************************)
(* The invariant is inductive.                                             *)
(***************************************************************************)
LEMMA BoardStep ==
    ASSUME UInv, DiskInv, [BoardNext]_allVars
    PROVE  UInv' /\ DiskInv'
<1>1. CASE Script /\ edl = "none"
  BY <1>1, ScriptInv
<1>2. CASE UNCHANGED allVars
  BY <1>2, StutterInv
<1>3. ASSUME NEW f \in {"raw", "img", "backup", "full"},
             NEW a \in Arguments \cup {from}, EdlBegin(f, a)
      PROVE  UInv' /\ DiskInv'
  <2>1. UNCHANGED vars
    BY <1>3 DEF EdlBegin
  <2> QED BY <1>3, <2>1, EdlBeginInv, StutterUInv
<1>4. CASE EdlFinish
  <2>1. UNCHANGED vars
    BY <1>4 DEF EdlFinish
  <2> QED BY <1>4, <2>1, EdlFinishInv, StutterUInv
<1>5. CASE EdlCut
  <2>1. UNCHANGED vars
    BY <1>5 DEF EdlCut
  <2> QED BY <1>5, <2>1, EdlCutInv, StutterUInv
<1>6. CASE Boot \/ Down \/ AppWrite
  <2>1. UNCHANGED vars
    BY <1>6 DEF Boot, Down, AppWrite
  <2> QED BY <1>6, <2>1, BootInv, DownInv, AppWriteInv, StutterUInv
<1>7. CASE ExpandBegin \/ ResetBegin \/ ResetWrite
  <2>1. UNCHANGED vars
    BY <1>7 DEF ExpandBegin, ResetBegin, ResetWrite
  <2> QED BY <1>7, <2>1, TaskBeginInv, ResetWriteInv, StutterUInv
<1>8. ASSUME NEW x \in {"front", "backup"}, ExpandWrite(x)
      PROVE  UInv' /\ DiskInv'
  <2>1. UNCHANGED vars
    BY <1>8 DEF ExpandWrite
  <2> QED BY <1>8, <2>1, ExpandWriteInv, StutterUInv
<1> QED
  BY <1>1, <1>2, <1>3, <1>4, <1>5, <1>6, <1>7, <1>8 DEF BoardNext

\* In every reachable state, between any two writes of a task or of a flashing,
\* an installed disk has one of the two tables of its layout in front, the
\* flashed contents in place and, on UFS, the backup copy of that table.
THEOREM BoardInductive == BoardSpec => [](UInv /\ DiskInv)
<1>1. BoardInit => UInv /\ DiskInv
  BY InitUInv, InitDiskInv DEF BoardInit
<1>2. UInv /\ DiskInv /\ [BoardNext]_allVars => UInv' /\ DiskInv'
  BY BoardStep
<1> QED
  BY <1>1, <1>2, PTL DEF BoardSpec

-----------------------------------------------------------------------------
(***************************************************************************)
(* What follows from it.                                                   *)
(***************************************************************************)
LEMMA InstalledHolds == Installed => Held /\ Sized
BY DEF Installed, Held, Sized

\* Where the data partition of the table on the disk lies, in blocks.
LEMMA DataBlocks ==
    ASSUME DiskInv, Installed
    PROVE  Blocks(Named(Table(disk, lba), "data"), lba) = DataStart .. DataEnd(OnDisk) - 1
BY InstalledHolds, Holding DEF Blocks, DataEnd

\* The partitions of the installed layout are found at the bytes where fwup's
\* constants put them, and hold what was flashed, on both kinds of disk and
\* whatever was interrupted.
THEOREM PartitionsSurvive == BoardSpec => []SlotsSurvive
<1>1. DiskInv => SlotsSurvive
  <2> SUFFICES ASSUME DiskInv, Installed
               PROVE  LET parts == Table(disk, lba)
                      IN /\ {p.name : p \in parts} = EXPECTED_PARTITION_NAMES
                         /\ \A p \in Layout :
                              LET q == Named(parts, p.name)
                              IN /\ q.first * lba = p.first
                                 /\ IF p.name = "data"
                                    THEN /\ (q.last + 1) * lba >= p.last + 1
                                         /\ (q.last + 1) * lba + BackupBlocks <= disk.len
                                    ELSE /\ (q.last + 1) * lba = p.last + 1
                                         /\ \A b \in Blocks(p, SRC_SECTOR) :
                                              disk.at[b] = Source[from.input].at[b]
                         /\ disk.at[EnvAt] = Content("env", 0)
    BY DEF SlotsSurvive
  <2>1. /\ from.input \in FwupSources /\ lba \in {1, 8} /\ disk.len = DiskBlocks /\ Fits
        /\ Table(disk, lba) = OnDisk /\ OnDisk \in {FirstTable, LastTable}
        /\ KeptOn(disk)
    BY InstalledHolds, Holding
  <2>2. Maps(OnDisk)
    BY <2>1, TablesMap
  <2>3. \A b \in Static : disk.at[b] = Source[from.input].at[b]
    BY <2>1 DEF KeptOn, Image
  <2>4. disk.at[EnvAt] = Content("env", 0)
    <3>1. EnvAt \in Static
      BY DEF Static
    <3> QED BY <2>1, <2>3, <3>1, FwupLayout
  <2>5. ASSUME NEW p \in Layout
        PROVE  LET q == Named(OnDisk, p.name)
               IN /\ q.first * lba = p.first
                  /\ IF p.name = "data"
                     THEN /\ (q.last + 1) * lba >= p.last + 1
                          /\ (q.last + 1) * lba + BackupBlocks <= disk.len
                     ELSE /\ (q.last + 1) * lba = p.last + 1
                          /\ \A b \in Blocks(p, SRC_SECTOR) :
                               disk.at[b] = Source[from.input].at[b]
    <3>1. StandsFor(Named(OnDisk, p.name), p)
      BY <2>2 DEF Maps
    <3>2. p.name # "data" => \A b \in Blocks(p, SRC_SECTOR) : b \in Static
      BY DEF Static
    <3> QED BY <2>1, <2>3, <3>1, <3>2 DEF StandsFor
  <2> QED BY <2>1, <2>2, <2>4, <2>5 DEF Maps
<1> QED
  BY <1>1, BoardInductive, PTL

\* The two copies of the table of a UFS disk flashed with both pieces are valid,
\* name each other and hold the same entries.
THEOREM CopiesAgree == BoardSpec => []TablesAgree
<1>1. DiskInv => TablesAgree
  <2> SUFFICES ASSUME DiskInv, Installed, stage = "complete", lba = 8
               PROVE  /\ GptValid(disk, 8) /\ BackupValid(disk, 8)
                      /\ disk.at[8].backup_lba = disk.at[disk.len - 8].current_lba
                      /\ disk.at[disk.len - 8].backup_lba = disk.at[8].current_lba
                      /\ disk.at[8].entries_crc = disk.at[disk.len - 8].entries_crc
    BY Sizes DEF TablesAgree
  <2> DEFINE h == disk.at[DiskBlocks - 8]
             n == DiskBlocks \div 8
  <2>1. /\ Held /\ Sized /\ KeptOn(disk) /\ BackupMade(disk) /\ GptValid(disk, 8)
        /\ IsImage(disk) /\ disk.len = DiskBlocks /\ DiskBlocks \in Nat /\ DiskBlocks % 8 = 0
    BY InstalledHolds, Holding, DiskAssumption, Sizes
       DEF DiskInv, DiskKept, FrontTable
  <2>2. /\ HeaderValid(h) /\ h.current_lba = n - 1 /\ h.backup_lba = 1
        /\ h.entries_lba = n - 5 /\ h.entries_len = 32
        /\ h.entries_crc = FileCrc(build_entries_bytes(Converted))
        /\ \A i \in 0 .. 31 : disk.at[DiskBlocks - 40 + i] = EntriesBlock(Converted, i)
    BY <2>1, Sizes DEF BackupMade
  <2>3. /\ disk.at[8].current_lba = 1 /\ disk.at[8].backup_lba = n - 1
        /\ disk.at[8].entries_crc = FileCrc(build_entries_bytes(Converted))
    BY <2>1, Sizes DEF KeptOn, PrimaryMade
  <2>4. n \in Nat /\ n * 8 = DiskBlocks /\ (n - 1) * 8 = DiskBlocks - 8
        /\ (n - 5) * 8 = DiskBlocks - 40
    BY <2>1
  <2>5. DiskBlocks - 40 \in Nat
    <3>1. BackupBlocks = 40 /\ DataStart \in Nat /\ DataStart < DataEnd(OnDisk)
          /\ DataEnd(OnDisk) \in Nat /\ DataEnd(OnDisk) <= DiskBlocks - BackupBlocks
      BY <2>1, Holding, Blocked
    <3> QED BY <2>1, <3>1
  <2> HIDE DEF h, n
  <2>6. EntriesOf(disk, h, 8) = build_entries_bytes(Converted)
    <3>1. EntriesOf(disk, h, 8) = Slice(disk, DiskBlocks - 40, DiskBlocks - 40 + 32)
      BY <2>2, <2>4 DEF EntriesOf
    <3>2. disk.len >= DiskBlocks - 40 + 32
      BY <2>1
    <3> QED BY <2>1, <2>2, <2>5, <3>1, <3>2, SameArray
  <2>7. EntriesValid(disk, h, 8)
    BY <2>2, <2>6, Sizes DEF EntriesValid, build_entries_bytes
  <2>8. BackupValid(disk, 8)
    BY <2>1, <2>2, <2>4, <2>7 DEF BackupValid, h
  <2> QED BY <2>1, <2>2, <2>3, <2>8 DEF h
<1> QED
  BY <1>1, BoardInductive, PTL

\* What the application has written lies in the data partition of the table and
\* stays as it is through expand-data, cuts and reboots.
THEOREM DataSurvives == BoardSpec => []DataKept
<1>1. DiskInv => DataKept
  <2> SUFFICES ASSUME DiskInv, Installed, NEW b \in app
               PROVE  /\ b \in Blocks(Named(Table(disk, lba), "data"), lba)
                      /\ disk.at[b] = AppMark
    BY DEF DataKept
  <2>1. b \in DataStart .. DataEnd(OnDisk) - 1 /\ disk.at[b] = AppMark
    BY InstalledHolds DEF DiskInv, AppKept
  <2> QED BY <2>1, DataBlocks
<1> QED
  BY <1>1, BoardInductive, PTL

\* A kernel that has read the table before expand-data sees partitions inside
\* those of the new table.
THEOREM StaleKernelSafe == BoardSpec => []StaleTableSafe
<1>1. DiskInv => StaleTableSafe
  <2> SUFFICES ASSUME DiskInv, Installed, NEW p \in kernel
               PROVE  /\ p.first >= Named(Table(disk, lba), p.name).first
                      /\ p.last <= Named(Table(disk, lba), p.name).last
    BY DEF StaleTableSafe
  <2>1. /\ from.input \in FwupSources /\ lba \in {1, 8} /\ disk.len = DiskBlocks /\ Fits
        /\ Table(disk, lba) = OnDisk /\ OnDisk \in {FirstTable, LastTable}
        /\ kernel \in {FirstTable, OnDisk}
    BY InstalledHolds, Holding DEF DiskInv, KernelKept
  <2>2. Maps(OnDisk) /\ Maps(kernel)
    BY <2>1, TablesMap
  <2>3. PICK l \in Layout : p = Named(kernel, l.name)
    BY <2>2 DEF Maps
  <2>4. /\ StandsFor(p, l) /\ StandsFor(Named(OnDisk, p.name), l)
    BY <2>2, <2>3 DEF Maps, StandsFor
  <2>5. CASE kernel = OnDisk
    <3>1. Named(OnDisk, p.name) = p
      BY <2>2, <2>5, NamedIs DEF Maps
    <3> QED BY <2>1, <2>4, <3>1 DEF StandsFor
  <2>6. CASE kernel # OnDisk
    <3>1. lba = 1 /\ kernel = Layout
      BY <2>1, <2>6, Sizes DEF FirstTable, LastTable
    <3>2. p = l
      <4>1. Distinct(Layout) /\ p \in Layout /\ p.name = l.name
        BY <2>2, <2>4, <3>1 DEF Maps, StandsFor
      <4> QED BY <4>1 DEF Distinct
    <3> QED BY <2>1, <2>4, <3>1, <3>2 DEF StandsFor
  <2> QED BY <2>5, <2>6
<1> QED
  BY <1>1, BoardInductive, PTL

\* factory-reset writes nothing outside the data partition of the table on the
\* disk, though it takes block numbers from the layout.
THEOREM ResetConfined == BoardSpec => ResetInsideData
<1>1. DiskInv =>
        [ResetWrite /\ Installed =>
           LET data == Blocks(Named(Table(disk, lba), "data"), lba)
           IN \A b \in 0 .. disk.len - 1 : b \in data \/ disk'.at[b] = disk.at[b]]_allVars
  <2> SUFFICES ASSUME DiskInv, ResetWrite, Installed, NEW b \in 0 .. disk.len - 1
               PROVE  \/ b \in Blocks(Named(Table(disk, lba), "data"), lba)
                      \/ disk'.at[b] = disk.at[b]
    OBVIOUS
  <2>1. disk.len = DiskBlocks
    BY DiskIs DEF DiskInv
  <2> QED BY <2>1, InstalledHolds, ResetRange, DataBlocks
<1> QED
  BY <1>1, BoardInductive, PTL DEF ResetInsideData
=============================================================================
