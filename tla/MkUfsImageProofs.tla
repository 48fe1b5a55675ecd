-------------------------- MODULE MkUfsImageProofs --------------------------
(***************************************************************************)
(* Proofs about MkUfsImage: the image tool on every source image, module   *)
(* size and sequence of invocations.                                       *)
(***************************************************************************)
EXTENDS MkUfsImage, FiniteSetTheorems, TLAPS

-----------------------------------------------------------------------------
(***************************************************************************)
(* Files.                                                                  *)
(***************************************************************************)
\* Zeros.
LEMMA ZerosImage ==
    ASSUME NEW n \in Nat
    PROVE  /\ IsImage(Zeros(n))
           /\ Zeros(n).len = n
           /\ \A b \in 0 .. n - 1 : Zeros(n).at[b] = Zero
BY DEF IsImage, Zeros

\* A slice, as Python takes it.
Sliced(w, f, a, b) ==
    /\ IsImage(w)
    /\ w.len = Greatest(0, Least(b, f.len) - a)
    /\ \A i \in 0 .. w.len - 1 : w.at[i] = f.at[a + i]

LEMMA SliceImage ==
    ASSUME NEW f, IsImage(f), NEW a \in Nat, NEW b \in Int
    PROVE  Sliced(Slice(f, a, b), f, a, b)
BY DEF IsImage, Slice, Sliced, Least, Greatest

\* What seek and write make of a file.
Written(w, f, pos, chunk) ==
    /\ IsImage(w)
    /\ w.len = Greatest(f.len, pos + chunk.len)
    /\ \A b \in 0 .. w.len - 1 :
         w.at[b] = IF pos <= b /\ b < pos + chunk.len THEN chunk.at[b - pos]
                   ELSE IF b < f.len THEN f.at[b] ELSE Zero

LEMMA WriteImage ==
    ASSUME NEW f, IsImage(f), NEW chunk, IsImage(chunk), NEW pos \in Nat
    PROVE  Written(Write(f, pos, chunk), f, pos, chunk)
<1> DEFINE n == Greatest(f.len, pos + chunk.len)
<1>1. n \in Nat
  BY DEF IsImage, Greatest
<1>2. Write(f, pos, chunk).len = n /\
      Write(f, pos, chunk).at = [b \in 0 .. n - 1 |->
          IF pos <= b /\ b < pos + chunk.len THEN chunk.at[b - pos]
          ELSE IF b < f.len THEN f.at[b] ELSE Zero]
  BY DEF Write
<1> QED
  BY <1>1, <1>2 DEF IsImage, Written

\* What appending makes of it.
Appended(w, f, chunk) ==
    /\ IsImage(w)
    /\ w.len = f.len + chunk.len
    /\ \A b \in 0 .. f.len - 1 : w.at[b] = f.at[b]
    /\ \A b \in 0 .. chunk.len - 1 : w.at[f.len + b] = chunk.at[b]

LEMMA ExtendImage ==
    ASSUME NEW f, IsImage(f), NEW chunk, IsImage(chunk)
    PROVE  Appended(Extend(f, chunk), f, chunk)
<1>1. f.len \in Nat /\ chunk.len \in Nat
  BY DEF IsImage
<1>2. Written(Extend(f, chunk), f, f.len, chunk)
  BY <1>1, WriteImage DEF Extend
<1>3. \A w : Written(w, f, f.len, chunk) => Appended(w, f, chunk)
  BY <1>1 DEF Written, Appended, Greatest
<1> QED
  BY <1>2, <1>3

-----------------------------------------------------------------------------
(***************************************************************************)
(* The new table.                                                          *)
(***************************************************************************)
LEMMA Sizes ==
    /\ SRC_SECTOR = 1 /\ DST_SECTOR = 8 /\ SLOTS_PER_BLOCK = 4
    /\ GPT_ENTRIES = 32 /\ DST_ENTRIES_SECTORS = 4
    /\ DST_FIRST_USABLE = 6 /\ DST_FRONT = 48 /\ DST_BACKUP_SECTORS = 5
BY DEF SRC_SECTOR, DST_SECTOR, SLOTS_PER_BLOCK, GPT_ENTRIES, DST_ENTRIES_SECTORS,
       DST_FIRST_USABLE, DST_FRONT, DST_BACKUP_SECTORS

\* Reading the array of parts gives those with a slot among its 128.
LEMMA EntriesRead ==
    ASSUME NEW parts
    PROVE  parse_entries(build_entries_bytes(parts)) =
           {p \in parts : p.slot \div 4 \in 0 .. 31}
<1> DEFINE array == build_entries_bytes(parts)
           Here(i) == {p \in parts : p.slot \div 4 = i}
           I == {j \in 0 .. 31 : array.at[j].kind = "entries"}
<1>1. array.len = 32 /\ \A i \in 0 .. 31 : array.at[i] = EntriesBlock(parts, i)
  BY Sizes DEF build_entries_bytes
<1> HIDE DEF array
<1>2. \A i \in 0 .. 31 : IF Here(i) = {} THEN array.at[i] = Zero
                         ELSE array.at[i] = [kind |-> "entries", slots |-> Here(i)]
  BY <1>1, Sizes DEF EntriesBlock
<1> HIDE DEF Here
<1>3. \A i \in 0 .. 31 : /\ array.at[i].kind = "entries" <=> Here(i) # {}
                         /\ array.at[i].kind = "entries" => array.at[i].slots = Here(i)
  BY <1>2 DEF Zero
<1>4. parse_entries(array) = UNION {array.at[i].slots : i \in I}
  BY <1>1 DEF parse_entries
<1>5. /\ \A i \in I : i \in 0 .. 31
      /\ \A i \in 0 .. 31 : i \in I <=> Here(i) # {}
  <2>1. \A i \in 0 .. 31 : i \in I <=> array.at[i].kind = "entries"
    OBVIOUS
  <2>2. \A i \in I : i \in 0 .. 31
    OBVIOUS
  <2> HIDE DEF I
  <2> QED BY <1>3, <2>1, <2>2
<1>6. \A i \in I : array.at[i].slots = Here(i)
  BY <1>3, <1>5
<1> HIDE DEF I
<1>7. \A p : p \in parse_entries(array) <=> \E i \in I : p \in array.at[i].slots
  BY <1>4, Zenon
<1>8. \A p : p \in parse_entries(array) <=> \E i \in 0 .. 31 : p \in Here(i)
  BY <1>5, <1>6, <1>7, Zenon
<1> QED
  BY <1>8 DEF Here, array

\* An array of 32 blocks that hold the entries is the array of the entries.
LEMMA SameArray ==
    ASSUME NEW f, IsImage(f), NEW a \in Nat, f.len >= a + 32, NEW parts,
           \A i \in 0 .. 31 : f.at[a + i] = EntriesBlock(parts, i)
    PROVE  Slice(f, a, a + 32) = build_entries_bytes(parts)
<1>1. f.len \in Nat
  BY DEF IsImage
<1> DEFINE n == Greatest(0, Least(a + 32, f.len) - a)
<1>2. n = 32
  BY <1>1 DEF Greatest, Least
<1>3. Slice(f, a, a + 32) = [len |-> 32, at |-> [i \in 0 .. 31 |-> f.at[a + i]]]
  <2>1. Slice(f, a, a + 32) = [len |-> n, at |-> [i \in 0 .. n - 1 |-> f.at[a + i]]]
    BY DEF Slice
  <2> HIDE DEF n
  <2>2. 0 .. n - 1 = 0 .. 31
    BY <1>2
  <2> QED BY <1>2, <2>1, <2>2
<1>4. build_entries_bytes(parts) = [len |-> 32, at |-> [i \in 0 .. 31 |-> EntriesBlock(parts, i)]]
  BY Sizes DEF build_entries_bytes
<1> QED
  BY <1>3, <1>4

\* A header that build_gpt_header has made is valid.
LEMMA MadeHeader ==
    ASSUME NEW cur, NEW bak, NEW fst, NEW lst, NEW guid, NEW ent, NEW crc
    PROVE  LET h == build_gpt_header(cur, bak, fst, lst, guid, ent, crc)
           IN /\ HeaderValid(h)
              /\ h.current_lba = cur /\ h.backup_lba = bak /\ h.entries_lba = ent
              /\ h.first_usable = fst /\ h.last_usable = lst
              /\ h.entries_len = 32 /\ h.disk_guid = guid /\ h.entries_crc = crc
<1> DEFINE h == build_gpt_header(cur, bak, fst, lst, guid, ent, crc)
           g == [kind |-> "header", signature |-> TRUE, size |-> 92,
                 current_lba |-> cur, backup_lba |-> bak,
                 first_usable |-> fst, last_usable |-> lst,
                 disk_guid |-> guid, entries_lba |-> ent,
                 entries_len |-> 32, entries_crc |-> crc,
                 crc |-> 0]
<1>0. \A c : [[g EXCEPT !.crc = c] EXCEPT !.crc = 0] = [g EXCEPT !.crc = 0]
  OBVIOUS
<1>1. h = [g EXCEPT !.crc = HeaderCrc(g)]
  BY Sizes DEF build_gpt_header
<1>2. \A c : LET x == [g EXCEPT !.crc = c]
            IN /\ x.kind = g.kind /\ x.signature = g.signature /\ x.size = g.size
               /\ x.crc = c
               /\ x.current_lba = cur /\ x.backup_lba = bak /\ x.entries_lba = ent
               /\ x.first_usable = fst /\ x.last_usable = lst
               /\ x.entries_len = 32 /\ x.disk_guid = guid /\ x.entries_crc = crc
  OBVIOUS
<1>3. g.kind = "header" /\ g.signature /\ g.size <= 92
  OBVIOUS
<1> HIDE DEF g, h
<1>4. HeaderCrc(h) = HeaderCrc(g) /\ h.crc = HeaderCrc(g)
  <2>1. h.crc = HeaderCrc(g)
    BY <1>1, <1>2
  <2>2. [h EXCEPT !.crc = 0] = [g EXCEPT !.crc = 0]
    BY <1>0, <1>1
  <2> QED BY <2>1, <2>2 DEF HeaderCrc
<1>5. h.kind = "header" /\ h.signature /\ h.size <= 92
  <2>1. h.kind = g.kind /\ h.signature = g.signature /\ h.size = g.size
    BY <1>1, <1>2
  <2> QED BY <1>3, <2>1, Zenon
<1>6. /\ h.current_lba = cur /\ h.backup_lba = bak /\ h.entries_lba = ent
      /\ h.first_usable = fst /\ h.last_usable = lst
      /\ h.entries_len = 32 /\ h.disk_guid = guid /\ h.entries_crc = crc
  BY <1>1, <1>2
<1>7. HeaderValid(h)
  BY <1>4, <1>5, Zenon DEF HeaderValid
<1> QED
  BY <1>6, <1>7 DEF h

\* A front with such a header at sector 1 and the entries behind it is a valid
\* table, and read back as the partitions whose slots the array has.
LEMMA FrontRead ==
    ASSUME NEW f, IsImage(f), NEW ss \in {1, 8}, f.len >= 2 * ss + 32, NEW parts,
           NEW total, f.at[0] = build_protective_mbr(total),
           NEW h, f.at[ss] = h, HeaderValid(h),
           h.entries_lba = 2, h.entries_len = 32,
           h.entries_crc = FileCrc(build_entries_bytes(parts)),
           \A i \in 0 .. 31 : f.at[2 * ss + i] = EntriesBlock(parts, i)
    PROVE  /\ GptValid(f, ss)
           /\ parse_gpt(f, ss).partitions = {p \in parts : p.slot \div 4 \in 0 .. 31}
<1> DEFINE a == 2 * ss
<1>1. f.len \in Nat /\ a \in Nat /\ f.len >= 6 * ss /\ f.len >= a + 32
  <2>1. f.len \in Nat
    BY DEF IsImage
  <2>2. CASE ss = 1 BY <2>1, <2>2
  <2>3. CASE ss = 8 BY <2>1, <2>3
  <2> QED BY <2>2, <2>3
<1>2. Slice(f, a, a + 32) = build_entries_bytes(parts)
  <2>1. \A i \in 0 .. 31 : f.at[a + i] = EntriesBlock(parts, i)
    OBVIOUS
  <2> HIDE DEF a
  <2> QED BY <1>1, <2>1, SameArray
<1>3. EntriesOf(f, h, ss) = build_entries_bytes(parts)
  BY <1>2 DEF EntriesOf
<1>4. build_entries_bytes(parts).len = 32
  BY Sizes DEF build_entries_bytes
<1>5. EntriesValid(f, h, ss)
  BY <1>3, <1>4 DEF EntriesValid
<1>6. f.at[0].kind = "mbr" /\ f.at[0].signed /\ f.at[0].ptype = "gpt"
  BY DEF build_protective_mbr
<1>7. GptValid(f, ss)
  BY <1>1, <1>5, <1>6 DEF GptValid
<1>8. parse_gpt(f, ss).partitions = parse_entries(build_entries_bytes(parts))
  BY <1>3 DEF parse_gpt
<1> QED
  BY <1>7, <1>8, EntriesRead

\* Where build_new_gpt puts what.
FrontOf(front, parts, header) ==
    /\ IsImage(front) /\ front.len = 48
    /\ front.at[0] = build_protective_mbr(S)
    /\ front.at[1] = Zero
    /\ front.at[8] = header
    /\ \A i \in 0 .. 31 : front.at[16 + i] = EntriesBlock(parts, i)

BackupOf(backup, parts, header) ==
    /\ IsImage(backup) /\ backup.len = 40
    /\ backup.at[32] = header
    /\ \A i \in 0 .. 31 : backup.at[i] = EntriesBlock(parts, i)

LEMMA BuiltImages ==
    ASSUME NEW guid, NEW parts
    PROVE  LET new == build_new_gpt(guid, parts)
           IN /\ FrontOf(new.front, parts, new.primary_header)
              /\ BackupOf(new.backup_gpt, parts, new.backup_header)
              /\ new.entries_bytes = build_entries_bytes(parts)
              /\ new.entries_crc = FileCrc(build_entries_bytes(parts))
              /\ new.last_usable = last_usable
<1> DEFINE new == build_new_gpt(guid, parts)
           array == build_entries_bytes(parts)
           at == [b \in 0 .. DST_FRONT - 1 |->
                    IF b = 0 THEN build_protective_mbr(S)
                    ELSE IF b = DST_SECTOR THEN new.primary_header
                    ELSE IF b >= 2 * DST_SECTOR THEN array.at[b - 2 * DST_SECTOR]
                    ELSE Zero]
           end == [b \in 0 .. DST_BACKUP_SECTORS * DST_SECTOR - 1 |->
                     IF b < GPT_ENTRIES THEN array.at[b]
                     ELSE IF b = GPT_ENTRIES THEN new.backup_header ELSE Zero]
<1>1. new.front = [Zeros(DST_FRONT) EXCEPT !.at = at]
  BY DEF build_new_gpt
<1>2. new.backup_gpt = [len |-> DST_BACKUP_SECTORS * DST_SECTOR, at |-> end]
  BY DEF build_new_gpt
<1>3. /\ new.entries_bytes = array /\ new.entries_crc = FileCrc(array)
      /\ new.last_usable = last_usable
  BY DEF build_new_gpt
<1> HIDE DEF new
<1>4. array.at = [i \in 0 .. 31 |-> EntriesBlock(parts, i)]
  BY Sizes DEF build_entries_bytes
<1>5. new.front.len = 48 /\ new.front.at = at
  <2> HIDE DEF at
  <2> QED BY <1>1, Sizes DEF Zeros
<1>6. FrontOf(new.front, parts, new.primary_header)
  <2>1. at = [b \in 0 .. 47 |-> at[b]]
    BY Sizes
  <2>2. at[0] = build_protective_mbr(S) /\ at[1] = Zero /\ at[8] = new.primary_header
    BY Sizes
  <2>3. \A i \in 0 .. 31 : at[16 + i] = EntriesBlock(parts, i)
    <3> HIDE DEF array
    <3> QED BY <1>4, Sizes
  <2> HIDE DEF at
  <2> QED BY <1>5, <2>1, <2>2, <2>3 DEF FrontOf, IsImage
<1>7. BackupOf(new.backup_gpt, parts, new.backup_header)
  <2>1. end = [b \in 0 .. 39 |-> end[b]] /\ end[32] = new.backup_header
    BY Sizes
  <2>2. \A i \in 0 .. 31 : end[i] = EntriesBlock(parts, i)
    <3> HIDE DEF array
    <3> QED BY <1>4, Sizes
  <2> HIDE DEF end
  <2> QED BY <1>2, <2>1, <2>2, Sizes DEF BackupOf, IsImage
<1> QED
  BY <1>3, <1>6, <1>7 DEF new

\* The slice assignment leaves alone what lies before it.
LEMMA SpliceImage ==
    ASSUME NEW body, IsImage(body), NEW rel \in Int, NEW n \in Nat
    PROVE  /\ IsImage(SpliceZeros(body, rel, n))
           /\ 0 <= rel /\ rel + n <= body.len =>
                /\ SpliceZeros(body, rel, n).len = body.len
                /\ \A b \in 0 .. rel - 1 : SpliceZeros(body, rel, n).at[b] = body.at[b]
<1> DEFINE Index(i) == IF i < 0 THEN Greatest(0, body.len + i) ELSE Least(i, body.len)
           from == Index(rel)
           to == Greatest(from, Index(rel + n))
           head == Slice(body, 0, from)
           mid == Extend(head, Zeros(n))
           tail == Slice(body, to, body.len)
<1>1. body.len \in Nat
  BY DEF IsImage
<1>2. /\ from \in Nat /\ to \in Nat /\ from <= body.len
      /\ 0 <= rel /\ rel + n <= body.len => from = rel /\ to = rel + n
  BY <1>1 DEF Greatest, Least
<1> HIDE DEF from, to
<1>3. /\ IsImage(head) /\ head.len = from
      /\ \A b \in 0 .. from - 1 : head.at[b] = body.at[b]
  <2>1. Sliced(head, body, 0, from)
    BY <1>2, SliceImage
  <2> HIDE DEF head
  <2> QED BY <1>1, <1>2, <2>1 DEF Sliced, Greatest, Least
<1>4. IsImage(tail) /\ tail.len = Greatest(0, body.len - to)
  <2>1. Sliced(tail, body, to, body.len)
    BY <1>1, <1>2, SliceImage
  <2> HIDE DEF tail
  <2> QED BY <1>1, <1>2, <2>1 DEF Sliced, Least
<1> HIDE DEF head, tail
<1>5. Appended(mid, head, Zeros(n)) /\ Zeros(n).len = n
  BY <1>3, ZerosImage, ExtendImage
<1> HIDE DEF mid
<1>6. IsImage(mid) /\ mid.len = from + n /\ \A b \in 0 .. from - 1 : mid.at[b] = body.at[b]
  BY <1>2, <1>3, <1>5 DEF Appended
<1>7. Appended(Extend(mid, tail), mid, tail)
  BY <1>4, <1>6, ExtendImage
<1>8. SpliceZeros(body, rel, n) = Extend(mid, tail)
  BY DEF SpliceZeros, mid, head, tail, from, to
<1>9. ASSUME 0 <= rel, rel + n <= body.len
      PROVE  /\ Extend(mid, tail).len = body.len
             /\ \A b \in 0 .. rel - 1 : Extend(mid, tail).at[b] = body.at[b]
  BY <1>1, <1>2, <1>4, <1>6, <1>7, <1>9 DEF Appended, Greatest
<1> QED
  BY <1>7, <1>8, <1>9 DEF Appended

-----------------------------------------------------------------------------
(***************************************************************************)
(* The size on the command line.                                           *)
(***************************************************************************)
LEMMA ParsedSize ==
    ASSUME args \in Arguments
    PROVE  disk_bytes \in Nat /\ S \in Nat
<1>1. args.size.tenths \in Nat /\ args.size.unit \in {"B", "K", "M", "G", "T"}
  BY ToolAssumption
<1>2. Multiplier(args.size.unit) \in Nat
  <2>1. \A m \in {1, 1024, 1024 * 1024, 1024 * 1024 * 1024, 1024 * 1024 * 1024 * 1024} :
           m \in Nat
    OBVIOUS
  <2>2. Multiplier(args.size.unit) \in
          {1, 1024, 1024 * 1024, 1024 * 1024 * 1024, 1024 * 1024 * 1024 * 1024}
    <3>1. CASE args.size.unit = "B" BY <3>1 DEF Multiplier
    <3>2. CASE args.size.unit = "K" BY <3>2 DEF Multiplier
    <3>3. CASE args.size.unit = "M" BY <3>3 DEF Multiplier
    <3>4. CASE args.size.unit = "G" BY <3>4 DEF Multiplier
    <3>5. CASE args.size.unit = "T" BY <3>5 DEF Multiplier
    <3> QED BY <1>1, <3>1, <3>2, <3>3, <3>4, <3>5
  <2> QED BY <2>1, <2>2
<1>3. \A n \in Nat : RoundTenths(n) \in Nat
  BY DEF RoundTenths
<1>4. args.size.tenths * Multiplier(args.size.unit) \in Nat
  <2>1. \A x, y \in Nat : x * y \in Nat
    OBVIOUS
  <2> QED BY <1>1, <1>2, <2>1
<1>5. disk_bytes \in Nat
  BY <1>3, <1>4 DEF disk_bytes, parse_size
<1> QED
  BY <1>5, Sizes DEF S, SectorBytes

-----------------------------------------------------------------------------
(***************************************************************************)
(* The inductive invariant: what the steps passed so far have established, *)
(* and what each output file holds at each step of the writing.            *)
(***************************************************************************)
AfterLocate == Writing \cup {"done"}
AfterVerify == AfterLocate \cup {"locate"}
AfterBuild == AfterVerify \cup {"verify"}
AfterTranslate == AfterBuild \cup {"build"}
AfterValidate == AfterTranslate \cup {"translate"}
AfterParse == AfterValidate \cup {"validate"}

IsParsed == GptValid(source, SRC_SECTOR) /\ src = parse_gpt(source, SRC_SECTOR)
IsTranslated == /\ Translatable(src.partitions)
                /\ translated = translate_partitions(src.partitions)
IsBuilt == built = build_new_gpt(src.disk_guid, translated)
IsVerified == self_verify(built, src.disk_guid, translated)

Progress ==
    /\ pc \in AfterParse => IsParsed
    /\ pc \in AfterValidate => validate_source(src)
    /\ pc \in AfterTranslate => IsTranslated
    /\ pc \in AfterBuild => IsBuilt
    /\ pc \in AfterVerify => IsVerified
    /\ pc \in AfterLocate => Locatable
    /\ pc \in Checks \cup {"build", "failed"} => ~touched

Img1 == Extend(Empty, built.front)
Img2 == Extend(Img1, TwoPieceBody)
Img3 == Extend(Img2, Padding(Img2))
Backup1 == Extend(Empty, built.backup_gpt)
Full0 == Zeros(S * DST_SECTOR)
Full1 == Write(Full0, 0, built.front)
Full2 == Write(Full1, DST_FRONT, FullBody)
Full3 == Write(Full2, (S - 5) * DST_SECTOR, built.backup_gpt)

FilesByStage ==
    /\ pc = "front" => files.img = Empty
    /\ pc = "body" => files.img = Img1
    /\ pc = "pad" => files.img = Img2
    /\ pc \in {"openBackup", "backup"} => files.img = Img3
    /\ pc = "backup" => files.backup = Empty
    /\ pc = "fullFront" => files.full = Full0
    /\ pc = "fullBody" => files.full = Full1
    /\ pc = "fullBackup" => files.full = Full2
    /\ pc \in {"openImg", "front", "body", "pad", "openBackup", "backup"} => ~args.full
    /\ pc \in {"openFull", "fullFront", "fullBody", "fullBackup"} => args.full
    /\ pc = "done" /\ ~args.full => files.img = Img3 /\ files.backup = Backup1
    /\ pc = "done" /\ args.full => files.full = Full3

\* A file of the script's own never has a header in its block 1.
OwnFile(f) == IsImage(f) /\ (f.len > 1 => f.at[1] = Zero)

Files ==
    /\ files = [f \in {"img", "backup", "full"} |-> files[f]]
    /\ OwnFile(files.img) /\ OwnFile(files.full) /\ IsImage(files.backup)

Sourced ==
    /\ IsImage(source)
    /\ pc # "idle" => IF args.input \in DOMAIN Source THEN source = Source[args.input]
                      ELSE source.len > 1 => source.at[1] = Zero

Typed ==
    /\ tool \in Tools
    /\ args \in Arguments
    /\ pc \in Checks \cup {"build"} \cup Writing \cup Ended
    /\ \A p \in translated : p.first \in Nat /\ p.last \in Nat
    /\ touched \in BOOLEAN
    /\ invocations \in 0 .. MaxInvocations

UInv == Typed /\ Sourced /\ Files /\ Progress /\ FilesByStage

-----------------------------------------------------------------------------
\* The initial state satisfies the invariant.
LEMMA InitUInv == Init => UInv
<1> SUFFICES ASSUME Init PROVE UInv
  OBVIOUS
<1> USE DEF Init
<1>1. IsImage(Empty) /\ Empty.len = 0
  BY ZerosImage DEF Empty
<1>2. args \in Arguments
  <2>1. Arguments # {}
    BY ToolAssumption
  <2> QED BY <2>1
<1>3. Typed
  <2>1. invocations \in 0 .. MaxInvocations
    BY ToolAssumption
  <2>2. touched \in BOOLEAN /\ pc \in Ended /\ tool \in Tools /\ translated = {}
    BY Zenon DEF Ended
  <2> QED BY <1>2, <2>1, <2>2, Zenon DEF Typed
<1>4. Files /\ Sourced
  BY <1>1 DEF Files, Sourced, OwnFile
<1>5. Progress /\ FilesByStage
  BY DEF Progress, FilesByStage, AfterParse, AfterValidate, AfterTranslate, AfterBuild,
         AfterVerify, AfterLocate, Writing, Checks
<1> QED
  BY <1>3, <1>4, <1>5 DEF UInv

\* The steps that change no local variable keep what was established.
LEMMA Frame ==
    ASSUME UNCHANGED << tool, args, locals >>
    PROVE  /\ IsParsed => IsParsed'
           /\ validate_source(src) => validate_source(src')
           /\ IsTranslated => IsTranslated'
           /\ IsBuilt => IsBuilt'
           /\ IsVerified => IsVerified'
           /\ Locatable => Locatable'
           /\ Img1' = Img1 /\ Img2' = Img2 /\ Img3' = Img3
           /\ Backup1' = Backup1
           /\ Full0' = Full0 /\ Full1' = Full1 /\ Full2' = Full2 /\ Full3' = Full3
<1> USE DEF locals
<1>1. S' = S /\ disk_bytes' = disk_bytes /\ last_usable' = last_usable
  BY DEF S, disk_bytes, last_usable
<1>2. stale_backup_start' = stale_backup_start /\ stale_backup_len' = stale_backup_len
  BY DEF stale_backup_start, stale_backup_len
<1>3. TwoPieceBody' = TwoPieceBody /\ FullBody' = FullBody
  BY <1>2 DEF TwoPieceBody, FullBody
<1>4. (IsParsed => IsParsed') /\ (validate_source(src) => validate_source(src'))
  BY DEF IsParsed
<1>5. IsTranslated => IsTranslated'
  BY <1>1, ZenonT(40) DEF IsTranslated, Translatable, AboveFloor, translate_partitions
<1>6. IsBuilt => IsBuilt'
  BY <1>1 DEF IsBuilt, build_new_gpt
<1>7. IsVerified => IsVerified'
  BY <1>1 DEF IsVerified, self_verify
<1>8. Locatable => Locatable'
  BY <1>2 DEF Locatable
<1> QED
  BY <1>1, <1>3, <1>4, <1>5, <1>6, <1>7, <1>8
     DEF Img1, Img2, Img3, Backup1, Full0, Full1, Full2, Full3

-----------------------------------------------------------------------------
(***************************************************************************)
(* What a source that passed parse_gpt is, and the sizes that follow.      *)
(***************************************************************************)
\* Whatever image parse_gpt accepts: its fields are numbers, its partitions
\* finitely many entries.
LEMMA ParsedImage ==
    ASSUME NEW f, IsImage(f), GptValid(f, 1), \A b \in 0 .. f.len - 1 : WellFormed(f.at[b])
    PROVE  /\ parse_gpt(f, 1).backup_lba \in Nat /\ parse_gpt(f, 1).entries_len \in Nat
           /\ parse_gpt(f, 1).partitions \subseteq Entry
           /\ IsFiniteSet(parse_gpt(f, 1).partitions)
<1> DEFINE h == f.at[1]
           array == EntriesOf(f, h, 1)
           I == {j \in 0 .. array.len - 1 : array.at[j].kind = "entries"}
           T == {array.at[i].slots : i \in I}
           s == [i \in I |-> array.at[i].slots]
<1>1. h.backup_lba \in Nat /\ h.entries_lba \in Nat /\ h.entries_len \in Nat
  <2>1. f.len \in Nat /\ f.len >= 6 /\ h.kind = "header"
    BY DEF IsImage, GptValid, HeaderValid
  <2>2. WellFormed(h)
    BY <2>1
  <2> QED BY <2>1, <2>2 DEF WellFormed
<1>2. /\ parse_gpt(f, 1).backup_lba = h.backup_lba
      /\ parse_gpt(f, 1).entries_len = h.entries_len
      /\ parse_gpt(f, 1).partitions = parse_entries(array)
  BY DEF parse_gpt
<1> HIDE DEF h
<1>3. Sliced(array, f, h.entries_lba, h.entries_lba + h.entries_len)
  BY <1>1, SliceImage DEF EntriesOf
<1> HIDE DEF array
<1>4. array.len \in Nat /\ \A i \in 0 .. array.len - 1 : WellFormed(array.at[i])
  <2>1. f.len \in Nat /\ array.len \in Nat
    BY <1>3 DEF IsImage, Sliced
  <2>2. ASSUME NEW i \in 0 .. array.len - 1
        PROVE  array.at[i] = f.at[h.entries_lba + i] /\ h.entries_lba + i \in 0 .. f.len - 1
    BY <1>1, <1>3, <2>1 DEF Sliced, Least, Greatest
  <2> QED BY <2>1, <2>2
<1>5. parse_entries(array) \subseteq Entry
  BY <1>4 DEF parse_entries, WellFormed
<1>6. IsFiniteSet(I)
  <2>1. IsFiniteSet(0 .. array.len - 1)
    BY <1>4, FS_Interval
  <2> QED BY <2>1, FS_Subset
<1>7. IsFiniteSet(T)
  <2>1. s \in Surjection(I, T)
    BY DEF Surjection
  <2> QED BY <1>6, <2>1, FS_Surjection
<1>8. \A t \in T : IsFiniteSet(t)
  BY <1>4 DEF WellFormed
<1>9. IsFiniteSet(parse_entries(array))
  BY <1>7, <1>8, FS_UNION DEF parse_entries
<1> QED
  BY <1>1, <1>2, <1>5, <1>9

\* It is an image at hand, none of the script's own.
LEMMA ParsedInput ==
    ASSUME Sourced, IsParsed, pc # "idle"
    PROVE  /\ args.input \in DOMAIN Source /\ source = Source[args.input]
           /\ source.len \in Nat /\ source.len >= 6
           /\ source.at[1].kind = "header" /\ EntriesValid(source, source.at[1], 1)
           /\ \A b \in 0 .. source.len - 1 : WellFormed(source.at[b])
<1>1. source.len \in Nat /\ source.len >= 6 /\ source.at[1].kind = "header"
      /\ EntriesValid(source, source.at[1], 1)
  BY Sizes DEF Sourced, IsImage, IsParsed, GptValid, HeaderValid
<1>2. args.input \in DOMAIN Source /\ source = Source[args.input]
  BY <1>1 DEF Sourced, Zero
<1> QED
  BY <1>1, <1>2, SourceAssumption

\* Its fields are numbers and its partitions entries.
LEMMA ParsedSource ==
    ASSUME Sourced, IsParsed, pc # "idle"
    PROVE  /\ src.backup_lba \in Nat /\ src.entries_len \in Nat
           /\ src.partitions \subseteq Entry
BY ParsedInput, ParsedImage, Sizes DEF IsParsed, Sourced

\* The invariant of a state that has come to the tables.
LEMMA BuiltShape ==
    ASSUME IsBuilt
    PROVE  /\ FrontOf(built.front, translated, built.primary_header)
           /\ BackupOf(built.backup_gpt, translated, built.backup_header)
           /\ built.entries_bytes = build_entries_bytes(translated)
           /\ built.entries_crc = FileCrc(build_entries_bytes(translated))
           /\ built.last_usable = last_usable
BY BuiltImages DEF IsBuilt

\* The two bodies: the source up to its backup header, from block 48 on.
LEMMA Bodies ==
    ASSUME Sourced, IsParsed, Locatable, pc # "idle"
    PROVE  LET n == Greatest(0, src.backup_lba - 48)
           IN /\ IsImage(TwoPieceBody) /\ IsImage(FullBody)
              /\ FullBody.len = n
              /\ \A b \in 0 .. n - 1 : FullBody.at[b] = source.at[48 + b]
              /\ n > 0 => TwoPieceBody.len >= n
              /\ \A b \in 0 .. n - 1 : TwoPieceBody.at[b] = source.at[48 + b]
<1> DEFINE n == Greatest(0, src.backup_lba - 48)
           body == Slice(source, 48, source.len)
           rel == src.backup_lba - 48
           len == src.entries_len + 1
<1>1. /\ src.backup_lba \in Nat /\ src.entries_len \in Nat /\ source.len \in Nat
      /\ IsImage(source)
      /\ src.backup_lba + len <= source.len
  BY ParsedSource DEF Locatable, stale_backup_start, stale_backup_len, Sourced, IsImage
<1>2. Sliced(FullBody, source, 48, src.backup_lba)
  BY <1>1, SliceImage, Sizes DEF FullBody, stale_backup_start
<1>3. /\ IsImage(FullBody) /\ FullBody.len = n
      /\ \A b \in 0 .. n - 1 : FullBody.at[b] = source.at[48 + b]
  BY <1>1, <1>2 DEF Sliced, Least, Greatest
<1>4. Sliced(body, source, 48, source.len)
  BY <1>1, SliceImage
<1>5. TwoPieceBody = SpliceZeros(body, rel, len)
  BY Sizes DEF TwoPieceBody, stale_backup_start, stale_backup_len
<1> HIDE DEF body
<1>6. /\ IsImage(body) /\ body.len = Greatest(0, source.len - 48)
      /\ body.len \in Nat
      /\ \A b \in 0 .. body.len - 1 : body.at[b] = source.at[48 + b]
  BY <1>1, <1>4 DEF Sliced, Least, IsImage
<1>7. rel \in Int /\ len \in Nat
  BY <1>1
<1>8. IsImage(SpliceZeros(body, rel, len))
  BY <1>6, <1>7, SpliceImage
<1>9. ASSUME n > 0
      PROVE  TwoPieceBody.len >= n
             /\ \A b \in 0 .. n - 1 : TwoPieceBody.at[b] = source.at[48 + b]
  <2>1. n = rel /\ 0 <= rel /\ rel + len <= body.len /\ rel <= body.len
    BY <1>1, <1>6, <1>9 DEF Greatest
  <2>2. /\ TwoPieceBody.len = body.len
        /\ \A b \in 0 .. rel - 1 : TwoPieceBody.at[b] = body.at[b]
    BY <1>5, <1>6, <1>7, <2>1, SpliceImage
  <2> HIDE DEF n, rel
  <2> QED BY <1>6, <1>7, <2>1, <2>2
<1>10. n \in Nat
  BY <1>1 DEF Greatest
<1>11. n = 0 => \A b \in 0 .. n - 1 : FALSE
  BY <1>10
<1> HIDE DEF n
<1> QED
  BY <1>3, <1>5, <1>8, <1>9, <1>10, <1>11 DEF n

-----------------------------------------------------------------------------
(***************************************************************************)
(* Five partitions of five names: names tell them apart, and one of them   *)
(* starts highest.                                                         *)
(***************************************************************************)
LEMMA ExpectedFive ==
    IsFiniteSet(EXPECTED_PARTITION_NAMES) /\ Cardinality(EXPECTED_PARTITION_NAMES) = 5
<1> DEFINE A == {"config"}
           B == A \cup {"efi"}
           C == B \cup {"rootfs-a"}
           D == C \cup {"rootfs-b"}
           E == D \cup {"data"}
<1>1. IsFiniteSet(A) /\ Cardinality(A) = 1
  BY FS_Singleton
<1>2. "efi" \notin A /\ "rootfs-a" \notin B /\ "rootfs-b" \notin C /\ "data" \notin D
  OBVIOUS
<1>3. E = EXPECTED_PARTITION_NAMES
  BY DEF EXPECTED_PARTITION_NAMES
<1> HIDE DEF A
<1>4. IsFiniteSet(B) /\ Cardinality(B) = 2
  BY <1>1, <1>2, FS_AddElement
<1> HIDE DEF B
<1>5. IsFiniteSet(C) /\ Cardinality(C) = 3
  BY <1>2, <1>4, FS_AddElement
<1> HIDE DEF C
<1>6. IsFiniteSet(D) /\ Cardinality(D) = 4
  BY <1>2, <1>5, FS_AddElement
<1> HIDE DEF D
<1> QED
  BY <1>2, <1>3, <1>6, FS_AddElement

LEMMA FiveNames ==
    ASSUME NEW parts, IsFiniteSet(parts), Cardinality(parts) = 5,
           {p.name : p \in parts} = EXPECTED_PARTITION_NAMES
    PROVE  \A p, q \in parts : p.name = q.name => p = q
<1> DEFINE f == [p \in parts |-> p.name]
<1>1. f \in Surjection(parts, EXPECTED_PARTITION_NAMES)
  BY DEF Surjection
<1>2. f \in Injection(parts, EXPECTED_PARTITION_NAMES)
  BY <1>1, ExpectedFive, FS_Surjection
<1>3. \A p, q \in parts : f[p] = f[q] => p = q
  <2> HIDE DEF f
  <2> QED BY <1>2 DEF Injection, IsInjective
<1> QED
  BY <1>3

\* p starts at least as high as q, as the choice of data_idx compares them.
AsHigh(p, q) == p.first > q.first \/ (p.first = q.first /\ p.slot <= q.slot)

HasHighest(A) == \E m \in A : \A q \in A : AsHigh(m, q)

LEMMA AddOne ==
    ASSUME NEW A, NEW x, \A p \in A \cup {x} : p.first \in Nat /\ p.slot \in Nat,
           HasHighest(A)
    PROVE  HasHighest(A \cup {x})
<1> PICK m \in A : \A q \in A : AsHigh(m, q)
  BY DEF HasHighest
<1>1. CASE AsHigh(m, x)
  BY <1>1 DEF HasHighest
<1>2. CASE ~AsHigh(m, x)
  <2>1. \A q \in A \cup {x} : AsHigh(x, q)
    BY <1>2 DEF AsHigh
  <2> QED BY <2>1 DEF HasHighest
<1> QED
  BY <1>1, <1>2

LEMMA HighestExists ==
    ASSUME NEW parts \in SUBSET Entry, IsFiniteSet(parts), Cardinality(parts) = 5,
           {p.name : p \in parts} = EXPECTED_PARTITION_NAMES
    PROVE  /\ Highest(parts) \in parts
           /\ \A q \in parts : AsHigh(Highest(parts), q)
<1>1. PICK a \in parts, b \in parts, c \in parts, d \in parts, e \in parts :
         a.name = "config" /\ b.name = "efi" /\ c.name = "rootfs-a"
         /\ d.name = "rootfs-b" /\ e.name = "data"
  <2>1. \A n \in EXPECTED_PARTITION_NAMES : \E p \in parts : p.name = n
    OBVIOUS
  <2> QED BY <2>1 DEF EXPECTED_PARTITION_NAMES
<1>2. parts = {a, b, c, d, e}
  <2>1. \A p \in parts : p.name \in {"config", "efi", "rootfs-a", "rootfs-b", "data"}
    BY DEF EXPECTED_PARTITION_NAMES
  <2> QED BY <1>1, <2>1, FiveNames
<1>3. \A p \in parts : p.first \in Nat /\ p.slot \in Nat
  BY DEF Entry
<1>4. HasHighest({a})
  BY <1>3 DEF AsHigh, HasHighest
<1>5. HasHighest({a} \cup {b})
  BY <1>3, <1>4, AddOne
<1>6. HasHighest({a} \cup {b} \cup {c})
  BY <1>3, <1>5, AddOne
<1>7. HasHighest({a} \cup {b} \cup {c} \cup {d})
  BY <1>3, <1>6, AddOne
<1>8. HasHighest({a} \cup {b} \cup {c} \cup {d} \cup {e})
  BY <1>3, <1>7, AddOne
<1>9. {a} \cup {b} \cup {c} \cup {d} \cup {e} = parts
  BY <1>2
<1>10. \E m \in parts : \A q \in parts : AsHigh(m, q)
  BY <1>8, <1>9 DEF HasHighest
<1> QED
  BY <1>10 DEF Highest, AsHigh

\* What a source that passed validate_source is like.
ValidParts(parts) ==
    /\ parts \subseteq Entry /\ IsFiniteSet(parts)
    /\ {p.name : p \in parts} = EXPECTED_PARTITION_NAMES
    /\ \A p, q \in parts : p.name = q.name => p = q
    /\ Highest(parts) \in parts
    /\ \A p \in parts : AsHigh(Highest(parts), p)
    /\ \A p \in parts : /\ p.first \in Nat /\ p.last \in Nat /\ p.slot \in Nat
                        /\ p.first % 8 = 0 /\ (p.last + 1) % 8 = 0 /\ p.first >= 48

LEMMA ValidImage ==
    ASSUME NEW f, IsImage(f), GptValid(f, 1), \A b \in 0 .. f.len - 1 : WellFormed(f.at[b]),
           validate_source(parse_gpt(f, 1))
    PROVE  ValidParts(parse_gpt(f, 1).partitions)
<1> DEFINE parts == parse_gpt(f, 1).partitions
<1>1. parts \subseteq Entry /\ IsFiniteSet(parts)
  BY ParsedImage
<1>2. /\ {p.name : p \in parts} = EXPECTED_PARTITION_NAMES
      /\ Cardinality(parts) = 5
      /\ \A p \in parts : p.first % 8 = 0 /\ (p.last + 1) % 8 = 0 /\ p.first >= 48
  BY Sizes DEF validate_source
<1>3. \A p \in parts : p.first \in Nat /\ p.last \in Nat /\ p.slot \in Nat
  BY <1>1 DEF Entry
<1> HIDE DEF parts
<1>4. Highest(parts) \in parts /\ \A p \in parts : AsHigh(Highest(parts), p)
  BY <1>1, <1>2, HighestExists
<1>5. \A p, q \in parts : p.name = q.name => p = q
  BY <1>1, <1>2, FiveNames
<1> QED
  BY <1>1, <1>2, <1>3, <1>4, <1>5 DEF ValidParts, parts

LEMMA ValidSource ==
    ASSUME Sourced, IsParsed, validate_source(src), pc # "idle"
    PROVE  ValidParts(src.partitions)
BY ParsedInput, ValidImage, Sizes DEF IsParsed, Sourced

\* The room the size leaves, whatever the copy of the script checks: the module
\* has six sectors, so that the backup table comes behind block 1.
LEMMA Room ==
    ASSUME Typed, ValidParts(src.partitions), Translatable(src.partitions)
    PROVE  /\ S \in Nat /\ S >= 6
           /\ last_usable = S - 6
           /\ new_last(Highest(src.partitions)) \in Nat
           /\ last_usable >= new_last(Highest(src.partitions))
<1> DEFINE p == Highest(src.partitions)
<1>1. p.last \in Nat /\ (p.last + 1) % 8 = 0
  BY DEF ValidParts
<1>2. S \in Nat
  BY ParsedSize DEF Typed
<1>3. new_last(p) \in Nat
  BY <1>1, Sizes DEF new_last
<1>4. last_usable >= new_last(p)
  BY DEF Translatable
<1> QED
  BY <1>2, <1>3, <1>4 DEF last_usable

-----------------------------------------------------------------------------
(***************************************************************************)
(* The output files.                                                       *)
(***************************************************************************)
LEMMA EmptyImage == IsImage(Empty) /\ Empty.len = 0
BY ZerosImage DEF Empty

\* A file whose first 48 blocks are the new front.
Fronted(f) ==
    /\ IsImage(f) /\ f.len >= 48
    /\ \A b \in 0 .. 47 : f.at[b] = built.front.at[b]

LEMMA FrontedIsOwn ==
    ASSUME IsBuilt, NEW f, Fronted(f)
    PROVE  OwnFile(f)
BY BuiltShape DEF OwnFile, Fronted, FrontOf

LEMMA ImgShape ==
    ASSUME Sourced, IsParsed, Locatable, IsBuilt, pc # "idle"
    PROVE  /\ Fronted(Img1) /\ Fronted(Img2) /\ Fronted(Img3)
           /\ Img3.len % 8 = 0
           /\ \A b \in 48 .. src.backup_lba - 1 : b < Img3.len /\ Img3.at[b] = source.at[b]
<1> DEFINE n == Greatest(0, src.backup_lba - 48)
<1>1. IsImage(built.front) /\ built.front.len = 48
  BY BuiltShape DEF FrontOf
<1>2. Appended(Img1, Empty, built.front)
  BY <1>1, EmptyImage, ExtendImage DEF Img1
<1>3. IsImage(Img1) /\ Img1.len = 48 /\ \A b \in 0 .. 47 : Img1.at[b] = built.front.at[b]
  BY <1>1, <1>2, EmptyImage DEF Appended
<1>4. IsImage(TwoPieceBody) /\ TwoPieceBody.len \in Nat
      /\ (n > 0 => TwoPieceBody.len >= n)
      /\ \A b \in 0 .. n - 1 : TwoPieceBody.at[b] = source.at[48 + b]
  BY Bodies DEF IsImage
<1>5. Appended(Img2, Img1, TwoPieceBody)
  BY <1>3, <1>4, ExtendImage DEF Img2
<1>6. /\ IsImage(Img2) /\ Img2.len = 48 + TwoPieceBody.len
      /\ \A b \in 0 .. 47 : Img2.at[b] = built.front.at[b]
      /\ \A b \in 0 .. n - 1 : Img2.at[48 + b] = source.at[48 + b]
  <2>1. n \in Nat
    BY ParsedSource DEF Greatest
  <2> HIDE DEF n
  <2>2. \A b \in 0 .. n - 1 : b \in 0 .. TwoPieceBody.len - 1
    BY <1>4, <2>1
  <2> QED BY <1>3, <1>4, <1>5, <2>2 DEF Appended
<1>7. src.backup_lba \in Nat
  BY ParsedSource
<1>8. \A b \in 48 .. src.backup_lba - 1 : b < Img2.len /\ Img2.at[b] = source.at[b]
  <2>1. ASSUME NEW b \in 48 .. src.backup_lba - 1
        PROVE  b < Img2.len /\ Img2.at[b] = source.at[b]
    <3>1. b - 48 \in 0 .. n - 1 /\ n > 0 /\ 48 + (b - 48) = b
      BY <1>7 DEF Greatest
    <3> HIDE DEF n
    <3>2. Img2.at[48 + (b - 48)] = source.at[48 + (b - 48)]
      BY <1>6, <3>1
    <3>3. b < 48 + TwoPieceBody.len
      <4>1. n \in Nat
        BY <1>7 DEF n, Greatest
      <4> QED BY <1>4, <1>7, <3>1, <4>1
    <3> QED BY <1>6, <3>1, <3>2, <3>3
  <2> QED BY <2>1
<1>9. Padding(Img2).len = (-Img2.len) % 8 /\ IsImage(Padding(Img2))
  <2>1. Img2.len \in Nat
    BY <1>6 DEF IsImage
  <2>2. (-Img2.len) % DST_SECTOR \in Nat
    BY <2>1, Sizes
  <2> QED BY <2>2, ZerosImage, Sizes DEF Padding
<1>10. Appended(Img3, Img2, Padding(Img2))
  BY <1>6, <1>9, ExtendImage DEF Img3
<1>11. Img2.len \in Nat
  BY <1>6 DEF IsImage
<1>12. Img3.len % 8 = 0 /\ Img3.len >= Img2.len
  BY <1>9, <1>10, <1>11 DEF Appended
<1>13. IsImage(Img3) /\ Img3.len \in Nat /\ \A b \in 0 .. Img2.len - 1 : Img3.at[b] = Img2.at[b]
  BY <1>10 DEF Appended, IsImage
<1>14. Fronted(Img1) /\ Fronted(Img2)
  <2>1. Img1.len >= 48 /\ Img2.len >= 48
    BY <1>3, <1>4, <1>6
  <2> QED BY <1>3, <1>6, <2>1, Zenon DEF Fronted
<1>15. Fronted(Img3)
  <2>1. Img2.len >= 48 /\ \A b \in 0 .. 47 : Img2.at[b] = built.front.at[b]
    BY <1>14 DEF Fronted
  <2>2. \A b \in 0 .. 47 : b \in 0 .. Img2.len - 1
    BY <1>11, <2>1
  <2> QED BY <1>11, <1>12, <1>13, <2>1, <2>2 DEF Fronted
<1>16. \A b \in 48 .. src.backup_lba - 1 : b < Img3.len /\ Img3.at[b] = source.at[b]
  <2> SUFFICES ASSUME NEW b \in 48 .. src.backup_lba - 1
               PROVE  b < Img3.len /\ Img3.at[b] = source.at[b]
    OBVIOUS
  <2>1. b < Img2.len /\ Img2.at[b] = source.at[b] /\ b \in Nat
    BY <1>7, <1>8
  <2>2. b \in 0 .. Img2.len - 1
    BY <1>11, <2>1
  <2> QED BY <1>11, <1>12, <1>13, <2>1, <2>2
<1> QED
  BY <1>12, <1>14, <1>15, <1>16

LEMMA Backup1Shape ==
    ASSUME IsBuilt
    PROVE  BackupOf(Backup1, translated, built.backup_header)
<1>1. BackupOf(built.backup_gpt, translated, built.backup_header)
  BY BuiltShape
<1>2. Appended(Backup1, Empty, built.backup_gpt)
  BY <1>1, EmptyImage, ExtendImage DEF Backup1, BackupOf
<1> QED
  BY <1>1, <1>2, EmptyImage DEF Appended, BackupOf

LEMMA FullShape ==
    ASSUME Typed, Sourced, IsParsed, validate_source(src), IsTranslated, IsBuilt,
           Locatable, pc # "idle"
    PROVE  /\ OwnFile(Full0) /\ OwnFile(Full1) /\ OwnFile(Full2) /\ OwnFile(Full3)
           /\ Full3.len >= S * 8
           /\ src.backup_lba <= S * 8 => Full3.len = S * 8
           /\ \A b \in 0 .. 47 : b < (S - 5) * 8 => Full3.at[b] = built.front.at[b]
           /\ \A b \in 48 .. src.backup_lba - 1 :
                b < (S - 5) * 8 => Full3.at[b] = source.at[b]
           /\ \A i \in 0 .. 39 : Full3.at[(S - 5) * 8 + i] = built.backup_gpt.at[i]
<1> DEFINE n == Greatest(0, src.backup_lba - 48)
           end == (S - 5) * 8
           size == S * 8
<1>1. S \in Nat /\ S >= 6
  BY ValidSource, Room DEF IsTranslated
<1>2. size \in Nat /\ end \in Nat /\ size >= 48 /\ end >= 8 /\ size = end + 40
  BY <1>1
<1>3. src.backup_lba \in Nat
  BY ParsedSource
<1>4. n \in Nat /\ (src.backup_lba <= size => 48 + n <= size)
      /\ \A b \in 48 .. src.backup_lba - 1 : b - 48 \in 0 .. n - 1
  BY <1>2, <1>3 DEF Greatest
<1>5. /\ IsImage(FullBody) /\ FullBody.len = n
      /\ \A b \in 0 .. n - 1 : FullBody.at[b] = source.at[48 + b]
  BY Bodies
<1>6. IsImage(built.front) /\ built.front.len = 48 /\ built.front.at[1] = Zero
      /\ IsImage(built.backup_gpt) /\ built.backup_gpt.len = 40
  BY BuiltShape DEF FrontOf, BackupOf
<1>7. Full0 = Zeros(size) /\ Full1 = Write(Full0, 0, built.front)
      /\ Full2 = Write(Full1, 48, FullBody)
      /\ Full3 = Write(Full2, end, built.backup_gpt)
  BY Sizes DEF Full0, Full1, Full2, Full3
<1> HIDE DEF n, size, end
<1>8. IsImage(Full0) /\ Full0.len = size /\ \A b \in 0 .. size - 1 : Full0.at[b] = Zero
  BY <1>2, <1>7, ZerosImage
<1>9. Written(Full1, Full0, 0, built.front)
  BY <1>6, <1>7, <1>8, WriteImage
<1>10. /\ IsImage(Full1) /\ Full1.len = size
       /\ \A b \in 0 .. 47 : Full1.at[b] = built.front.at[b]
  BY <1>2, <1>6, <1>8, <1>9 DEF Written, Greatest
<1>11. Written(Full2, Full1, 48, FullBody)
  BY <1>5, <1>7, <1>10, WriteImage
<1>12. /\ IsImage(Full2) /\ Full2.len = Greatest(size, 48 + n) /\ Full2.len \in Nat
       /\ \A b \in 0 .. 47 : Full2.at[b] = built.front.at[b]
       /\ \A b \in 0 .. n - 1 : Full2.at[48 + b] = FullBody.at[b]
  BY <1>2, <1>4, <1>5, <1>10, <1>11 DEF Written, Greatest
<1>13. Written(Full3, Full2, end, built.backup_gpt)
  BY <1>2, <1>6, <1>7, <1>12, WriteImage
<1>14. /\ IsImage(Full3)
       /\ Full3.len = Full2.len
       /\ \A b \in 0 .. end - 1 : Full3.at[b] = Full2.at[b]
       /\ \A i \in 0 .. 39 : Full3.at[end + i] = built.backup_gpt.at[i]
  <2>1. Full2.len >= end + 40
    BY <1>2, <1>4, <1>12 DEF Greatest
  <2>2. Full3.len = Full2.len /\ IsImage(Full3)
    BY <1>2, <1>6, <1>12, <1>13, <2>1 DEF Written, Greatest
  <2>3. \A b \in 0 .. end - 1 : Full3.at[b] = Full2.at[b]
    BY <1>2, <1>6, <1>12, <1>13, <2>1, <2>2 DEF Written
  <2>4. \A i \in 0 .. 39 : Full3.at[end + i] = built.backup_gpt.at[i]
    BY <1>2, <1>6, <1>12, <1>13, <2>1, <2>2 DEF Written
  <2> QED BY <2>2, <2>3, <2>4
<1>15. \A b \in 48 .. src.backup_lba - 1 : b < end => Full3.at[b] = source.at[b]
  <2> SUFFICES ASSUME NEW b \in 48 .. src.backup_lba - 1, b < end
               PROVE  Full3.at[b] = source.at[b]
    OBVIOUS
  <2>1. b - 48 \in 0 .. n - 1 /\ 48 + (b - 48) = b /\ b \in 0 .. end - 1
    BY <1>2, <1>3, <1>4
  <2>2. Full2.at[48 + (b - 48)] = source.at[48 + (b - 48)]
    BY <1>5, <1>12, <2>1
  <2> QED BY <1>14, <2>1, <2>2
<1>16. Full3.len >= size /\ (src.backup_lba <= size => Full3.len = size)
  BY <1>2, <1>4, <1>12, <1>14 DEF Greatest
<1>17. \A b \in 0 .. 47 : b < end => Full3.at[b] = built.front.at[b]
  <2>1. \A b \in 0 .. 47 : b < end => b \in 0 .. end - 1
    BY <1>2
  <2> QED BY <1>12, <1>14, <2>1, Zenon
<1>18. OwnFile(Full0) /\ OwnFile(Full1) /\ OwnFile(Full2) /\ OwnFile(Full3)
  <2>1. 1 \in 0 .. 47 /\ 1 \in 0 .. size - 1 /\ 1 < end
    BY <1>2
  <2>2. OwnFile(Full0)
    BY <1>8, <2>1 DEF OwnFile
  <2>3. OwnFile(Full1) /\ OwnFile(Full2)
    BY <1>6, <1>10, <1>12, <2>1 DEF OwnFile
  <2>4. OwnFile(Full3)
    BY <1>6, <1>14, <1>17, <2>1 DEF OwnFile
  <2> QED BY <2>2, <2>3, <2>4
<1> QED
  BY <1>14, <1>15, <1>16, <1>17, <1>18 DEF end, size

-----------------------------------------------------------------------------
(***************************************************************************)
(* Every step keeps the invariant.                                         *)
(***************************************************************************)
\* The names of the steps, grouped.
LEMMA Groups ==
    /\ AfterLocate = {"openImg", "front", "body", "pad", "openBackup", "backup",
                      "openFull", "fullFront", "fullBody", "fullBackup", "done"}
    /\ AfterVerify = AfterLocate \cup {"locate"}
    /\ AfterBuild = AfterLocate \cup {"locate", "verify"}
    /\ AfterTranslate = AfterLocate \cup {"locate", "verify", "build"}
    /\ AfterValidate = AfterLocate \cup {"locate", "verify", "build", "translate"}
    /\ AfterParse = AfterLocate \cup {"locate", "verify", "build", "translate", "validate"}
BY DEF AfterLocate, AfterVerify, AfterBuild, AfterTranslate, AfterValidate, AfterParse,
       Writing

LEMMA StartUInv == ASSUME UInv, NEW a \in Arguments, Start(a) PROVE UInv'
<1>1. a.input \in DOMAIN Source \cup {"img", "full"}
  BY ToolAssumption
<1>2. args' = a /\ pc' = "args" /\ tool' = tool /\ files' = files
      /\ translated' = {} /\ touched' = FALSE
  BY DEF Start
<1>3. Typed'
  <2>1. invocations' \in 0 .. MaxInvocations
    BY ToolAssumption DEF UInv, Typed, Start
  <2>2. tool' \in Tools /\ pc' \in Checks /\ touched' \in BOOLEAN
    BY <1>2, Zenon DEF UInv, Typed, Checks
  <2> QED BY <1>2, <2>1, <2>2, Zenon DEF Typed
<1>4. Sourced'
  <2>1. CASE a.input \in DOMAIN Source
    <3>1. source' = Source[a.input]
      BY <2>1 DEF Start
    <3> QED BY <1>2, <2>1, <3>1, SourceAssumption DEF Sourced
  <2>2. CASE a.input \notin DOMAIN Source
    <3>1. source' = files[a.input] /\ a.input \in {"img", "full"}
      BY <1>1, <2>2 DEF Start
    <3>2. OwnFile(files.img) /\ OwnFile(files.full)
      BY DEF UInv, Files
    <3> QED BY <1>2, <2>2, <3>1, <3>2 DEF Sourced, OwnFile
  <2> QED BY <2>1, <2>2
<1>5. Files'
  BY <1>2 DEF UInv, Files
<1>6. Progress' /\ FilesByStage'
  BY <1>2, Groups DEF Progress, FilesByStage
<1> QED
  BY <1>3, <1>4, <1>5, <1>6 DEF UInv

\* The steps before the writing: one predicate is added to those that hold.
LEMMA CheckUInv ==
    ASSUME UInv, UNCHANGED << tool, args, source, output >>,
           pc \notin Ended, pc' \in Checks \cup {"build", "failed", "killed"},
           pc \in Checks \cup {"build"} \/ pc' = "killed",
           \A p \in translated' : p.first \in Nat /\ p.last \in Nat,
           Progress'
    PROVE  UInv'
<1>1. Typed'
  <2>1. tool' \in Tools /\ args' \in Arguments /\ touched' \in BOOLEAN
        /\ pc' \in Checks \cup {"build"} \cup Writing \cup Ended
    BY Zenon DEF UInv, Typed, output, Ended
  <2>2. invocations' \in 0 .. MaxInvocations
    BY DEF UInv, Typed, output
  <2> QED BY <2>1, <2>2, Zenon DEF Typed
<1>2. Sourced' /\ Files'
  BY DEF UInv, Sourced, Files, output, Ended, Checks
<1>3. FilesByStage'
  BY DEF FilesByStage, Checks
<1> QED
  BY <1>1, <1>2, <1>3 DEF UInv

LEMMA RejectUInv == ASSUME UInv, Reject \/ Interrupt PROVE UInv'
<1>1. UNCHANGED << tool, args, source, translated, output >>
      /\ pc \notin Ended /\ pc' \in {"failed", "killed"}
      /\ (pc \in Checks \/ pc' = "killed")
  BY DEF Reject, Interrupt, locals, Checks, Ended
<1>2. Progress'
  <2>1. pc' = "failed" => ~touched'
    BY <1>1 DEF UInv, Progress, output
  <2> QED BY <1>1, <2>1, Groups DEF Progress, Checks
<1>3. \A p \in translated' : p.first \in Nat /\ p.last \in Nat
  BY <1>1 DEF UInv, Typed
<1> QED
  BY <1>1, <1>2, <1>3, CheckUInv

LEMMA CheckStepUInv ==
    ASSUME UInv, CheckSize \/ Validate \/ Verify
    PROVE  UInv'
<1>1. UNCHANGED << tool, args, locals, output >>
  BY DEF CheckSize, Validate, Verify
<1>2. /\ pc \in Checks /\ pc' \in {"parse", "translate", "locate"}
      /\ Passes
      /\ pc' = "parse" => pc = "args"
      /\ pc' = "translate" => pc = "validate"
      /\ pc' = "locate" => pc = "verify"
  BY DEF CheckSize, Validate, Verify, Checks
<1>3. ~touched'
  BY <1>1, <1>2 DEF UInv, Progress, output
<1>4. Progress'
  <2>1. CASE pc' = "parse"
    BY <1>3, <2>1, Groups DEF Progress
  <2>2. CASE pc' = "translate"
    <3>1. IsParsed /\ validate_source(src)
      BY <1>2, <2>2, Groups DEF UInv, Progress, Passes
    <3> QED BY <1>1, <1>3, <2>2, <3>1, Frame, Groups DEF Progress
  <2>3. CASE pc' = "locate"
    <3>1. IsParsed /\ validate_source(src) /\ IsTranslated /\ IsBuilt /\ IsVerified
      BY <1>2, <2>3, Groups DEF UInv, Progress, Passes, IsVerified
    <3> QED BY <1>1, <1>3, <2>3, <3>1, Frame, Groups DEF Progress
  <2> QED BY <1>2, <2>1, <2>2, <2>3
<1>5. \A p \in translated' : p.first \in Nat /\ p.last \in Nat
  BY <1>1 DEF UInv, Typed, locals
<1> QED
  BY <1>1, <1>2, <1>4, <1>5, CheckUInv DEF locals, Checks, Ended

LEMMA ParseUInv == ASSUME UInv, Parse PROVE UInv'
<1>1. /\ UNCHANGED << tool, args, source, translated, output >>
      /\ pc = "parse" /\ pc' = "validate" /\ Passes
      /\ src' = parse_gpt(source, SRC_SECTOR)
  BY DEF Parse
<1>2. IsParsed'
  BY <1>1 DEF Passes, IsParsed
<1>3. Progress'
  BY <1>1, <1>2, Groups DEF UInv, Progress, Checks, output
<1>4. \A p \in translated' : p.first \in Nat /\ p.last \in Nat
  BY <1>1 DEF UInv, Typed
<1> QED
  BY <1>1, <1>3, <1>4, CheckUInv DEF Checks, Ended

\* What translate_partitions makes of one partition.
Moved(p) == [p EXCEPT !.first = new_first(p),
                      !.last = IF p = Highest(src.partitions) THEN last_usable
                               ELSE new_last(p)]

LEMMA MovedParts ==
    ASSUME Typed, ValidParts(src.partitions), Translatable(src.partitions)
    PROVE  /\ translate_partitions(src.partitions) = {Moved(p) : p \in src.partitions}
           /\ \A p \in src.partitions :
                /\ Moved(p).slot = p.slot /\ Moved(p).name = p.name /\ Moved(p).id = p.id
                /\ Moved(p).first \in Nat /\ Moved(p).first * 8 = p.first
                /\ Moved(p).last \in Nat
                /\ IF p = Highest(src.partitions) THEN Moved(p).last = S - 6
                   ELSE (Moved(p).last + 1) * 8 = p.last + 1
                /\ (Moved(p).last + 1) * 8 >= p.last + 1
<1>1. translate_partitions(src.partitions) = {Moved(p) : p \in src.partitions}
  BY DEF translate_partitions, Moved
<1>2. ASSUME NEW p \in src.partitions
      PROVE  /\ Moved(p).slot = p.slot /\ Moved(p).name = p.name /\ Moved(p).id = p.id
             /\ Moved(p).first \in Nat /\ Moved(p).first * 8 = p.first
             /\ Moved(p).last \in Nat
             /\ IF p = Highest(src.partitions) THEN Moved(p).last = S - 6
                ELSE (Moved(p).last + 1) * 8 = p.last + 1
             /\ (Moved(p).last + 1) * 8 >= p.last + 1
  <2>1. /\ p \in Entry
        /\ p.first \in Nat /\ p.last \in Nat
        /\ p.first % 8 = 0 /\ (p.last + 1) % 8 = 0
    BY DEF ValidParts
  <2>2. /\ Moved(p).first = new_first(p)
        /\ Moved(p).last = IF p = Highest(src.partitions) THEN last_usable ELSE new_last(p)
        /\ Moved(p).slot = p.slot /\ Moved(p).name = p.name /\ Moved(p).id = p.id
    BY <2>1 DEF Moved, Entry
  <2>3. new_first(p) \in Nat /\ new_first(p) * 8 = p.first
    BY <2>1, Sizes DEF new_first
  <2>4. new_last(p) \in Nat /\ (new_last(p) + 1) * 8 = p.last + 1
    BY <2>1, Sizes DEF new_last
  <2>5. last_usable = S - 6 /\ S \in Nat /\ S >= 6
        /\ (p = Highest(src.partitions) => last_usable >= new_last(p))
    BY Room
  <2> QED BY <2>1, <2>2, <2>3, <2>4, <2>5
<1> QED
  BY <1>1, <1>2

LEMMA TranslateUInv == ASSUME UInv, Translate PROVE UInv'
<1>1. /\ UNCHANGED << tool, args, source, src, output >>
      /\ pc = "translate" /\ pc' = "build"
      /\ Translatable(src.partitions)
      /\ translated' = translate_partitions(src.partitions)
  BY DEF Translate, Passes
<1>2. Typed /\ Sourced /\ IsParsed /\ validate_source(src) /\ ~touched
  BY <1>1, Groups DEF UInv, Progress, Checks
<1>3. ValidParts(src.partitions)
  BY <1>1, <1>2, ValidSource
<1>4. \A p \in translated' : p.first \in Nat /\ p.last \in Nat
  BY <1>1, <1>2, <1>3, MovedParts
<1>5. IsTranslated'
  BY <1>1, ZenonT(40)
     DEF IsTranslated, Translatable, AboveFloor, translate_partitions, last_usable, S,
              disk_bytes
<1>6. IsParsed' /\ validate_source(src') /\ ~touched'
  BY <1>1, <1>2 DEF IsParsed, output
<1>7. Progress'
  BY <1>1, <1>5, <1>6, Groups DEF Progress
<1> QED
  BY <1>1, <1>4, <1>7, CheckUInv DEF Checks, Ended

LEMMA BuildUInv == ASSUME UInv, Build PROVE UInv'
<1>1. /\ UNCHANGED << tool, args, source, src, translated, output >>
      /\ pc = "build" /\ pc' = "verify"
      /\ built' = build_new_gpt(src.disk_guid, translated)
  BY DEF Build
<1>2. Typed /\ IsParsed /\ validate_source(src) /\ IsTranslated /\ ~touched
  BY <1>1, Groups DEF UInv, Progress
<1>3. IsTranslated'
  BY <1>1, <1>2, ZenonT(40) DEF IsTranslated, Translatable, AboveFloor, translate_partitions,
                    last_usable, S, disk_bytes
<1>4. IsBuilt'
  BY <1>1 DEF IsBuilt, build_new_gpt, last_usable, S, disk_bytes
<1>5. IsParsed' /\ validate_source(src') /\ ~touched'
  BY <1>1, <1>2 DEF IsParsed, output
<1>6. Progress'
  BY <1>1, <1>3, <1>4, <1>5, Groups DEF Progress
<1>7. \A p \in translated' : p.first \in Nat /\ p.last \in Nat
  BY <1>1, <1>2 DEF Typed
<1> QED
  BY <1>1, <1>6, <1>7, CheckUInv DEF Checks, Ended

\* From the last check on all of it holds, and stays.
Established ==
    /\ IsParsed /\ validate_source(src) /\ IsTranslated /\ IsBuilt /\ IsVerified
    /\ Locatable

\* The writing: an output file at a time, by the stage table.
LEMMA WriteUInv ==
    ASSUME UInv, Established, UNCHANGED << tool, args, locals, invocations >>,
           pc # "idle", pc' \in AfterLocate, touched' \in BOOLEAN,
           Files', FilesByStage'
    PROVE  UInv'
<1>1. Typed'
  <2>1. tool' \in Tools /\ args' \in Arguments
        /\ pc' \in Checks \cup {"build"} \cup Writing \cup Ended
    BY Zenon DEF UInv, Typed, AfterLocate, Ended
  <2>2. /\ \A p \in translated' : p.first \in Nat /\ p.last \in Nat
        /\ invocations' \in 0 .. MaxInvocations
    BY DEF UInv, Typed, locals
  <2> QED BY <2>1, <2>2, Zenon DEF Typed
<1>2. Sourced'
  BY DEF UInv, Sourced, locals
<1>3. Progress'
  BY Frame, Groups DEF Progress, Established, Checks
<1> QED
  BY <1>1, <1>2, <1>3 DEF UInv

LEMMA LocateUInv == ASSUME UInv, Locate PROVE UInv'
<1>1. /\ UNCHANGED << tool, args, locals, output >>
      /\ pc = "locate" /\ pc' = IF args.full THEN "openFull" ELSE "openImg"
      /\ Locatable
  BY DEF Locate, Passes
<1>2. Established /\ touched \in BOOLEAN
  BY <1>1, Groups DEF UInv, Typed, Progress, Established
<1>3. Files' /\ FilesByStage'
  BY <1>1 DEF UInv, Files, FilesByStage, output
<1> QED
  BY <1>1, <1>2, <1>3, Groups, WriteUInv DEF output

\* One call on an output file.
LEMMA WriteImgUInv == ASSUME UInv, WriteImg PROVE UInv'
<1>1. PICK content, next :
        \/ Emit("openImg", "img", Empty, "front") /\ content = Empty /\ next = "front"
        \/ /\ Emit("front", "img", Extend(files.img, built.front), "body")
           /\ content = Extend(files.img, built.front) /\ next = "body"
        \/ /\ Emit("body", "img", Extend(files.img, TwoPieceBody), "pad")
           /\ content = Extend(files.img, TwoPieceBody) /\ next = "pad"
        \/ /\ Emit("pad", "img", Extend(files.img, Padding(files.img)), "openBackup")
           /\ content = Extend(files.img, Padding(files.img)) /\ next = "openBackup"
  BY DEF WriteImg
<1>2. /\ UNCHANGED << tool, args, locals, invocations >>
      /\ pc' = next /\ files' = [files EXCEPT !["img"] = content] /\ touched' = TRUE
      /\ pc \in {"openImg", "front", "body", "pad"}
      /\ next \in {"front", "body", "pad", "openBackup"}
      /\ pc = "openImg" => content = Empty /\ next = "front"
      /\ pc = "front" => content = Extend(files.img, built.front) /\ next = "body"
      /\ pc = "body" => content = Extend(files.img, TwoPieceBody) /\ next = "pad"
      /\ pc = "pad" => content = Extend(files.img, Padding(files.img)) /\ next = "openBackup"
  BY <1>1 DEF Emit
<1>3. Established /\ ~args.full
  BY <1>2, Groups DEF UInv, Progress, Established, FilesByStage
<1>4. /\ pc = "openImg" => content = Empty
      /\ pc = "front" => content = Img1
      /\ pc = "body" => content = Img2
      /\ pc = "pad" => content = Img3
  BY <1>2 DEF UInv, FilesByStage, Img1, Img2, Img3
<1>5. OwnFile(content)
  <2>1. Fronted(Img1) /\ Fronted(Img2) /\ Fronted(Img3) /\ OwnFile(Empty)
    BY <1>2, <1>3, ImgShape, EmptyImage DEF Established, UInv, OwnFile
  <2> QED BY <1>2, <1>3, <1>4, <2>1, FrontedIsOwn DEF Established
<1>6. files'.img = content /\ files'.full = files.full /\ files'.backup = files.backup
      /\ files' = [f \in {"img", "backup", "full"} |-> files'[f]]
  BY <1>2 DEF UInv, Files
<1>7. Files'
  BY <1>5, <1>6 DEF UInv, Files
<1>8. FilesByStage'
  <2>1. Img1' = Img1 /\ Img2' = Img2 /\ Img3' = Img3 /\ args' = args
    BY <1>2, Frame
  <2> QED BY <1>2, <1>3, <1>4, <1>6, <2>1 DEF FilesByStage
<1>9. pc' \in AfterLocate /\ touched' \in BOOLEAN /\ pc # "idle"
  BY <1>2, Groups
<1> QED
  BY <1>2, <1>3, <1>7, <1>8, <1>9, WriteUInv

LEMMA WriteBackupUInv == ASSUME UInv, WriteBackup PROVE UInv'
<1>1. PICK content, next :
        \/ Emit("openBackup", "backup", Empty, "backup") /\ content = Empty /\ next = "backup"
        \/ /\ Emit("backup", "backup", Extend(files.backup, built.backup_gpt), "done")
           /\ content = Extend(files.backup, built.backup_gpt) /\ next = "done"
  BY DEF WriteBackup
<1>2. /\ UNCHANGED << tool, args, locals, invocations >>
      /\ pc' = next /\ files' = [files EXCEPT !["backup"] = content] /\ touched' = TRUE
      /\ pc \in {"openBackup", "backup"} /\ next \in {"backup", "done"}
      /\ pc = "openBackup" => content = Empty /\ next = "backup"
      /\ pc = "backup" => content = Extend(files.backup, built.backup_gpt) /\ next = "done"
  BY <1>1 DEF Emit
<1>3. Established /\ ~args.full /\ files.img = Img3
  BY <1>2, Groups DEF UInv, Progress, Established, FilesByStage
<1>4. /\ pc = "openBackup" => content = Empty
      /\ pc = "backup" => content = Backup1
  BY <1>2 DEF UInv, FilesByStage, Backup1
<1>5. IsImage(content)
  BY <1>2, <1>3, <1>4, Backup1Shape, EmptyImage DEF Established, BackupOf
<1>6. files'.backup = content /\ files'.full = files.full /\ files'.img = files.img
      /\ files' = [f \in {"img", "backup", "full"} |-> files'[f]]
  BY <1>2 DEF UInv, Files
<1>7. Files'
  BY <1>5, <1>6 DEF UInv, Files
<1>8. FilesByStage'
  <2>1. Img3' = Img3 /\ Backup1' = Backup1 /\ args' = args
    BY <1>2, Frame
  <2> QED BY <1>2, <1>3, <1>4, <1>6, <2>1 DEF FilesByStage
<1>9. pc' \in AfterLocate /\ touched' \in BOOLEAN /\ pc # "idle"
  BY <1>2, Groups
<1> QED
  BY <1>2, <1>3, <1>7, <1>8, <1>9, WriteUInv

LEMMA WriteFullUInv == ASSUME UInv, WriteFull PROVE UInv'
<1>1. PICK content, next :
        \/ /\ Emit("openFull", "full", Zeros(S * DST_SECTOR), "fullFront")
           /\ content = Zeros(S * DST_SECTOR) /\ next = "fullFront"
        \/ /\ Emit("fullFront", "full", Write(files.full, 0, built.front), "fullBody")
           /\ content = Write(files.full, 0, built.front) /\ next = "fullBody"
        \/ /\ Emit("fullBody", "full", Write(files.full, DST_FRONT, FullBody), "fullBackup")
           /\ content = Write(files.full, DST_FRONT, FullBody) /\ next = "fullBackup"
        \/ /\ Emit("fullBackup", "full",
                  Write(files.full, (S - 5) * DST_SECTOR, built.backup_gpt), "done")
           /\ content = Write(files.full, (S - 5) * DST_SECTOR, built.backup_gpt)
           /\ next = "done"
  BY DEF WriteFull
<1>2. /\ UNCHANGED << tool, args, locals, invocations >>
      /\ pc' = next /\ files' = [files EXCEPT !["full"] = content] /\ touched' = TRUE
      /\ pc \in {"openFull", "fullFront", "fullBody", "fullBackup"}
      /\ next \in {"fullFront", "fullBody", "fullBackup", "done"}
      /\ pc = "openFull" => content = Full0 /\ next = "fullFront"
      /\ pc = "fullFront" => content = Write(files.full, 0, built.front) /\ next = "fullBody"
      /\ pc = "fullBody" =>
           content = Write(files.full, DST_FRONT, FullBody) /\ next = "fullBackup"
      /\ pc = "fullBackup" =>
           /\ content = Write(files.full, (S - 5) * DST_SECTOR, built.backup_gpt)
           /\ next = "done"
  BY <1>1 DEF Emit, Full0
<1>3. Established /\ args.full
  BY <1>2, Groups DEF UInv, Progress, Established, FilesByStage
<1>4. /\ pc = "openFull" => content = Full0
      /\ pc = "fullFront" => content = Full1
      /\ pc = "fullBody" => content = Full2
      /\ pc = "fullBackup" => content = Full3
  BY <1>2 DEF UInv, FilesByStage, Full1, Full2, Full3
<1>5. OwnFile(content)
  <2>1. OwnFile(Full0) /\ OwnFile(Full1) /\ OwnFile(Full2) /\ OwnFile(Full3)
    BY <1>2, <1>3, FullShape DEF Established, UInv
  <2> QED BY <1>2, <1>4, <2>1
<1>6. files'.full = content /\ files'.backup = files.backup /\ files'.img = files.img
      /\ files' = [f \in {"img", "backup", "full"} |-> files'[f]]
  BY <1>2 DEF UInv, Files
<1>7. Files'
  BY <1>5, <1>6 DEF UInv, Files
<1>8. FilesByStage'
  <2>1. Full0' = Full0 /\ Full1' = Full1 /\ Full2' = Full2 /\ Full3' = Full3 /\ args' = args
    BY <1>2, Frame
  <2> QED BY <1>2, <1>3, <1>4, <1>6, <2>1 DEF FilesByStage
<1>9. pc' \in AfterLocate /\ touched' \in BOOLEAN /\ pc # "idle"
  BY <1>2, Groups
<1> QED
  BY <1>2, <1>3, <1>7, <1>8, <1>9, WriteUInv

LEMMA StutterUInv == ASSUME UInv, UNCHANGED vars PROVE UInv'
<1> USE DEF vars, output
<1>1. UNCHANGED << tool, args, locals, pc, files, touched, invocations >>
  OBVIOUS
<1>2. Progress' /\ FilesByStage'
  BY <1>1, Frame DEF UInv, Progress, FilesByStage
<1>3. Typed'
  BY <1>1, Zenon DEF UInv, Typed, locals
<1>4. Sourced' /\ Files'
  BY <1>1 DEF UInv, Sourced, Files, locals
<1> QED
  BY <1>2, <1>3, <1>4 DEF UInv

LEMMA StepUInv == ASSUME UInv, Step PROVE UInv'
<1>1. CASE CheckSize \/ Validate \/ Verify
  BY <1>1, CheckStepUInv
<1>2. CASE Parse BY <1>2, ParseUInv
<1>3. CASE Translate BY <1>3, TranslateUInv
<1>4. CASE Build BY <1>4, BuildUInv
<1>5. CASE Locate BY <1>5, LocateUInv
<1>6. CASE Reject BY <1>6, RejectUInv
<1>7. CASE WriteImg BY <1>7, WriteImgUInv
<1>8. CASE WriteBackup BY <1>8, WriteBackupUInv
<1>9. CASE WriteFull BY <1>9, WriteFullUInv
<1> QED
  BY <1>1, <1>2, <1>3, <1>4, <1>5, <1>6, <1>7, <1>8, <1>9 DEF Step

LEMMA NextUInv == ASSUME UInv, [Next]_vars PROVE UInv'
<1>1. ASSUME NEW a \in Arguments, Start(a) PROVE UInv'
  BY <1>1, StartUInv
<1>2. CASE Step BY <1>2, StepUInv
<1>3. CASE Interrupt BY <1>3, RejectUInv
<1>4. CASE UNCHANGED vars BY <1>4, StutterUInv
<1> QED
  BY <1>1, <1>2, <1>3, <1>4 DEF Next

\* UInv holds in every reachable state: what is written is written after all
\* checks have passed, and each file grows by the pieces in their order.
THEOREM UfsInductive == Spec => []UInv
<1>1. UInv /\ [Next]_vars => UInv'
  BY NextUInv
<1> QED
  BY <1>1, InitUInv, PTL DEF Spec

-----------------------------------------------------------------------------
(***************************************************************************)
(* What fwup writes passes all checks but those of the size.               *)
(***************************************************************************)
\* self_verify finds nothing wrong with what build_new_gpt has made of
\* partitions in the slots of an array of 128 entries.
LEMMA VerifyPasses ==
    ASSUME Typed, IsBuilt, ValidParts(src.partitions), IsTranslated,
           \A p \in src.partitions : p.slot < 128
    PROVE  self_verify(built, src.disk_guid, translated)
<1> DEFINE array == build_entries_bytes(translated)
           ph == built.primary_header
           bh == built.backup_header
           front == built.front
<1>1. /\ FrontOf(front, translated, ph)
      /\ built.entries_bytes = array /\ built.entries_crc = FileCrc(array)
      /\ built.last_usable = last_usable
  BY BuiltShape
<1>2. /\ ph = build_gpt_header(1, S - 1, DST_FIRST_USABLE, last_usable, src.disk_guid, 2,
                              FileCrc(array))
      /\ bh = build_gpt_header(S - 1, 1, DST_FIRST_USABLE, last_usable, src.disk_guid,
                              S - 5, FileCrc(array))
  BY DEF IsBuilt, build_new_gpt
<1> HIDE DEF array, ph, bh, front
<1>3. /\ HeaderValid(ph) /\ ph.disk_guid = src.disk_guid /\ ph.entries_crc = FileCrc(array)
      /\ ph.backup_lba = S - 1 /\ ph.first_usable = DST_FIRST_USABLE
      /\ ph.last_usable = last_usable /\ ph.entries_lba = 2 /\ ph.entries_len = 32
      /\ HeaderValid(bh) /\ bh.disk_guid = src.disk_guid /\ bh.entries_crc = FileCrc(array)
  BY <1>2, MadeHeader
<1>4. /\ IsImage(front) /\ front.len = 48 /\ front.at[0] = build_protective_mbr(S)
      /\ front.at[8] = ph
      /\ \A i \in 0 .. 31 : front.at[16 + i] = EntriesBlock(translated, i)
  BY <1>1 DEF FrontOf
<1>5. /\ GptValid(front, 8)
      /\ parse_gpt(front, 8).partitions = {p \in translated : p.slot \div 4 \in 0 .. 31}
  <2>1. 2 * 8 = 16 /\ 8 \in {1, 8} /\ 48 >= 16 + 32
    OBVIOUS
  <2> QED BY <1>3, <1>4, <2>1, FrontRead DEF array
<1>6. \A p \in translated : p.slot \div 4 \in 0 .. 31
  <2>1. \A p \in translated : \E q \in src.partitions : p.slot = q.slot
    BY MovedParts DEF IsTranslated
  <2>2. \A q \in src.partitions : q.slot \in Nat /\ q.slot < 128
    BY DEF ValidParts
  <2>3. \A n \in Nat : n < 128 => n \div 4 \in 0 .. 31
    OBVIOUS
  <2> QED BY <2>1, <2>2, <2>3
<1>7. parse_gpt(front, 8).partitions = translated
  BY <1>5, <1>6
<1>8. /\ parse_gpt(front, 8).disk_guid = src.disk_guid
      /\ parse_gpt(front, 8).first_usable = DST_FIRST_USABLE
      /\ parse_gpt(front, 8).last_usable = last_usable
      /\ parse_gpt(front, 8).backup_lba = S - 1
  BY <1>3, <1>4 DEF parse_gpt
<1>9. \A x \in {ph, bh} :
        HeaderValid(x) /\ x.disk_guid = src.disk_guid /\ x.entries_crc = FileCrc(array)
  BY <1>3
<1> QED
  BY <1>1, <1>5, <1>7, <1>8, <1>9, Sizes DEF self_verify, ph, bh, front

\* What is known of a source that fwup has written.
LEMMA FwupSource ==
    ASSUME Sourced, args.input \in FwupSources, pc # "idle"
    PROVE  /\ source = Source[args.input] /\ FwupWritten(source)
           /\ source.len \in Nat
<1>1. args.input \in DOMAIN Source
  BY ToolAssumption
<1> QED
  BY <1>1, FwupAssumption DEF Sourced, IsImage

\* A module too small for Translatable has no room for some partition and the
\* backup table.
LEMMA NoRoom ==
    ASSUME Typed, ValidParts(src.partitions), ~Translatable(src.partitions),
           Highest(src.partitions).name = "data",
           \A p \in src.partitions : p.first <= p.last
    PROVE  \E p \in src.partitions : p.last + 1 + 40 > S * 8
<1> DEFINE H == Highest(src.partitions)
<1>1. /\ H \in src.partitions
      /\ \A p \in src.partitions : /\ p.first \in Nat /\ p.last \in Nat
                                   /\ p.first % 8 = 0 /\ (p.last + 1) % 8 = 0
                                   /\ p.first >= 48 /\ p.first <= p.last
  BY DEF ValidParts
<1>2. disk_bytes \in Nat /\ S \in Nat
  BY ParsedSize DEF Typed
<1>3. S * 8 * 512 <= disk_bytes
  <2>1. S = disk_bytes \div 4096
    BY Sizes DEF S, SectorBytes
  <2>2. \A n \in Nat : (n \div 4096) * 8 * 512 <= n
    OBVIOUS
  <2> QED BY <1>2, <2>1, <2>2
<1>4. \/ disk_bytes < 512 * (48 + 5 * 8)
      \/ \E p \in src.partitions : disk_bytes < 512 * (p.last + 1)
      \/ S - 6 < new_last(H)
  <2>1. new_last(H) \in Int
    BY <1>1, Sizes DEF new_last
  <2>2. AboveFloor(src.partitions) \/ \/ disk_bytes < 512 * (48 + 5 * 8)
                                      \/ \E p \in src.partitions : disk_bytes < 512 * (p.last + 1)
    BY <1>1, <1>2, Sizes DEF AboveFloor
  <2>3. AboveFloor(src.partitions) => ~(last_usable >= new_last(H))
    BY DEF Translatable
  <2> QED BY <1>2, <2>1, <2>2, <2>3 DEF last_usable
<1>5. new_last(H) = (H.last + 1) \div 8 - 1 /\ new_last(H) \in Int
      /\ (new_last(H) + 1) * 8 = H.last + 1
  BY <1>1, Sizes DEF new_last
<1> HIDE DEF H
<1>6. CASE disk_bytes < 512 * (48 + 5 * 8)
  <2>1. S * 8 < 88
    BY <1>2, <1>3, <1>6
  <2>2. H.last + 1 >= 49
    BY <1>1
  <2> QED BY <1>1, <1>2, <2>1, <2>2
<1>7. ASSUME NEW p \in src.partitions, disk_bytes < 512 * (p.last + 1)
      PROVE  p.last + 1 + 40 > S * 8
  BY <1>1, <1>2, <1>3, <1>7
<1>8. CASE S - 6 < new_last(H)
  BY <1>1, <1>2, <1>5, <1>8
<1> QED
  BY <1>4, <1>6, <1>7, <1>8

\* The step that rejects an image of fwup's does so for one of three reasons.
LEMMA FwupRejected ==
    ASSUME UInv, Reject, args.input \in FwupSources
    PROVE  \/ disk_bytes % SectorBytes # 0
           \/ \E p \in SourceParts :
                p.last + 1 + DST_BACKUP_SECTORS * DST_SECTOR > S * DST_SECTOR
           \/ source.at[1].backup_lba + GPT_ENTRIES >= source.len
<1>1. Typed /\ Sourced /\ pc \in Checks /\ pc # "idle" /\ ~Passes
  BY DEF UInv, Reject, Checks
<1>2. FwupWritten(source) /\ source.len \in Nat
  BY <1>1, FwupSource
<1>3. /\ GptValid(source, 1) /\ validate_source(parse_gpt(source, 1))
      /\ Highest(SourceParts).name = "data"
      /\ \A p \in SourceParts : p.first <= p.last /\ p.slot < 128
  BY <1>2, Sizes DEF FwupWritten, Orderly, SourceParts
<1>4. CASE pc = "args"
  BY <1>1, <1>4 DEF Passes
<1>5. CASE pc = "parse"
  BY <1>1, <1>3, <1>5, Sizes DEF Passes
<1>6. CASE pc \in AfterParse
  <2>1. IsParsed /\ src = parse_gpt(source, 1) /\ SourceParts = src.partitions
    BY <1>6, Sizes DEF UInv, Progress, IsParsed, SourceParts
  <2>2. validate_source(src) /\ ValidParts(src.partitions)
    BY <1>1, <1>3, <2>1, ValidSource
  <2>3. CASE pc = "validate"
    BY <1>1, <2>2, <2>3 DEF Passes
  <2>4. CASE pc = "translate"
    <3>1. \E p \in src.partitions : p.last + 1 + 40 > S * 8
      BY <1>1, <1>3, <2>1, <2>2, <2>4, NoRoom DEF Passes
    <3> QED BY <2>1, <3>1, Sizes
  <2>5. CASE pc = "verify"
    <3>1. IsTranslated /\ IsBuilt
      BY <2>5, Groups DEF UInv, Progress
    <3> QED BY <1>1, <1>3, <2>1, <2>2, <2>5, <3>1, VerifyPasses DEF Passes
  <2>6. CASE pc = "locate"
    <3>1. /\ stale_backup_start = source.at[1].backup_lba /\ stale_backup_len = 33
          /\ stale_backup_start \in Nat
      BY <1>1, <1>2, <2>1, ParsedSource, Sizes
         DEF stale_backup_start, stale_backup_len, parse_gpt, FwupWritten
    <3>2. stale_backup_start >= 48
      <4>1. PICK p \in SourceParts : p.first \in Nat /\ p.last \in Nat /\ p.first >= 48
        BY <2>1, <2>2 DEF ValidParts
      <4>2. p.first <= p.last /\ p.last < source.at[1].backup_lba - 32
        BY <1>2, <4>1, Sizes DEF FwupWritten, Orderly, SourceParts
      <4> QED BY <3>1, <4>1, <4>2
    <3>3. ~(stale_backup_start + stale_backup_len <= source.len)
      BY <1>1, <2>6, <3>2, Sizes DEF Passes, Locatable
    <3> QED BY <1>2, <3>1, <3>3, Sizes
  <2> QED BY <1>1, <1>6, <2>3, <2>4, <2>5, <2>6, Groups DEF Checks
<1> QED
  BY <1>1, <1>4, <1>5, <1>6, Groups DEF Checks

\* An image of fwup's is converted unless its size argument or the end of the
\* image is in the way: no other check rejects it.
THEOREM FwupAccepted == Spec => []FwupImageAccepted
<1>1. Init => FwupImageAccepted
  BY DEF Init, FwupImageAccepted
<1>2. UInv /\ FwupImageAccepted /\ [Next]_vars => FwupImageAccepted'
  <2> SUFFICES ASSUME UInv, FwupImageAccepted, [Next]_vars,
                      pc' = "failed", args'.input \in FwupSources
               PROVE  FwupImageAccepted'
    BY DEF FwupImageAccepted
  <2>1. Reject \/ UNCHANGED vars
    BY DEF Next, Step, Start, CheckSize, Parse, Validate, Translate, Build, Verify, Locate,
           WriteImg, WriteBackup, WriteFull, Emit, Interrupt
  <2>2. args' = args /\ source' = source
    BY <2>1 DEF Reject, locals, vars
  <2>3. \/ disk_bytes % SectorBytes # 0
        \/ \E p \in SourceParts :
             p.last + 1 + DST_BACKUP_SECTORS * DST_SECTOR > S * DST_SECTOR
        \/ source.at[1].backup_lba + GPT_ENTRIES >= source.len
    <3>1. CASE Reject
      BY <2>2, <3>1, FwupRejected
    <3>2. CASE UNCHANGED vars
      BY <2>2, <3>2 DEF FwupImageAccepted, vars
    <3> QED BY <2>1, <3>1, <3>2
  <2>4. disk_bytes' = disk_bytes /\ S' = S /\ SourceParts' = SourceParts
    BY <2>2 DEF disk_bytes, S, SourceParts
  <2> QED BY <2>2, <2>3, <2>4 DEF FwupImageAccepted
<1> QED
  BY <1>1, <1>2, UfsInductive, PTL DEF Spec

-----------------------------------------------------------------------------
(***************************************************************************)
(* What follows from it.                                                   *)
(***************************************************************************)
\* The variables of main() and the output files are of their types throughout.
THEOREM TypeCorrect == Spec => []TypeOK
<1>1. UInv => TypeOK
  <2> SUFFICES ASSUME UInv PROVE TypeOK
    OBVIOUS
  <2>1. IsImage(source) /\ \A f \in {"img", "backup", "full"} : IsImage(files[f])
    BY DEF UInv, Sourced, Files, OwnFile
  <2> QED BY <2>1, Zenon DEF UInv, Typed, TypeOK
<1> QED
  BY <1>1, UfsInductive, PTL

\* A rejected invocation has left every output file as it was.
THEOREM ErrorHarmless == Spec => []ErrorWritesNothing
<1>1. UInv => ErrorWritesNothing
  BY DEF UInv, Progress, ErrorWritesNothing
<1> QED
  BY <1>1, UfsInductive, PTL

\* The script stops at parse_gpt when it is given an image of its own, in
\* whatever state an earlier invocation left that image.
THEOREM ConvertedOnce == Spec => []NeverConvertedTwice
<1>1. UInv => NeverConvertedTwice
  <2> SUFFICES ASSUME UInv, args.input \in {"img", "full"}
               PROVE  pc \in {"idle", "args", "parse", "failed", "killed"}
    BY DEF NeverConvertedTwice
  <2>1. args.input \notin DOMAIN Source
    BY ToolAssumption
  <2>2. pc \notin AfterParse
    <3>1. SUFFICES ASSUME pc \in AfterParse PROVE FALSE
      OBVIOUS
    <3>2. IsParsed /\ Sourced /\ pc # "idle"
      BY <3>1, Groups DEF UInv, Progress
    <3> QED BY <2>1, <3>2, ParsedInput
  <2>3. pc \in Checks \cup {"build"} \cup Writing \cup Ended
    BY DEF UInv, Typed
  <2> QED BY <2>2, <2>3, Groups DEF Checks, Writing, Ended
<1> QED
  BY <1>1, UfsInductive, PTL

\* What holds of an invocation that has returned 0.
LEMMA Finished ==
    ASSUME UInv, Done
    PROVE  /\ Typed /\ Sourced /\ Established /\ pc # "idle"
           /\ SourceParts = src.partitions
           /\ ValidParts(src.partitions)
           /\ Out = IF args.full THEN Full3 ELSE Img3
           /\ ~args.full => files.backup = Backup1
           /\ args.full => files.full = Full3
<1>1. Typed /\ Sourced /\ Established /\ pc # "idle"
  BY Groups DEF UInv, Done, Progress, Established
<1>2. SourceParts = src.partitions
  BY <1>1 DEF Established, IsParsed, SourceParts
<1>3. ValidParts(src.partitions)
  BY <1>1, ValidSource DEF Established
<1> QED
  BY <1>1, <1>2, <1>3 DEF UInv, Done, FilesByStage, Out

\* With partitions that are where the fwup file puts them, every partition ends
\* in front of the new backup table.
LEMMA BeforeBackup ==
    ASSUME Typed, ValidParts(src.partitions), Translatable(src.partitions),
           \A p \in src.partitions : p.first <= p.last, Apart(src.partitions)
    PROVE  \A p \in src.partitions : p.last < (S - 5) * 8
<1> DEFINE H == Highest(src.partitions)
<1>1. /\ H \in src.partitions
      /\ \A p \in src.partitions : /\ p.first \in Nat /\ p.last \in Nat
                                   /\ (p.last + 1) % 8 = 0 /\ p.first <= H.first
  BY DEF ValidParts, AsHigh
<1>2. S \in Nat /\ S - 6 >= new_last(H)
  BY Room
<1>3. (new_last(H) + 1) * 8 = H.last + 1
  BY <1>1, Sizes DEF new_last
<1>4. new_last(H) \in Nat
  BY Room
<1>5. \A p \in src.partitions : p.last <= H.last
  <2> HIDE DEF H
  <2> QED BY <1>1 DEF Apart
<1> HIDE DEF H
<1> QED
  BY <1>1, <1>2, <1>3, <1>4, <1>5

\* The partitions, and the blocks between the new front and them, reach the
\* image unchanged, in two pieces and in full.
THEOREM ContentsPreserved == Spec => []ContentsKept
<1>1. UInv => ContentsKept
  <2> SUFFICES ASSUME UInv, Done, Orderly(SourceParts, src.backup_lba),
                      NEW p \in SourceParts, NEW b \in Least(DST_FRONT, p.first) .. p.last
               PROVE  Out.at[b] = source.at[b]
    BY DEF ContentsKept
  <2>1. /\ Typed /\ Sourced /\ Established /\ pc # "idle"
        /\ SourceParts = src.partitions /\ ValidParts(src.partitions)
        /\ Out = IF args.full THEN Full3 ELSE Img3
    BY Finished
  <2>2. p.first \in Nat /\ p.last \in Nat /\ p.first >= 48
    BY <2>1 DEF ValidParts
  <2>3. src.backup_lba \in Nat
    BY <2>1, ParsedSource DEF Established
  <2>4. p.last < src.backup_lba
    BY <2>2, <2>3, Sizes DEF Orderly
  <2>5. b \in 48 .. src.backup_lba - 1 /\ b <= p.last
    BY <2>2, <2>3, <2>4, Sizes DEF Least
  <2>6. CASE ~args.full
    <3>1. Img3.at[b] = source.at[b]
      BY <2>1, <2>5, ImgShape DEF Established
    <3> QED BY <2>1, <2>6, <3>1
  <2>7. CASE args.full
    <3>1. p.last < (S - 5) * 8
      BY <2>1, BeforeBackup DEF Orderly, Established, IsTranslated
    <3>2. b < (S - 5) * 8
      <4>1. (S - 5) * 8 \in Int
        BY <2>1, Room DEF Established, IsTranslated
      <4> QED BY <2>2, <2>5, <3>1, <4>1
    <3>3. Full3.at[b] = source.at[b]
      BY <2>1, <2>5, <3>2, FullShape DEF Established
    <3> QED BY <2>1, <2>7, <3>3
  <2> QED BY <2>6, <2>7
<1> QED
  BY <1>1, UfsInductive, PTL

\* A module that holds a partition behind the new front has twelve sectors.
LEMMA Twelve ==
    ASSUME Typed, ValidParts(src.partitions), Translatable(src.partitions),
           \A p \in src.partitions : p.first <= p.last
    PROVE  S \in Nat /\ S >= 12
<1> DEFINE H == Highest(src.partitions)
<1>1. H.last \in Nat /\ H.last >= 48
  BY DEF ValidParts
<1>2. S \in Nat /\ S - 6 >= new_last(H)
  BY Room
<1>3. new_last(H) \in Nat /\ (new_last(H) + 1) * 8 = H.last + 1
  <2>1. (H.last + 1) % 8 = 0 /\ new_last(H) = (H.last + 1) \div 8 - 1
    BY Sizes DEF ValidParts, new_last
  <2>2. \A n \in Nat : (n + 1) % 8 = 0 => ((n + 1) \div 8) * 8 = n + 1
    OBVIOUS
  <2>3. new_last(H) \in Nat
    BY Room
  <2> HIDE DEF H
  <2>4. ((H.last + 1) \div 8) * 8 = H.last + 1
    BY <1>1, <2>1, <2>2
  <2>5. new_last(H) + 1 = (H.last + 1) \div 8
    BY <1>1, <2>1
  <2> QED BY <2>3, <2>4, <2>5
<1>4. new_last(H) >= 6
  BY <1>1, <1>3
<1> QED
  BY <1>2, <1>3, <1>4

\* The two headers are those build_new_gpt has made.
LEMMA Headers ==
    ASSUME IsBuilt
    PROVE  /\ built.primary_header.current_lba = 1
           /\ built.primary_header.backup_lba = S - 1
           /\ built.primary_header.entries_lba = 2
           /\ built.primary_header.entries_len = 32
           /\ built.primary_header.disk_guid = src.disk_guid
           /\ built.primary_header.entries_crc = FileCrc(build_entries_bytes(translated))
           /\ built.backup_header.current_lba = S - 1
           /\ built.backup_header.backup_lba = 1
           /\ built.backup_header.entries_lba = S - 5
           /\ built.backup_header.disk_guid = src.disk_guid
           /\ built.backup_header.entries_crc = FileCrc(build_entries_bytes(translated))
<1>1. \A cur, bak, fst, lst, guid, ent, crc :
         LET h == build_gpt_header(cur, bak, fst, lst, guid, ent, crc)
         IN /\ h.current_lba = cur /\ h.backup_lba = bak /\ h.entries_lba = ent
            /\ h.entries_len = 32 /\ h.disk_guid = guid /\ h.entries_crc = crc
  BY Sizes DEF build_gpt_header
<1>2. /\ built.primary_header =
           build_gpt_header(1, S - 1, DST_FIRST_USABLE, last_usable, src.disk_guid, 2,
                            FileCrc(build_entries_bytes(translated)))
      /\ built.backup_header =
           build_gpt_header(S - 1, 1, DST_FIRST_USABLE, last_usable, src.disk_guid, S - 5,
                            FileCrc(build_entries_bytes(translated)))
  BY DEF IsBuilt, build_new_gpt
<1> QED
  BY <1>1, <1>2

\* The first 48 blocks of a finished image are the new front.
LEMMA OutFronted ==
    ASSUME UInv, Done, Forward
    PROVE  Fronted(Out)
<1>1. /\ Typed /\ Sourced /\ Established /\ pc # "idle"
      /\ SourceParts = src.partitions /\ ValidParts(src.partitions)
      /\ Out = IF args.full THEN Full3 ELSE Img3
  BY Finished
<1>2. CASE ~args.full
  BY <1>1, <1>2, ImgShape DEF Established
<1>3. CASE args.full
  <2>1. S \in Nat /\ S >= 12
    BY <1>1, Twelve DEF Forward, Established, IsTranslated
  <2>2. /\ OwnFile(Full3) /\ Full3.len >= S * 8
        /\ \A b \in 0 .. 47 : b < (S - 5) * 8 => Full3.at[b] = built.front.at[b]
    BY <1>1, FullShape DEF Established
  <2>3. Full3.len \in Nat
    BY <2>2 DEF OwnFile, IsImage
  <2> QED BY <1>1, <1>3, <2>1, <2>2, <2>3 DEF Fronted, OwnFile
<1> QED
  BY <1>2, <1>3

\* The backup table a finished invocation has left.
LEMMA OutBackup ==
    ASSUME UInv, Done
    PROVE  BackupOf(IF args.full THEN Slice(files.full, (S - 5) * 8, S * 8)
                    ELSE files.backup,
                    translated, built.backup_header)
<1>1. /\ Typed /\ Sourced /\ Established /\ pc # "idle"
      /\ SourceParts = src.partitions /\ ValidParts(src.partitions)
      /\ ~args.full => files.backup = Backup1
      /\ args.full => files.full = Full3
  BY Finished
<1>2. CASE ~args.full
  BY <1>1, <1>2, Backup1Shape DEF Established
<1>3. CASE args.full
  <2> DEFINE w == Slice(files.full, (S - 5) * 8, S * 8)
  <2>1. S \in Nat /\ S >= 6
    BY <1>1, Room DEF Established, IsTranslated
  <2>2. /\ IsImage(Full3) /\ Full3.len >= S * 8 /\ Full3.len \in Nat
        /\ \A i \in 0 .. 39 : Full3.at[(S - 5) * 8 + i] = built.backup_gpt.at[i]
    BY <1>1, FullShape DEF Established, OwnFile, IsImage
  <2>3. Sliced(w, Full3, (S - 5) * 8, S * 8)
    <3>1. (S - 5) * 8 \in Nat /\ S * 8 \in Int
      BY <2>1
    <3> QED BY <1>1, <1>3, <2>2, <3>1, SliceImage
  <2> HIDE DEF w
  <2>4. IsImage(w) /\ w.len = 40 /\ \A i \in 0 .. 39 : w.at[i] = Full3.at[(S - 5) * 8 + i]
    BY <2>1, <2>2, <2>3 DEF Sliced, Least, Greatest
  <2>5. \A i \in 0 .. 39 : w.at[i] = built.backup_gpt.at[i]
    BY <2>2, <2>4
  <2>6. BackupOf(built.backup_gpt, translated, built.backup_header)
    BY <1>1, BuiltShape DEF Established
  <2>7. 32 \in 0 .. 39 /\ \A i \in 0 .. 31 : i \in 0 .. 39
    OBVIOUS
  <2>8. BackupOf(w, translated, built.backup_header)
    BY <2>4, <2>5, <2>6, <2>7 DEF BackupOf
  <2> QED BY <1>3, <2>8 DEF w
<1> QED
  BY <1>2, <1>3

\* The backup table that goes to the end of the module and the primary table in
\* the image are two copies of one table, also when invocations in between have
\* failed or were killed.
THEOREM BackupPaired == Spec => []BackupMirrors
<1>1. UInv => BackupMirrors
  <2> SUFFICES ASSUME UInv, Done, Forward PROVE BackupMirrors
    BY DEF BackupMirrors
  <2> DEFINE backup == IF args.full THEN Slice(files.full, (S - 5) * 8, S * 8)
                       ELSE files.backup
             h == backup.at[32]
             primary == Out.at[8]
  <2>1. /\ Typed /\ Sourced /\ Established /\ pc # "idle"
        /\ args.full => files.full = Full3
    BY Finished
  <2>2. BackupOf(backup, translated, built.backup_header)
    BY OutBackup
  <2> HIDE DEF backup
  <2>3. backup.len = 40 /\ h = built.backup_header
    BY <2>2 DEF BackupOf
  <2>4. primary = built.primary_header
    <3>1. FrontOf(built.front, translated, built.primary_header)
      BY <2>1, BuiltShape DEF Established
    <3>2. 8 \in 0 .. 47
      OBVIOUS
    <3> QED BY <3>1, <3>2, OutFronted DEF Fronted, FrontOf
  <2>5. HeaderValid(h)
    BY <2>1, <2>3 DEF Established, IsVerified, self_verify
  <2>6. Slice(backup, 0, 32) = build_entries_bytes(translated)
    <3>1. \A i \in 0 .. 31 : backup.at[0 + i] = EntriesBlock(translated, i)
      BY <2>2 DEF BackupOf
    <3>2. IsImage(backup) /\ backup.len >= 0 + 32
      BY <2>2, <2>3 DEF BackupOf
    <3>3. Slice(backup, 0, 0 + 32) = build_entries_bytes(translated)
      BY <3>1, <3>2, SameArray
    <3>4. 0 + 32 = 32
      OBVIOUS
    <3> QED BY <3>3, <3>4
  <2>7. args.full /\ stale_backup_start <= S * 8 => files.full.len = S * 8
    BY <2>1, FullShape DEF Established, stale_backup_start
  <2> HIDE DEF h, primary
  <2>8. /\ backup.len = 40
        /\ h.current_lba = S - 1 /\ primary.backup_lba = h.current_lba
        /\ h.backup_lba = primary.current_lba /\ h.backup_lba = 1
        /\ h.entries_lba = S - 5
        /\ FileCrc(Slice(backup, 0, 32)) = h.entries_crc
        /\ h.entries_crc = primary.entries_crc
        /\ h.disk_guid = primary.disk_guid
    BY <2>1, <2>3, <2>4, <2>6, Headers DEF Established
  <2> QED
    BY <2>5, <2>7, <2>8, Sizes DEF BackupMirrors, backup, h, primary
<1> QED
  BY <1>1, UfsInductive, PTL

\* What parse_gpt reads back from a finished image: the array of the translated
\* partitions, none of which is lost.
LEMMA ReadBack ==
    ASSUME UInv, Done, Forward
    PROVE  GptValid(Out, 8) /\ OutParts = translated
<1> DEFINE h == Out.at[8]
           array == build_entries_bytes(translated)
<1>1. Typed /\ Sourced /\ Established /\ pc # "idle"
  BY Finished
<1>2. Fronted(Out) /\ FrontOf(built.front, translated, built.primary_header)
  BY <1>1, OutFronted, BuiltShape DEF Established
<1>3. IsImage(Out) /\ Out.len >= 48 /\ Out.len \in Nat
  BY <1>2 DEF Fronted, IsImage
<1>4. /\ Out.at[0] = built.front.at[0] /\ h = built.primary_header
      /\ built.front.at[8] = built.primary_header
      /\ \A i \in 0 .. 31 : Out.at[16 + i] = EntriesBlock(translated, i)
      /\ \A i \in 0 .. 31 : built.front.at[16 + i] = EntriesBlock(translated, i)
  <2>1. 0 \in 0 .. 47 /\ 8 \in 0 .. 47 /\ \A i \in 0 .. 31 : 16 + i \in 0 .. 47
    OBVIOUS
  <2> QED BY <1>2, <2>1 DEF Fronted, FrontOf
<1>5. h.entries_lba * 8 = 16 /\ h.entries_len = 32 /\ 16 + 32 = 16 + h.entries_len
  BY <1>1, <1>4, Headers DEF Established
<1> HIDE DEF h
<1>6. EntriesOf(Out, h, 8) = array
  BY <1>3, <1>4, <1>5, SameArray DEF EntriesOf
<1>7. EntriesOf(built.front, h, 8) = array
  BY <1>2, <1>4, <1>5, SameArray DEF EntriesOf, FrontOf
<1> HIDE DEF array
<1>8. GptValid(built.front, 8)
  BY <1>1, Sizes DEF Established, IsVerified, self_verify
<1>9. GptValid(Out, 8)
  <2>1. HeaderValid(h) /\ EntriesValid(built.front, h, 8)
    BY <1>4, <1>8 DEF GptValid
  <2>2. EntriesValid(Out, h, 8)
    BY <1>6, <1>7, <2>1 DEF EntriesValid
  <2>3. Out.at[0].kind = "mbr" /\ Out.at[0].signed /\ Out.at[0].ptype = "gpt"
    BY <1>4, <1>8, Zenon DEF GptValid
  <2>4. Out.len >= 6 * 8
    BY <1>3
  <2> QED BY <2>1, <2>2, <2>3, <2>4 DEF GptValid, h
<1>10. OutParts = parse_entries(array)
  BY <1>6, Sizes DEF OutParts, parse_gpt, h
<1>11. parse_gpt(built.front, 8).partitions = parse_entries(array)
  BY <1>4, <1>7 DEF parse_gpt
<1>12. {<<p.slot, p.name, p.first, p.last>> : p \in parse_entries(array)} =
       {<<p.slot, p.name, p.first, p.last>> : p \in translated}
  BY <1>1, <1>11, Sizes DEF Established, IsVerified, self_verify
<1>13. parse_entries(array) = {p \in translated : p.slot \div 4 \in 0 .. 31}
  BY EntriesRead DEF array
<1>14. \A p \in translated : p \in parse_entries(array)
  <2> SUFFICES ASSUME NEW p \in translated PROVE p \in parse_entries(array)
    OBVIOUS
  <2> DEFINE Key(q) == <<q.slot, q.name, q.first, q.last>>
  <2>1. PICK q \in parse_entries(array) : Key(p) = Key(q)
    <3>1. {Key(q) : q \in parse_entries(array)} = {Key(q) : q \in translated}
      BY <1>12
    <3> HIDE DEF Key
    <3>2. Key(p) \in {Key(q) : q \in translated}
      OBVIOUS
    <3>3. Key(p) \in {Key(q) : q \in parse_entries(array)}
      BY <3>1, <3>2
    <3> QED BY <3>3
  <2>2. q.slot = p.slot
    BY <2>1
  <2> QED BY <1>13, <2>2
<1> QED
  BY <1>9, <1>10, <1>13, <1>14

\* The new table describes the partitions at the bytes where they are, the data
\* partition grown to the end of the usable area and clear of all others.
THEOREM LayoutPreserved == Spec => []LayoutKept
<1>1. UInv => LayoutKept
  <2> SUFFICES ASSUME UInv, Done, Forward PROVE LayoutKept
    BY DEF LayoutKept
  <2> DEFINE parts == src.partitions
             H == Highest(parts)
  <2>1. /\ Typed /\ Sourced /\ Established /\ pc # "idle"
        /\ SourceParts = parts /\ ValidParts(parts)
        /\ Out = IF args.full THEN Full3 ELSE Img3
    BY Finished
  <2>2. GptValid(Out, 8) /\ OutParts = translated
    BY ReadBack
  <2>3. /\ translated = {Moved(p) : p \in parts}
        /\ \A p \in parts :
             /\ Moved(p).slot = p.slot /\ Moved(p).name = p.name /\ Moved(p).id = p.id
             /\ Moved(p).first \in Nat /\ Moved(p).first * 8 = p.first
             /\ Moved(p).last \in Nat
             /\ IF p = H THEN Moved(p).last = S - 6
                ELSE (Moved(p).last + 1) * 8 = p.last + 1
             /\ (Moved(p).last + 1) * 8 >= p.last + 1
    BY <2>1, MovedParts DEF Established, IsTranslated
  <2>4. S \in Nat
    BY <2>1, ParsedSize DEF Typed
  <2>5. \A p \in parts : p.name = "data" <=> p = H
    <3>1. H.name = "data" /\ H \in parts
      BY <2>1 DEF Established, IsTranslated, Translatable, ValidParts
    <3>2. \A p, q \in parts : p.name = q.name => p = q
      BY <2>1 DEF ValidParts
    <3> HIDE DEF H
    <3> QED BY <3>1, <3>2
  <2>6. ~args.full => Out.len % 8 = 0
    BY <2>1, ImgShape DEF Established
  <2>7. Out.at[0].sectors = Least(S - 1, MbrLimit)
    <3>1. FrontOf(built.front, translated, built.primary_header)
      BY <2>1, BuiltShape DEF Established
    <3>2. Out.at[0] = build_protective_mbr(S)
      <4>1. 0 \in 0 .. 47
        OBVIOUS
      <4> QED BY <3>1, <4>1, OutFronted DEF Fronted, FrontOf
    <3> QED BY <3>2 DEF build_protective_mbr
  <2>8. \A q \in translated : \E p \in parts : p.slot = q.slot
    BY <2>3
  <2>9. \A p \in parts : \E q \in translated :
          /\ q.slot = p.slot /\ q.name = p.name /\ q.id = p.id
          /\ q.first * 8 = p.first
          /\ (q.last + 1) * 8 >= p.last + 1
          /\ IF p.name = "data" THEN q.last + 1 = S - 5 ELSE (q.last + 1) * 8 = p.last + 1
    <3> SUFFICES ASSUME NEW p \in parts
                 PROVE  /\ Moved(p) \in translated
                        /\ IF p.name = "data" THEN Moved(p).last + 1 = S - 5
                           ELSE (Moved(p).last + 1) * 8 = p.last + 1
      BY <2>3
    <3>1. Moved(p) \in translated
      BY <2>3
    <3>2. IF p = H THEN Moved(p).last = S - 6 ELSE (Moved(p).last + 1) * 8 = p.last + 1
      BY <2>3
    <3>3. p.name = "data" <=> p = H
      BY <2>5
    <3> HIDE DEF H, parts
    <3>4. CASE p = H
      BY <2>4, <3>1, <3>2, <3>3, <3>4
    <3>5. CASE p # H
      BY <3>1, <3>2, <3>3, <3>5
    <3> QED BY <3>4, <3>5
  <2>10. ASSUME Orderly(parts, src.backup_lba) PROVE Apart(translated)
    <3>1. \A p \in parts : /\ p.first \in Nat /\ p.last \in Nat
                           /\ p.first <= p.last /\ p.first <= H.first
      BY <2>1, <2>10 DEF ValidParts, AsHigh, Orderly
    <3>2. \A p, q \in parts : p = q \/ p.last < q.first \/ q.last < p.first
      BY <2>10 DEF Orderly, Apart
    <3> HIDE DEF H, parts
    <3>3. ASSUME NEW p \in parts, NEW q \in parts, p.last < q.first
          PROVE  Moved(p).last < Moved(q).first
      <4>1. p # H
        BY <3>1, <3>3
      <4>2. /\ (Moved(p).last + 1) * 8 = p.last + 1 /\ Moved(p).last \in Nat
            /\ Moved(q).first * 8 = q.first /\ Moved(q).first \in Nat
        BY <2>3, <4>1
      <4> QED BY <3>1, <3>3, <4>2
    <3>4. \A p, q \in parts : Moved(p) = Moved(q) \/ Moved(p).last < Moved(q).first
                              \/ Moved(q).last < Moved(p).first
      BY <3>2, <3>3
    <3> QED BY <2>3, <3>4 DEF Apart
  <2> HIDE DEF H, parts
  <2> QED
    BY <2>1, <2>2, <2>6, <2>7, <2>8, <2>9, <2>10, Sizes DEF LayoutKept
<1> QED
  BY <1>1, UfsInductive, PTL
=============================================================================
