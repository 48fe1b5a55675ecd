--------------------------- MODULE VenusDecProofs ---------------------------
(***************************************************************************)
(* Theorems about VenusDec, for every set of streams, every number of      *)
(* buffers and every behaviour of the driver, checked by TLAPS.            *)
(***************************************************************************)
EXTENDS VenusDecInv, FiniteSetTheorems, WellFoundedInduction, TLAPS

(***************************************************************************)
(* Types, and what holds before the loop.                                  *)
(***************************************************************************)

(* The list of access units stays within MAX_AUS.                          *)
LEMMA PushAuFacts ==
    ASSUME aus \in Seq(Seq(NalUnits)), Len(aus) <= MAX_AUS, open \in Seq(NalUnits)
    PROVE  PushAu(aus, open) \in Seq(Seq(NalUnits)) /\ Len(PushAu(aus, open)) <= MAX_AUS
  <1>1. CASE Len(aus) < MAX_AUS /\ open # <<>>
    BY <1>1, BoundsAssumption DEF PushAu
  <1>2. CASE ~ (Len(aus) < MAX_AUS /\ open # <<>>)
    BY <1>2 DEF PushAu
  <1> QED
    BY <1>1, <1>2

(* The NAL unit that the splitter looks at.                                *)
LEMMA LooksAt ==
    ASSUME LoopInv, SplitNal
    PROVE  stream \in Seq(NalUnits) /\ pos \in 1 .. Len(stream) /\ stream[pos] \in NalUnits
  BY StreamsAssumption DEF LoopInv, Typed, SplitNal

LEMMA LoopInit == Init => LoopInv
  BY StreamsAssumption, BoundsAssumption DEF Init, LoopInv, Typed, Fresh

LEMMA LoopSplit ==
    ASSUME LoopInv, SplitNal \/ SplitEnd \/ Setup
    PROVE  LoopInv'
  <1>1. CASE SplitNal
    <2>1. Typed'
      <3>1. stream[pos] \in NalUnits
        BY <1>1, LooksAt
      <3>2. aus' \in Seq(Seq(NalUnits)) /\ Len(aus') <= MAX_AUS
        <4>1. aus' = PushAu(aus, open) \/ aus' = aus
          BY <1>1 DEF SplitNal
        <4>2. /\ aus \in Seq(Seq(NalUnits)) /\ Len(aus) <= MAX_AUS
              /\ open \in Seq(NalUnits)
          BY DEF LoopInv, Typed
        <4>3. PushAu(aus, open) \in Seq(Seq(NalUnits)) /\ Len(PushAu(aus, open)) <= MAX_AUS
          BY <4>2, PushAuFacts, Zenon
        <4>4. CASE aus' = PushAu(aus, open)
          BY <4>3, <4>4, Zenon
        <4>5. CASE aus' = aus
          BY <4>2, <4>5, Zenon
        <4> QED
          BY <4>1, <4>4, <4>5, Zenon
      <3>3. open' \in Seq(NalUnits)
        <4>1. open' = <<stream[pos]>> \/ open' = Append(open, stream[pos])
          BY <1>1 DEF SplitNal
        <4>2. open \in Seq(NalUnits)
          BY DEF LoopInv, Typed
        <4>3. CASE open' = <<stream[pos]>>
          BY ONLY <3>1, <4>3
        <4>4. CASE open' = Append(open, stream[pos])
          BY ONLY <3>1, <4>2, <4>4
        <4> QED
          BY <4>1, <4>3, <4>4, Zenon
      <3> QED
        BY <1>1, <3>2, <3>3 DEF LoopInv, Typed, SplitNal, device
    <2> QED
      BY <1>1, <2>1 DEF LoopInv, Fresh, SplitNal, device
  <1>2. CASE SplitEnd
    <2>1. aus' \in Seq(Seq(NalUnits)) /\ Len(aus') <= MAX_AUS
      BY <1>2, PushAuFacts DEF LoopInv, Typed, SplitEnd
    <2> QED
      BY <1>2, <2>1 DEF LoopInv, Typed, Fresh, SplitEnd, device
  <1>3. CASE Setup
    BY <1>3 DEF LoopInv, Typed, Fresh, Setup, splitter, device
  <1> QED
    BY <1>1, <1>2, <1>3

LEMMA LoopProgram ==
    ASSUME LoopInv, Program
    PROVE  LoopInv'
  <1> USE DEF LoopInv, Typed, Fresh, splitter, device
  <1>1. CASE QueueAu \/ Queued
    BY <1>1 DEF QueueAu, Queued
  <1>2. CASE Polled \/ PollTimeout \/ EventsDone \/ Reclaim \/ HarvestDone \/ IoctlFails
    BY <1>2 DEF Polled, PollTimeout, EventsDone, Reclaim, HarvestDone, IoctlFails
  <1>3. CASE PollErr
    BY <1>3 DEF PollErr, NextIteration
  <1>4. CASE DequeueEvent
    <2>1. events' \in Seq({"source_change", "eos"}) /\ cap' \in Nat
      BY <1>4, BoundsAssumption DEF DequeueEvent
    <2>2. pc' \in {"fail", "events"} /\ UNCHANGED << splitter, iter, pollerr_streak, pending >>
      BY <1>4 DEF DequeueEvent
    <2> QED
      BY <2>1, <2>2
  <1>5. CASE Harvest
    <2>1. cap' \in Nat /\ pc' \in {"end", "harvest"}
      BY <1>5 DEF Harvest
    <2> QED
      BY <1>5, <2>1 DEF Harvest
  <1>6. CASE LoopEnd
    BY <1>6 DEF LoopEnd, NextIteration, Verdict
  <1> QED
    BY <1>1, <1>2, <1>3, <1>4, <1>5, <1>6, LoopSplit DEF Program

LEMMA LoopDriver ==
    ASSUME LoopInv, Driver
    PROVE  LoopInv'
  <1> USE DEF LoopInv, Typed, Fresh, program, splitter
  <1>1. /\ UNCHANGED << stream, pos, open, aus, iter, pollerr_streak, pc >>
        /\ pc \notin {"split", "setup"}
    BY DEF Driver, Consume, Announce, Deliver, Drain, Eos, DriverFails
  <1>2. pending' \in {pending, pending + 1} \/ (pending > 0 /\ pending' = pending - 1)
    BY DEF Driver, Consume, Announce, Deliver, Drain, Eos, DriverFails
  <1>3. cap' = cap \/ (cap > 0 /\ cap' = cap - 1)
    BY DEF Driver, Consume, Announce, Deliver, Drain, Eos, DriverFails
  <1>4. events' = events \/ \E e \in {"source_change", "eos"} : events' = Append(events, e)
    BY DEF Driver, Consume, Announce, Deliver, Drain, Eos, DriverFails
  <1>5. events' \in Seq({"source_change", "eos"})
    <2>1. events \in Seq({"source_change", "eos"})
      OBVIOUS
    <2>2. ASSUME NEW e \in {"source_change", "eos"}, events' = Append(events, e)
          PROVE  events' \in Seq({"source_change", "eos"})
      BY ONLY <2>1, <2>2
    <2> QED
      BY <1>4, <2>1, <2>2
  <1> QED
    BY <1>1, <1>2, <1>3, <1>5

LEMMA LoopNext == LoopInv /\ [Next]_vars => LoopInv'
  <1>1. CASE UNCHANGED vars
    BY <1>1 DEF LoopInv, Typed, Fresh, vars, program, splitter, device
  <1> QED
    BY <1>1, LoopProgram, LoopDriver DEF Next

THEOREM LoopInductive == Spec => []LoopInv
  BY LoopInit, LoopNext, PTL DEF Spec

(***************************************************************************)
(* split_aus.                                                              *)
(***************************************************************************)

(* A list grows at its end or not at all.                                  *)
LEMMA PushAuUnits ==
    ASSUME aus \in Seq(Seq(NalUnits)), NEW k \in DOMAIN PushAu(aus, open)
    PROVE  \/ k \in DOMAIN aus /\ PushAu(aus, open)[k] = aus[k]
           \/ PushAu(aus, open)[k] = open /\ k = Len(PushAu(aus, open))
  <1>1. CASE Len(aus) < MAX_AUS /\ open # <<>>
    <2>1. PushAu(aus, open) = Append(aus, open)
      BY <1>1 DEF PushAu
    <2> QED
      BY <2>1
  <1>2. CASE ~ (Len(aus) < MAX_AUS /\ open # <<>>)
    <2>1. PushAu(aus, open) = aus
      BY <1>2 DEF PushAu
    <2> QED
      BY <2>1
  <1> QED
    BY <1>1, <1>2

LEMMA OneFirst ==
    ASSUME NEW au, OnePicture(au)
    PROVE  Cardinality({i \in DOMAIN au : au[i] = "first"}) = 1
  <1>1. PICK i \in DOMAIN au : au[i] = "first" /\ \A j \in DOMAIN au : au[j] = "first" => j = i
    BY DEF OnePicture
  <1>2. {j \in DOMAIN au : au[j] = "first"} = {i}
    BY <1>1
  <1> QED
    BY <1>2, FS_Singleton

(* A unit begun with a slice has one picture so far, and a unit is closed  *)
(* only then.                                                              *)
LEMMA SplitKeeps ==
    ASSUME PictureStreams, LoopInv, SplitInv, SplitNal
    PROVE  SplitInv'
  <1> DEFINE nal == stream[pos]
  <1>1. /\ stream \in Seq(NalUnits) /\ pos \in 1 .. Len(stream) /\ nal \in NalUnits
        /\ nal = "next" => pos > 1 /\ stream[pos - 1] # "param"
    BY LooksAt DEF LoopInv, Typed, PictureStreams
  <1>2. /\ open \in Seq(NalUnits) /\ aus \in Seq(Seq(NalUnits)) /\ pos' = pos + 1
        /\ stream' = stream
        /\ pos > 1 => open # <<>> /\ open[Len(open)] = stream[pos - 1]
        /\ HasSlice(open) => OnePicture(open)
        /\ \A k \in DOMAIN aus : HasSlice(aus[k]) /\ OnePicture(aus[k])
    BY DEF LoopInv, Typed, SplitNal, SplitInv
  <1>3. pos' > 1 /\ stream'[pos' - 1] = nal
    BY <1>1, <1>2
  <1>4. CASE HasSlice(open) /\ StartsNewAu(nal)
    <2>1. aus' = PushAu(aus, open) /\ open' = <<nal>>
      BY <1>4 DEF SplitNal
    <2>2. ASSUME NEW k \in DOMAIN aus' PROVE HasSlice(aus'[k]) /\ OnePicture(aus'[k])
      <3>1. \/ k \in DOMAIN aus /\ aus'[k] = aus[k]
            \/ aus'[k] = open
        BY <1>2, <2>1, PushAuUnits
      <3>2. CASE k \in DOMAIN aus /\ aus'[k] = aus[k]
        BY <1>2, <3>2, Zenon
      <3>3. CASE aus'[k] = open
        BY <1>2, <1>4, <3>3, Zenon
      <3> QED
        BY <3>1, <3>2, <3>3
    <2>3. HasSlice(open') => OnePicture(open')
      <3>1. DOMAIN open' = {1} /\ open'[1] = nal
        BY <2>1
      <3> QED
        BY <1>4, <3>1 DEF HasSlice, IsSlice, StartsNewAu, OnePicture
    <2>4. open' # <<>> /\ open'[Len(open')] = nal
      BY <2>1
    <2> QED
      BY <1>3, <2>2, <2>3, <2>4 DEF SplitInv
  <1>5. CASE ~ (HasSlice(open) /\ StartsNewAu(nal))
    <2>1. open' = Append(open, nal) /\ aus' = aus
      BY <1>5 DEF SplitNal
    <2>2. /\ DOMAIN open' = 1 .. Len(open) + 1 /\ DOMAIN open = 1 .. Len(open)
          /\ Len(open) \in Nat /\ Len(open') = Len(open) + 1 /\ open'[Len(open) + 1] = nal
          /\ \A j \in 1 .. Len(open) : open'[j] = open[j]
      BY <1>1, <1>2, <2>1
    <2>3. ASSUME HasSlice(open') PROVE OnePicture(open')
      <3>1. CASE HasSlice(open)
        <4>1. nal # "first"
          BY <1>5, <3>1 DEF StartsNewAu, IsSlice
        <4>2. PICK i \in DOMAIN open : /\ open[i] = "first"
                                       /\ \A j \in DOMAIN open : open[j] = "first" => j = i
          BY <1>2, <3>1, Zenon DEF OnePicture
        <4>3. i \in DOMAIN open' /\ open'[i] = "first"
          BY <2>2, <4>2
        <4>4. \A j \in DOMAIN open' : open'[j] = "first" => j = i
          BY <2>2, <4>1, <4>2
        <4> QED
          BY <4>3, <4>4 DEF OnePicture
      <3>2. CASE ~ HasSlice(open)
        <4>1. \A j \in 1 .. Len(open) : open[j] = "param"
          BY <2>2, <3>2 DEF HasSlice, IsSlice
        <4>2. nal # "param"
          BY <2>2, <2>3, <4>1 DEF HasSlice, IsSlice
        <4>3. nal # "next"
          <5>1. pos > 1 => open[Len(open)] = "param"
            BY <1>2, <2>2, <4>1
          <5> QED
            BY <1>1, <1>2, <5>1
        <4>4. nal = "first"
          BY <1>1, <4>2, <4>3 DEF NalUnits
        <4>5. Len(open) + 1 \in DOMAIN open' /\ open'[Len(open) + 1] = "first"
          BY <2>2, <4>4
        <4>6. \A j \in DOMAIN open' : open'[j] = "first" => j = Len(open) + 1
          BY <2>2, <4>1
        <4> QED
          BY <4>5, <4>6 DEF OnePicture
      <3> QED
        BY <3>1, <3>2
    <2>4. open' # <<>> /\ open'[Len(open')] = nal
      BY <2>2
    <2> QED
      BY <1>2, <1>3, <2>1, <2>3, <2>4 DEF SplitInv
  <1> QED
    BY <1>4, <1>5

(* The last unit is what is open at the end.                               *)
LEMMA SplitDone ==
    ASSUME LoopInv, SplitInv, SplitEnd
    PROVE  OnePicturePerUnit'
  <1>1. /\ pc = "split" /\ aus' = PushAu(aus, open) /\ aus \in Seq(Seq(NalUnits))
        /\ HasSlice(open) => OnePicture(open)
        /\ \A k \in DOMAIN aus : HasSlice(aus[k]) /\ OnePicture(aus[k])
    BY DEF SplitEnd, SplitInv, LoopInv, Typed
  <1>2. ASSUME NEW k \in DOMAIN aus'
        PROVE  IF HasSlice(aus'[k])
               THEN Cardinality({i \in DOMAIN aus'[k] : aus'[k][i] = "first"}) = 1
               ELSE k = Len(aus')
    <2>1. \/ k \in DOMAIN aus /\ aus'[k] = aus[k]
          \/ aus'[k] = open /\ k = Len(aus')
      BY <1>1, PushAuUnits
    <2>2. HasSlice(aus'[k]) => OnePicture(aus'[k])
      <3>1. CASE k \in DOMAIN aus /\ aus'[k] = aus[k]
        BY <1>1, <3>1, Zenon
      <3>2. CASE aus'[k] = open
        BY <1>1, <3>2, Zenon
      <3> QED
        BY <2>1, <3>1, <3>2
    <2>3. ~ HasSlice(aus'[k]) => k = Len(aus')
      BY <1>1, <2>1, Zenon
    <2> QED
      BY <2>2, <2>3, OneFirst, Zenon
  <1> QED
    BY <1>2 DEF OnePicturePerUnit

LEMMA SplitNext ==
    ASSUME PictureStreams, LoopInv, SplitInv, OnePicturePerUnit, [Next]_vars
    PROVE  SplitInv' /\ OnePicturePerUnit'
  <1>1. CASE SplitNal
    <2>1. pc' = "split"
      BY <1>1 DEF SplitNal
    <2> QED
      BY <1>1, <2>1, SplitKeeps DEF OnePicturePerUnit
  <1>2. CASE SplitEnd
    <2>1. pc' = "setup"
      BY <1>2 DEF SplitEnd
    <2> QED
      BY <1>2, <2>1, SplitDone DEF SplitInv
  <1>3. CASE ~ SplitNal /\ ~ SplitEnd
    <2>1. UNCHANGED splitter /\ (pc' = pc \/ (pc # "split" /\ pc' # "split"))
      <3>1. CASE UNCHANGED vars
        BY <3>1 DEF vars, program
      <3>2. CASE Driver
        BY <3>2 DEF Driver, Consume, Announce, Deliver, Drain, Eos, DriverFails, program
      <3>3. CASE Program
        BY <1>3, <3>3 DEF Program, Setup, QueueAu, Queued, Polled, PollErr, PollTimeout,
           DequeueEvent, EventsDone, Reclaim, Harvest, HarvestDone, LoopEnd, IoctlFails,
           NextIteration, Verdict
      <3> QED
        BY <3>1, <3>2, <3>3 DEF Next
    <2>2. CASE pc = "split"
      BY <2>1, <2>2 DEF SplitInv, OnePicturePerUnit, splitter
    <2>3. CASE pc # "split"
      BY <2>1, <2>3 DEF SplitInv, OnePicturePerUnit, splitter
    <2> QED
      BY <2>2, <2>3
  <1> QED
    BY <1>1, <1>2, <1>3

(* Of every stream that begins a picture with a slice whose                *)
(* first_mb_in_slice is 0 and has its slices side by side, split_aus makes *)
(* units of one whole picture each, however many slices a picture has and  *)
(* whatever parameter sets lie between pictures.                           *)
THEOREM WholePictures ==
    ASSUME PictureStreams
    PROVE  Spec => []OnePicturePerUnit
  <1>1. Init => SplitInv /\ OnePicturePerUnit
    BY DEF Init, SplitInv, OnePicturePerUnit, HasSlice
  <1>2. LoopInv /\ SplitInv /\ OnePicturePerUnit /\ [Next]_vars
          => SplitInv' /\ OnePicturePerUnit'
    BY SplitNext
  <1> QED
    BY <1>1, <1>2, LoopInductive, PTL DEF Spec

(***************************************************************************)
(* The queues, STOP and the frame count, for any driver.                   *)
(***************************************************************************)

(* If a buffer is free the scan for the lowest one finds a free buffer.    *)
LEMMA LowestFreeFacts ==
    ASSUME \E i \in OutBufs : free_out[i]
    PROVE  LowestFree \in OutBufs /\ free_out[LowestFree]
  <1> DEFINE T == {i \in OutBufs : free_out[i]}
  <1>1. T \subseteq Nat /\ T # {}
    BY BoundsAssumption DEF OutBufs
  <1>2. \E x \in T : \A y \in T : ~ (<<y, x>> \in OpToRel(<, Nat))
    <2> HIDE DEF T
    <2> QED
      BY <1>1, WFMin, NatLessThanWellFounded
  <1>3. PICK x \in T : \A y \in T : ~ (<<y, x>> \in OpToRel(<, Nat))
    BY <1>2
  <1>4. \A y \in T : x <= y
    <2>1. \A y \in T : ~ (y < x)
      BY <1>1, <1>3, Zenon DEF OpToRel
    <2> QED
      BY <1>1, <2>1
  <1>5. \E i \in OutBufs : free_out[i] /\ \A j \in OutBufs : free_out[j] => i <= j
    BY <1>4
  <1> QED
    BY <1>5 DEF LowestFree

(* The sound buffers of a list are finitely many.                          *)
LEMMA SoundFinite ==
    ASSUME NEW s \in Seq(CapBuffer)
    PROVE  IsFiniteSet(Sound(s)) /\ Cardinality(Sound(s)) \in Nat
  <1>1. IsFiniteSet(1 .. Len(s))
    BY FS_Interval
  <1>2. IsFiniteSet(Sound(s))
    BY <1>1, FS_Subset DEF Sound
  <1> QED
    BY <1>2, FS_CardinalityType

(* A buffer at the end of the list counts if it is sound.                  *)
LEMMA SoundAppend ==
    ASSUME NEW s \in Seq(CapBuffer), NEW b \in CapBuffer
    PROVE  Cardinality(Sound(Append(s, b))) =
             Cardinality(Sound(s)) + IF b.bytes > 0 /\ ~ b.error THEN 1 ELSE 0
  <1>1. /\ Len(Append(s, b)) = Len(s) + 1
        /\ \A i \in 1 .. Len(s) : Append(s, b)[i] = s[i]
        /\ Append(s, b)[Len(s) + 1] = b
        /\ Len(s) \in Nat
    OBVIOUS
  <1>2. CASE b.bytes > 0 /\ ~ b.error
    <2>1. Sound(Append(s, b)) = Sound(s) \cup {Len(s) + 1} /\ Len(s) + 1 \notin Sound(s)
      BY <1>1, <1>2 DEF Sound
    <2> QED
      BY <1>2, <2>1, SoundFinite, FS_AddElement
  <1>3. CASE ~ (b.bytes > 0 /\ ~ b.error)
    <2>1. Sound(Append(s, b)) = Sound(s)
      BY <1>1, <1>3 DEF Sound
    <2> QED
      BY <1>3, <2>1, SoundFinite
  <1> QED
    BY <1>2, <1>3

(* And so does the one taken from its head.                                *)
LEMMA SoundTail ==
    ASSUME NEW s \in Seq(CapBuffer), s # <<>>
    PROVE  Cardinality(Sound(s)) =
             Cardinality(Sound(Tail(s))) + IF Head(s).bytes > 0 /\ ~ Head(s).error
                                           THEN 1 ELSE 0
  <1>1. /\ Len(s) \in Nat /\ Len(s) > 0 /\ Len(Tail(s)) = Len(s) - 1
        /\ Tail(s) \in Seq(CapBuffer)
        /\ \A i \in 1 .. Len(s) - 1 : Tail(s)[i] = s[i + 1]
        /\ Head(s) = s[1]
    OBVIOUS
  <1> DEFINE f == [i \in Sound(Tail(s)) |-> i + 1]
  <1>2. f \in Bijection(Sound(Tail(s)), Sound(s) \ {1})
    <2>1. f \in [Sound(Tail(s)) -> Sound(s) \ {1}]
      BY <1>1 DEF Sound
    <2>2. \A i, j \in Sound(Tail(s)) : f[i] = f[j] => i = j
      BY DEF Sound
    <2>3. \A j \in Sound(s) \ {1} : \E i \in Sound(Tail(s)) : f[i] = j
      <3> SUFFICES ASSUME NEW j \in Sound(s) \ {1}
                   PROVE  j - 1 \in Sound(Tail(s)) /\ f[j - 1] = j
        OBVIOUS
      <3>1. j - 1 \in Sound(Tail(s))
        BY <1>1 DEF Sound
      <3> QED
        BY <3>1 DEF Sound
    <2> QED
      BY <2>1, <2>2, <2>3, Zenon DEF Bijection, Injection, Surjection, IsInjective
  <1>3. Cardinality(Sound(Tail(s))) = Cardinality(Sound(s) \ {1})
    BY <1>1, <1>2, SoundFinite, FS_Bijection DEF ExistsBijection
  <1>4. 1 \in Sound(s) <=> Head(s).bytes > 0 /\ ~ Head(s).error
    BY <1>1 DEF Sound
  <1>5. IsFiniteSet(Sound(s)) /\ Cardinality(Sound(s)) \in Nat
    BY SoundFinite
  <1>6. Cardinality(Sound(s) \ {1}) =
          IF 1 \in Sound(s) THEN Cardinality(Sound(s)) - 1 ELSE Cardinality(Sound(s))
    BY <1>5, FS_RemoveElement
  <1>7. CASE 1 \in Sound(s)
    BY <1>3, <1>4, <1>5, <1>6, <1>7
  <1>8. CASE 1 \notin Sound(s)
    BY <1>3, <1>4, <1>5, <1>6, <1>8
  <1> QED
    BY <1>7, <1>8

(* Before the first iteration nothing is queued.                           *)
LEMMA DecInit == Init => DecInv
  <1> SUFFICES ASSUME Init PROVE DecInv
    OBVIOUS
  <1>1. Types
    BY DEF Init, Types
  <1>2. Sound(capdone) = {}
    BY DEF Init, Sound
  <1>3. Counted
    <2>1. Cardinality(Sound(capdone)) = 0
      BY <1>2, FS_EmptySet
    <2>2. frames = 0 /\ good = 0 /\ pc = "split"
      BY DEF Init
    <2> QED
      BY <2>1, <2>2 DEF Counted
  <1> QED
    BY <1>1, <1>3 DEF Init, DecInv, InOrder, Stopped

(* An access unit goes into a buffer that is neither queued nor waiting to *)
(* be dequeued, behind those queued before.                                *)
LEMMA DecQueueAu ==
    ASSUME DecInv, QueueAu
    PROVE  DecInv'
  <1> DEFINE x == LowestFree
  <1>1. /\ x \in OutBufs /\ free_out[x]
        /\ next_au <= Len(aus)
        /\ omap' = [omap EXCEPT ![x] = next_au] /\ out' = Append(out, x)
        /\ free_out' = [free_out EXCEPT ![x] = FALSE] /\ next_au' = next_au + 1
        /\ UNCHANGED << aus, pc, eos_sent, frames, outdone, taken, good, capdone, stops >>
    BY LowestFreeFacts DEF QueueAu, splitter
  <1> HIDE DEF x
  <1>2. Types
    BY DEF DecInv
  <1>3. Types'
    BY <1>1, <1>2 DEF Types
  <1>4. /\ Len(out') = Len(out) + 1 /\ out'[Len(out) + 1] = x
        /\ \A k \in 1 .. Len(out) : out'[k] = out[k] /\ out[k] # x /\ out[k] \in OutBufs
        /\ Len(out) \in Nat /\ Len(taken) \in Nat
    BY <1>1, <1>2 DEF Types, DecInv, InOrder
  <1>5. x \notin outdone
    BY <1>1 DEF DecInv, InOrder
  <1>6. InOrder'
    <2>1. ASSUME NEW k \in 1 .. Len(out')
          PROVE  /\ omap'[out'[k]] = Len(taken') + k
                 /\ ~ free_out'[out'[k]]
                 /\ out'[k] \notin outdone'
      <3>1. CASE k = Len(out) + 1
        BY <1>1, <1>2, <1>4, <1>5, <3>1 DEF Types, DecInv, InOrder
      <3>2. CASE k \in 1 .. Len(out)
        <4>1. /\ out'[k] = out[k] /\ out[k] # x /\ out[k] \in OutBufs
              /\ omap[out[k]] = Len(taken) + k /\ ~ free_out[out[k]]
              /\ out[k] \notin outdone
          BY <1>4, <3>2 DEF DecInv, InOrder
        <4>2. omap'[out[k]] = omap[out[k]] /\ free_out'[out[k]] = free_out[out[k]]
          BY <1>1, <1>2, <4>1 DEF Types
        <4> QED
          BY <1>1, <4>1, <4>2
      <3> QED
        BY <1>4, <3>1, <3>2
    <2>2. ASSUME NEW k \in 1 .. Len(out'), NEW l \in 1 .. Len(out'), out'[k] = out'[l]
          PROVE  k = l
      <3>1. CASE k = Len(out) + 1 \/ l = Len(out) + 1
        BY <1>4, <2>2, <3>1
      <3>2. CASE k \in 1 .. Len(out) /\ l \in 1 .. Len(out)
        <4>1. out[k] = out[l]
          BY <1>4, <2>2, <3>2
        <4> QED
          BY <3>2, <4>1, Zenon DEF DecInv, InOrder
      <3> QED
        BY <1>4, <3>1, <3>2
    <2>3. \A i \in outdone' : ~ free_out'[i]
      BY <1>1, <1>2 DEF Types, DecInv, InOrder
    <2>4. next_au' = Len(taken') + Len(out') + 1
      BY <1>1, <1>4 DEF DecInv, InOrder
    <2>5. \A k \in 1 .. Len(taken') : taken'[k] = k
      BY <1>1 DEF DecInv, InOrder
    <2> QED
      BY <2>1, <2>2, <2>3, <2>4, <2>5 DEF InOrder
  <1>7. Stopped' /\ Counted'
    BY <1>1, <1>2 DEF Types, DecInv, Stopped, Counted
  <1> QED
    BY <1>3, <1>6, <1>7 DEF DecInv

(* The driver takes the first buffer of the queue.                         *)
LEMMA DecConsume ==
    ASSUME DecInv, Consume
    PROVE  DecInv'
  <1>1. /\ out # <<>> /\ out' = Tail(out)
        /\ taken' = Append(taken, omap[Head(out)])
        /\ outdone' = outdone \cup {Head(out)}
        /\ UNCHANGED << aus, pc, next_au, free_out, eos_sent, frames, omap, good, capdone,
                        stops >>
    BY DEF Consume, program, splitter
  <1>2. Types
    BY DEF DecInv
  <1>3. /\ Len(out) \in Nat /\ Len(out) > 0 /\ Len(out') = Len(out) - 1 /\ Head(out) = out[1]
        /\ Head(out) \in OutBufs /\ out' \in Seq(OutBufs)
        /\ \A k \in 1 .. Len(out') : out'[k] = out[k + 1]
    BY <1>1, <1>2 DEF Types
  <1>4. /\ omap[Head(out)] = Len(taken) + 1 /\ ~ free_out[Head(out)]
        /\ omap[Head(out)] \in Nat
    BY <1>2, <1>3 DEF Types, DecInv, InOrder
  <1>5. /\ Len(taken) \in Nat /\ Len(taken') = Len(taken) + 1
        /\ \A k \in 1 .. Len(taken) : taken'[k] = taken[k]
        /\ taken'[Len(taken) + 1] = Len(taken) + 1
        /\ taken' \in Seq(Nat)
    BY <1>1, <1>2, <1>4 DEF Types
  <1>6. Types'
    BY <1>1, <1>2, <1>3, <1>5 DEF Types
  <1>7. InOrder'
    <2>1. \A k \in 1 .. Len(taken') : taken'[k] = k
      BY <1>5 DEF DecInv, InOrder
    <2>2. \A k \in 1 .. Len(out') : /\ omap'[out'[k]] = Len(taken') + k
                                    /\ ~ free_out'[out'[k]]
                                    /\ out'[k] \notin outdone'
      BY <1>1, <1>3, <1>5 DEF DecInv, InOrder
    <2>3. ASSUME NEW k \in 1 .. Len(out'), NEW l \in 1 .. Len(out'), out'[k] = out'[l]
          PROVE  k = l
      <3>1. out[k + 1] = out[l + 1] /\ k + 1 \in 1 .. Len(out) /\ l + 1 \in 1 .. Len(out)
        BY <1>3, <2>3
      <3>2. k + 1 = l + 1
        BY <3>1, Zenon DEF DecInv, InOrder
      <3> QED
        BY <3>2
    <2>4. \A i \in outdone' : ~ free_out'[i]
      BY <1>1, <1>4 DEF DecInv, InOrder
    <2>5. next_au' = Len(taken') + Len(out') + 1
      BY <1>1, <1>3, <1>5 DEF DecInv, InOrder
    <2> QED
      BY <2>1, <2>2, <2>3, <2>4, <2>5 DEF InOrder
  <1>8. Stopped' /\ Counted'
    BY <1>1 DEF DecInv, Stopped, Counted
  <1> QED
    BY <1>6, <1>7, <1>8 DEF DecInv

(* Only buffers the driver is done with become free.                       *)
LEMMA DecReclaim ==
    ASSUME DecInv, Reclaim
    PROVE  DecInv'
  <1>1. /\ free_out' = [i \in OutBufs |-> i \in outdone \/ free_out[i]]
        /\ outdone' = {} /\ pc' = "harvest"
        /\ UNCHANGED << aus, next_au, eos_sent, frames, omap, out, taken, good, capdone,
                        stops >>
    BY DEF Reclaim, splitter
  <1>2. Types'
    BY <1>1 DEF DecInv, Types
  <1>3. \A k \in 1 .. Len(out) : out[k] \in OutBufs
    BY DEF DecInv, Types
  <1>4. InOrder'
    BY <1>1, <1>3 DEF DecInv, InOrder
  <1>5. Stopped' /\ Counted'
    BY <1>1 DEF DecInv, Stopped, Counted
  <1> QED
    BY <1>2, <1>4, <1>5 DEF DecInv

(* What the queues hold and what has been counted decides the rest.        *)
LEMMA DecKept ==
    ASSUME DecInv, Types',
           UNCHANGED << aus, next_au, free_out, omap, out, outdone, taken >>,
           Stopped', Counted'
    PROVE  DecInv'
  BY DEF DecInv, InOrder

(* STOP goes out behind the last access unit, whether it is accepted or    *)
(* not.                                                                    *)
LEMMA DecQueued ==
    ASSUME DecInv, Queued
    PROVE  DecInv'
  <1>1. /\ UNCHANGED << aus, next_au, free_out, omap, out, outdone, taken, frames, good,
                        capdone >>
        /\ pc' = "poll"
        /\ \/ /\ next_au > Len(aus) /\ eos_sent' = TRUE
              /\ stops' = stops + 1 \/ stops' = stops
           \/ UNCHANGED << eos_sent, stops >>
    BY DEF Queued, splitter
  <1>2. Types' /\ Stopped' /\ Counted'
    BY <1>1 DEF DecInv, Types, Stopped, Counted
  <1> QED
    BY <1>1, <1>2, DecKept

(* A frame is counted exactly if the driver has delivered it without an    *)
(* error.                                                                  *)
LEMMA DecHarvest ==
    ASSUME DecInv, Harvest
    PROVE  DecInv'
  <1> DEFINE b == Head(capdone)
  <1>1. /\ capdone # <<>> /\ capdone' = Tail(capdone)
        /\ frames' = IF b.bytes > 0 /\ ~ b.error THEN frames + 1 ELSE frames
        /\ pc' = "end" \/ (pc' = pc /\ pc = "harvest")
        /\ UNCHANGED << aus, next_au, free_out, omap, out, outdone, taken, eos_sent, good,
                        stops >>
    BY DEF Harvest, splitter
  <1>2. capdone \in Seq(CapBuffer) /\ capdone' \in Seq(CapBuffer) /\ frames \in Nat
    BY <1>1 DEF DecInv, Types
  <1>3. /\ Cardinality(Sound(capdone)) \in Nat /\ Cardinality(Sound(capdone')) \in Nat
        /\ Cardinality(Sound(capdone)) =
             Cardinality(Sound(capdone')) + IF b.bytes > 0 /\ ~ b.error THEN 1 ELSE 0
    BY <1>1, <1>2, SoundFinite, SoundTail
  <1> HIDE DEF b
  <1>4. Counted'
    <2>1. Sound(capdone)' = Sound(capdone')
      BY DEF Sound
    <2> QED
      BY <1>1, <1>2, <1>3, <2>1 DEF DecInv, Counted
  <1>5. Types' /\ Stopped'
    BY <1>1, <1>2 DEF DecInv, Types, Stopped
  <1> QED
    BY <1>1, <1>4, <1>5, DecKept

(* The driver fills a buffer.                                              *)
LEMMA DecDelivered ==
    ASSUME DecInv, NEW b \in CapBuffer,
           capdone' = Append(capdone, b),
           good' = good + IF b.bytes > 0 /\ ~ b.error THEN 1 ELSE 0,
           UNCHANGED << aus, pc, next_au, free_out, omap, out, outdone, taken, eos_sent,
                        frames, stops >>
    PROVE  DecInv'
  <1>1. capdone \in Seq(CapBuffer) /\ capdone' \in Seq(CapBuffer) /\ frames \in Nat
        /\ good \in Nat
    BY DEF DecInv, Types
  <1>2. /\ Cardinality(Sound(capdone)) \in Nat
        /\ Cardinality(Sound(capdone')) =
             Cardinality(Sound(capdone)) + IF b.bytes > 0 /\ ~ b.error THEN 1 ELSE 0
    BY <1>1, SoundFinite, SoundAppend
  <1>3. Counted'
    <2>1. Sound(capdone)' = Sound(capdone')
      BY DEF Sound
    <2> QED
      BY <1>1, <1>2, <2>1 DEF DecInv, Counted
  <1>4. Types' /\ Stopped'
    BY <1>1 DEF DecInv, Types, Stopped
  <1> QED
    BY <1>3, <1>4, DecKept

(* The verdict counts the frames; everything else leaves the queues, the   *)
(* counters and STOP alone.                                                *)
LEMMA DecOther ==
    ASSUME DecInv,
           UNCHANGED << aus, next_au, free_out, omap, out, outdone, taken, eos_sent, frames,
                        good, capdone, stops >>,
           pc' = "pass" => pc = "pass" \/ frames >= MIN_FRAMES
    PROVE  DecInv'
  <1>1. Types' /\ Stopped'
    BY DEF DecInv, Types, Stopped
  <1>2. Counted'
    BY DEF DecInv, Counted, Sound
  <1> QED
    BY <1>1, <1>2, DecKept

(* Nothing is queued before the stream is split.                           *)
LEMMA DecSplit ==
    ASSUME DecInv, LoopInv, SplitNal \/ SplitEnd
    PROVE  DecInv'
  <1>1. /\ UNCHANGED << next_au, free_out, omap, out, outdone, taken, eos_sent, frames,
                        good, capdone, stops >>
        /\ pc = "split" /\ pc' \in {"split", "setup"}
    BY DEF SplitNal, SplitEnd, device
  <1>2. Types' /\ Counted' /\ InOrder'
    BY <1>1 DEF DecInv, Types, InOrder, Counted, Sound
  <1>3. Stopped'
    BY <1>1 DEF LoopInv, Fresh, Stopped
  <1> QED
    BY <1>2, <1>3 DEF DecInv

(* The invariant is inductive, whatever the driver does.                   *)
LEMMA DecNext == DecInv /\ LoopInv /\ [Next]_vars => DecInv'
  <1> SUFFICES ASSUME DecInv, LoopInv, [Next]_vars PROVE DecInv'
    OBVIOUS
  <1>1. CASE \/ Setup \/ Polled \/ PollErr \/ PollTimeout \/ DequeueEvent \/ EventsDone
             \/ HarvestDone \/ LoopEnd \/ IoctlFails
    <2>1. CASE Setup \/ Polled \/ EventsDone \/ HarvestDone \/ IoctlFails
      BY <2>1, DecOther DEF Setup, Polled, EventsDone, HarvestDone, IoctlFails, device, splitter
    <2>2. CASE PollErr \/ PollTimeout
      BY <2>2, DecOther DEF PollErr, PollTimeout, NextIteration, device, splitter
    <2>3. CASE DequeueEvent
      <3>1. /\ UNCHANGED << aus, next_au, free_out, omap, out, outdone, taken, eos_sent,
                            frames, good, capdone, stops >>
            /\ pc' = "fail" \/ pc' = pc
        BY <2>3 DEF DequeueEvent, splitter
      <3> QED
        BY <3>1, DecOther
    <2>4. CASE LoopEnd
      BY <2>4, DecOther DEF LoopEnd, NextIteration, Verdict, device, splitter
    <2> QED
      BY <1>1, <2>1, <2>2, <2>3, <2>4
  <1>2. CASE \/ Announce \/ Eos \/ UNCHANGED vars
    BY <1>2, DecOther DEF Announce, Eos, vars, program, splitter, device
  <1>3. ASSUME NEW last \in BOOLEAN, Deliver(last) PROVE DecInv'
    <2>1. [bytes |-> 1, error |-> FALSE, last |-> last] \in CapBuffer
      BY DEF CapBuffer
    <2> QED
      BY <1>3, <2>1, DecDelivered DEF Deliver, program, splitter
  <1>4. CASE Drain
    <2>1. [bytes |-> 0, error |-> FALSE, last |-> TRUE] \in CapBuffer
      BY DEF CapBuffer
    <2>2. good \in Nat
      BY DEF DecInv, Types
    <2> QED
      BY <1>4, <2>1, <2>2, DecDelivered, DecOther DEF Drain, program, splitter
  <1>5. CASE DriverFails
    <2>1. [bytes |-> 1, error |-> TRUE, last |-> FALSE] \in CapBuffer
      BY DEF CapBuffer
    <2>2. good \in Nat
      BY DEF DecInv, Types
    <2> QED
      BY <1>5, <2>1, <2>2, DecDelivered, DecOther DEF DriverFails, program, splitter
  <1>6. CASE SplitNal \/ SplitEnd
    BY <1>6, DecSplit
  <1> QED
    BY <1>1, <1>2, <1>3, <1>4, <1>5, <1>6, DecQueueAu, DecConsume, DecReclaim, DecQueued,
       DecHarvest DEF Next, Program, Driver

(* It holds in every reachable state.                                      *)
THEOREM DecInductive == Spec => []DecInv
  BY DecInit, DecNext, LoopInductive, PTL DEF Spec

(* For any number of buffers and any order in which the driver returns     *)
(* them, it reads every access unit once and in the order of the stream.   *)
THEOREM Intact == Spec => []BitstreamIntact
  <1>1. DecInv => BitstreamIntact
    <2> SUFFICES ASSUME DecInv PROVE taken = [i \in DOMAIN taken |-> i]
      BY DEF BitstreamIntact
    <2>1. taken \in Seq(Nat) /\ \A k \in 1 .. Len(taken) : taken[k] = k
      BY DEF DecInv, Types, InOrder
    <2>2. DOMAIN taken = 1 .. Len(taken) /\ taken = [i \in DOMAIN taken |-> taken[i]]
      BY <2>1
    <2> QED
      BY <2>1, <2>2
  <1> QED
    BY <1>1, DecInductive, PTL

(* No access unit is queued behind STOP.                                   *)
THEOREM StopsLast == Spec => []StopIsLast
  <1>1. DecInv => StopIsLast
    BY DEF DecInv, Stopped, StopIsLast
  <1> QED
    BY <1>1, DecInductive, PTL

(* Exit status 0 stands for MIN_FRAMES pictures decoded without an error,  *)
(* even if the driver fails afterwards, lies about the end of the stream,  *)
(* or delivers broken frames.                                              *)
THEOREM Truthful == Spec => []PassTruthful
  <1>1. DecInv => PassTruthful
    <2> SUFFICES ASSUME DecInv, pc = "pass" PROVE good >= MIN_FRAMES
      BY DEF PassTruthful
    <2>1. Cardinality(Sound(capdone)) \in Nat
      BY SoundFinite DEF DecInv, Types
    <2> QED
      BY <2>1, BoundsAssumption DEF DecInv, Types, Counted
  <1> QED
    BY <1>1, DecInductive, PTL

(***************************************************************************)
(* A driver without a fault.                                               *)
(***************************************************************************)

(* There is room for every buffer somewhere, always.                       *)
LEMMA BuffersInit == Init => BuffersKept
  BY DEF Init, BuffersKept

LEMMA BuffersQueueAu ==
    ASSUME LoopInv, DecInv, BuffersKept, QueueAu
    PROVE  BuffersKept'
  <1> DEFINE x == LowestFree
  <1>1. /\ x \in OutBufs /\ next_au <= Len(aus) /\ out' = Append(out, x)
        /\ free_out' = [free_out EXCEPT ![x] = FALSE] /\ next_au' = next_au + 1
        /\ pc' = "queue" /\ UNCHANGED << aus, outdone >>
    BY LowestFreeFacts DEF QueueAu, splitter
  <1> HIDE DEF x
  <1>2. /\ out \in Seq(OutBufs) /\ free_out \in [OutBufs -> BOOLEAN] /\ next_au \in Nat
        /\ Len(aus) \in Nat
    BY DEF DecInv, Types, LoopInv, Typed
  <1>3. /\ Len(out') = Len(out) + 1 /\ out'[Len(out) + 1] = x /\ Len(out) \in Nat
        /\ \A k \in 1 .. Len(out) : out'[k] = out[k]
    BY <1>1, <1>2
  <1>4. ASSUME NEW i \in OutBufs
        PROVE  free_out'[i] \/ i \in outdone' \/ \E k \in 1 .. Len(out') : out'[k] = i
    <2>1. CASE i = x
      BY <1>3, <2>1
    <2>2. CASE i # x
      <3>1. free_out'[i] = free_out[i]
        BY <1>1, <1>2, <2>2
      <3>2. free_out[i] \/ i \in outdone \/ \E k \in 1 .. Len(out) : out[k] = i
        BY DEF BuffersKept
      <3>3. ASSUME NEW k \in 1 .. Len(out), out[k] = i
            PROVE  k \in 1 .. Len(out') /\ out'[k] = i
        BY <1>3, <3>3
      <3> QED
        BY <1>1, <3>1, <3>2, <3>3
    <2> QED
      BY <2>1, <2>2
  <1> QED
    BY <1>1, <1>2, <1>4 DEF BuffersKept

LEMMA BuffersConsume ==
    ASSUME LoopInv, DecInv, BuffersKept, Consume
    PROVE  BuffersKept'
  <1>1. /\ out # <<>> /\ out' = Tail(out) /\ outdone' = outdone \cup {Head(out)}
        /\ UNCHANGED << aus, pc, next_au, free_out, eos_sent >>
    BY DEF Consume, program, splitter
  <1>2. out \in Seq(OutBufs)
    BY DEF DecInv, Types
  <1>3. /\ Len(out) \in Nat /\ Len(out) > 0 /\ Len(out') = Len(out) - 1 /\ Head(out) = out[1]
        /\ \A k \in 1 .. Len(out') : out'[k] = out[k + 1]
    BY <1>1, <1>2
  <1>4. ASSUME NEW i \in OutBufs
        PROVE  free_out'[i] \/ i \in outdone' \/ \E k \in 1 .. Len(out') : out'[k] = i
    <2>1. ASSUME NEW k \in 1 .. Len(out), out[k] = i
          PROVE  i \in outdone' \/ \E l \in 1 .. Len(out') : out'[l] = i
      <3>1. CASE k = 1
        BY <1>1, <1>3, <2>1, <3>1
      <3>2. CASE k > 1
        <4>1. k - 1 \in 1 .. Len(out') /\ out'[k - 1] = i
          BY <1>3, <2>1, <3>2
        <4> QED
          BY <4>1
      <3> QED
        BY <3>1, <3>2
    <2> QED
      BY <1>1, <2>1 DEF BuffersKept
  <1> QED
    BY <1>1, <1>4 DEF BuffersKept

LEMMA BuffersOther ==
    ASSUME BuffersKept, UNCHANGED << aus, next_au, free_out, out, outdone >>,
           pc' # "poll" \/ (pc = "poll" /\ UNCHANGED eos_sent)
    PROVE  BuffersKept'
  BY DEF BuffersKept

LEMMA BuffersNext ==
    ASSUME LoopInv, DecInv, BuffersKept, [Next]_vars
    PROVE  BuffersKept'
  <1>1. CASE SplitNal \/ SplitEnd
    <2>1. /\ UNCHANGED << next_au, free_out, out, outdone >> /\ pc' # "poll"
          /\ next_au = 1 /\ Len(aus') \in Nat
      BY <1>1, LoopProgram DEF SplitNal, SplitEnd, device, LoopInv, Fresh, Typed, Program
    <2> QED
      BY <2>1 DEF BuffersKept
  <1>2. CASE Queued
    <2>1. /\ UNCHANGED << aus, next_au, free_out, out, outdone >>
          /\ next_au > Len(aus) \/ \A i \in OutBufs : ~ free_out[i]
          /\ next_au > Len(aus) => eos_sent'
      BY <1>2 DEF Queued, splitter
    <2> QED
      BY <2>1 DEF BuffersKept
  <1>3. CASE Reclaim
    <2>1. /\ free_out' = [i \in OutBufs |-> i \in outdone \/ free_out[i]] /\ pc' # "poll"
          /\ UNCHANGED << aus, next_au, out >>
      BY <1>3 DEF Reclaim, splitter
    <2> QED
      BY <2>1 DEF BuffersKept
  <1>4. CASE \/ Setup \/ Polled \/ PollErr \/ PollTimeout \/ EventsDone \/ HarvestDone
             \/ LoopEnd \/ IoctlFails
    BY <1>4, BuffersOther DEF Setup, Polled, PollErr, PollTimeout, EventsDone, HarvestDone,
       LoopEnd, IoctlFails, NextIteration, Verdict, splitter, device
  <1>5. CASE DequeueEvent \/ Harvest
    <2>1. pc' # "poll" /\ UNCHANGED << aus, next_au, free_out, out, outdone >>
      BY <1>5 DEF DequeueEvent, Harvest, splitter
    <2> QED
      BY <2>1, BuffersOther
  <1>6. CASE \/ Announce \/ (\E last \in BOOLEAN : Deliver(last)) \/ Drain \/ Eos
             \/ DriverFails \/ UNCHANGED vars
    <2>1. UNCHANGED << aus, next_au, free_out, out, outdone, pc, eos_sent >>
      BY <1>6 DEF Announce, Deliver, Drain, Eos, DriverFails, vars, program, splitter, device
    <2> QED
      BY <2>1, BuffersOther
  <1> QED
    BY <1>1, <1>2, <1>3, <1>4, <1>5, <1>6, BuffersQueueAu, BuffersConsume
    DEF Next, Program, Driver

(* A fault is never forgotten.                                             *)
LEMMA FaultLasts ==
    ASSUME [Next]_vars, fault' = "none"
    PROVE  fault = "none" /\ ~ DriverFails /\ ~ IoctlFails
  <1>1. CASE UNCHANGED vars
    BY <1>1 DEF vars, DriverFails, IoctlFails
  <1>2. CASE Driver
    BY <1>2 DEF Driver, Consume, Announce, Deliver, Drain, Eos, DriverFails, IoctlFails
  <1>3. CASE Program
    <2>1. ~ IoctlFails /\ ~ DriverFails
      BY DEF IoctlFails, DriverFails
    <2> QED
      BY <1>3, <2>1 DEF Program, SplitNal, SplitEnd, Setup, QueueAu, Queued, Polled, PollErr,
         PollTimeout, DequeueEvent, EventsDone, Reclaim, Harvest, HarvestDone, LoopEnd, Slow
  <1> QED
    BY <1>1, <1>2, <1>3 DEF Next

(* Which steps of a driver without a fault touch the events, and which the *)
(* CAPTURE queue.                                                          *)
LEMMA EventSteps ==
    ASSUME [Next]_vars, fault' = "none"
    PROVE  \/ UNCHANGED << driver, cap_ready, events >>
           \/ DequeueEvent \/ Announce \/ (\E last \in BOOLEAN : Deliver(last)) \/ Drain \/ Eos
  <1>1. CASE UNCHANGED vars
    BY <1>1 DEF vars, program, device
  <1>2. CASE Driver
    BY <1>2, FaultLasts DEF Driver, Consume, program
  <1>3. CASE Program
    BY <1>3, FaultLasts DEF Program, SplitNal, SplitEnd, Setup, QueueAu, Queued, Polled,
       PollErr, PollTimeout, EventsDone, Reclaim, Harvest, HarvestDone, LoopEnd, device
  <1> QED
    BY <1>1, <1>2, <1>3 DEF Next

LEMMA CaptureSteps ==
    ASSUME [Next]_vars, fault' = "none"
    PROVE  \/ UNCHANGED << driver, cap_ready, cap, capdone >>
           \/ DequeueEvent \/ Announce \/ Harvest \/ (\E last \in BOOLEAN : Deliver(last))
           \/ Drain
  <1>1. CASE UNCHANGED vars
    BY <1>1 DEF vars, program, device
  <1>2. CASE Driver
    BY <1>2, FaultLasts DEF Driver, Consume, Eos, program
  <1>3. CASE Program
    BY <1>3, FaultLasts DEF Program, SplitNal, SplitEnd, Setup, QueueAu, Queued, Polled,
       PollErr, PollTimeout, EventsDone, Reclaim, HarvestDone, LoopEnd, device
  <1> QED
    BY <1>1, <1>2, <1>3 DEF Next

(* The format is announced once.                                           *)
LEMMA AnnouncedNext ==
    ASSUME Announced, [Next]_vars, fault' = "none"
    PROVE  Announced'
  <1>1. CASE UNCHANGED << driver, cap_ready, events >>
    BY <1>1 DEF Announced
  <1>2. CASE DequeueEvent
    <2>1. events # <<>> /\ events' = Tail(events) /\ UNCHANGED driver
      BY <1>2 DEF DequeueEvent
    <2>2. CASE events = <<"source_change">>
      <3>1. Head(events) = "source_change" /\ events' = <<>> /\ ~ cap_ready
            /\ driver \in {"announced", "drained"}
        BY <2>1, <2>2 DEF Announced
      <3>2. cap_ready'
        BY <1>2, <3>1 DEF DequeueEvent
      <3> QED
        BY <2>1, <3>1, <3>2 DEF Announced
    <2>3. CASE events = <<"eos">>
      <3>1. Head(events) = "eos" /\ events' = <<>> /\ cap_ready
            /\ driver \in {"announced", "drained"}
        BY <2>1, <2>3 DEF Announced
      <3>2. UNCHANGED cap_ready
        BY <1>2, <3>1 DEF DequeueEvent
      <3> QED
        BY <2>1, <3>1, <3>2 DEF Announced
    <2> QED
      BY <2>1, <2>2, <2>3 DEF Announced
  <1>3. CASE Announce
    <2>1. events = <<>> /\ ~ cap_ready
      BY <1>3 DEF Announce, Announced
    <2>2. events' = <<"source_change">> /\ driver' = "announced" /\ UNCHANGED cap_ready
      BY <1>3, <2>1 DEF Announce, program
    <2> QED
      BY <2>1, <2>2 DEF Announced
  <1>4. CASE (\E last \in BOOLEAN : Deliver(last)) \/ Drain
    BY <1>4 DEF Deliver, Drain, program, Announced
  <1>5. CASE Eos
    <2>1. cap_ready /\ \A i \in DOMAIN events : events[i] # "eos"
      BY <1>5 DEF Eos
    <2>2. events = <<>>
      BY <2>1 DEF Announced
    <2>3. events' = <<"eos">> /\ driver \in {"announced", "drained"}
          /\ UNCHANGED << driver, cap_ready >>
      BY <1>5, <2>2 DEF Eos, program
    <2> QED
      BY <2>1, <2>3 DEF Announced
  <1> QED
    BY <1>1, <1>2, <1>3, <1>4, <1>5, EventSteps

(* A CAPTURE buffer is with the driver or with the program, until the last *)
(* one, and a buffer that is not the last one holds a frame.               *)
LEMMA CaptureAppend ==
    ASSUME LoopInv, DecInv, CaptureKept, driver = "announced", NEW b \in CapBuffer,
           cap > 0, cap' = cap - 1, capdone' = Append(capdone, b), UNCHANGED cap_ready,
           IF b.last THEN driver' = "drained"
           ELSE b.bytes > 0 /\ ~ b.error /\ UNCHANGED driver
    PROVE  CaptureKept'
  <1>1. capdone \in Seq(CapBuffer) /\ cap \in Nat
    BY DEF LoopInv, Typed, DecInv, Types
  <1>2. /\ Len(capdone') = Len(capdone) + 1 /\ capdone'[Len(capdone) + 1] = b
        /\ Len(capdone) \in Nat
        /\ \A i \in 1 .. Len(capdone) : capdone'[i] = capdone[i]
    BY <1>1
  <1>3. cap_ready /\ cap + Len(capdone) = NUM_CAP_BUFS
    BY <1>1 DEF CaptureKept
  <1>4. ASSUME NEW i \in 1 .. Len(capdone')
        PROVE  IF capdone'[i].last THEN driver' = "drained" /\ i = Len(capdone')
               ELSE capdone'[i].bytes > 0 /\ ~ capdone'[i].error
    <2>1. CASE i = Len(capdone) + 1
      BY <1>2, <2>1
    <2>2. CASE i \in 1 .. Len(capdone)
      BY <1>2, <2>2 DEF CaptureKept
    <2> QED
      BY <1>2, <2>1, <2>2
  <1>5. cap' + Len(capdone') = NUM_CAP_BUFS
    BY <1>1, <1>2, <1>3
  <1> QED
    BY <1>3, <1>4, <1>5 DEF CaptureKept

LEMMA CaptureHarvest ==
    ASSUME LoopInv, DecInv, CaptureKept, Harvest
    PROVE  CaptureKept'
  <1>1. /\ cap_ready /\ capdone # <<>> /\ capdone' = Tail(capdone)
        /\ IF Head(capdone).last THEN UNCHANGED cap ELSE cap' = cap + 1
        /\ UNCHANGED << driver, cap_ready >>
    BY DEF Harvest
  <1>2. capdone \in Seq(CapBuffer) /\ cap \in Nat
    BY DEF LoopInv, Typed, DecInv, Types
  <1>3. /\ Len(capdone) \in Nat /\ Len(capdone) > 0 /\ Len(capdone') = Len(capdone) - 1
        /\ Head(capdone) = capdone[1]
        /\ \A i \in 1 .. Len(capdone') : capdone'[i] = capdone[i + 1]
    BY <1>1, <1>2
  <1>4. driver # "drained" => ~ Head(capdone).last /\ cap + Len(capdone) = NUM_CAP_BUFS
    <2>1. 1 \in 1 .. Len(capdone)
      BY <1>3
    <2>2. capdone[1].last => driver = "drained"
      BY <2>1, Zenon DEF CaptureKept
    <2>3. driver # "drained" => cap + Len(capdone) = NUM_CAP_BUFS
      BY <1>1, Zenon DEF CaptureKept
    <2> QED
      BY <1>3, <2>2, <2>3, Zenon
  <1>5. driver # "drained" => cap' + Len(capdone') = NUM_CAP_BUFS
    BY <1>1, <1>2, <1>3, <1>4
  <1>6. ASSUME NEW i \in 1 .. Len(capdone')
        PROVE  IF capdone'[i].last THEN driver' = "drained" /\ i = Len(capdone')
               ELSE capdone'[i].bytes > 0 /\ ~ capdone'[i].error
    <2>1. i + 1 \in 1 .. Len(capdone) /\ capdone'[i] = capdone[i + 1]
      BY <1>3
    <2>2. IF capdone[i + 1].last THEN driver = "drained" /\ i + 1 = Len(capdone)
          ELSE capdone[i + 1].bytes > 0 /\ ~ capdone[i + 1].error
      BY <2>1, Zenon DEF CaptureKept
    <2>3. i + 1 = Len(capdone) => i = Len(capdone')
      BY <1>3
    <2> QED
      BY <1>1, <2>1, <2>2, <2>3, Zenon
  <1> QED
    BY <1>1, <1>5, <1>6 DEF CaptureKept

LEMMA CaptureNext ==
    ASSUME LoopInv, DecInv, Announced, CaptureKept, [Next]_vars, fault' = "none"
    PROVE  CaptureKept'
  <1>1. CASE UNCHANGED << driver, cap_ready, cap, capdone >>
    BY <1>1 DEF CaptureKept
  <1>2. CASE DequeueEvent
    <2>1. UNCHANGED << driver, capdone >>
          /\ \/ UNCHANGED << cap_ready, cap >>
             \/ ~ cap_ready /\ cap_ready' /\ cap' = NUM_CAP_BUFS
      BY <1>2 DEF DequeueEvent
    <2>2. CASE UNCHANGED << cap_ready, cap >>
      BY <2>1, <2>2 DEF CaptureKept
    <2>3. CASE ~ cap_ready /\ cap_ready' /\ cap' = NUM_CAP_BUFS
      BY <2>1, <2>3, BoundsAssumption DEF CaptureKept
    <2> QED
      BY <2>1, <2>2, <2>3
  <1>3. CASE Announce
    BY <1>3 DEF Announce, program, Announced, CaptureKept
  <1>4. ASSUME NEW last \in BOOLEAN, Deliver(last) PROVE CaptureKept'
    <2> DEFINE b == [bytes |-> 1, error |-> FALSE, last |-> last]
    <2>1. /\ driver = "announced" /\ cap > 0 /\ cap' = cap - 1 /\ UNCHANGED cap_ready
          /\ capdone' = Append(capdone, b) /\ driver' = IF last THEN "drained" ELSE driver
      BY <1>4 DEF Deliver, program
    <2>2. b \in CapBuffer /\ b.bytes > 0 /\ ~ b.error /\ b.last = last
      BY DEF CapBuffer
    <2>3. IF b.last THEN driver' = "drained" ELSE b.bytes > 0 /\ ~ b.error /\ UNCHANGED driver
      BY <2>1, <2>2
    <2> HIDE DEF b
    <2> QED
      BY <2>1, <2>2, <2>3, CaptureAppend
  <1>5. CASE Drain
    <2> DEFINE b == [bytes |-> 0, error |-> FALSE, last |-> TRUE]
    <2>1. /\ driver = "announced" /\ cap > 0 /\ UNCHANGED cap_ready /\ driver' = "drained"
          /\ \/ capdone' = Append(capdone, b) /\ cap' = cap - 1
             \/ UNCHANGED << cap, capdone >>
      BY <1>5 DEF Drain, program
    <2>2. b \in CapBuffer /\ b.last
      BY DEF CapBuffer
    <2> HIDE DEF b
    <2>3. CASE capdone' = Append(capdone, b) /\ cap' = cap - 1
      BY <2>1, <2>2, <2>3, CaptureAppend
    <2>4. CASE UNCHANGED << cap, capdone >>
      BY <2>1, <2>4 DEF CaptureKept
    <2> QED
      BY <2>1, <2>3, <2>4
  <1> QED
    BY <1>1, <1>2, <1>3, <1>4, <1>5, CaptureHarvest, CaptureSteps

(* With no buffer under way the program has queued everything, or it would *)
(* not be in poll().                                                       *)
LEMMA AllQueued ==
    ASSUME DecInv, BuffersKept, pc = "poll", out = <<>>, outdone = {}
    PROVE  eos_sent
  <1>1. 0 \in OutBufs
    BY BoundsAssumption DEF OutBufs
  <1>2. free_out[0]
    BY <1>1 DEF BuffersKept
  <1> QED
    BY <1>1, <1>2 DEF BuffersKept

LEMMA AllTaken ==
    ASSUME LoopInv, DecInv, BuffersKept, eos_sent, out = <<>>
    PROVE  Len(taken) = Len(aus)
  <1>1. /\ Len(taken) \in Nat /\ Len(aus) \in Nat /\ Len(out) = 0
        /\ next_au = Len(taken) + Len(out) + 1
    BY DEF LoopInv, Typed, DecInv, Types, InOrder
  <1>2. next_au > Len(aus) /\ next_au <= Len(aus) + 1
    BY DEF DecInv, Stopped, BuffersKept
  <1> QED
    BY <1>1, <1>2

(* POLLERR is an answer to everything being queued and nothing announced.  *)
LEMMA IdleNext ==
    ASSUME LoopInv, DecInv, BuffersKept, IdleStreak, [Next]_vars
    PROVE  IdleStreak'
  <1>1. pollerr_streak \in Nat /\ MAX_POLLERR \in Nat
    BY BoundsAssumption DEF LoopInv, Typed
  <1>2. CASE PollErr
    <2>1. /\ pc = "poll" /\ out = <<>> /\ outdone = {} /\ ~ cap_ready
          /\ UNCHANGED << out, outdone, cap_ready, eos_sent >>
          /\ pollerr_streak' = pollerr_streak + 1
          /\ \/ pc' = "fail"
             \/ pollerr_streak' <= MAX_POLLERR /\ pc' = "queue"
      BY <1>1, <1>2 DEF PollErr, Idle, NextIteration, device
    <2>2. eos_sent
      BY <2>1, AllQueued
    <2> QED
      BY <2>1, <2>2 DEF IdleStreak, Ended
  <1>3. CASE Polled
    <2>1. pollerr_streak' = 0 /\ pc' = "events"
      BY <1>3 DEF Polled
    <2> QED
      BY <1>1, <2>1 DEF IdleStreak, Ended
  <1>4. CASE QueueAu
    <2>1. /\ next_au <= Len(aus) /\ pc = "queue" /\ pc' = "queue"
          /\ UNCHANGED << pollerr_streak, cap_ready >>
      BY <1>4 DEF QueueAu
    <2>2. ~ eos_sent
      <3>1. next_au \in Nat /\ Len(aus) \in Nat
        BY DEF DecInv, Types, LoopInv, Typed
      <3> QED
        BY <2>1, <3>1 DEF DecInv, Stopped
    <2> QED
      BY <2>1, <2>2 DEF IdleStreak, Ended
  <1>5. CASE Queued \/ Consume \/ Reclaim \/ DequeueEvent
    <2>1. UNCHANGED pollerr_streak /\ (eos_sent => eos_sent')
          /\ (out = <<>> => out' = <<>>)
          /\ (out = <<>> /\ outdone = {} => outdone' = {}) /\ (~ cap_ready' => ~ cap_ready)
      BY <1>5 DEF Queued, Consume, Reclaim, DequeueEvent, program
    <2>2. /\ pc' \notin Ended => pc \notin Ended
          /\ pc' \in {"events", "reclaim", "harvest", "end"}
               => pc \in {"events", "reclaim", "harvest", "end"}
      BY <1>5 DEF Queued, Consume, Reclaim, DequeueEvent, program, Ended
    <2> QED
      BY <2>1, <2>2 DEF IdleStreak
  <1>6. CASE ~ (\/ PollErr \/ Polled \/ QueueAu \/ Queued \/ Consume \/ Reclaim
                \/ DequeueEvent)
    <2>1. UNCHANGED << pollerr_streak, eos_sent, out, outdone, cap_ready >>
      <3>1. CASE UNCHANGED vars
        BY <3>1 DEF vars, program, device
      <3>2. CASE Driver
        BY <1>6, <3>2 DEF Driver, Announce, Deliver, Drain, Eos, DriverFails, program
      <3>3. CASE Program
        BY <1>6, <3>3 DEF Program, SplitNal, SplitEnd, Setup, PollTimeout, EventsDone,
           Harvest, HarvestDone, LoopEnd, IoctlFails, device
      <3> QED
        BY <3>1, <3>2, <3>3 DEF Next
    <2>2. /\ pc' \notin Ended => pc \notin Ended
          /\ pc' \in {"events", "reclaim", "harvest", "end"}
               => pc \in {"events", "reclaim", "harvest", "end"}
      <3>1. CASE UNCHANGED vars
        BY <3>1 DEF vars, program
      <3>2. CASE Driver
        BY <1>6, <3>2 DEF Driver, Announce, Deliver, Drain, Eos, DriverFails, program
      <3>3. CASE Program
        BY <1>6, <3>3 DEF Program, SplitNal, SplitEnd, Setup, PollTimeout, EventsDone,
           Harvest, HarvestDone, LoopEnd, IoctlFails, NextIteration, Verdict, Ended
      <3> QED
        BY <3>1, <3>2, <3>3 DEF Next
    <2> QED
      BY <2>1, <2>2 DEF IdleStreak
  <1> QED
    BY <1>2, <1>3, <1>4, <1>5, <1>6

(* The pictures among the first n access units.                            *)
LEMMA PicturesCount ==
    ASSUME NEW n \in Nat
    PROVE  /\ IsFiniteSet(Pictures(n)) /\ Cardinality(Pictures(n)) \in Nat
           /\ Cardinality(Pictures(n)) <= n
  <1>1. IsFiniteSet(1 .. n) /\ Cardinality(1 .. n) = n
    BY FS_Interval
  <1>2. Pictures(n) \subseteq 1 .. n
    BY DEF Pictures
  <1> QED
    BY <1>1, <1>2, FS_Subset, FS_CardinalityType

LEMMA PicturesNext ==
    ASSUME NEW n \in Nat
    PROVE  Cardinality(Pictures(n + 1)) =
             Cardinality(Pictures(n)) + IF HasSlice(aus[n + 1]) THEN 1 ELSE 0
  <1>1. IsFiniteSet(Pictures(n)) /\ Cardinality(Pictures(n)) \in Nat
    BY PicturesCount
  <1>2. CASE HasSlice(aus[n + 1])
    <2>1. Pictures(n + 1) = Pictures(n) \cup {n + 1} /\ n + 1 \notin Pictures(n)
      BY <1>2 DEF Pictures
    <2>2. Cardinality(Pictures(n) \cup {n + 1}) = Cardinality(Pictures(n)) + 1
      BY <1>1, <2>1, FS_AddElement
    <2> QED
      BY <1>2, <2>1, <2>2
  <1>3. CASE ~ HasSlice(aus[n + 1])
    <2>1. Pictures(n + 1) = Pictures(n)
      BY <1>3 DEF Pictures
    <2> QED
      BY <1>1, <1>3, <2>1
  <1> QED
    BY <1>2, <1>3

(* Units taken, pictures delivered and pictures pending.                   *)
LEMMA DeliveredFrame ==
    ASSUME Delivered,
           UNCHANGED << aus, taken, good, pending, stops, driver >>,
           eos_sent' => eos_sent \/ stops > 0,
           stops > 0 => out' = out,
           done' \/ events' = <<"eos">> =>
             \/ (done \/ events = <<"eos">>) /\ (cap_ready => cap_ready')
             \/ stops > 0 /\ out = <<>> /\ pending <= 1 /\ cap_ready'
    PROVE  Delivered'
  <1>1. Cardinality(Pictures(Len(taken)))' = Cardinality(Pictures(Len(taken)))
    BY DEF Pictures, HasSlice, IsSlice
  <1>2. good' + pending' = Cardinality(Pictures(Len(taken)))'
    BY <1>1 DEF Delivered
  <1> QED
    BY <1>2 DEF Delivered

LEMMA DeliveredConsume ==
    ASSUME LoopInv, DecInv, Delivered, Consume
    PROVE  Delivered'
  <1>1. /\ out # <<>> /\ taken' = Append(taken, omap[Head(out)])
        /\ pending' = IF HasSlice(aus[omap[Head(out)]]) THEN pending + 1 ELSE pending
        /\ UNCHANGED << aus, good, stops, eos_sent, done, events, driver, cap_ready >>
    BY DEF Consume, program, splitter
  <1>2. /\ taken \in Seq(Nat) /\ Len(taken) \in Nat /\ out \in Seq(OutBufs)
        /\ good \in Nat /\ pending \in Nat /\ omap \in [OutBufs -> Nat]
    BY DEF DecInv, Types, LoopInv, Typed
  <1>3. omap[Head(out)] = Len(taken) + 1
    <2>1. Head(out) = out[1] /\ 1 \in 1 .. Len(out)
      BY <1>1, <1>2
    <2> QED
      BY <1>2, <2>1 DEF DecInv, InOrder
  <1>4. Len(taken') = Len(taken) + 1
    BY <1>1, <1>2, <1>3
  <1>5. Cardinality(Pictures(Len(taken)))' = Cardinality(Pictures(Len(taken) + 1))
    BY <1>1, <1>4 DEF Pictures, HasSlice, IsSlice
  <1>6. Cardinality(Pictures(Len(taken) + 1)) =
          Cardinality(Pictures(Len(taken))) + IF HasSlice(aus[Len(taken) + 1]) THEN 1 ELSE 0
    BY <1>2, PicturesNext
  <1>7. good' + pending' = Cardinality(Pictures(Len(taken)))'
    <2>1. good + pending = Cardinality(Pictures(Len(taken)))
      BY DEF Delivered
    <2>2. pending' = pending + IF HasSlice(aus[Len(taken) + 1]) THEN 1 ELSE 0
      BY <1>1, <1>2, <1>3
    <2>3. CASE HasSlice(aus[Len(taken) + 1])
      BY <1>1, <1>2, <1>5, <1>6, <2>1, <2>2, <2>3
    <2>4. CASE ~ HasSlice(aus[Len(taken) + 1])
      BY <1>1, <1>2, <1>5, <1>6, <2>1, <2>2, <2>4
    <2> QED
      BY <2>3, <2>4
  <1> QED
    BY <1>1, <1>7 DEF Delivered

LEMMA DeliveredDriver ==
    ASSUME LoopInv, DecInv, Announced, Delivered, CaptureKept,
           Announce \/ (\E last \in BOOLEAN : Deliver(last)) \/ Drain \/ Eos
    PROVE  Delivered'
  <1>0. UNCHANGED program /\ UNCHANGED << aus, taken, eos_sent, done, cap_ready, stops, out >>
    BY DEF Announce, Deliver, Drain, Eos, program, splitter
  <1>1. Cardinality(Pictures(Len(taken)))' = Cardinality(Pictures(Len(taken)))
    BY <1>0 DEF Pictures, HasSlice, IsSlice
  <1>2. /\ good \in Nat /\ pending \in Nat /\ good + pending = Cardinality(Pictures(Len(taken)))
    BY DEF Delivered, LoopInv, Typed, DecInv, Types
  <1>3. CASE Announce
    <2>1. /\ driver = "start" /\ driver' = "announced" /\ UNCHANGED << good, pending >>
          /\ events' = Append(events, "source_change")
      BY <1>3 DEF Announce
    <2>2. events = <<>> /\ ~ cap_ready
      BY <2>1 DEF Announced
    <2>3. events' = <<"source_change">> /\ ~ done
      BY <2>1, <2>2 DEF Delivered
    <2>4. events' # <<"eos">>
      BY <2>3
    <2> QED
      BY <1>0, <1>1, <1>2, <2>1, <2>3, <2>4 DEF Delivered
  <1>4. ASSUME NEW last \in BOOLEAN, Deliver(last) PROVE Delivered'
    <2>1. /\ pending > 0 /\ pending' = pending - 1 /\ good' = good + 1
          /\ driver = "announced" /\ UNCHANGED events
          /\ \/ UNCHANGED driver
             \/ driver' = "drained" /\ stops > 0 /\ out = <<>> /\ pending = 1
      BY <1>4 DEF Deliver
    <2>2. good' + pending' = Cardinality(Pictures(Len(taken)))'
      BY <1>1, <1>2, <2>1
    <2>3. driver' = "drained" => stops' > 0 /\ out' = <<>> /\ pending' = 0
      BY <1>0, <2>1
    <2>4. pending <= 1 => pending' <= 1
      BY <1>2, <2>1
    <2> QED
      BY <1>0, <2>1, <2>2, <2>3, <2>4 DEF Delivered
  <1>5. CASE Drain
    <2>1. /\ pending = 0 /\ stops > 0 /\ out = <<>> /\ driver' = "drained"
          /\ UNCHANGED << good, pending, events >>
      BY <1>5 DEF Drain
    <2> QED
      BY <1>0, <1>1, <1>2, <2>1 DEF Delivered
  <1>6. CASE Eos
    <2>1. /\ pending <= 1 /\ stops > 0 /\ out = <<>> /\ cap_ready
          /\ UNCHANGED << good, pending, driver >>
      BY <1>6 DEF Eos
    <2> QED
      BY <1>0, <1>1, <1>2, <2>1 DEF Delivered
  <1> QED
    BY <1>3, <1>4, <1>5, <1>6

LEMMA DeliveredProgram ==
    ASSUME LoopInv, DecInv, Announced, Delivered, CaptureKept, Program, fault' = "none"
    PROVE  Delivered'
  <1>0. [Next]_vars /\ fault = "none"
    <2>1. [Next]_vars
      BY DEF Next
    <2> QED
      BY <2>1, FaultLasts
  <1>1. CASE SplitNal \/ SplitEnd
    <2>1. /\ UNCHANGED << taken, good, pending, stops, driver, eos_sent, done, events, out,
                          cap_ready >>
          /\ taken = <<>>
      BY <1>1 DEF SplitNal, SplitEnd, device, LoopInv, Fresh
    <2>2. Pictures(Len(taken)) = {} /\ Pictures(Len(taken))' = {}
      BY <2>1 DEF Pictures
    <2>3. Cardinality(Pictures(Len(taken)))' = Cardinality(Pictures(Len(taken)))
      BY <2>2
    <2> QED
      BY <2>1, <2>3 DEF Delivered
  <1>2. CASE Setup \/ Polled \/ PollErr \/ PollTimeout \/ EventsDone \/ Reclaim \/ LoopEnd
    <2>1. UNCHANGED << aus, taken, good, pending, stops, driver, eos_sent, done, events, out,
                       cap_ready >>
      BY <1>2 DEF Setup, Polled, PollErr, PollTimeout, EventsDone, Reclaim, LoopEnd, splitter,
         device
    <2> QED
      BY <2>1, DeliveredFrame
  <1>3. CASE QueueAu
    <2>1. /\ UNCHANGED << aus, taken, good, pending, stops, driver, eos_sent, done, events,
                          cap_ready >>
          /\ next_au <= Len(aus)
      BY <1>3 DEF QueueAu, splitter
    <2>2. ~ (stops > 0)
      <3>1. next_au \in Nat /\ Len(aus) \in Nat
        BY DEF DecInv, Types, LoopInv, Typed
      <3> QED
        BY <2>1, <3>1 DEF DecInv, Stopped
    <2> QED
      BY <2>1, <2>2, DeliveredFrame
  <1>4. CASE Queued
    <2>1. /\ UNCHANGED << aus, taken, good, pending, driver, done, events, cap_ready, out >>
          /\ \/ eos_sent' /\ stops' = stops + 1
             \/ UNCHANGED << eos_sent, stops >>
      BY <1>0, <1>4 DEF Queued, splitter
    <2>2. Cardinality(Pictures(Len(taken)))' = Cardinality(Pictures(Len(taken)))
      BY <2>1 DEF Pictures, HasSlice, IsSlice
    <2>3. stops \in Nat /\ (stops > 0 => stops' > 0)
      BY <2>1 DEF DecInv, Types
    <2> QED
      BY <2>1, <2>2, <2>3 DEF Delivered
  <1>5. CASE DequeueEvent
    <2>1. /\ UNCHANGED << aus, taken, good, pending, stops, driver, eos_sent, out >>
          /\ events # <<>> /\ events' = Tail(events)
          /\ cap_ready => cap_ready'
          /\ UNCHANGED done \/ Head(events) = "eos"
      BY <1>5 DEF DequeueEvent, splitter
    <2>2. events' = <<>> /\ (Head(events) = "eos" => events = <<"eos">>)
      <3>1. CASE events = <<"source_change">>
        BY <2>1, <3>1
      <3>2. CASE events = <<"eos">>
        BY <2>1, <3>2
      <3> QED
        BY <2>1, <3>1, <3>2 DEF Announced
    <2>3. events' # <<"eos">>
      BY <2>2
    <2> QED
      BY <2>1, <2>2, <2>3, DeliveredFrame
  <1>6. CASE Harvest
    <2>1. /\ UNCHANGED << aus, taken, good, pending, stops, driver, eos_sent, out, events,
                          cap_ready >>
          /\ cap_ready /\ capdone # <<>> /\ (UNCHANGED done \/ Head(capdone).last)
      BY <1>6 DEF Harvest, splitter
    <2>2. Head(capdone).last => driver = "drained"
      <3>1. 1 \in 1 .. Len(capdone) /\ Head(capdone) = capdone[1]
        BY <2>1 DEF DecInv, Types
      <3> QED
        BY <3>1, Zenon DEF CaptureKept
    <2>3. driver = "drained" => stops > 0 /\ out = <<>> /\ pending <= 1
      BY DEF Delivered
    <2> QED
      BY <2>1, <2>2, <2>3, DeliveredFrame
  <1>7. CASE HarvestDone
    <2>1. /\ UNCHANGED << aus, taken, good, pending, stops, driver, eos_sent, out, events,
                          cap_ready >>
          /\ done' = (done \/ (cap_ready /\ Drained))
      BY <1>7 DEF HarvestDone, splitter, device
    <2>2. driver = "drained" => stops > 0 /\ out = <<>> /\ pending <= 1
      BY DEF Delivered
    <2> QED
      BY <2>1, <2>2, DeliveredFrame DEF Drained
  <1> QED
    BY <1>0, <1>1, <1>2, <1>3, <1>4, <1>5, <1>6, <1>7, FaultLasts DEF Program

LEMMA DeliveredNext ==
    ASSUME LoopInv, DecInv, Announced, Delivered, CaptureKept, [Next]_vars, fault' = "none"
    PROVE  Delivered'
  <1>1. CASE UNCHANGED vars
    BY <1>1, DeliveredFrame DEF vars, program, splitter, device
  <1>2. CASE Driver
    BY <1>2, FaultLasts, DeliveredConsume, DeliveredDriver DEF Driver
  <1> QED
    BY <1>1, <1>2, DeliveredProgram DEF Next

(* The numbers that Spent compares.                                        *)
LEMMA SpentTypes ==
    ASSUME LoopInv, DecInv, BuffersKept
    PROVE  /\ iter \in Nat /\ frames \in Nat /\ pollerr_streak \in Nat /\ MAX_POLLERR \in Nat
           /\ Len(taken) \in Nat /\ Len(capdone) \in Nat
           /\ IsFiniteSet(outdone) /\ Cardinality(outdone) \in Nat
           /\ Reclaimed \in Int /\ Reclaimed <= Len(taken) /\ Announcing \in Nat
           /\ outdone # {} => Reclaimed < Len(taken)
           /\ outdone = {} => Reclaimed = Len(taken)
  <1>1. /\ iter \in Nat /\ frames \in Nat /\ pollerr_streak \in Nat /\ MAX_POLLERR \in Nat
        /\ Len(taken) \in Nat /\ Len(capdone) \in Nat /\ outdone \subseteq OutBufs
    BY BoundsAssumption DEF LoopInv, Typed, DecInv, Types
  <1>2. IsFiniteSet(OutBufs)
    BY BoundsAssumption, FS_Interval DEF OutBufs
  <1>3. IsFiniteSet(outdone)
    BY <1>1, <1>2, FS_Subset
  <1>4. Cardinality(outdone) \in Nat /\ (Cardinality(outdone) = 0 <=> outdone = {})
    BY <1>3, FS_CardinalityType, FS_EmptySet
  <1> QED
    BY <1>1, <1>3, <1>4 DEF Reclaimed, Announcing

(* poll() answers because there is something to dequeue.                   *)
LEMMA SpentPolled ==
    ASSUME LoopInv, DecInv, BuffersKept, Announced, CaptureKept, IdleStreak, Spent, Polled
    PROVE  Spent'
  <1> DEFINE bonus == IF cap_ready THEN MAX_POLLERR + 1 ELSE 0
  <1>1. /\ pc = "poll" /\ Ready /\ pc' = "events" /\ pollerr_streak' = 0
        /\ pri' = (events # <<>>)
        /\ UNCHANGED << iter, taken, outdone, frames, capdone, cap_ready, done, driver,
                        events >>
    BY DEF Polled, device
  <1>2. iter <= Reclaimed + frames + Announcing /\ pollerr_streak <= MAX_POLLERR
    BY <1>1 DEF Spent, IdleStreak, Ended
  <1>3. Announcing' = bonus
    BY <1>1 DEF Announcing
  <1>4. /\ iter \in Nat /\ frames \in Nat /\ pollerr_streak \in Nat /\ MAX_POLLERR \in Nat
        /\ Len(taken) \in Nat /\ Len(capdone) \in Nat
        /\ Reclaimed \in Int /\ Reclaimed <= Len(taken)
        /\ outdone # {} => Reclaimed < Len(taken)
    BY SpentTypes
  <1>5. CASE events # <<>>
    <2>1. CASE events = <<"eos">>
      BY <1>1, <1>5, <2>1 DEF Spent
    <2>2. CASE events = <<"source_change">>
      <3>1. ~ cap_ready
        BY <2>2 DEF Announced
      <3>2. iter <= Len(taken) + frames + MAX_POLLERR
        BY <1>2, <1>4, <3>1 DEF Announcing
      <3> QED
        BY <1>1, <1>5, <2>2, <3>2 DEF Spent
    <2> QED
      BY <1>5, <2>1, <2>2 DEF Announced
  <1>6. CASE outdone # {} \/ capdone # <<>>
    <2>1. Announcing = bonus
      <3>1. CASE cap_ready
        BY <3>1 DEF Announcing
      <3>2. CASE ~ cap_ready
        <4>1. capdone = <<>>
          BY <3>2 DEF CaptureKept
        <4>2. ~ (pollerr_streak > 0)
          BY <1>6, <3>2, <4>1 DEF IdleStreak
        <4> QED
          BY <1>4, <3>2, <4>2 DEF Announcing
      <3> QED
        BY <3>1, <3>2
    <2>2. capdone # <<>> => Len(capdone) > 0
      BY DEF DecInv, Types
    <2>3. bonus \in Nat
      BY <1>4
    <2> HIDE DEF bonus
    <2>4. iter < Len(taken) + frames + Len(capdone) + bonus
      BY <1>2, <1>4, <1>6, <2>1, <2>2, <2>3
    <2>5. iter' < Len(taken') + frames' + Len(capdone') + Announcing'
      BY <1>1, <1>3, <2>4
    <2> QED
      BY <1>1, <2>5 DEF Spent
  <1>7. CASE cap_ready /\ Drained
    BY <1>1, <1>7 DEF Spent, AtLast, Drained
  <1> QED
    BY <1>1, <1>5, <1>6, <1>7 DEF Ready

LEMMA SpentDequeue ==
    ASSUME LoopInv, DecInv, BuffersKept, Announced, Delivered, CaptureKept, IdleStreak, Spent,
           DequeueEvent
    PROVE  Spent'
  <1>1. /\ pc = "events" /\ pri /\ events # <<>>
        /\ UNCHANGED << iter, taken, frames, capdone, driver, pollerr_streak >>
    BY DEF DequeueEvent
  <1>2. /\ iter \in Nat /\ frames \in Nat /\ pollerr_streak \in Nat /\ MAX_POLLERR \in Nat
        /\ Len(taken) \in Nat /\ Len(capdone) \in Nat
    BY SpentTypes
  <1>3. CASE events = <<"eos">>
    <2>1. Head(events) = "eos"
      BY <1>3
    <2>2. done' /\ pc' = "events"
      BY <1>1, <2>1 DEF DequeueEvent
    <2> QED
      BY <2>2 DEF Spent, AtLast
  <1>4. CASE events = <<"source_change">>
    <2>1. Head(events) = "source_change" /\ ~ cap_ready
      BY <1>4 DEF Announced
    <2>2. cap_ready' /\ pc' = "events"
      BY <1>1, <2>1 DEF DequeueEvent
    <2>3. ~ AtLast /\ events # <<"eos">> /\ pollerr_streak = 0
      BY <1>1, <1>4, <2>1 DEF AtLast, Delivered, IdleStreak
    <2>4. iter < Len(taken) + frames + Len(capdone) + MAX_POLLERR + 1
      <3>1. \/ iter <= Len(taken) + frames + MAX_POLLERR
            \/ iter < Len(taken) + frames + Len(capdone) + Announcing
        BY <1>1, <2>3 DEF Spent
      <3>2. Announcing = 0
        BY <2>1, <2>3 DEF Announcing
      <3> QED
        BY <1>2, <3>1, <3>2
    <2>5. Announcing' = MAX_POLLERR + 1
      BY <2>2 DEF Announcing
    <2>6. iter' < Len(taken') + frames' + Len(capdone') + Announcing'
      BY <1>1, <1>2, <2>4, <2>5
    <2> QED
      BY <2>2, <2>6 DEF Spent
  <1> QED
    BY <1>1, <1>3, <1>4 DEF Announced

LEMMA SpentHarvest ==
    ASSUME LoopInv, DecInv, BuffersKept, CaptureKept, Spent, Harvest
    PROVE  Spent'
  <1>1. /\ pc = "harvest" /\ capdone # <<>> /\ capdone' = Tail(capdone)
        /\ frames' = IF Head(capdone).bytes > 0 /\ ~ Head(capdone).error
                     THEN frames + 1 ELSE frames
        /\ IF Head(capdone).last THEN done' /\ pc' = "end"
           ELSE pc' = "harvest" /\ UNCHANGED done
        /\ UNCHANGED << iter, taken, outdone, cap_ready, driver, pollerr_streak >>
    BY DEF Harvest
  <1>2. /\ iter \in Nat /\ frames \in Nat /\ Len(capdone) \in Nat /\ Reclaimed \in Int
        /\ Announcing \in Nat
    BY SpentTypes
  <1>3. capdone \in Seq(CapBuffer) /\ Len(capdone') = Len(capdone) - 1
        /\ 1 \in 1 .. Len(capdone) /\ Head(capdone) = capdone[1]
    BY <1>1 DEF DecInv, Types
  <1>4. CASE Head(capdone).last
    BY <1>1, <1>4 DEF Spent
  <1>5. CASE ~ Head(capdone).last
    <2>1. capdone[1].bytes > 0 /\ ~ capdone[1].error
      BY <1>3, <1>5, Zenon DEF CaptureKept
    <2>2. frames' = frames + 1 /\ pc' = "harvest" /\ UNCHANGED done
      BY <1>1, <1>3, <1>5, <2>1
    <2>3. AtLast => done
      BY <1>1 DEF AtLast, Drained
    <2>4. done \/ iter < Reclaimed + frames + Len(capdone) + Announcing
      BY <1>1, <2>3 DEF Spent
    <2>5. Reclaimed' = Reclaimed /\ Announcing' = Announcing
      BY <1>1 DEF Reclaimed, Announcing
    <2>6. done' \/ iter' < Reclaimed' + frames' + Len(capdone') + Announcing'
      BY <1>1, <1>2, <1>3, <2>2, <2>4, <2>5
    <2> QED
      BY <2>2, <2>6 DEF Spent, AtLast
  <1> QED
    BY <1>4, <1>5

LEMMA SpentProgram ==
    ASSUME LoopInv, DecInv, BuffersKept, Announced, Delivered, CaptureKept, IdleStreak, Spent,
           Program, fault' = "none"
    PROVE  Spent'
  <1>0. ~ IoctlFails
    BY DEF IoctlFails
  <1>1. /\ iter \in Nat /\ frames \in Nat /\ pollerr_streak \in Nat /\ MAX_POLLERR \in Nat
        /\ Len(taken) \in Nat /\ Len(capdone) \in Nat
        /\ Reclaimed \in Int /\ Reclaimed <= Len(taken) /\ Announcing \in Nat
    BY SpentTypes
  <1>2. CASE SplitNal \/ SplitEnd \/ PollTimeout
    <2>1. pc' \in {"split", "setup", "fail"}
      BY <1>2 DEF SplitNal, SplitEnd, PollTimeout
    <2> QED
      BY <2>1 DEF Spent
  <1>3. CASE Setup
    <2>1. /\ pc' \in {"fail", "queue"}
          /\ UNCHANGED << iter, taken, outdone, frames, cap_ready, pollerr_streak, done >>
          /\ iter = 0 /\ taken = <<>> /\ outdone = {} /\ frames = 0 /\ ~ cap_ready /\ ~ done
          /\ pollerr_streak = 0
      BY <1>3 DEF Setup, device, LoopInv, Fresh
    <2>2. Reclaimed = 0 /\ Announcing = 0
      <3>1. Len(taken) = 0 /\ Cardinality(outdone) = 0
        BY <2>1, FS_EmptySet
      <3> QED
        BY <2>1, <3>1 DEF Reclaimed, Announcing
    <2>3. Reclaimed' = Reclaimed /\ Announcing' = Announcing
      BY <2>1 DEF Reclaimed, Announcing
    <2> QED
      BY <2>1, <2>2, <2>3 DEF Spent
  <1>4. CASE QueueAu \/ Queued
    <2>1. /\ pc = "queue" /\ pc' \in {"queue", "poll"}
          /\ UNCHANGED << iter, taken, outdone, frames, cap_ready, pollerr_streak, done >>
      BY <1>4 DEF QueueAu, Queued
    <2>2. Reclaimed' = Reclaimed /\ Announcing' = Announcing
      BY <2>1 DEF Reclaimed, Announcing
    <2> QED
      BY <2>1, <2>2 DEF Spent
  <1>5. CASE PollErr
    <2>1. /\ pc = "poll" /\ ~ cap_ready /\ pollerr_streak' = pollerr_streak + 1
          /\ pc' = "fail" \/ (pc' = "queue" /\ iter' = iter + 1)
          /\ UNCHANGED << taken, outdone, frames, cap_ready, done >>
      BY <1>5 DEF PollErr, Idle, NextIteration, device
    <2>2. Reclaimed' = Reclaimed /\ Announcing' = Announcing + 1
      BY <2>1 DEF Reclaimed, Announcing
    <2>3. ~ done /\ iter <= Reclaimed + frames + Announcing
      BY <2>1 DEF Spent
    <2>4. pc' = "queue" => iter' <= Reclaimed' + frames' + Announcing'
      BY <1>1, <2>1, <2>2, <2>3
    <2> QED
      BY <2>1, <2>3, <2>4 DEF Spent
  <1>6. CASE EventsDone
    <2>1. /\ pc = "events" /\ pc' = "reclaim" /\ (~ pri \/ events = <<>>)
          /\ UNCHANGED << iter, taken, frames, capdone, cap_ready, pollerr_streak, done,
                          driver >>
      BY <1>6 DEF EventsDone, device
    <2>2. Announcing' = Announcing /\ (AtLast' <=> AtLast)
      BY <2>1 DEF Announcing, AtLast, Drained
    <2>3. AtLast \/ iter < Len(taken) + frames + Len(capdone) + Announcing
      BY <2>1 DEF Spent
    <2> QED
      BY <2>1, <2>2, <2>3 DEF Spent
  <1>7. CASE Reclaim
    <2>1. /\ pc = "reclaim" /\ pc' = "harvest" /\ outdone' = {}
          /\ UNCHANGED << iter, taken, frames, capdone, cap_ready, pollerr_streak, done,
                          driver >>
      BY <1>7 DEF Reclaim
    <2>2. Announcing' = Announcing /\ (AtLast' <=> AtLast)
      BY <2>1 DEF Announcing, AtLast, Drained
    <2>3. Reclaimed' = Len(taken)
      <3>1. Cardinality(outdone') = 0
        BY <2>1, FS_EmptySet
      <3> QED
        BY <1>1, <2>1, <3>1 DEF Reclaimed
    <2>4. AtLast \/ iter < Len(taken) + frames + Len(capdone) + Announcing
      BY <2>1 DEF Spent
    <2> QED
      BY <2>1, <2>2, <2>3, <2>4 DEF Spent
  <1>8. CASE HarvestDone
    <2>1. /\ pc = "harvest" /\ pc' = "end" /\ (~ cap_ready \/ capdone = <<>>)
          /\ done' = (done \/ (cap_ready /\ Drained))
          /\ UNCHANGED << iter, taken, outdone, frames, cap_ready, pollerr_streak >>
      BY <1>8 DEF HarvestDone, device
    <2>2. capdone = <<>> /\ Len(capdone) = 0
      BY <2>1 DEF CaptureKept
    <2>3. AtLast \/ iter < Reclaimed + frames + Announcing
      BY <1>1, <2>1, <2>2 DEF Spent
    <2>4. Reclaimed' = Reclaimed /\ Announcing' = Announcing
      BY <2>1 DEF Reclaimed, Announcing
    <2> QED
      BY <2>1, <2>3, <2>4 DEF Spent, AtLast
  <1>9. CASE LoopEnd
    <2>1. /\ pc = "end"
          /\ pc' \in {"pass", "fail"} \/ (~ done /\ pc' = "queue" /\ iter' = iter + 1)
          /\ UNCHANGED << taken, outdone, frames, cap_ready, pollerr_streak, done >>
      BY <1>9 DEF LoopEnd, Verdict, NextIteration, device
    <2>2. done \/ iter < Reclaimed + frames + Announcing
      BY <2>1 DEF Spent
    <2>3. Reclaimed' = Reclaimed /\ Announcing' = Announcing
      BY <2>1 DEF Reclaimed, Announcing
    <2>4. pc' = "queue" => ~ done' /\ iter' <= Reclaimed' + frames' + Announcing'
      BY <1>1, <2>1, <2>2, <2>3
    <2> QED
      BY <2>1, <2>4 DEF Spent
  <1> QED
    BY <1>0, <1>2, <1>3, <1>4, <1>5, <1>6, <1>7, <1>8, <1>9, SpentPolled, SpentDequeue,
       SpentHarvest DEF Program

(* The driver only adds to what there is to dequeue.                       *)
LEMMA SpentDriver ==
    ASSUME LoopInv, DecInv, BuffersKept, Announced, Delivered, CaptureKept, Spent,
           \/ Consume \/ Announce \/ (\E last \in BOOLEAN : Deliver(last)) \/ Drain \/ Eos
    PROVE  Spent'
  <1>1. /\ iter \in Nat /\ frames \in Nat /\ pollerr_streak \in Nat
        /\ Len(taken) \in Nat /\ Len(capdone) \in Nat /\ MAX_POLLERR \in Nat
        /\ Reclaimed \in Int /\ Announcing \in Nat
        /\ IsFiniteSet(outdone) /\ Cardinality(outdone) \in Nat
    BY SpentTypes
  <1>2. UNCHANGED << pc, iter, frames, cap_ready, pollerr_streak, done, pri >>
    BY DEF Consume, Announce, Deliver, Drain, Eos, program
  <1>3. Announcing' = Announcing
    BY <1>2 DEF Announcing
  <1>4. Reclaimed' = Reclaimed /\ Len(taken') \in Nat /\ Len(taken') >= Len(taken)
    <2>1. CASE Consume
      <3>1. /\ out # <<>> /\ outdone' = outdone \cup {Head(out)}
            /\ \E n : taken' = Append(taken, n)
        BY <2>1 DEF Consume
      <3>2. Head(out) \notin outdone
        <4>1. Head(out) = out[1] /\ 1 \in 1 .. Len(out)
          BY <3>1 DEF DecInv, Types
        <4> QED
          BY <4>1 DEF DecInv, InOrder
      <3>3. Cardinality(outdone') = Cardinality(outdone) + 1
        BY <1>1, <3>1, <3>2, FS_AddElement
      <3>4. Len(taken') = Len(taken) + 1
        BY <3>1 DEF DecInv, Types
      <3> QED
        BY <1>1, <3>3, <3>4 DEF Reclaimed
    <2>2. CASE ~ Consume
      <3>1. UNCHANGED << taken, outdone >>
        BY <2>2 DEF Consume, Announce, Deliver, Drain, Eos
      <3> QED
        BY <1>1, <3>1 DEF Reclaimed
    <2> QED
      BY <2>1, <2>2
  <1>5. Len(capdone') \in Nat /\ Len(capdone') >= Len(capdone)
    <2>1. capdone' = capdone \/ \E b : capdone' = Append(capdone, b)
      BY DEF Consume, Announce, Deliver, Drain, Eos
    <2>2. capdone \in Seq(CapBuffer)
      BY DEF DecInv, Types
    <2> QED
      BY <1>1, <2>1, <2>2
  <1>6. AtLast => AtLast'
    BY <1>2 DEF AtLast, Drained, Consume, Announce, Deliver, Drain, Eos
  <1>7. /\ events = <<"eos">> => events' = <<"eos">>
        /\ events = <<"source_change">> => events' = <<"source_change">>
    <2>1. CASE Announce
      <3>1. events = <<>>
        BY <2>1 DEF Announce, Announced
      <3> QED
        BY <3>1
    <2>2. CASE Eos
      <3>1. cap_ready /\ \A i \in DOMAIN events : events[i] # "eos"
        BY <2>2 DEF Eos
      <3>2. events = <<>>
        BY <3>1 DEF Announced
      <3> QED
        BY <3>2
    <2>3. CASE ~ Announce /\ ~ Eos
      BY <2>3 DEF Consume, Deliver, Drain
    <2> QED
      BY <2>1, <2>2, <2>3
  <1>8. /\ iter <= Len(taken) + frames + MAX_POLLERR
             => iter' <= Len(taken') + frames' + MAX_POLLERR
        /\ iter < Len(taken) + frames + Len(capdone) + Announcing
             => iter' < Len(taken') + frames' + Len(capdone') + Announcing'
        /\ iter < Reclaimed + frames + Len(capdone) + Announcing
             => iter' < Reclaimed' + frames' + Len(capdone') + Announcing'
    BY <1>1, <1>2, <1>3, <1>4, <1>5
  <1>9. /\ pc = "events" =>
             \/ AtLast' \/ (pri' /\ events' = <<"eos">>)
             \/ pri' /\ events' = <<"source_change">>
                  /\ iter' <= Len(taken') + frames' + MAX_POLLERR
             \/ iter' < Len(taken') + frames' + Len(capdone') + Announcing'
        /\ pc = "reclaim" =>
             AtLast' \/ iter' < Len(taken') + frames' + Len(capdone') + Announcing'
        /\ pc = "harvest" =>
             AtLast' \/ iter' < Reclaimed' + frames' + Len(capdone') + Announcing'
    BY <1>2, <1>6, <1>7, <1>8 DEF Spent
  <1> QED
    BY <1>2, <1>3, <1>4, <1>9 DEF Spent

LEMMA SpentNext ==
    ASSUME LoopInv, DecInv, BuffersKept, Announced, Delivered, CaptureKept, IdleStreak, Spent,
           [Next]_vars, fault' = "none"
    PROVE  Spent'
  <1>1. CASE UNCHANGED vars
    BY <1>1 DEF vars, program, device, Spent, AtLast, Drained, Reclaimed, Announcing
  <1>2. CASE Driver
    BY <1>2, FaultLasts, SpentDriver DEF Driver
  <1> QED
    BY <1>1, <1>2, SpentProgram DEF Next

(* All pictures but one are delivered when the end of the stream has been  *)
(* signalled in any of the three ways.                                     *)
LEMMA AllButOne ==
    ASSUME LoopInv, DecInv, BuffersKept, Delivered,
           done \/ driver = "drained" \/ events = <<"eos">>
    PROVE  good \in Nat /\ good + 1 >= Cardinality(Pictures(Len(aus)))
  <1>1. eos_sent /\ out = <<>> /\ pending <= 1
    BY DEF Delivered, DecInv, Stopped, Types
  <1>2. Len(taken) = Len(aus)
    BY <1>1, AllTaken
  <1>3. good + pending = Cardinality(Pictures(Len(aus))) /\ good \in Nat /\ pending \in Nat
    BY <1>2 DEF Delivered, DecInv, Types, LoopInv, Typed
  <1> QED
    BY <1>1, <1>3

(* Once nothing is left to harvest every picture delivered is counted.     *)
LEMMA AllCounted ==
    ASSUME DecInv, capdone = <<>>
    PROVE  frames = good
  <1>1. Sound(capdone) = {}
    BY DEF Sound
  <1>2. Cardinality(Sound(capdone)) = 0
    BY <1>1, FS_EmptySet
  <1> QED
    BY <1>2 DEF DecInv, Types, Counted

(* There are iterations left unless the stream has ended.                  *)
LEMMA IterationsLeft ==
    ASSUME LoopInv, DecInv, BuffersKept, Delivered, pollerr_streak <= MAX_POLLERR,
           iter <= Reclaimed + frames + Announcing,
           iter < Reclaimed + frames + Announcing \/ ~ cap_ready
    PROVE  iter + 1 < MAX_ITERATIONS
  <1>1. /\ iter \in Nat /\ frames \in Nat /\ pollerr_streak \in Nat /\ MAX_POLLERR \in Nat
        /\ Len(taken) \in Nat /\ Reclaimed \in Int /\ Reclaimed <= Len(taken)
    BY SpentTypes
  <1>2. Len(taken) <= Len(aus) /\ Len(aus) <= MAX_AUS /\ Len(aus) \in Nat
    <2>1. Len(out) \in Nat /\ next_au <= Len(aus) + 1 /\ next_au = Len(taken) + Len(out) + 1
      BY DEF BuffersKept, DecInv, InOrder, Types
    <2>2. Len(aus) <= MAX_AUS /\ Len(aus) \in Nat
      BY DEF LoopInv, Typed
    <2> QED
      BY <1>1, <2>1, <2>2
  <1>3. frames <= Len(taken)
    <2>1. Cardinality(Sound(capdone)) \in Nat
      BY SoundFinite DEF DecInv, Types
    <2>2. frames <= good
      BY <1>1, <2>1 DEF DecInv, Counted
    <2>3. good <= Cardinality(Pictures(Len(taken)))
      BY <1>1, PicturesCount DEF Delivered, LoopInv, Typed, DecInv, Types
    <2>4. Cardinality(Pictures(Len(taken))) <= Len(taken)
          /\ Cardinality(Pictures(Len(taken))) \in Nat
      BY <1>1, PicturesCount
    <2> QED
      BY <1>1, <2>2, <2>3, <2>4 DEF DecInv, Types
  <1>4. MAX_ITERATIONS \in Nat /\ MAX_AUS \in Nat /\ MAX_ITERATIONS > 2 * MAX_AUS + MAX_POLLERR + 1
    BY BoundsAssumption, IterationsAssumption
  <1>5. CASE cap_ready
    <2>1. Announcing = MAX_POLLERR + 1
      BY <1>5 DEF Announcing
    <2> QED
      BY <1>1, <1>2, <1>3, <1>4, <1>5, <2>1
  <1>6. CASE ~ cap_ready
    <2>1. Announcing = pollerr_streak
      BY <1>6 DEF Announcing
    <2> QED
      BY <1>1, <1>2, <1>3, <1>4, <2>1
  <1> QED
    BY <1>5, <1>6

(* A driver that has everything, has answered and is not busy has not      *)
(* announced anything, and that is so only of an empty stream.             *)
LEMMA NothingTaken ==
    ASSUME LoopInv, DecInv, BuffersKept, Announced, Delivered, CaptureKept, pc = "poll",
           ~ Ready, ~ Busy
    PROVE  Cardinality(Pictures(Len(aus))) <= MIN_FRAMES
  <1>1. out = <<>> /\ outdone = {} /\ events = <<>> /\ capdone = <<>>
        /\ ~ (cap_ready /\ Drained)
    BY DEF Ready, Busy
  <1>2. eos_sent /\ stops > 0
    BY <1>1, AllQueued DEF Delivered
  <1>3. Len(taken) = Len(aus)
    BY <1>1, <1>2, AllTaken
  <1>4. CASE driver = "start"
    <2>1. taken = <<>>
      BY <1>4 DEF Busy
    <2>2. Pictures(Len(aus)) = {}
      BY <1>3, <2>1 DEF Pictures
    <2>3. Cardinality(Pictures(Len(aus))) = 0
      BY <2>2, FS_EmptySet
    <2> QED
      BY <2>3, BoundsAssumption
  <1>5. CASE driver # "start"
    <2>1. cap_ready /\ driver \in {"announced", "drained"}
      BY <1>1, <1>5 DEF Announced
    <2>2. driver = "announced"
      BY <1>1, <2>1 DEF Drained
    <2>3. cap + Len(capdone) = NUM_CAP_BUFS /\ Len(capdone) = 0
      BY <1>1, <2>1, <2>2 DEF CaptureKept
    <2>4. cap > 0
      BY <2>3, BoundsAssumption DEF LoopInv, Typed
    <2> QED
      BY <1>2, <2>2, <2>4 DEF Busy
  <1> QED
    BY <1>4, <1>5

LEMMA VerdictsFrame ==
    ASSUME Verdicts, UNCHANGED aus,
           pc' = "fail" => pc = "fail" \/ Cardinality(Pictures(Len(aus))) <= MIN_FRAMES,
           pc' = "end" /\ done' => frames' + 1 >= Cardinality(Pictures(Len(aus)))
    PROVE  Verdicts'
  <1>1. Cardinality(Pictures(Len(aus)))' = Cardinality(Pictures(Len(aus)))
    BY DEF Pictures, HasSlice, IsSlice
  <1> QED
    BY <1>1 DEF Verdicts

LEMMA VerdictsProgram ==
    ASSUME LoopInv, DecInv, DecInv', BuffersKept, Announced, Delivered, CaptureKept,
           IdleStreak, Spent, Verdicts, Program, fault' = "none"
    PROVE  Verdicts'
  <1>0. fault = "none" /\ ~ IoctlFails
    BY FaultLasts DEF Next
  <1>1. CASE SplitNal \/ SplitEnd
    <2>1. pc' \in {"split", "setup"}
      BY <1>1 DEF SplitNal, SplitEnd
    <2> QED
      BY <2>1 DEF Verdicts
  <1>2. CASE Setup
    <2>1. /\ UNCHANGED aus
          /\ \/ pc' = "queue"
             \/ pc' = "fail" /\ Len(aus) < MIN_FRAMES
      BY <1>2 DEF Setup, splitter
    <2>2. /\ Cardinality(Pictures(Len(aus))) \in Nat /\ Len(aus) \in Nat
          /\ Cardinality(Pictures(Len(aus))) <= Len(aus)
      BY PicturesCount DEF LoopInv, Typed
    <2>3. Len(aus) < MIN_FRAMES => Cardinality(Pictures(Len(aus))) <= MIN_FRAMES
      BY <2>2, BoundsAssumption
    <2> QED
      BY <2>1, <2>3, VerdictsFrame
  <1>3. CASE QueueAu \/ Queued \/ Polled \/ EventsDone \/ Reclaim
    <2>1. UNCHANGED aus /\ pc' \notin {"fail", "end"}
      BY <1>3 DEF QueueAu, Queued, Polled, EventsDone, Reclaim, splitter
    <2> QED
      BY <2>1, VerdictsFrame
  <1>4. CASE PollErr
    <2>1. /\ pc = "poll" /\ ~ Ready /\ Idle /\ UNCHANGED aus
          /\ \/ pc' = "fail" /\ Slow = "none"
             \/ /\ pollerr_streak + 1 <= MAX_POLLERR
                /\ pc' = IF iter + 1 < MAX_ITERATIONS THEN "queue" ELSE "fail"
      BY <1>4, BoundsAssumption DEF PollErr, NextIteration, LoopInv, Typed, splitter
    <2>2. CASE pc' = "fail" /\ Slow = "none"
      <3>1. ~ Busy
        BY <1>0, <2>2 DEF Slow, Announced
      <3>2. Cardinality(Pictures(Len(aus))) <= MIN_FRAMES
        BY <2>1, <3>1, NothingTaken
      <3> QED
        BY <2>1, <2>2, <3>2, VerdictsFrame
    <2>3. CASE /\ pollerr_streak + 1 <= MAX_POLLERR
               /\ pc' = IF iter + 1 < MAX_ITERATIONS THEN "queue" ELSE "fail"
      <3>1. iter <= Reclaimed + frames + Announcing /\ ~ cap_ready
            /\ pollerr_streak <= MAX_POLLERR
        BY <2>1 DEF Spent, Idle, IdleStreak, Ended
      <3>2. iter + 1 < MAX_ITERATIONS
        BY <3>1, IterationsLeft
      <3>3. pc' = "queue"
        BY <2>3, <3>2
      <3> QED
        BY <2>1, <3>3, VerdictsFrame
    <2> QED
      BY <2>1, <2>2, <2>3
  <1>5. CASE PollTimeout
    <2>1. pc = "poll" /\ ~ Ready /\ Slow = "none" /\ UNCHANGED aus /\ pc' = "fail"
      BY <1>5 DEF PollTimeout, splitter
    <2>2. ~ Busy
      BY <1>0, <2>1 DEF Slow, Announced
    <2>3. Cardinality(Pictures(Len(aus))) <= MIN_FRAMES
      BY <2>1, <2>2, NothingTaken
    <2> QED
      BY <2>1, <2>3, VerdictsFrame
  <1>6. CASE DequeueEvent
    <2>1. pc = "events" /\ UNCHANGED aus
          /\ \/ UNCHANGED pc
             \/ pc' = "fail" /\ Head(events) = "source_change" /\ cap_ready /\ events # <<>>
      BY <1>6 DEF DequeueEvent, splitter
    <2>2. cap_ready /\ events # <<>> => Head(events) = "eos"
      <3>1. cap_ready /\ events # <<>> => events = <<"eos">>
        BY DEF Announced
      <3> QED
        BY <3>1
    <2>3. pc' = "events"
      BY <2>1, <2>2
    <2> QED
      BY <2>1, <2>3, VerdictsFrame
  <1>7. CASE Harvest
    <2>1. /\ UNCHANGED << aus, good >> /\ capdone # <<>> /\ capdone' = Tail(capdone)
          /\ IF Head(capdone).last THEN pc' = "end" ELSE pc' = "harvest"
      BY <1>7 DEF Harvest, splitter
    <2>2. CASE Head(capdone).last
      <3>1. capdone \in Seq(CapBuffer) /\ 1 \in 1 .. Len(capdone) /\ Head(capdone) = capdone[1]
        BY <2>1 DEF DecInv, Types
      <3>2. driver = "drained" /\ 1 = Len(capdone)
        BY <2>2, <3>1, Zenon DEF CaptureKept
      <3>3. capdone' = <<>>
        BY <2>1, <3>1, <3>2
      <3>4. frames' = good'
        <4>1. Sound(capdone)' = {}
          BY <3>3 DEF Sound
        <4>2. Cardinality(Sound(capdone)') = 0
          BY <4>1, FS_EmptySet
        <4>3. frames' + Cardinality(Sound(capdone)') = good' /\ frames' \in Nat
          BY DEF DecInv, Types, Counted
        <4> QED
          BY <4>2, <4>3
      <3>5. good + 1 >= Cardinality(Pictures(Len(aus)))
        BY <3>2, AllButOne
      <3> QED
        BY <2>1, <2>2, <3>4, <3>5, VerdictsFrame
    <2>3. CASE ~ Head(capdone).last
      BY <2>1, <2>3, VerdictsFrame
    <2> QED
      BY <2>2, <2>3
  <1>8. CASE HarvestDone
    <2>1. /\ UNCHANGED << aus, frames >> /\ pc' = "end" /\ (~ cap_ready \/ capdone = <<>>)
          /\ done' = (done \/ (cap_ready /\ Drained))
      BY <1>8 DEF HarvestDone, splitter
    <2>2. frames = good
      BY <2>1, AllCounted DEF CaptureKept
    <2>3. done' => good + 1 >= Cardinality(Pictures(Len(aus)))
      BY <2>1, AllButOne DEF Drained
    <2> QED
      BY <2>1, <2>2, <2>3, VerdictsFrame
  <1>9. CASE LoopEnd
    <2>1. /\ pc = "end" /\ UNCHANGED aus
          /\ \/ done /\ pc' = IF frames >= MIN_FRAMES THEN "pass" ELSE "fail"
             \/ ~ done /\ pc' = IF iter + 1 < MAX_ITERATIONS THEN "queue" ELSE "fail"
      BY <1>9 DEF LoopEnd, Verdict, NextIteration, splitter
    <2>2. CASE done /\ pc' = IF frames >= MIN_FRAMES THEN "pass" ELSE "fail"
      <3>1. frames + 1 >= Cardinality(Pictures(Len(aus)))
            /\ Cardinality(Pictures(Len(aus))) \in Nat /\ frames \in Nat
        BY <2>1, <2>2, PicturesCount DEF Verdicts, LoopInv, Typed, DecInv, Types
      <3>2. pc' = "fail" => Cardinality(Pictures(Len(aus))) <= MIN_FRAMES
        BY <2>2, <3>1, BoundsAssumption
      <3>3. pc' # "end"
        BY <2>2
      <3> QED
        BY <2>1, <3>2, <3>3, VerdictsFrame
    <2>3. CASE ~ done /\ pc' = IF iter + 1 < MAX_ITERATIONS THEN "queue" ELSE "fail"
      <3>1. iter < Reclaimed + frames + Announcing /\ pollerr_streak = 0
        BY <2>1, <2>3 DEF Spent, IdleStreak
      <3>2. pollerr_streak <= MAX_POLLERR /\ iter <= Reclaimed + frames + Announcing
        BY <3>1, SpentTypes
      <3>3. iter + 1 < MAX_ITERATIONS
        BY <3>1, <3>2, IterationsLeft
      <3>4. pc' = "queue"
        BY <2>3, <3>3
      <3> QED
        BY <2>1, <3>4, VerdictsFrame
    <2> QED
      BY <2>1, <2>2, <2>3
  <1> QED
    BY <1>0, <1>1, <1>2, <1>3, <1>4, <1>5, <1>6, <1>7, <1>8, <1>9 DEF Program

LEMMA VerdictsNext ==
    ASSUME LoopInv, DecInv, DecInv', BuffersKept, Announced, Delivered, CaptureKept,
           IdleStreak, Spent, Verdicts, [Next]_vars, fault' = "none"
    PROVE  Verdicts'
  <1>1. CASE Driver \/ UNCHANGED vars
    <2>1. UNCHANGED << aus, pc, done, frames >>
      BY <1>1 DEF Driver, Consume, Announce, Deliver, Drain, Eos, DriverFails, vars, program,
         splitter
    <2> QED
      BY <2>1, VerdictsFrame DEF Verdicts
  <1> QED
    BY <1>1, VerdictsProgram DEF Next

(* The invariant of a driver without a fault is inductive.                 *)
LEMMA SoundInit == Init => SoundInv
  <1> SUFFICES ASSUME Init PROVE SoundInv
    OBVIOUS
  <1>1. BuffersKept
    BY BuffersInit
  <1>2. Announced /\ CaptureKept /\ IdleStreak
    BY BoundsAssumption DEF Init, Announced, CaptureKept, IdleStreak
  <1>3. Delivered
    <2>1. Pictures(Len(taken)) = {}
      BY DEF Init, Pictures
    <2>2. Cardinality(Pictures(Len(taken))) = 0
      BY <2>1, FS_EmptySet
    <2> QED
      BY <2>2 DEF Init, Delivered
  <1>4. Spent /\ Verdicts
    BY DEF Init, Spent, Verdicts
  <1> QED
    BY <1>1, <1>2, <1>3, <1>4 DEF SoundInv

LEMMA SoundNext ==
    ASSUME LoopInv, DecInv, DecInv', SoundInv, [Next]_vars
    PROVE  SoundInv'
  <1>1. BuffersKept'
    BY BuffersNext DEF SoundInv
  <1>2. ASSUME fault' = "none"
        PROVE  (Announced /\ Delivered /\ CaptureKept /\ IdleStreak /\ Spent /\ Verdicts)'
    <2>1. /\ BuffersKept /\ Announced /\ Delivered /\ CaptureKept /\ IdleStreak /\ Spent
          /\ Verdicts
      BY <1>2, FaultLasts DEF SoundInv
    <2> QED
      BY <1>2, <2>1, AnnouncedNext, DeliveredNext, CaptureNext, IdleNext, SpentNext,
         VerdictsNext
  <1> QED
    BY <1>1, <1>2 DEF SoundInv

THEOREM SoundInductive == Spec => []SoundInv
  <1>1. LoopInv /\ DecInv /\ DecInv' /\ SoundInv /\ [Next]_vars => SoundInv'
    BY SoundNext
  <1> QED
    BY <1>1, SoundInit, LoopInductive, DecInductive, PTL DEF Spec

(* A decoder that makes no mistake and is not slow passes the test, if the *)
(* stream has one picture more than MIN_FRAMES: whatever the order in      *)
(* which it returns buffers, however it ends the drain, and however often  *)
(* the program runs between two of its steps, no exit with status 1 is     *)
(* left, the bound on iterations included.                                 *)
THEOREM SoundPasses == Spec => []SoundDriverPasses
  <1>1. LoopInv /\ SoundInv => SoundDriverPasses
    <2>1. LoopInv => {k \in DOMAIN aus : HasSlice(aus[k])} = Pictures(Len(aus))
      BY DEF Pictures, LoopInv, Typed
    <2> QED
      BY <2>1 DEF SoundInv, Verdicts, SoundDriverPasses
  <1> QED
    BY <1>1, LoopInductive, SoundInductive, PTL
=============================================================================
