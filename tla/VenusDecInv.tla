---------------------------- MODULE VenusDecInv -----------------------------
(***************************************************************************)
(* The inductive invariants behind the theorems about VenusDec.            *)
(***************************************************************************)
EXTENDS VenusDec

\* The bound on the loop leaves room for one iteration per access unit, one per
\* picture, the announcement, and an idle decoder (4000 > 2 * 256 + 200 + 1).
ASSUME IterationsAssumption == MAX_ITERATIONS > 2 * MAX_AUS + MAX_POLLERR + 1

CapBuffer == [bytes : {0, 1}, error : BOOLEAN, last : BOOLEAN]

Typed ==
    /\ stream \in Streams /\ pos \in Nat \ {0} /\ open \in Seq(NalUnits)
    /\ aus \in Seq(Seq(NalUnits)) /\ Len(aus) <= MAX_AUS
    /\ iter \in Nat /\ pollerr_streak \in Nat /\ pending \in Nat /\ cap \in Nat
    /\ events \in Seq({"source_change", "eos"})

\* Before the loop.
Fresh ==
    pc \in {"split", "setup"} =>
        /\ iter = 0 /\ next_au = 1 /\ pollerr_streak = 0 /\ ~ eos_sent /\ ~ done
        /\ ~ cap_ready /\ frames = 0 /\ out = <<>> /\ outdone = {} /\ taken = <<>>
        /\ stops = 0

LoopInv == Typed /\ Fresh

Types ==
    /\ next_au \in Nat
    /\ free_out \in [OutBufs -> BOOLEAN] /\ omap \in [OutBufs -> Nat]
    /\ out \in Seq(OutBufs) /\ outdone \in SUBSET OutBufs /\ taken \in Seq(Nat)
    /\ frames \in Nat /\ good \in Nat /\ capdone \in Seq(CapBuffer)
    /\ stops \in Nat

\* The driver has taken the first access units, the queue holds the next ones,
\* and no buffer is in two places.
InOrder ==
    /\ next_au = Len(taken) + Len(out) + 1
    /\ \A k \in 1 .. Len(taken) : taken[k] = k
    /\ \A k \in 1 .. Len(out) :
         /\ omap[out[k]] = Len(taken) + k
         /\ ~ free_out[out[k]]
         /\ out[k] \notin outdone
    /\ \A k, l \in 1 .. Len(out) : out[k] = out[l] => k = l
    /\ \A i \in outdone : ~ free_out[i]

Stopped == (stops > 0 => eos_sent) /\ (eos_sent => next_au > Len(aus))

\* Every picture delivered without an error is counted or waits to be.
Sound(buffers) ==
    {i \in 1 .. Len(buffers) : buffers[i].bytes > 0 /\ ~ buffers[i].error}
Counted ==
    /\ frames + Cardinality(Sound(capdone)) = good
    /\ pc = "pass" => frames >= MIN_FRAMES

DecInv == Types /\ InOrder /\ Stopped /\ Counted
-----------------------------------------------------------------------------
(***************************************************************************)
(* split_aus, of streams in which a picture's slices are not interrupted.  *)
(***************************************************************************)
PictureStreams ==
    \A s \in Streams : \A i \in 1 .. Len(s) :
        s[i] = "next" => i > 1 /\ s[i - 1] # "param"

OnePicture(au) ==
    \E i \in DOMAIN au : au[i] = "first" /\ \A j \in DOMAIN au : au[j] = "first" => j = i

SplitInv ==
    pc = "split" =>
        /\ pos > 1 => open # <<>> /\ open[Len(open)] = stream[pos - 1]
        /\ HasSlice(open) => OnePicture(open)
        /\ \A k \in DOMAIN aus : HasSlice(aus[k]) /\ OnePicture(aus[k])
-----------------------------------------------------------------------------
(***************************************************************************)
(* A driver without a fault.                                               *)
(***************************************************************************)
Pictures(n) == {k \in 1 .. n : HasSlice(aus[k])}

\* An OUTPUT buffer is free, queued or done with; poll() is reached with none
\* free, or with all access units queued.
BuffersKept ==
    /\ next_au <= Len(aus) + 1
    /\ \A i \in OutBufs :
         free_out[i] \/ i \in outdone \/ \E k \in 1 .. Len(out) : out[k] = i
    /\ pc = "poll" => eos_sent \/ \A i \in OutBufs : ~ free_out[i]

\* The format is announced once, and the EOS event comes behind it.
Announced ==
    \/ driver = "start" /\ ~ cap_ready /\ events = <<>>
    \/ driver \in {"announced", "drained"} /\ ~ cap_ready /\ events = <<"source_change">>
    \/ driver \in {"announced", "drained"} /\ cap_ready /\ events \in {<<>>, <<"eos">>}

\* Every picture of a unit taken is delivered or pending, and none is once the
\* driver has drained; at most one when it says that the stream has ended.
Delivered ==
    /\ good + pending = Cardinality(Pictures(Len(taken)))
    /\ eos_sent => stops > 0
    /\ driver = "drained" => stops > 0 /\ out = <<>> /\ pending = 0
    /\ done \/ events = <<"eos">> =>
         stops > 0 /\ out = <<>> /\ pending <= 1 /\ cap_ready

\* CAPTURE buffers go round until the last one.
CaptureKept ==
    /\ ~ cap_ready => cap = 0 /\ capdone = <<>>
    /\ cap_ready /\ driver # "drained" => cap + Len(capdone) = NUM_CAP_BUFS
    /\ \A i \in 1 .. Len(capdone) :
         IF capdone[i].last THEN driver = "drained" /\ i = Len(capdone)
         ELSE capdone[i].bytes > 0 /\ ~ capdone[i].error

\* POLLERR means that the driver has everything and has not answered.
IdleStreak ==
    /\ pc \notin Ended => pollerr_streak <= MAX_POLLERR
    /\ pc \in {"events", "reclaim", "harvest", "end"} => pollerr_streak = 0
    /\ pollerr_streak > 0 /\ ~ cap_ready => eos_sent /\ out = <<>> /\ outdone = {}

\* What the iterations so far have been spent on: an access unit reclaimed, a
\* frame harvested, the announcement dequeued, or an idle poll before it.
Reclaimed == Len(taken) - Cardinality(outdone)
Announcing == IF cap_ready THEN MAX_POLLERR + 1 ELSE pollerr_streak
AtLast == done \/ (cap_ready /\ Drained)
Spent ==
    /\ pc \in {"queue", "poll"} => ~ done /\ iter <= Reclaimed + frames + Announcing
    /\ pc = "events" =>
         \/ AtLast \/ (pri /\ events = <<"eos">>)
         \/ pri /\ events = <<"source_change">> /\ iter <= Len(taken) + frames + MAX_POLLERR
         \/ iter < Len(taken) + frames + Len(capdone) + Announcing
    /\ pc = "reclaim" =>
         AtLast \/ iter < Len(taken) + frames + Len(capdone) + Announcing
    /\ pc = "harvest" =>
         AtLast \/ iter < Reclaimed + frames + Len(capdone) + Announcing
    /\ pc = "end" => done \/ iter < Reclaimed + frames + Announcing

\* The program ends with all pictures but one at least.
Verdicts ==
    /\ pc = "end" /\ done => frames + 1 >= Cardinality(Pictures(Len(aus)))
    /\ pc = "fail" => Cardinality(Pictures(Len(aus))) <= MIN_FRAMES

SoundInv ==
    /\ BuffersKept
    /\ fault = "none" =>
         Announced /\ Delivered /\ CaptureKept /\ IdleStreak /\ Spent /\ Verdicts
=============================================================================
