------------------------------ MODULE VenusDec ------------------------------
(***************************************************************************)
(* test_src/venus_dec_smoke.c: one run of the decoder smoke test against a *)
(* V4L2 stateful decoder.  The program and the driver share the buffers of *)
(* two queues and a queue of events, and interleave freely.  A stream is   *)
(* the sequence of its NAL units: "param" (SPS, PPS, SEI, AUD), "first"    *)
(* (a slice with first_mb_in_slice = 0) or "next" (any other slice).       *)
(***************************************************************************)
EXTENDS Integers, Sequences, FiniteSets

CONSTANTS
    Streams,          \* the streams to try
    MIN_FRAMES, MAX_AUS,
    NUM_OUT_BUFS, NUM_CAP_BUFS,
    MAX_ITERATIONS,   \* 4000 in the code
    MAX_POLLERR       \* 200 in the code

NalUnits == {"param", "first", "next"}

ASSUME StreamsAssumption == Streams \subseteq Seq(NalUnits)

ASSUME BoundsAssumption ==
    /\ MIN_FRAMES \in Nat /\ MAX_AUS \in Nat
    /\ NUM_OUT_BUFS \in Nat \ {0} /\ NUM_CAP_BUFS \in Nat \ {0}
    /\ MAX_ITERATIONS \in Nat /\ MAX_POLLERR \in Nat

VARIABLES
    \* split_aus
    stream,    \* the stream
    pos,       \* the NAL unit to look at
    open,      \* the access unit begun
    aus,       \* the access units found
    \* the decode loop
    pc, iter, next_au, free_out, eos_sent, done, cap_ready, frames,
    pollerr_streak, pri,
    \* the buffers' memory and the driver
    omap,      \* the access unit in each OUTPUT buffer
    out,       \* OUTPUT buffers queued, in order
    outdone,   \* OUTPUT buffers to dequeue
    taken,     \* access units the driver has read
    pending,   \* pictures decoded and not delivered
    good,      \* pictures delivered without an error
    cap,       \* CAPTURE buffers the driver may fill
    capdone,   \* CAPTURE buffers to dequeue: [bytes, error, last]
    events,    \* events to dequeue
    stops,     \* DECODER_CMD STOP received
    driver,    \* "start", "announced" (the format), "drained" or "dead"
    fault      \* the first thing that went wrong outside the program

splitter == << stream, pos, open, aus >>
program == << splitter, pc, iter, next_au, free_out, eos_sent, done, cap_ready,
              frames, pollerr_streak, pri >>
device == << omap, out, outdone, taken, pending, good, cap, capdone, events,
             stops, driver >>
vars == << program, device, fault >>

OutBufs == 0 .. NUM_OUT_BUFS - 1
Ended == {"pass", "fail"}
LowestFree == CHOOSE i \in OutBufs : free_out[i] /\ \A j \in OutBufs : free_out[j] => i <= j
-----------------------------------------------------------------------------
(***************************************************************************)
(* split_aus: an access unit that has a slice ends where a new one starts. *)
(***************************************************************************)
IsSlice(nal) == nal # "param"
HasSlice(au) == \E i \in DOMAIN au : IsSlice(au[i])
StartsNewAuMutant(nal) == ~IsSlice(nal)
StartsNewAu(nal) == ~IsSlice(nal) \/ nal = "first"

\* Units beyond MAX_AUS are dropped.
PushAu(list, au) == IF Len(list) < MAX_AUS /\ au # <<>> THEN Append(list, au) ELSE list

Init ==
    /\ stream \in Streams /\ pos = 1 /\ open = <<>> /\ aus = <<>>
    /\ pc = "split"
    /\ iter = 0 /\ next_au = 1
    /\ free_out = [i \in OutBufs |-> TRUE]
    /\ eos_sent = FALSE /\ done = FALSE /\ cap_ready = FALSE
    /\ frames = 0 /\ pollerr_streak = 0 /\ pri = FALSE
    /\ omap = [i \in OutBufs |-> 0]
    /\ out = <<>> /\ outdone = {} /\ taken = <<>>
    /\ pending = 0 /\ good = 0 /\ cap = 0 /\ capdone = <<>>
    /\ events = <<>> /\ stops = 0 /\ driver = "start"
    /\ fault = "none"

\* One turn of the loop of split_aus.
SplitNal ==
    /\ pc = "split" /\ pos <= Len(stream)
    /\ IF HasSlice(open) /\ StartsNewAu(stream[pos])
       THEN aus' = PushAu(aus, open) /\ open' = <<stream[pos]>>
       ELSE open' = Append(open, stream[pos]) /\ UNCHANGED aus
    /\ pos' = pos + 1
    /\ UNCHANGED << stream, pc, iter, next_au, free_out, eos_sent, done, cap_ready,
                    frames, pollerr_streak, pri, device, fault >>

\* What is open at the end of the stream is the last access unit.
SplitEnd ==
    /\ pc = "split" /\ pos > Len(stream)
    /\ aus' = PushAu(aus, open)
    /\ pc' = "setup"
    /\ UNCHANGED << stream, pos, open, iter, next_au, free_out, eos_sent, done, cap_ready,
                    frames, pollerr_streak, pri, device, fault >>
-----------------------------------------------------------------------------
\* The end of main().
Verdict(enough) == IF enough /\ frames >= MIN_FRAMES THEN "pass" ELSE "fail"

\* From the stream's length test to STREAMON of the OUTPUT queue.
Setup ==
    /\ pc = "setup"
    /\ pc' = IF Len(aus) < MIN_FRAMES THEN "fail" ELSE "queue"
    /\ UNCHANGED << splitter, iter, next_au, free_out, eos_sent, done, cap_ready,
                    frames, pollerr_streak, pri, device, fault >>

\* Access units into the OUTPUT buffers that are free, lowest first.
QueueAu ==
    /\ pc = "queue" /\ next_au <= Len(aus)
    /\ \E i \in OutBufs : free_out[i]
    /\ omap' = [omap EXCEPT ![LowestFree] = next_au]
    /\ out' = Append(out, LowestFree)
    /\ free_out' = [free_out EXCEPT ![LowestFree] = FALSE]
    /\ next_au' = next_au + 1
    /\ UNCHANGED << splitter, pc, iter, eos_sent, done, cap_ready, frames,
                    pollerr_streak, pri, outdone, taken, pending, good, cap,
                    capdone, events, stops, driver, fault >>

\* STOP once all are queued; that it fails is only a warning.
QueuedMutant ==
    /\ pc = "queue"
    /\ next_au > Len(aus) \/ \A i \in OutBufs : ~free_out[i]
    /\ pc' = "poll"
    /\ eos_sent' = TRUE
    /\ stops' = IF eos_sent THEN stops ELSE stops + 1
    /\ UNCHANGED << splitter, iter, next_au, free_out, done, cap_ready, frames,
                    pollerr_streak, pri, omap, out, outdone, taken, pending, good,
                    cap, capdone, events, driver, fault >>
Queued ==
    /\ pc = "queue"
    /\ next_au > Len(aus) \/ \A i \in OutBufs : ~free_out[i]
    /\ pc' = "poll"
    /\ IF next_au > Len(aus) /\ ~eos_sent
       THEN /\ eos_sent' = TRUE
            /\ \/ stops' = stops + 1 /\ UNCHANGED fault
               \/ fault = "none" /\ fault' = "ioctl" /\ UNCHANGED stops
       ELSE UNCHANGED << eos_sent, stops, fault >>
    /\ UNCHANGED << splitter, iter, next_au, free_out, done, cap_ready, frames,
                    pollerr_streak, pri, omap, out, outdone, taken, pending, good,
                    cap, capdone, events, driver >>
-----------------------------------------------------------------------------
(***************************************************************************)
(* poll(): the device is ready, has both queues idle (POLLERR), or does    *)
(* not answer for two seconds.                                             *)
(***************************************************************************)
Drained == driver = "drained" /\ capdone = <<>>
Ready == events # <<>> \/ outdone # {} \/ capdone # <<>> \/ (cap_ready /\ Drained)
Idle == out = <<>> /\ outdone = {} /\ ~cap_ready

\* Has the driver something left that it could do?
Busy ==
    \/ out # <<>>
    \/ driver = "start" /\ taken # <<>>
    \/ driver # "drained" /\ cap > 0 /\ (pending > 0 \/ stops > 0)

Slow == IF fault = "none" /\ Busy /\ driver # "dead" THEN "slow" ELSE fault

\* The head of the for loop.
NextIteration ==
    /\ iter' = iter + 1
    /\ pc' = IF iter + 1 < MAX_ITERATIONS THEN "queue" ELSE "fail"

Polled ==
    /\ pc = "poll" /\ Ready
    /\ pollerr_streak' = 0
    /\ pri' = (events # <<>>)
    /\ pc' = "events"
    /\ UNCHANGED << splitter, iter, next_au, free_out, eos_sent, done, cap_ready,
                    frames, device, fault >>

PollErr ==
    /\ pc = "poll" /\ ~Ready /\ Idle
    /\ pollerr_streak' = pollerr_streak + 1
    /\ IF pollerr_streak + 1 > MAX_POLLERR
       THEN pc' = "fail" /\ fault' = Slow /\ UNCHANGED iter
       ELSE NextIteration /\ UNCHANGED fault
    /\ UNCHANGED << splitter, next_au, free_out, eos_sent, done, cap_ready, frames,
                    pri, device >>

PollTimeoutMutant ==
    /\ pc = "poll" /\ ~Ready /\ ~Idle
    /\ pc' = "queue"
    /\ fault' = Slow
    /\ UNCHANGED << splitter, iter, next_au, free_out, eos_sent, done, cap_ready,
                    frames, pollerr_streak, pri, device >>
PollTimeout ==
    /\ pc = "poll" /\ ~Ready /\ ~Idle
    /\ pc' = "fail"
    /\ fault' = Slow
    /\ UNCHANGED << splitter, iter, next_au, free_out, eos_sent, done, cap_ready,
                    frames, pollerr_streak, pri, device >>
-----------------------------------------------------------------------------
\* DQEVENT until there are no more, if poll() has reported one.
DequeueEvent ==
    /\ pc = "events" /\ pri /\ events # <<>>
    /\ events' = Tail(events)
    /\ \/ /\ Head(events) = "source_change" /\ cap_ready
          /\ pc' = "fail" /\ UNCHANGED << cap_ready, cap, done >>
       \/ /\ Head(events) = "source_change" /\ ~cap_ready
          /\ cap_ready' = TRUE /\ cap' = NUM_CAP_BUFS /\ UNCHANGED << pc, done >>
       \/ /\ Head(events) = "eos"
          /\ done' = TRUE /\ UNCHANGED << pc, cap_ready, cap >>
    /\ UNCHANGED << splitter, iter, next_au, free_out, eos_sent, frames, pollerr_streak,
                    pri, omap, out, outdone, taken, pending, good, capdone, stops,
                    driver, fault >>

EventsDone ==
    /\ pc = "events" /\ (~pri \/ events = <<>>)
    /\ pc' = "reclaim"
    /\ UNCHANGED << splitter, iter, next_au, free_out, eos_sent, done, cap_ready,
                    frames, pollerr_streak, pri, device, fault >>

ReclaimMutant ==
    /\ pc = "reclaim"
    /\ free_out' = [i \in OutBufs |-> outdone # {} \/ free_out[i]]
    /\ outdone' = {}
    /\ pc' = "harvest"
    /\ UNCHANGED << splitter, iter, next_au, eos_sent, done, cap_ready, frames,
                    pollerr_streak, pri, omap, out, taken, pending, good, cap,
                    capdone, events, stops, driver, fault >>
\* DQBUF(OUTPUT) until EAGAIN.
Reclaim ==
    /\ pc = "reclaim"
    /\ free_out' = [i \in OutBufs |-> i \in outdone \/ free_out[i]]
    /\ outdone' = {}
    /\ pc' = "harvest"
    /\ UNCHANGED << splitter, iter, next_au, eos_sent, done, cap_ready, frames,
                    pollerr_streak, pri, omap, out, taken, pending, good, cap,
                    capdone, events, stops, driver, fault >>

HarvestMutant ==
    /\ pc = "harvest" /\ cap_ready /\ capdone # <<>>
    /\ capdone' = Tail(capdone)
    /\ LET b == Head(capdone)
       IN /\ frames' = IF b.bytes > 0 THEN frames + 1 ELSE frames
          /\ IF b.last THEN done' = TRUE /\ pc' = "end" /\ UNCHANGED cap
             ELSE cap' = cap + 1 /\ UNCHANGED << done, pc >>
    /\ UNCHANGED << splitter, iter, next_au, free_out, eos_sent, cap_ready,
                    pollerr_streak, pri, omap, out, outdone, taken, pending, good,
                    events, stops, driver, fault >>
HarvestNoRequeue ==
    /\ pc = "harvest" /\ cap_ready /\ capdone # <<>>
    /\ capdone' = Tail(capdone)
    /\ LET b == Head(capdone)
       IN /\ frames' = IF b.bytes > 0 /\ ~b.error THEN frames + 1 ELSE frames
          /\ IF b.last THEN done' = TRUE /\ pc' = "end" /\ UNCHANGED cap
             ELSE cap' = cap /\ UNCHANGED << done, pc >>
    /\ UNCHANGED << splitter, iter, next_au, free_out, eos_sent, cap_ready,
                    pollerr_streak, pri, omap, out, outdone, taken, pending, good,
                    events, stops, driver, fault >>
\* DQBUF(CAPTURE): count the frame and queue the buffer again, or stop at the
\* last one.
Harvest ==
    /\ pc = "harvest" /\ cap_ready /\ capdone # <<>>
    /\ capdone' = Tail(capdone)
    /\ LET b == Head(capdone)
       IN /\ frames' = IF b.bytes > 0 /\ ~b.error THEN frames + 1 ELSE frames
          /\ IF b.last THEN done' = TRUE /\ pc' = "end" /\ UNCHANGED cap
             ELSE cap' = cap + 1 /\ UNCHANGED << done, pc >>
    /\ UNCHANGED << splitter, iter, next_au, free_out, eos_sent, cap_ready,
                    pollerr_streak, pri, omap, out, outdone, taken, pending, good,
                    events, stops, driver, fault >>

\* EAGAIN, or EPIPE behind the last buffer.
HarvestDone ==
    /\ pc = "harvest" /\ (~cap_ready \/ capdone = <<>>)
    /\ done' = (done \/ (cap_ready /\ Drained))
    /\ pc' = "end"
    /\ UNCHANGED << splitter, iter, next_au, free_out, eos_sent, cap_ready, frames,
                    pollerr_streak, pri, device, fault >>

LoopEnd ==
    /\ pc = "end"
    /\ IF done THEN pc' = Verdict(TRUE) /\ UNCHANGED iter ELSE NextIteration
    /\ UNCHANGED << splitter, next_au, free_out, eos_sent, done, cap_ready, frames,
                    pollerr_streak, pri, device, fault >>

\* An ioctl or mmap that fails: "return 1".
IoctlFails ==
    /\ pc \in {"setup", "queue", "events", "reclaim", "harvest"}
    /\ pc' = "fail"
    /\ fault' = "ioctl"
    /\ UNCHANGED << splitter, iter, next_au, free_out, eos_sent, done, cap_ready,
                    frames, pollerr_streak, pri, device >>
-----------------------------------------------------------------------------
(***************************************************************************)
(* External: the driver and the hardware.                                  *)
(***************************************************************************)
Consume ==
    /\ driver # "dead" /\ out # <<>>
    /\ LET au == omap[Head(out)]
       IN /\ taken' = Append(taken, au)
          /\ pending' = IF HasSlice(aus[au]) THEN pending + 1 ELSE pending
    /\ out' = Tail(out)
    /\ outdone' = outdone \cup {Head(out)}
    /\ UNCHANGED << program, omap, good, cap, capdone, events, stops, driver, fault >>

Announce ==
    /\ driver = "start" /\ taken # <<>>
    /\ driver' = "announced"
    /\ events' = Append(events, "source_change")
    /\ UNCHANGED << program, omap, out, outdone, taken, pending, good, cap, capdone,
                    stops, fault >>

\* A frame; the last one of a drain may say so itself.
Deliver(last) ==
    /\ driver = "announced" /\ cap > 0 /\ pending > 0
    /\ last => stops > 0 /\ out = <<>> /\ pending = 1
    /\ pending' = pending - 1 /\ cap' = cap - 1 /\ good' = good + 1
    /\ capdone' = Append(capdone, [bytes |-> 1, error |-> FALSE, last |-> last])
    /\ driver' = IF last THEN "drained" ELSE driver
    /\ UNCHANGED << program, omap, out, outdone, taken, events, stops, fault >>

\* The drain ends with an empty last buffer, or with EPIPE only.
Drain ==
    /\ driver = "announced" /\ cap > 0
    /\ stops > 0 /\ out = <<>> /\ pending = 0
    /\ driver' = "drained"
    /\ \/ /\ capdone' = Append(capdone, [bytes |-> 0, error |-> FALSE, last |-> TRUE])
          /\ cap' = cap - 1
       \/ UNCHANGED << cap, capdone >>
    /\ UNCHANGED << program, omap, out, outdone, taken, pending, good, events,
                    stops, fault >>

\* The EOS event is queued before the last buffer is marked done.
Eos ==
    /\ driver \in {"announced", "drained"} /\ cap_ready
    /\ stops > 0 /\ out = <<>> /\ pending <= 1
    /\ \A i \in DOMAIN events : events[i] # "eos"
    /\ ~done
    /\ events' = Append(events, "eos")
    /\ UNCHANGED << program, omap, out, outdone, taken, pending, good, cap, capdone,
                    stops, driver, fault >>

\* A crash, a second change of format, an early EOS event, a broken frame.
DriverFails ==
    /\ fault = "none" /\ fault' = "driver"
    /\ \/ driver' = "dead" /\ UNCHANGED << events, pending, cap, capdone >>
       \/ /\ \E e \in {"source_change", "eos"} : events' = Append(events, e)
          /\ UNCHANGED << driver, pending, cap, capdone >>
       \/ /\ driver = "announced" /\ cap > 0 /\ pending > 0
          /\ pending' = pending - 1 /\ cap' = cap - 1
          /\ capdone' = Append(capdone, [bytes |-> 1, error |-> TRUE, last |-> FALSE])
          /\ UNCHANGED << driver, events >>
    /\ UNCHANGED << program, omap, out, outdone, taken, good, stops >>
-----------------------------------------------------------------------------
Program ==
    \/ SplitNal \/ SplitEnd \/ Setup
    \/ QueueAu \/ Queued \/ Polled \/ PollErr \/ PollTimeout
    \/ DequeueEvent \/ EventsDone \/ Reclaim \/ Harvest \/ HarvestDone \/ LoopEnd
    \/ IoctlFails

Driver == pc \notin {"split", "setup"} \cup Ended /\
    (Consume \/ Announce \/ (\E last \in BOOLEAN : Deliver(last)) \/ Drain \/ Eos \/ DriverFails)

Next == Program \/ Driver

\* The program is one process that the kernel schedules, and poll() returns
\* after two seconds at the latest; nothing is assumed of the driver.
Spec == Init /\ [][Next]_vars /\ WF_vars(Program)
-----------------------------------------------------------------------------
\* The driver reads the access units once each and in the order of the stream:
\* no buffer is written while it is queued (the free_out bookkeeping).
BitstreamIntact == taken = [i \in DOMAIN taken |-> i]

\* Of a stream that begins each picture with a slice whose first_mb_in_slice is
\* 0, an access unit holds one picture, all of its slices ("multi-slice frames
\* stay in one buffer"); only the last unit may hold none.
OnePicturePerUnit ==
    pc # "split" => \A k \in DOMAIN aus :
        LET firsts == {i \in DOMAIN aus[k] : aus[k][i] = "first"}
        IN IF HasSlice(aus[k]) THEN Cardinality(firsts) = 1 ELSE k = Len(aus)

\* STOP goes out once, behind the last access unit: none is queued after it.
StopIsLast == stops > 0 => eos_sent /\ next_au > Len(aus)

\* Exit status 0 means that MIN_FRAMES different pictures were decoded without an
\* error ("error-flagged buffers must not count as decoded frames").
PassTruthful == pc = "pass" => good >= MIN_FRAMES

\* A driver that is neither slow nor faulty passes, given one picture to spare:
\* the EOS event may overtake the last buffer.
SoundDriverPasses ==
    pc = "fail" /\ fault = "none" =>
        Cardinality({k \in DOMAIN aus : HasSlice(aus[k])}) <= MIN_FRAMES

\* The test ends, whatever the driver does or fails to do.
Terminates == <>(pc \in Ended)
=============================================================================
