---------------------------- MODULE FrameLatency ----------------------------
(***************************************************************************)
(* The frame-latency bound of a device                                     *)
(* (src/windows/core/src/frame_latency.rs and                              *)
(* src/unix/unix/src/metal/frame_signal.rs).                               *)
(*                                                                         *)
(* At the end of Present(k) the API thread waits until frame k - L has     *)
(* finished: its draw buffer ended, and its present, when paced, was shown *)
(* or given up.  The first half is the draw counter, which the completion  *)
(* handlers move without a lock; the second is the FrameSignal, whose      *)
(* floor the submit thread, the presenter and Metal's presented handlers   *)
(* move under its lock.                                                    *)
(*                                                                         *)
(* The lock is held across no step but one: a waiter that read the draw    *)
(* counter holds it until it sleeps, and that interval is the place        *)
(* "reading".  A thread on the condition variable takes no step until a    *)
(* notify moves it.                                                        *)
(***************************************************************************)
EXTENDS Naturals, Sequences, FiniteSets, SequencesExt

CONSTANTS
    MaxSeq,      \* bound on the submissions of a behaviour
    Latencies,   \* the values SetMaximumFrameLatency may be given
    Ring         \* RING: the presents FrameLatency remembers

ASSUME LatencyAssumption ==
    /\ MaxSeq \in Nat
    /\ Ring \in Nat \ {0}
    /\ Latencies \subseteq 1..(Ring - 1)

VARIABLES
    \* the API thread
    seq,         \* newest submission sent
    presenting,  \* the submissions that are frames
    presents,    \* FrameLatency.presents
    newest,      \* FrameLatency.newest
    latency,     \* FrameLatency.enforced()
    bound,       \* the latency the last Present enforced
    api,         \* where Present stands
    target,      \* the frame it waits for
    \* FrameSignal
    paced,       \* SignalState.paced
    latest,      \* SignalState.latest
    attached,    \* SignalState.floor is not NONE
    ended,       \* SignalState.ended
    \* the PE counters
    draw,        \* coherent_seq
    floor,       \* paced_present_seq
    freed,       \* the PE side freed them
    \* the submit thread, Metal and the presenter
    submit,      \* where the submit thread stands
    submitted,   \* newest submission it is done with
    gpu,         \* each submission's draw buffer
    queue,       \* present packets the presenter has not taken
    mark,        \* where each submission's PacedMark is
    releasing    \* the presents a drop is about to release, 0 for none

apiVars == <<seq, presenting, presents, newest, latency, bound, target>>
signalVars == <<paced, latest, attached, ended, floor>>
pipeVars == <<submit, submitted, queue>>
vars == <<apiVars, api, signalVars, draw, freed, pipeVars, gpu, mark, releasing>>

Seqs == 1..MaxSeq
Max2(a, b) == IF a > b THEN a ELSE b

\* "reading" holds the signal's lock; "asleep" and "timed" are inside a wait.
Waiting == {"reading", "asleep", "timed", "woken"}

\* A draw buffer: committed, ended, its handler between retire_finished and
\* retired(), its handler done.
BufferStates == {"none", "committed", "ended", "notifying", "done"}

TypeOK ==
    /\ seq \in 0..MaxSeq
    /\ presenting \subseteq Seqs
    /\ presents \in [0..(Ring - 1) -> 0..MaxSeq]
    /\ newest \in 0..(Ring - 1)
    /\ latency \in 1..(Ring - 1)
    /\ bound \in 0..(Ring - 1)
    /\ api \in {"ready", "recorded", "loaded", "await"} \cup Waiting
    /\ target \in 0..MaxSeq
    /\ paced \in Seq(Seqs)
    /\ latest \in 0..MaxSeq
    /\ attached \in BOOLEAN
    /\ ended \in BOOLEAN
    /\ draw \in 0..MaxSeq
    /\ floor \in 0..MaxSeq
    /\ freed \in BOOLEAN
    /\ submit \in {"idle", "noted", "pushing", "failing", "published", "ending", "failed"}
    /\ submitted \in 0..MaxSeq
    /\ gpu \in [Seqs -> BufferStates]
    /\ queue \in Seq(Seqs)
    /\ mark \in [Seqs -> {"none", "packet", "handler"}]
    /\ releasing \in 0..MaxSeq

Init ==
    /\ seq = 0
    /\ presenting = {}
    /\ presents = [i \in 0..(Ring - 1) |-> 0]
    /\ newest = 0
    /\ latency \in Latencies
    /\ bound = 0
    /\ api = "ready"
    /\ target = 0
    /\ paced = <<>>
    /\ latest = 0
    /\ attached = TRUE
    /\ ended = FALSE
    /\ draw = 0
    /\ floor = 0
    /\ freed = FALSE
    /\ submit = "idle"
    /\ submitted = 0
    /\ gpu = [s \in Seqs |-> "none"]
    /\ queue = <<>>
    /\ mark = [s \in Seqs |-> "none"]
    /\ releasing = 0

-----------------------------------------------------------------------------
(* The signal's helpers, each under its lock. *)

Unlocked == api # "reading"

\* floor_of, mutated: the oldest owed present itself.
floor_of_front(p, l) == IF p = <<>> THEN l ELSE Head(p)

floor_of(p, l) == IF p = <<>> THEN l ELSE Head(p) - 1

Notified == IF api \in {"asleep", "timed"} THEN "woken" ELSE api

\* publish, mutated: no waiter is woken.
publish_silent(p, l) ==
    /\ floor' = IF attached THEN Max2(floor, floor_of(p, l)) ELSE floor
    /\ api' = api

\* publish: the floor of p and l goes into the PE counter, waiters wake.
publish(p, l) ==
    /\ floor' = IF attached THEN Max2(floor, floor_of(p, l)) ELSE floor
    /\ api' = Notified

\* position and remove.
Without(p, s) ==
    RemoveAt(p, CHOOSE i \in DOMAIN p : p[i] = s /\ \A j \in 1..(i - 1) : p[j] # s)

\* retain above s: the deque ascends, so what stays is a suffix of it.
Above(p, s) ==
    CHOOSE q \in {SubSeq(p, n, Len(p)) : n \in 1..(Len(p) + 1)} :
        Range(q) = {x \in Range(p) : x > s}

resolve(s) ==
    /\ Unlocked
    /\ IF s \in Range(paced)
       THEN /\ paced' = Without(paced, s)
            /\ publish(paced', latest)
       ELSE UNCHANGED <<paced, floor, api>>
    /\ UNCHANGED <<latest, attached, ended>>

\* release_paced is release_through the newest sequence there can be.
release_through(s) ==
    /\ Unlocked
    /\ paced' = Above(paced, s)
    /\ publish(paced', latest)
    /\ UNCHANGED <<latest, attached, ended>>

\* end, mutated: the PE counter stays attached.
end_keeps_floor ==
    /\ Unlocked
    /\ ended' = TRUE
    /\ paced' = <<>>
    /\ api' = Notified
    /\ UNCHANGED <<latest, attached, floor>>

end ==
    /\ Unlocked
    /\ ended' = TRUE
    /\ paced' = <<>>
    /\ attached' = FALSE
    /\ api' = Notified
    /\ UNCHANGED <<latest, floor>>

-----------------------------------------------------------------------------
(* The API thread. *)

\* A mid-frame flush takes a sequence and is no frame.
Flush ==
    /\ api = "ready" /\ ~ended /\ seq < MaxSeq
    /\ seq' = seq + 1
    /\ UNCHANGED <<presenting, presents, newest, latency, bound, target, api, signalVars,
                   draw, freed, pipeVars, gpu, mark, releasing>>

\* record_present, mutated: it reads the ring one entry too far back.
record_present_far(s) ==
    LET next == (newest + 1) % Ring
        back == (next + Ring - latency - 1) % Ring
    IN  /\ newest' = next
        /\ presents' = [presents EXCEPT ![next] = s]
        /\ target' = presents'[back]

record_present(s) ==
    LET next == (newest + 1) % Ring
        back == (next + Ring - latency) % Ring
    IN  /\ newest' = next
        /\ presents' = [presents EXCEPT ![next] = s]
        /\ target' = presents'[back]

Present ==
    /\ api = "ready" /\ ~ended /\ seq < MaxSeq
    /\ seq' = seq + 1
    /\ presenting' = presenting \cup {seq'}
    /\ record_present(seq')
    /\ bound' = latency
    /\ api' = IF target' = 0 THEN "ready" ELSE "recorded"
    /\ UNCHANGED <<latency, signalVars, draw, freed, pipeVars, gpu, mark, releasing>>

set_maximum_frame_latency(l) ==
    /\ api = "ready" /\ ~ended
    /\ latency' = l
    /\ UNCHANGED <<seq, presenting, presents, newest, bound, target, api, signalVars,
                   draw, freed, pipeVars, gpu, mark, releasing>>

\* Present's wait moves on to a place; returning forgets the target.
Goto(place) ==
    /\ api' = place
    /\ target' = IF place = "ready" THEN 0 ELSE target
    /\ UNCHANGED <<seq, presenting, presents, newest, latency, bound>>

\* frame_finished is two loads, the draw counter's first.
LoadDraw ==
    /\ api = "recorded"
    /\ Goto(IF draw >= target THEN "loaded" ELSE "await")
    /\ UNCHANGED <<signalVars, draw, freed, pipeVars, gpu, mark, releasing>>

LoadFloor ==
    /\ api = "loaded"
    /\ Goto(IF floor >= target THEN "ready" ELSE "await")
    /\ UNCHANGED <<signalVars, draw, freed, pipeVars, gpu, mark, releasing>>

\* One pass of wait's loop up to its first sleep, under the lock.
Wait ==
    /\ api \in {"await", "woken"}
    /\ Goto(CASE ended -> "ready"
              [] ~ended /\ draw < target -> "reading"
              [] ~ended /\ draw >= target /\ floor_of(paced, latest) >= target -> "ready"
              [] OTHER -> "timed")
    /\ UNCHANGED <<signalVars, draw, freed, pipeVars, gpu, mark, releasing>>

\* changed.wait releases the lock and sleeps at once.
Sleep ==
    /\ api = "reading"
    /\ Goto("asleep")
    /\ UNCHANGED <<signalVars, draw, freed, pipeVars, gpu, mark, releasing>>

\* The cap on the paced half ran out: the presents waited for are released.
CapFires ==
    /\ api = "timed"
    /\ ~ended
    /\ paced' = Above(paced, target)
    /\ floor' = IF attached THEN Max2(floor, floor_of(paced', latest)) ELSE floor
    /\ Goto("ready")
    /\ UNCHANGED <<latest, attached, ended, draw, freed, pipeVars, gpu, mark, releasing>>

\* A Reset drains the submit thread, the presenter and the GPU before it releases.
Drained ==
    /\ submit \in {"idle", "failed"}
    /\ submit = "idle" => submitted = seq
    /\ queue = <<>>
    /\ \A s \in Seqs : gpu[s] # "committed"

Reset ==
    /\ api = "ready" /\ ~ended /\ Drained
    /\ release_through(MaxSeq)
    /\ UNCHANGED <<apiVars, draw, freed, pipeVars, gpu, mark, releasing>>

\* EncoderService's drop: the encoder shuts down drained, then the signal ends.
Shutdown ==
    /\ api = "ready" /\ Drained /\ attached
    /\ end
    /\ UNCHANGED <<apiVars, draw, freed, pipeVars, gpu, mark, releasing>>

\* The native destruction returned; the PE side frees its counters.
Destroyed ==
    /\ api = "ready" /\ Drained /\ ended
    /\ freed' = TRUE
    /\ UNCHANGED <<apiVars, api, signalVars, draw, pipeVars, gpu, mark, releasing>>

-----------------------------------------------------------------------------
(* The submit thread. *)

Current == submitted + 1

note_submission(s, waits) ==
    /\ Unlocked
    /\ IF ended
       THEN UNCHANGED <<paced, latest, floor, api, mark>>
       ELSE /\ latest' = Max2(latest, s)
            /\ paced' = IF waits THEN Append(paced, s) ELSE paced
            /\ mark' = [mark EXCEPT ![s] = IF waits THEN "packet" ELSE "none"]
            /\ publish(paced', latest')
    /\ UNCHANGED <<attached, ended>>

\* encode_frame up to the commits: what it noted is a paced present only when
\* the frame has a packet.
Note(waits) ==
    /\ submit = "idle" /\ submitted < seq
    /\ waits => Current \in presenting
    /\ note_submission(Current, waits)
    /\ submit' = "noted"
    /\ UNCHANGED <<apiVars, draw, freed, submitted, gpu, queue, releasing>>

Commit ==
    /\ submit = "noted"
    /\ gpu' = [gpu EXCEPT ![Current] = "committed"]
    /\ submit' = "pushing"
    /\ UNCHANGED <<apiVars, api, signalVars, draw, freed, submitted, queue, mark, releasing>>

Push ==
    /\ submit = "pushing"
    /\ submit' = "idle"
    /\ submitted' = Current
    /\ queue' = IF Current \in presenting THEN Append(queue, Current) ELSE queue
    /\ UNCHANGED <<apiVars, api, signalVars, draw, freed, gpu, mark, releasing>>

\* The encode failed before anything was noted or committed.
EncodeFails ==
    /\ submit = "idle" /\ submitted < seq
    /\ submit' = "failing"
    /\ UNCHANGED <<apiVars, api, signalVars, draw, freed, submitted, gpu, queue, mark, releasing>>

\* Every committed buffer is waited for, then the failed sequence is published.
retire_failed_submit ==
    /\ submit = "failing"
    /\ \A s \in Seqs : gpu[s] # "committed"
    /\ draw' = Max2(draw, Current)
    /\ submit' = "published"
    /\ UNCHANGED <<apiVars, api, signalVars, freed, submitted, gpu, queue, mark, releasing>>

FailedRetired ==
    /\ submit = "published"
    /\ Unlocked
    /\ api' = Notified
    /\ submit' = "ending"
    /\ UNCHANGED <<apiVars, signalVars, draw, freed, submitted, gpu, queue, mark, releasing>>

execute_submit ==
    /\ submit = "ending"
    /\ end
    /\ submit' = "failed"
    /\ submitted' = Current
    /\ UNCHANGED <<apiVars, draw, freed, gpu, queue, mark, releasing>>

-----------------------------------------------------------------------------
(* The GPU and the draw buffers' completion handlers. *)

GpuEnds(s) ==
    /\ gpu[s] = "committed"
    /\ gpu' = [gpu EXCEPT ![s] = "ended"]
    /\ UNCHANGED <<apiVars, api, signalVars, draw, freed, pipeVars, mark, releasing>>

\* retire_finished: over the ended buffers, oldest first, up to one still running.
Retired ==
    LET covered == {s \in Seqs : gpu[s] # "none"
                                 /\ \A t \in 1..s : gpu[t] # "committed"}
    IN  Max(covered \cup {draw})

HandlerRetires(s) ==
    /\ gpu[s] = "ended"
    /\ draw' = Retired
    /\ gpu' = [gpu EXCEPT ![s] = "notifying"]
    /\ UNCHANGED <<apiVars, api, signalVars, freed, pipeVars, mark, releasing>>

retired(s) ==
    /\ gpu[s] = "notifying"
    /\ Unlocked
    /\ gpu' = [gpu EXCEPT ![s] = "done"]
    /\ api' = Notified
    /\ UNCHANGED <<apiVars, signalVars, draw, freed, pipeVars, mark, releasing>>

\* A retirement wait of another thread moves the counter and notifies nobody.
WaiterRetires ==
    /\ Retired > draw
    /\ draw' = Retired
    /\ UNCHANGED <<apiVars, api, signalVars, freed, pipeVars, gpu, mark, releasing>>

-----------------------------------------------------------------------------
(* The presenter and the drawables' presented handlers. *)

\* The packet is dropped, and its mark with it.
DropFront(through) ==
    /\ queue # <<>> /\ releasing = 0
    /\ resolve(Head(queue))
    /\ mark' = [mark EXCEPT ![Head(queue)] = "none"]
    /\ queue' = Tail(queue)
    /\ releasing' = through
    /\ UNCHANGED <<apiVars, draw, freed, submit, submitted, gpu>>

\* No texture, layer or command buffer, or a present that commits unpaced:
\* nothing else is released.
drop_front == DropFront(0)

\* No drawable came: release_paced follows.
drop_unshown == DropFront(MaxSeq)

\* The window is occluded: release_paced_through follows.
drop_occluded == queue # <<>> /\ DropFront(Head(queue))

Release ==
    /\ releasing # 0
    /\ release_through(releasing)
    /\ releasing' = 0
    /\ UNCHANGED <<apiVars, draw, freed, pipeVars, gpu, mark>>

\* The present commits; a paced one's mark moves into the presented handler.
resolve_when_presented ==
    /\ queue # <<>> /\ releasing = 0
    /\ mark[Head(queue)] = "packet"
    /\ mark' = [mark EXCEPT ![Head(queue)] = "handler"]
    /\ queue' = Tail(queue)
    /\ UNCHANGED <<apiVars, api, signalVars, draw, freed, submit, submitted, gpu, releasing>>

\* The drawable was shown or skipped, or Metal let go of the handler.
Presented(s) ==
    /\ mark[s] = "handler"
    /\ resolve(s)
    /\ mark' = [mark EXCEPT ![s] = "none"]
    /\ UNCHANGED <<apiVars, draw, freed, pipeVars, gpu, releasing>>

-----------------------------------------------------------------------------

\* Nothing is left to do on a destroyed device.
Done ==
    /\ freed
    /\ UNCHANGED vars

ApiStep == LoadDraw \/ LoadFloor \/ Wait \/ Sleep
SubmitStep ==
    \/ \E waits \in BOOLEAN : Note(waits)
    \/ Commit \/ Push \/ retire_failed_submit \/ FailedRetired \/ execute_submit
PresenterStep ==
    drop_front \/ drop_unshown \/ drop_occluded \/ Release \/ resolve_when_presented

Next ==
    \/ Flush \/ Present
    \/ \E l \in Latencies : set_maximum_frame_latency(l)
    \/ ApiStep \/ CapFires
    \/ Reset \/ Shutdown \/ Destroyed
    \/ SubmitStep \/ EncodeFails
    \/ \E s \in Seqs : GpuEnds(s) \/ HandlerRetires(s) \/ retired(s) \/ Presented(s)
    \/ WaiterRetires
    \/ PresenterStep
    \/ Done

Spec == Init /\ [][Next]_vars

\* What runs whatever the display does: the threads, the GPU, Metal's handlers.
Progress ==
    /\ WF_vars(ApiStep)
    /\ WF_vars(SubmitStep)
    /\ WF_vars(PresenterStep)
    /\ \A s \in Seqs : WF_vars(GpuEnds(s)) /\ WF_vars(HandlerRetires(s)) /\ WF_vars(retired(s))

FairSpec == Spec /\ Progress

\* Time passes for a waiter on the paced half.
TimePasses == WF_vars(CapFires)

\* The display shows what it is given.
DisplayShows == \A s \in Seqs : WF_vars(Presented(s))

-----------------------------------------------------------------------------
(* Properties. *)

\* The submit thread has neither committed nor failed it, the GPU has not ended it, or its
\* paced present is owed.
Unfinished(s) ==
    \/ s > submitted /\ gpu[s] = "none" /\ ~(s = Current /\ submit \in {"published", "ending"})
    \/ gpu[s] = "committed"
    \/ s \in Range(paced)

\* When Present returns, at most as many presented frames as the latency it
\* enforced are unfinished (frame_latency.rs:3-5), whether it took the two
\* lock-free loads or the wait, and however flushes, latency changes, drops and
\* out-of-order completions went before.
LatencyBound ==
    api = "ready" /\ ~ended =>
        \/ bound = 0
        \/ Cardinality({s \in presenting : Unfinished(s)}) <= bound

\* The PE counter never stands at or past a paced present still owed, so the
\* lock-free reader of Present cannot take one for shown (frame_signal.rs:16-21).
\* Every present the signal still waits for has a mark left that will resolve
\* it: on its packet, or in the presented handler (frame_signal.rs:64-69).
FloorIsSound ==
    \A s \in Range(paced) : floor < s /\ mark[s] \in {"packet", "handler"}

\* Once the PE side freed the counters, no drop, handler or release writes the
\* paced floor (frame_signal.rs:192-196).
FreedFloorUntouched ==
    [][freed => floor' = floor]_vars

\* A Present that waits returns if time passes, though the display may never show
\* anything: the draw half by the handlers' wakeups alone, the paced half by its
\* cap.  It returns as well if the cap may never run out and the display shows
\* what it is given: the resolve that ends the wait also wakes it.
PresentReturns ==
    TimePasses \/ DisplayShows => (api # "ready" ~> api = "ready")

=============================================================================
