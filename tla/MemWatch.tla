------------------------------ MODULE MemWatch ------------------------------
(***************************************************************************)
(* The address-space watch of one device: presenting threads, serialised   *)
(* by the device's ApiLock, offer samples to the watch thread and answer   *)
(* its requests; the thread walks, steps the threshold latch the whole     *)
(* process shares, asks for the device's figures when a line is due, and   *)
(* logs.  Other devices' watch threads step the same latch.                *)
(*                                                                         *)
(* A walk is abstracted to the number of thresholds the free space is      *)
(* below; the two latches of the code step alike, so one is modelled.      *)
(***************************************************************************)
EXTENDS ApiLock, Integers, Sequences, SequencesExt

CONSTANTS
    SampleEvery,    \* SAMPLE_EVERY
    Thresholds,     \* how many thresholds the latch has
    MaxPresents,    \* bound: presents of the device
    MaxForeign      \* bound: samples of other devices

None == -1          \* NO_REQUEST
Unsampled == -1     \* UNSAMPLED
NoFigures == [index |-> None, taken |-> FALSE]

VARIABLES
    app,        \* where each presenting thread is
    taken,      \* the request a present has swapped out
    presents,   \* MemWatchState::presents
    link,       \* whether the ApiLink exists
    samples,    \* the one-deep sample queue
    request,    \* the request slot
    answers,    \* the answer queue
    watch,      \* where the watch thread is
    cur,        \* the sample it has: index, walk, latch as read, report
    latch,      \* NEXT_FREE_THRESHOLD
    reports,    \* the reports of the process, as a sequence of thresholds
    lines,      \* the lines logged: sample and figures
    foreign     \* samples other devices took

handoff == <<link, samples, request, answers>>
sampler == <<watch, cur, latch, reports, lines>>
vars == <<lockVars, app, taken, presents, handoff, sampler, foreign>>

NoSample == [index |-> None, below |-> 0, seen |-> 0, report |-> 0]

Init ==
    /\ LockInit
    /\ app = [t \in Threads |-> "out"] /\ taken = None
    /\ presents = 0 /\ link = TRUE
    /\ samples = << >> /\ request = None /\ answers = << >>
    /\ watch = "recv" /\ cur = NoSample
    /\ latch = Unsampled /\ reports = << >> /\ lines = {} /\ foreign = 0

At(t, pc) == app' = [app EXCEPT ![t] = pc]

-----------------------------------------------------------------------------
(* Present under the device's lock, and mem_watch_present inside it *)

Uncounted == {"enter", "count", "nested"}

Call(t) ==
    /\ app[t] = "out" /\ link
    /\ presents + Cardinality({u \in Threads : app[u] \in Uncounted}) < MaxPresents
    /\ At(t, "enter")
    /\ UNCHANGED <<lockVars, taken, presents, handoff, sampler, foreign>>

Enter(t) ==
    /\ app[t] = "enter"
    /\ \/ enter(t) /\ app' \in {[app EXCEPT ![t] = pc] : pc \in {"count", "nested"}}
       \/ block(t) /\ UNCHANGED app
    /\ UNCHANGED <<taken, presents, handoff, sampler, foreign>>

\* A call inside the call, through another thunk of the device.
Nested(t) ==
    /\ app[t] = "nested"
    /\ IF depth = 1 THEN enter(t) /\ UNCHANGED app ELSE leave(t) /\ At(t, "count")
    /\ UNCHANGED <<taken, presents, handoff, sampler, foreign>>

Wake(t) == SpuriousWake(t) /\ UNCHANGED <<app, taken, presents, handoff, sampler, foreign>>

\* The count, and take_request's load.
Count(t) ==
    /\ app[t] = "count"
    /\ presents' = presents + 1
    /\ At(t, IF request = None THEN "offer" ELSE "swap")
    /\ UNCHANGED <<lockVars, taken, handoff, sampler, foreign>>

\* take_request's swap, which a withdrawal may have emptied meanwhile.
Swap(t) ==
    /\ app[t] = "swap"
    /\ taken' = request /\ request' = None
    /\ At(t, IF request = None THEN "offer" ELSE "answer")
    /\ UNCHANGED <<lockVars, presents, link, samples, answers, sampler, foreign>>

\* device_figures and answer; the send to a thread that ended fails.
Answer(t) ==
    /\ app[t] = "answer"
    /\ answers' = IF watch = "ended" THEN answers
                  ELSE Append(answers, [index |-> taken, taken |-> TRUE])
    /\ taken' = None
    /\ At(t, "offer")
    /\ UNCHANGED <<lockVars, presents, link, samples, request, sampler, foreign>>

\* offer, on every SampleEvery-th present: queued, skipped or refused.
Offer(t) ==
    /\ app[t] = "offer"
    /\ LET n == presents - 1
       IN  samples' = IF n % SampleEvery = 0 /\ samples = << >> /\ watch # "ended"
                      THEN <<n \div SampleEvery>> ELSE samples
    /\ At(t, "leave")
    /\ UNCHANGED <<lockVars, taken, presents, link, request, answers, sampler, foreign>>

Leave(t) ==
    /\ app[t] = "leave" /\ leave(t)
    /\ At(t, "notify")
    /\ UNCHANGED <<taken, presents, handoff, sampler, foreign>>

Notify(t) ==
    /\ app[t] = "notify" /\ notify(t)
    /\ At(t, "out")
    /\ UNCHANGED <<taken, presents, handoff, sampler, foreign>>

-----------------------------------------------------------------------------
(* The device's release: MemWatchWorker::drop *)

\* The last release, with no other call in the device.
Release(t) ==
    /\ link /\ owner = "none" /\ \A u \in Threads : app[u] = "out"
    /\ link' = FALSE
    /\ At(t, "drop")
    /\ UNCHANGED <<lockVars, taken, presents, samples, request, answers, sampler, foreign>>

\* wait_until_finished, or no wait under the loader lock.
Dropped(t) ==
    /\ app[t] = "drop" /\ watch = "ended"
    /\ At(t, "gone")
    /\ UNCHANGED <<lockVars, taken, presents, handoff, sampler, foreign>>

DroppedInLoader(t) ==
    /\ app[t] = "drop" /\ watch # "ended"
    /\ At(t, "gone")
    /\ UNCHANGED <<lockVars, taken, presents, handoff, sampler, foreign>>

-----------------------------------------------------------------------------
(* The watch thread: WorkerLink::run over AddressSpaceWatch *)

\* threshold_step: from the latch to the lowest threshold the space is below.
threshold_step(next, below) ==
    LET from == IF next = Unsampled THEN 0 ELSE next
        index == IF below > from THEN below ELSE from
    IN  [next |-> index,
         report |-> IF next # Unsampled /\ index > from THEN index ELSE 0,
         steps |-> next = Unsampled \/ index > from]

\* samples.recv, the walk, and advance's load of the latch.
TakeSample ==
    /\ watch = "recv"
    /\ \/ /\ samples # << >>
          /\ \E below \in 0..Thresholds :
                 cur' = [index |-> Head(samples), below |-> below, seen |-> latch, report |-> 0]
          /\ samples' = << >> /\ watch' = "advance"
       \/ /\ samples = << >> /\ ~link
          /\ watch' = "ended" /\ UNCHANGED <<samples, cur>>
    /\ UNCHANGED <<lockVars, app, taken, presents, link, request, answers, latch, reports, lines,
                   foreign>>

\* advance's compare_exchange: a step another device overtook reports nothing.
advance ==
    /\ watch = "advance"
    /\ LET step == threshold_step(cur.seen, cur.below)
       IN  IF step.steps /\ latch = cur.seen
           THEN /\ latch' = step.next
                /\ cur' = [cur EXCEPT !.report = step.report]
                /\ reports' = IF step.report = 0 THEN reports ELSE Append(reports, step.report)
           ELSE UNCHANGED <<latch, cur, reports>>
    /\ watch' = "due"
    /\ UNCHANGED <<lockVars, app, taken, presents, handoff, lines, foreign>>

\* lines_due: a crossing, the breakdown or the first sample's line.  A due
\* sample asks for the figures.
Ask ==
    /\ watch = "due"
    /\ \/ request' = cur.index /\ watch' = "await" /\ UNCHANGED cur
       \/ cur.report = 0 /\ watch' = "recv" /\ cur' = NoSample /\ UNCHANGED request
    /\ UNCHANGED <<lockVars, app, taken, presents, link, samples, answers, latch, reports, lines,
                   foreign>>

LogLine(figures) ==
    /\ lines' = lines \cup {[index |-> cur.index, figures |-> figures]}
    /\ watch' = "recv" /\ cur' = NoSample

\* await_answer, mutated: the first answer is the one.
Answered_mutated ==
    /\ watch = "await" /\ answers # << >>
    /\ LogLine(Head(answers))
    /\ answers' = Tail(answers)
    /\ UNCHANGED <<lockVars, app, taken, presents, link, samples, request, latch, reports, foreign>>

\* await_answer with an answer there: its own, or a late one to discard.
Answered ==
    /\ watch = "await" /\ answers # << >>
    /\ IF Head(answers).index = cur.index THEN LogLine(Head(answers))
                                          ELSE UNCHANGED <<watch, cur, lines>>
    /\ answers' = Tail(answers)
    /\ UNCHANGED <<lockVars, app, taken, presents, link, samples, request, latch, reports, foreign>>

\* TimedOut, mutated: without figures nothing is logged.
TimedOut_mutated ==
    /\ watch = "await" /\ answers = << >> /\ link
    /\ watch' = "recv" /\ cur' = NoSample
    /\ request' = IF request = cur.index THEN None ELSE request
    /\ UNCHANGED <<lockVars, app, taken, presents, link, samples, answers, latch, reports, lines,
                   foreign>>

\* await_answer's timeout, with the request withdrawn unless it was taken.
TimedOut ==
    /\ watch = "await" /\ answers = << >> /\ link
    /\ LogLine(NoFigures)
    /\ request' = IF request = cur.index THEN None ELSE request
    /\ UNCHANGED <<lockVars, app, taken, presents, link, samples, answers, latch, reports, foreign>>

\* await_answer's disconnect: the presenting side is gone.
Ended ==
    /\ watch = "await" /\ answers = << >> /\ ~link
    /\ watch' = "ended" /\ cur' = NoSample
    /\ UNCHANGED <<lockVars, app, taken, presents, handoff, latch, reports, lines, foreign>>

\* A sample of another device: the same walk and advance on the shared latch.
ForeignSample ==
    /\ foreign < MaxForeign
    /\ foreign' = foreign + 1
    /\ \E below \in 0..Thresholds :
           LET step == threshold_step(latch, below)
           IN  /\ latch' = IF step.steps THEN step.next ELSE latch
               /\ reports' = IF step.report = 0 THEN reports ELSE Append(reports, step.report)
    /\ UNCHANGED <<lockVars, app, taken, presents, handoff, watch, cur, lines>>

-----------------------------------------------------------------------------

AppStep(t) ==
    \/ Enter(t) \/ Nested(t) \/ Count(t) \/ Swap(t) \/ Answer(t) \/ Offer(t) \/ Leave(t) \/ Notify(t)
    \/ Dropped(t)
WatchStep == TakeSample \/ advance \/ Ask \/ Answered \/ Ended
Next ==
    \/ \E t \in Threads : Call(t) \/ Wake(t) \/ Release(t) \/ DroppedInLoader(t) \/ AppStep(t)
    \/ WatchStep \/ TimedOut \/ ForeignSample

Spec == Init /\ [][Next]_vars

\* Threads inside a call and the watch thread run; its timeout expires.  The
\* program need not present, and nothing has to wake spuriously.
Fairness ==
    /\ \A t \in Threads : WF_vars(AppStep(t))
    /\ WF_vars(WatchStep) /\ WF_vars(TimedOut)

FairSpec == Spec /\ Fairness

-----------------------------------------------------------------------------
(* Properties *)

TypeOK ==
    /\ LockTypeOK
    /\ presents \in 0..MaxPresents /\ latch \in -1..Thresholds
    /\ Len(samples) <= 1 /\ request \in -1..MaxPresents
    /\ watch \in {"recv", "advance", "due", "await", "ended"}

\* "the sampler throws away an answer whose index is not the one it waits
\* for": a line's figures were taken for that very sample, however late the
\* answers to requests given up before; and when a sample asks, the slot is
\* empty ("The slot is empty here"), so no request is overwritten.
FiguresBelongToTheLine ==
    /\ \A l \in lines : l.figures.taken => l.figures.index = l.index
    /\ watch = "due" => request = None

\* A present that waits for the lock or holds it, a release that waits for the
\* watch thread, and the watch thread that waits for an answer.
Waits ==
    \/ \E t \in Threads : app[t] \notin {"out", "gone"}
    \/ watch \in {"due", "await"}

\* "a presenting side that stops presenting must not keep a crossed
\* threshold's warning from the log": a crossing this device reports is
\* logged, unless the device goes first.  "a threshold is crossed once however
\* many devices are live": every report of the process names a lower threshold
\* than the reports before it.
CrossingIsLogged ==
    [][ /\ cur.report # 0 /\ cur'.index # cur.index
             => (\E l \in lines' : l.index = cur.index) \/ ~link
        /\ \A i, j \in 1..Len(reports') : i < j => reports'[i] < reports'[j] ]_vars
=============================================================================
