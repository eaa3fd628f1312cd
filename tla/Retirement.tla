----------------------------- MODULE Retirement -----------------------------
(***************************************************************************)
(* Exact retirement of a device's command buffers                          *)
(* (src/unix/unix/src/metal/command.rs).                                   *)
(*                                                                         *)
(* A submission commits at most one upload buffer and exactly one draw     *)
(* buffer to the device's queue.  Each is registered in the in-flight map  *)
(* under its counter before it commits.  Completion handlers on Metal's    *)
(* threads, and the waits of the encoder and submit threads, retire the    *)
(* ended buffers of a counter from the oldest under the map's lock: an     *)
(* abort is recorded, the counter moves, the entry leaves.  The PE side    *)
(* reads the counters without any lock and frees what they cover.          *)
(*                                                                         *)
(* Submissions and waits are serialized: a wait runs on the encoder thread *)
(* only behind its drain of the submit thread, so one program counter      *)
(* stands for the thread that submits or waits.                            *)
(***************************************************************************)
EXTENDS Naturals, FiniteSetsExt

CONSTANT MaxSeq    \* bound on the submissions of a behaviour

ASSUME MaxSeqAssumption == MaxSeq \in Nat

VARIABLES
    submit_seq,    \* the newest submission begun
    pc,            \* where the submitting or waiting thread stands
    op,            \* what it runs: a submission, a failed one, a wait, teardown
    target,        \* the sequence a retirement wait was asked for
    upload_leg,    \* whether the wait has an upload counter ("yes", "no")
    through,       \* the sequence the wait covers
    waited,        \* the buffers wait_registered collected, by sequence
    pending,       \* the in-flight map: the registered sequences per counter
    status,        \* the Metal status of each counter's buffers
    counter,       \* the PE-side retirement counters
    failed_submit_seq, \* the PE-side failed-submission counter
    handlers,      \* ended buffers whose completion handler has not run
    lock,          \* the map's lock: "free", or the holder's retire_finished phase
    lock_owner,    \* who holds it: a completion handler or the thread
    retiring       \* the counter retire_finished works on

threadVars == <<submit_seq, pc, op, target, upload_leg, through, waited>>
mapVars == <<pending, lock, lock_owner, retiring>>
vars == <<threadVars, mapVars, status, counter, failed_submit_seq, handlers>>

Seqs == 1..MaxSeq
Counters == {"draw", "upload"}
Statuses == {"none", "committed", "completed", "error"}

Ops == {"submit", "failed", "wait", "teardown"}

PCs == {"idle", "upload_register", "upload_commit", "upload_idle",
        "draw_register", "draw_commit", "load", "find", "draw_collect", "draw_wait",
        "draw_retire", "upload_collect", "upload_wait", "upload_retire",
        "through_publish", "failed_publish", "failed_upload", "failed_draw",
        "freed"}

Larger(a, b) == IF a >= b THEN a ELSE b
Smaller(a, b) == IF a <= b THEN a ELSE b

\* The buffer ran to its end, as opposed to being released uncommitted.
ended(c, s) == status[c][s] \in {"completed", "error"}

UpTo(c, s) == {t \in pending[c] : t <= s}

\* fetch_max into one counter.
advance_counter(c, s) == counter' = [counter EXCEPT ![c] = Larger(@, s)]

-----------------------------------------------------------------------------

Init ==
    /\ submit_seq = 0
    /\ pc = "idle"
    /\ op = "submit"
    /\ target = 0
    /\ upload_leg = "no"
    /\ through = 0
    /\ waited = {}
    /\ pending = [c \in Counters |-> {}]
    /\ status = [c \in Counters |-> [s \in Seqs |-> "none"]]
    /\ counter = [c \in Counters |-> 0]
    /\ failed_submit_seq = 0
    /\ handlers = {}
    /\ lock = "free"
    /\ lock_owner = "nobody"
    /\ retiring = "none"

Goto(place) == pc' = place

\* The call returns: its locals are gone.
Return(place) ==
    /\ Goto(place)
    /\ op' = "submit"
    /\ target' = 0
    /\ upload_leg' = "no"
    /\ through' = 0
    /\ waited' = {}

Unlock == lock' = "free" /\ lock_owner' = "nobody" /\ retiring' = "none"

\* encode_frame up to its commits: everything is encoded and nothing has
\* committed.  A failed encode leaves through retire_failed_submit with
\* nothing of this submission registered.
BeginSubmission ==
    /\ pc = "idle"
    /\ submit_seq < MaxSeq
    /\ submit_seq' = submit_seq + 1
    /\ \/ /\ op' = "submit"
          /\ pc' \in {"upload_register", "upload_idle"}
          /\ UNCHANGED through
       \/ /\ op' = "failed"
          /\ through' = submit_seq + 1
          /\ Goto("draw_collect")
    /\ UNCHANGED <<target, upload_leg, waited, mapVars, status, counter,
                   failed_submit_seq, handlers>>

\* commit_registered's first half: put the buffer into the in-flight map.
register_pending(c, at, next) ==
    /\ pc = at
    /\ lock = "free"
    /\ pending' = [pending EXCEPT ![c] = @ \union {submit_seq}]
    /\ Goto(next)
    /\ UNCHANGED <<submit_seq, op, target, upload_leg, through, waited, lock,
                   lock_owner, retiring, status, counter, failed_submit_seq,
                   handlers>>

\* commit_registered's second half: hand the buffer to the queue.
Commit(c, at, next) ==
    /\ pc = at
    /\ status' = [status EXCEPT ![c][submit_seq] = "committed"]
    /\ Goto(next)
    /\ UNCHANGED <<submit_seq, op, target, upload_leg, through, waited, mapVars,
                   counter, failed_submit_seq, handlers>>

\* MUTANT: the counter moves past upload buffers still in flight.
publish_idle_upload_unchecked ==
    /\ pc = "upload_idle"
    /\ lock = "free"
    /\ advance_counter("upload", submit_seq)
    /\ Goto("draw_register")
    /\ UNCHANGED <<submit_seq, op, target, upload_leg, through, waited, mapVars,
                   status, failed_submit_seq, handlers>>

\* A submission without an upload buffer moves the upload counter only when
\* no upload buffer is in flight.
publish_idle_upload ==
    /\ pc = "upload_idle"
    /\ lock = "free"
    /\ IF pending["upload"] = {}
       THEN advance_counter("upload", submit_seq)
       ELSE UNCHANGED counter
    /\ Goto("draw_register")
    /\ UNCHANGED <<submit_seq, op, target, upload_leg, through, waited, mapVars,
                   status, failed_submit_seq, handlers>>

-----------------------------------------------------------------------------

\* Where a call returns to: teardown frees the counters after its wait.
Done == IF op = "teardown" THEN "freed" ELSE "idle"

\* wait_for_gpu_retire is called: on behalf of a flush, an intake, a drain of
\* retention or teardown.  A target may name a sequence that was never
\* submitted (a frame whose replay failed); 0 returns at once.
wait_for_gpu_retire ==
    /\ pc = "idle"
    /\ target' \in 1..(submit_seq + 1)
    /\ \/ op' = "wait" /\ upload_leg' \in {"yes", "no"}
       \/ op' = "teardown" /\ upload_leg' = "yes" /\ target' >= submit_seq
    /\ Goto("load")
    /\ UNCHANGED <<submit_seq, through, waited, mapVars, status, counter,
                   failed_submit_seq, handlers>>

\* Where a wait goes once its draw half is done, having covered s.
AfterDraw(s) ==
    IF upload_leg = "no" \/ s = 0
    THEN Return(Done)
    ELSE Goto("upload_collect") /\ through' = s
         /\ UNCHANGED <<op, target, upload_leg, waited>>

\* A target already retired skips the draw half.
LoadCounter ==
    /\ pc = "load"
    /\ IF counter["draw"] >= target
       THEN AfterDraw(target)
       ELSE Goto("find") /\ UNCHANGED <<op, target, upload_leg, through, waited>>
    /\ UNCHANGED <<submit_seq, mapVars, status, counter, failed_submit_seq,
                   handlers>>

\* The smallest registered sequence at or past the target, else the latest
\* earlier one.
first_pending(c) ==
    IF \E s \in pending[c] : s >= target
    THEN Min({s \in pending[c] : s >= target})
    ELSE Max(pending[c])

\* No registered draw work left: the upload leg runs to the counter's value.
FindThrough ==
    /\ pc = "find"
    /\ lock = "free"
    /\ IF pending["draw"] = {}
       THEN AfterDraw(counter["draw"])
       ELSE /\ through' = first_pending("draw")
            /\ Goto("draw_collect")
            /\ UNCHANGED <<op, target, upload_leg, waited>>
    /\ UNCHANGED <<submit_seq, mapVars, status, counter, failed_submit_seq,
                   handlers>>

\* wait_registered: copy the list under the lock and drop it.
Collect(c, at, next) ==
    /\ pc = at
    /\ lock = "free"
    /\ waited' = UpTo(c, through)
    /\ Goto(next)
    /\ UNCHANGED <<submit_seq, op, target, upload_leg, through, mapVars, status,
                   counter, failed_submit_seq, handlers>>

\* MUTANT: the wait retires without waiting for its buffers.
RetireWithoutWaiting(c, at, next) ==
    /\ pc = at
    /\ lock = "free"
    /\ lock' = "scan"
    /\ lock_owner' = "thread"
    /\ retiring' = c
    /\ waited' = {}
    /\ Goto(next)
    /\ UNCHANGED <<submit_seq, op, target, upload_leg, through, pending,
                   status, counter, failed_submit_seq, handlers>>

\* waitUntilCompleted on every buffer of the list, then retire_finished.
WaitThenRetire(c, at, next) ==
    /\ pc = at
    /\ \A s \in waited : ended(c, s)
    /\ lock = "free"
    /\ lock' = "scan"
    /\ lock_owner' = "thread"
    /\ retiring' = c
    /\ waited' = {}
    /\ Goto(next)
    /\ UNCHANGED <<submit_seq, op, target, upload_leg, through, pending,
                   status, counter, failed_submit_seq, handlers>>

\* MUTANT: the upload leg waits and publishes nothing of its own.
publish_upload_through_dropped ==
    /\ pc = "through_publish"
    /\ Return(Done)
    /\ UNCHANGED <<submit_seq, mapVars, status, counter, failed_submit_seq, handlers>>

\* Nothing registered at or below through: submissions in that range without
\* an upload buffer are covered.
publish_upload_through ==
    /\ pc = "through_publish"
    /\ lock = "free"
    /\ IF UpTo("upload", through) = {}
       THEN advance_counter("upload", through)
       ELSE UNCHANGED counter
    /\ Return(Done)
    /\ UNCHANGED <<submit_seq, mapVars, status, failed_submit_seq, handlers>>

\* retire_failed_submit's three publications, in its order: the failure, the
\* upload counter, the draw counter.
retire_failed_submit ==
    /\ \/ /\ pc = "failed_publish"
          /\ failed_submit_seq' = Larger(failed_submit_seq, submit_seq)
          /\ Goto("failed_upload")
          /\ UNCHANGED <<op, target, upload_leg, through, waited, counter>>
       \/ /\ pc = "failed_upload"
          /\ advance_counter("upload", submit_seq)
          /\ Goto("failed_draw")
          /\ UNCHANGED <<op, target, upload_leg, through, waited, failed_submit_seq>>
       \/ /\ pc = "failed_draw"
          /\ advance_counter("draw", submit_seq)
          /\ Return("idle")
          /\ UNCHANGED failed_submit_seq
    /\ UNCHANGED <<submit_seq, mapVars, status, handlers>>

-----------------------------------------------------------------------------

\* External: Metal ends a committed buffer, whole or aborted, in any order.
GpuEnds(c, s) ==
    /\ status[c][s] = "committed"
    /\ \E outcome \in {"completed", "error"} :
          status' = [status EXCEPT ![c][s] = outcome]
    /\ handlers' = handlers \union {<<c, s>>}
    /\ UNCHANGED <<threadVars, mapVars, counter, failed_submit_seq>>

\* The completion handler of an ended buffer enters retire_finished.
HandlerRuns(c, s) ==
    /\ <<c, s>> \in handlers
    /\ lock = "free"
    /\ handlers' = handlers \ {<<c, s>>}
    /\ lock' = "scan"
    /\ lock_owner' = "handler"
    /\ retiring' = c
    /\ UNCHANGED <<threadVars, pending, status, counter, failed_submit_seq>>

Oldest(c) == Min(pending[c])

\* MUTANT: a wait records an aborted buffer as retired and nothing else.
record_failed_submit_by_handlers_only ==
    /\ lock = "scan"
    /\ pending[retiring] # {}
    /\ ended(retiring, Oldest(retiring))
    /\ failed_submit_seq' =
          IF /\ status[retiring][Oldest(retiring)] = "error"
             /\ lock_owner = "handler"
          THEN Larger(failed_submit_seq, Oldest(retiring))
          ELSE failed_submit_seq
    /\ lock' = "recorded"
    /\ UNCHANGED <<threadVars, pending, lock_owner, retiring, status, counter,
                   handlers>>

\* retire_finished, one round under the lock: the oldest entry has ended, so
\* its abort is recorded ...
record_failed_submit ==
    /\ lock = "scan"
    /\ pending[retiring] # {}
    /\ ended(retiring, Oldest(retiring))
    /\ failed_submit_seq' =
          IF status[retiring][Oldest(retiring)] = "error"
          THEN Larger(failed_submit_seq, Oldest(retiring))
          ELSE failed_submit_seq
    /\ lock' = "recorded"
    /\ UNCHANGED <<threadVars, pending, lock_owner, retiring, status, counter,
                   handlers>>

\* Where the thread goes once it has retired one counter.
AfterRetire ==
    CASE pc = "draw_retire" /\ op # "failed" -> AfterDraw(through)
      [] pc = "draw_retire" /\ op = "failed" ->
            Goto("upload_collect") /\ UNCHANGED <<op, target, upload_leg, through, waited>>
      [] pc = "upload_retire" /\ op = "failed" ->
            Goto("failed_publish") /\ UNCHANGED <<op, target, upload_leg, through, waited>>
      [] OTHER ->
            Goto("through_publish") /\ UNCHANGED <<op, target, upload_leg, through, waited>>

\* retire_finished returns to its caller.
LeaveRetire ==
    /\ Unlock
    /\ IF lock_owner = "thread"
       THEN AfterRetire
       ELSE UNCHANGED <<pc, op, target, upload_leg, through, waited>>

\* MUTANT: one entry per call instead of every ended one.
RetireOldestOnly ==
    /\ lock = "recorded"
    /\ advance_counter(retiring, Oldest(retiring))
    /\ pending' = [pending EXCEPT ![retiring] = @ \ {Oldest(retiring)}]
    /\ LeaveRetire
    /\ UNCHANGED <<submit_seq, status, failed_submit_seq, handlers>>

\* MUTANT: every ended entry leaves the map once the oldest is published.
RetireAllEnded ==
    /\ lock = "recorded"
    /\ advance_counter(retiring, Oldest(retiring))
    /\ pending' = [pending EXCEPT
          ![retiring] = {s \in @ : ~ended(retiring, s)}]
    /\ lock' = "scan"
    /\ UNCHANGED <<threadVars, lock_owner, retiring, status, failed_submit_seq,
                   handlers>>

\* ... then the counter moves past it and the entry leaves the map.
RetireOldest ==
    /\ lock = "recorded"
    /\ advance_counter(retiring, Oldest(retiring))
    /\ pending' = [pending EXCEPT ![retiring] = @ \ {Oldest(retiring)}]
    /\ lock' = "scan"
    /\ UNCHANGED <<threadVars, lock_owner, retiring, status, failed_submit_seq,
                   handlers>>

\* The first entry still running, or an empty range, ends the loop.
RetireStops ==
    /\ lock = "scan"
    /\ pending[retiring] # {} => ~ended(retiring, Oldest(retiring))
    /\ LeaveRetire
    /\ UNCHANGED <<submit_seq, pending, status, counter, failed_submit_seq,
                   handlers>>

-----------------------------------------------------------------------------

Submit ==
    \/ BeginSubmission
    \/ register_pending("upload", "upload_register", "upload_commit")
    \/ Commit("upload", "upload_commit", "draw_register")
    \/ publish_idle_upload
    \/ register_pending("draw", "draw_register", "draw_commit")
    \/ Commit("draw", "draw_commit", "idle")

Wait ==
    \/ wait_for_gpu_retire
    \/ LoadCounter
    \/ FindThrough
    \/ Collect("draw", "draw_collect", "draw_wait")
    \/ WaitThenRetire("draw", "draw_wait", "draw_retire")
    \/ Collect("upload", "upload_collect", "upload_wait")
    \/ WaitThenRetire("upload", "upload_wait", "upload_retire")
    \/ publish_upload_through
    \/ retire_failed_submit

retire_finished == record_failed_submit \/ RetireOldest \/ RetireStops

Metal == \E c \in Counters, s \in Seqs : GpuEnds(c, s) \/ HandlerRuns(c, s)

\* After teardown only the handlers still out run.
Terminated == pc = "freed" /\ handlers = {} /\ lock = "free" /\ UNCHANGED vars

Next == Submit \/ Wait \/ retire_finished \/ Metal \/ Terminated

Spec == Init /\ [][Next]_vars

\* The thread goes on once it has begun a submission or a wait, a holder of
\* the map's lock finishes its loop, and Metal ends what was committed and
\* runs the handlers; a handler blocked on the lock gets it at some point even
\* if waits keep taking it.  Nothing makes the API thread ask for anything.
Fairness ==
    /\ WF_vars(pc # "idle" /\ (Submit \/ Wait))
    /\ WF_vars(retire_finished)
    /\ WF_vars(\E c \in Counters, s \in Seqs : GpuEnds(c, s))
    /\ SF_vars(\E c \in Counters, s \in Seqs : HandlerRuns(c, s))

FairSpec == Spec /\ Fairness

-----------------------------------------------------------------------------

TypeOK ==
    /\ submit_seq \in 0..MaxSeq
    /\ pc \in PCs
    /\ op \in Ops
    /\ target \in 0..(MaxSeq + 1)
    /\ upload_leg \in {"yes", "no"}
    /\ through \in 0..MaxSeq
    /\ waited \in SUBSET Seqs
    /\ pending \in [Counters -> SUBSET Seqs]
    /\ status \in [Counters -> [Seqs -> Statuses]]
    /\ counter \in [Counters -> 0..MaxSeq]
    /\ failed_submit_seq \in 0..MaxSeq
    /\ handlers \in SUBSET (Counters \X Seqs)
    /\ lock \in {"free", "scan", "recorded"}
    /\ lock_owner \in {"nobody", "handler", "thread"}
    /\ retiring \in Counters \union {"none"}

\* The places of a submission before its buffer of a counter has committed.
BeforeCommit ==
    [c \in Counters |->
        IF c = "upload"
        THEN {"upload_register", "upload_commit"}
        ELSE {"upload_register", "upload_commit", "upload_idle",
              "draw_register", "draw_commit"}]

\* Every buffer of a counter that has not ended: running on the GPU, or of a
\* submission that is still to commit it.
Outstanding(c) ==
    {s \in Seqs : status[c][s] = "committed"}
        \union (IF pc \in BeforeCommit[c] THEN {submit_seq} ELSE {})

\* A counter never stands at or past a buffer that has not ended, so a gate
\* on it frees nothing the GPU still reads: not after completions reported
\* out of order, a submission with no upload buffer, a failed submission or a
\* retirement wait (retire_finished, publish_idle_upload,
\* publish_upload_through, retire_failed_submit).
CountersExact ==
    \A c \in Counters : \A s \in Outstanding(c) : counter[c] < s

\* Whoever reads a counter at an aborted buffer's sequence and then reads
\* failed_submit_seq sees the abort: record_failed_submit stores before
\* advance_counter, on handler and wait paths alike.
AbortSeenBeforeRetirement ==
    \A c \in Counters, s \in Seqs :
        status[c][s] = "error" /\ counter[c] >= s => failed_submit_seq >= s

\* An empty range of the in-flight map means everything registered in it is
\* published, the fact publish_idle_upload and publish_upload_through rest on.
EmptyMeansPublished ==
    \A c \in Counters, s \in Seqs :
        status[c][s] # "none" /\ s \notin pending[c] => counter[c] >= s

\* A retirement wait that returns has published its target, or everything
\* submitted when the target was never submitted: on the draw counter, and on
\* the upload counter when it has that leg (wait_for_gpu_retire).
WaitReturnsCovered ==
    [][ (op \in {"wait", "teardown"} /\ pc # "idle" /\ pc' \in {"idle", "freed"})
        => LET covered == Smaller(target, submit_seq)
           IN  /\ counter'["draw"] >= covered
               /\ upload_leg = "yes" => counter'["upload"] >= covered
      ]_vars

\* Once teardown has waited the PE side frees the counters, and a completion
\* handler that runs after that finds its entry gone and writes nothing.
LateHandlerWritesNothing ==
    [][pc = "freed" => UNCHANGED <<counter, failed_submit_seq>>]_vars

\* Every committed buffer is published in the end, whatever order Metal
\* reported the completions in, with no wait needed.  No wait, and no failed
\* submission's cleanup, hangs on a registered buffer.
EveryBufferRetires ==
    /\ \A c \in Counters, s \in Seqs :
          (status[c][s] = "committed") ~> (counter[c] >= s)
    /\ (pc # "idle") ~> (pc \in {"idle", "freed"})
=============================================================================
