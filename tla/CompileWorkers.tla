--------------------------- MODULE CompileWorkers ---------------------------
(***************************************************************************)
(* The shader and pipeline builds of one encoder (encoder/compile.rs, the  *)
(* lanes and the deferred draws of async_compile.rs, the two slow paths of  *)
(* draw.rs).  The encoder queues builds, a pool of workers runs them, and   *)
(* the results come back over a channel.  A draw whose build is in flight   *)
(* is left out, bound to a placeholder its submission resolves, or waited   *)
(* for; a wait takes unstarted builds back and runs them itself.            *)
(*                                                                          *)
(* Workers are interchangeable, so the model counts them.  A worker in the  *)
(* condition variable is idle; a notified one (woken) stays counted idle    *)
(* until it holds the lock again.  A worker leaves its loop only when the   *)
(* queue closes and a panic aborts the process, so no worker is lost with a *)
(* build and abandon_lost_builds never runs: WaitsEnd says that every wait   *)
(* ends through the builds themselves.                                      *)
(***************************************************************************)
EXTENDS Integers, Sequences, FiniteSets, FiniteSetsExt, SequencesExt

CONSTANTS Pipelines,     \* the pipelines draws name
          VsOf, PsOf,    \* the vertex and the pixel library of a pipeline
          Twin,          \* the no-colour variant of a pipeline
          Twins,         \* pipelines with depth and no colour writes: it is built beside them
          Fallible,      \* builds the compiler may reject
          MaxWorkers,    \* COMPILE_WORKERS
          MaxDraws, MaxSubmits, MaxResets

Libraries == {VsOf[p] : p \in Pipelines} \cup {PsOf[p] : p \in Pipelines}
Keys == Libraries \cup Pipelines \cup {Twin[p] : p \in Pipelines}

VARIABLES
    enc,       \* the encoder's tables and the shared lanes (record, see Init)
    ready,     \* workers about to ask for a job
    running,   \* jobs the workers run
    results,   \* the result channel
    pc,        \* where the encoder thread is
    draws,     \* what the submission being encoded binds
    submitted, \* the binds of the last submission, as handed on
    made,      \* keys whose build created a Metal object
    count      \* draws, submissions and resets so far

vars == <<enc, ready, running, results, pc, draws, submitted, made, count>>

----------------------------------------------------------------------------
(* The lanes.  A job is [t |-> ticket, k |-> key].                          *)

Queued(s) == s.urgent \o s.pipelines \o s.normal

push(s, k, lane) ==
    LET t == s.tickets + 1
        job == [t |-> t, k |-> k]
    IN  [s EXCEPT !.tickets = t,
                  !.inFlight = @ \cup {t},
                  !.pending[k] = t,
                  !.pipelines = IF lane = "pipelines" THEN Append(@, job) ELSE @,
                  !.normal = IF lane = "normal" THEN Append(@, job) ELSE @,
                  !.woken = Min({@ + 1, s.idle})]

Without(lane, t) == SelectSeq(lane, LAMBDA job : job.t # t)

\* A promote that copies the job instead of moving it.
promote_mutated(s, t) ==
    LET moved == SelectSeq(s.pipelines \o s.normal, LAMBDA job : job.t = t)
    IN  [s EXCEPT !.urgent = @ \o moved]

promote(s, t) ==
    LET moved == SelectSeq(s.pipelines \o s.normal, LAMBDA job : job.t = t)
    IN  [s EXCEPT !.urgent = @ \o moved,
                  !.pipelines = Without(@, t),
                  !.normal = Without(@, t)]

\* The jobs a waiting encoder may take back, the first one first: its own in the
\* order it names them, then any urgent one; with share the oldest urgent jobs
\* are left to the idle workers.
Stealable(s, tickets, share) ==
    LET free == SubSeq(s.urgent, (IF share THEN s.idle ELSE 0) + 1, Len(s.urgent))
        own(t) == SelectSeq(free, LAMBDA job : job.t = t)
    IN  FlattenSeq([i \in DOMAIN tickets |-> own(tickets[i])]) \o free

----------------------------------------------------------------------------
(* Resolving a key and installing a result.                                 *)

resolve(s, k, lane) ==
    IF s.built[k] = "unknown" /\ s.pending[k] = 0 THEN push(s, k, lane) ELSE s

queue_no_color_sibling(s, p) ==
    IF p \in Twins THEN resolve(s, Twin[p], "normal") ELSE s

\* A deferred draw: the tickets of the libraries it waits for (0: built), then
\* the ticket of its pipeline.
Record(st, vs, ps, t, p) == [st |-> st, vs |-> vs, ps |-> ps, t |-> t, p |-> p]

resolve_recorded_pipeline(s, i) ==
    LET p == s.deferred[i].p
        r == resolve(s, p, "pipelines")
    IN  CASE r.built[p] = "ready"  -> [r EXCEPT !.deferred[i] = Record("ready", 0, 0, 0, p)]
          [] r.built[p] = "failed" -> [r EXCEPT !.deferred[i] = Record("failed", 0, 0, 0, p)]
          [] OTHER -> [promote(r, r.pending[p]) EXCEPT
                          !.deferred[i] = Record("pipeline", 0, 0, r.pending[p], p)]

\* Every record whose two libraries are in goes on to its pipeline.
advance(s) ==
    LET Step(r, i) ==
            IF r.deferred[i].st = "libs" /\ r.deferred[i].vs = 0 /\ r.deferred[i].ps = 0
            THEN resolve_recorded_pipeline(r, i) ELSE r
    IN  FoldLeft(Step, s, [i \in 1..Len(s.deferred) |-> i])

Landed(d, r) ==
    CASE d.st = "libs" /\ r.t \in {d.vs, d.ps} ->
            IF r.ok THEN [d EXCEPT !.vs = IF @ = r.t THEN 0 ELSE @,
                                   !.ps = IF @ = r.t THEN 0 ELSE @]
            ELSE Record("failed", 0, 0, 0, d.p)
      [] d.st = "pipeline" /\ d.t = r.t ->
            Record(IF r.ok THEN "ready" ELSE "failed", 0, 0, 0, d.p)
      [] OTHER -> d

\* An install that leaves the deferred draws to the next draw.
install_mutated(s, r) ==
    [s EXCEPT !.inFlight = @ \ {r.t},
              !.pending[r.k] = 0,
              !.built[r.k] = IF r.ok THEN "ready" ELSE "failed"]

install_compile(s, r) ==
    advance([s EXCEPT !.inFlight = @ \ {r.t},
                      !.pending[r.k] = 0,
                      !.built[r.k] = IF r.ok THEN "ready" ELSE "failed",
                      !.deferred = [i \in DOMAIN @ |-> Landed(@[i], r)]])

\* Every finished build is installed, in channel order.
drain_compile_results(s, rs) == FoldLeft(install_compile, s, rs)

\* A wait that forgets the pixel libraries.
pending_tickets_mutated(s) ==
    LET of(d) == SelectSeq(<<d.vs, d.t>>, LAMBDA t : t # 0)
    IN  FlattenSeq([i \in DOMAIN s.deferred |-> of(s.deferred[i])])

\* The tickets the deferred draws still wait for, in the order of their records.
pending_tickets(s) ==
    LET of(d) == SelectSeq(<<d.vs, d.ps, d.t>>, LAMBDA t : t # 0)
    IN  FlattenSeq([i \in DOMAIN s.deferred |-> of(s.deferred[i])])

PromoteAll(s, ts) ==
    FoldLeft(promote, s, SelectSeq(ts, LAMBDA t : t \in s.inFlight))

\* A deferred draw shares the previous record when it waits for the same builds
\* of the same pipeline.
defer(s, d) ==
    IF s.deferred # <<>> /\ Last(s.deferred) = d THEN s
    ELSE [s EXCEPT !.deferred = Append(@, d)]

defer_pipeline(s, d) == defer(PromoteAll(s, <<d.vs, d.ps, d.t>>), d)

----------------------------------------------------------------------------
Encode == [at |-> "encode"]

Init ==
    /\ \E n \in 0..MaxWorkers, async \in BOOLEAN :
         /\ ready = n
         /\ enc = [urgent |-> <<>>, pipelines |-> <<>>, normal |-> <<>>,
                   idle |-> 0, woken |-> 0, closed |-> FALSE, tickets |-> 0,
                   inFlight |-> {}, pending |-> [k \in Keys |-> 0],
                   built |-> [k \in Keys |-> "unknown"], deferred |-> <<>>,
                   async |-> async /\ n > 0]
    /\ running = {} /\ results = <<>> /\ pc = Encode
    /\ draws = <<>> /\ submitted = <<>> /\ made = {}
    /\ count = [draws |-> 0, submits |-> 0, resets |-> 0]

Outcomes(k) == IF k \in Fallible THEN BOOLEAN ELSE {TRUE}

----------------------------------------------------------------------------
(* The workers (next_for_worker, worker_main_with).                         *)

\* One pass of the loop under the lock, by a worker that was ready or woken.
NextForWorker(s, r) ==
    \/ /\ Queued(s) # <<>>
       /\ LET job == Head(Queued(s)) IN
          /\ running' = running \cup {job}
          /\ enc' = [s EXCEPT !.urgent = Without(@, job.t), !.pipelines = Without(@, job.t),
                              !.normal = Without(@, job.t)]
       /\ ready' = r
    \/ /\ Queued(s) = <<>> /\ ~s.closed
       /\ enc' = [s EXCEPT !.idle = @ + 1]
       /\ ready' = r /\ UNCHANGED running
    \/ /\ Queued(s) = <<>> /\ s.closed
       /\ enc' = s /\ ready' = r /\ UNCHANGED running

next_for_worker ==
    /\ \/ ready > 0 /\ NextForWorker(enc, ready - 1)
       \/ /\ enc.woken > 0
          /\ NextForWorker([enc EXCEPT !.idle = @ - 1, !.woken = @ - 1], ready)
    /\ UNCHANGED <<results, pc, draws, submitted, made, count>>

\* A condition variable may wake a worker nobody notified.
SpuriousWake ==
    /\ enc.woken < enc.idle
    /\ enc' = [enc EXCEPT !.woken = @ + 1]
    /\ UNCHANGED <<ready, running, results, pc, draws, submitted, made, count>>

Made(k, ok) == made' = IF ok THEN made \cup {k} ELSE made

run_job(job) ==
    /\ job \in running
    /\ \E ok \in Outcomes(job.k) :
         /\ results' = Append(results, [t |-> job.t, k |-> job.k, ok |-> ok])
         /\ Made(job.k, ok)
    /\ running' = running \ {job}
    /\ ready' = ready + 1
    /\ UNCHANGED <<enc, pc, draws, submitted, count>>

NoWorkers == ready + enc.idle + Cardinality(running) = 0

----------------------------------------------------------------------------
(* A draw: resolve_libraries_slow, then get_or_create_pipeline and          *)
(* resolve_pipeline_slow.  rt0 marks a draw leaving render target 0 out,    *)
(* which names the no-colour twin and may not be deferred; skip stands for  *)
(* targets rebuilt every frame with no occlusion query counting.            *)

Back(s) == enc' = s /\ pc' = Encode
Drop(s) == Back(s) /\ UNCHANGED draws
WaitFor(s, ts, share, then, d) ==
    /\ enc' = PromoteAll(s, ts)
    /\ pc' = [at |-> "wait", tickets |-> ts, share |-> share, then |-> then, draw |-> d]
    /\ UNCHANGED draws

Key(d) == IF d.rt0 THEN Twin[d.p] ELSE d.p

skip_pending_draw(s, d) == s.async /\ d.skip

Bind(s, d) ==
    /\ Back(IF d.rt0 THEN s ELSE queue_no_color_sibling(s, d.p))
    /\ draws' = Append(draws, [p |-> d.p, bind |-> Key(d), id |-> 0])

BindPlaceholder(s, d, record) ==
    /\ Back(defer_pipeline(s, record))
    /\ draws' = Append(draws, [p |-> d.p, bind |-> "placeholder",
                               id |-> Len(defer_pipeline(s, record).deferred)])

PipelineResolved(s, d, waited) ==
    \/ s.built[Key(d)] = "ready" /\ Bind(s, d)
    \/ s.built[Key(d)] = "failed" /\ Drop(s)
    \/ /\ s.built[Key(d)] = "unknown"
       /\ \/ (waited \/ skip_pending_draw(s, d)) /\ Drop(s)
          \/ /\ ~waited /\ ~skip_pending_draw(s, d)
             /\ \/ ~d.rt0 /\ BindPlaceholder(s, d, Record("pipeline", 0, 0, s.pending[d.p], d.p))
                \/ d.rt0 /\ WaitFor(s, <<s.pending[Key(d)]>>, FALSE, "pipe", d)

\* A failed no-colour pipeline is retried once with render target 0 attached.
resolve_pipeline_slow(s0, d, waited) ==
    LET s == resolve(s0, Key(d), "pipelines")
        plain == [d EXCEPT !.rt0 = FALSE]
    IN  IF d.rt0 /\ s.built[Key(d)] = "failed"
        THEN PipelineResolved(resolve(s, d.p, "pipelines"), plain, FALSE)
        ELSE PipelineResolved(s, d, waited)

\* The first resolve; a pending one installs what finished (rs) and looks again.
get_or_create_pipeline(s0, d, rs) ==
    LET s == resolve(s0, Key(d), "pipelines")
        pending == s.built[Key(d)] = "unknown"
    IN  /\ resolve_pipeline_slow(IF pending THEN drain_compile_results(s, rs) ELSE s, d, FALSE)
        /\ results' = IF pending THEN <<>> ELSE rs

resolve_libraries_slow(s0, d, waited, rs) ==
    LET vs == VsOf[d.p]
        ps == PsOf[d.p]
        a == resolve(s0, vs, "normal")
        s == IF a.built[vs] = "failed" THEN a ELSE resolve(a, ps, "normal")
        record == Record("libs", s.pending[vs], s.pending[ps], 0, d.p)
        found == {s.built[vs], s.built[ps]}
    IN  \/ found = {"ready"} /\ get_or_create_pipeline(s, d, rs)
        \/ /\ "failed" \in found \/ waited \/ skip_pending_draw(s, d)
           /\ found # {"ready"}
           /\ Drop(s) /\ results' = rs
        \/ /\ "failed" \notin found /\ "unknown" \in found
           /\ ~waited /\ ~skip_pending_draw(s, d)
           /\ results' = rs
           /\ \/ ~d.rt0 /\ BindPlaceholder(s, d, record)
              \/ /\ d.rt0
                 /\ WaitFor(s, SelectSeq(<<record.vs, record.ps>>, LAMBDA t : t # 0),
                            FALSE, "libs", d)

\* A draw is sent down the slow path unless both its libraries are built.
emit_draw(p) ==
    /\ pc = Encode /\ count.draws < MaxDraws
    /\ count' = [count EXCEPT !.draws = @ + 1]
    /\ \E rt0 \in (IF p \in Twins THEN BOOLEAN ELSE {FALSE}), skip \in BOOLEAN :
         LET d == [p |-> p, rt0 |-> rt0, skip |-> skip] IN
         IF enc.built[VsOf[p]] = "ready" /\ enc.built[PsOf[p]] = "ready"
         THEN get_or_create_pipeline(enc, d, results)
         ELSE resolve_libraries_slow(drain_compile_results(enc, results), d, FALSE, <<>>)
    /\ submitted' = <<>>
    /\ UNCHANGED <<ready, running, made>>

\* A new frame installs what finished.
begin_frame ==
    /\ pc = Encode /\ results # <<>>
    /\ enc' = drain_compile_results(enc, results) /\ results' = <<>>
    /\ UNCHANGED <<ready, running, pc, draws, submitted, made, count>>

----------------------------------------------------------------------------
(* wait_until_installed.                                                    *)

InFlight == \E i \in DOMAIN pc.tickets : pc.tickets[i] \in enc.inFlight

\* The next build to take back runs on this thread.
Steal ==
    /\ pc.at = "wait" /\ InFlight
    /\ LET free == Stealable(enc, pc.tickets, pc.share) IN
       /\ free # <<>>
       /\ pc' = [at |-> "build", tickets |-> pc.tickets, share |-> pc.share,
                 then |-> pc.then, draw |-> pc.draw, job |-> Head(free)]
       /\ enc' = [enc EXCEPT !.urgent = Without(@, Head(free).t)]
    /\ UNCHANGED <<ready, running, results, draws, submitted, made, count>>

Loop(at) == [at |-> at, tickets |-> pc.tickets, share |-> pc.share,
             then |-> pc.then, draw |-> pc.draw]

BuildStolen ==
    /\ pc.at = "build"
    /\ \E ok \in Outcomes(pc.job.k) :
         /\ enc' = install_compile(enc, [t |-> pc.job.t, k |-> pc.job.k, ok |-> ok])
         /\ Made(pc.job.k, ok)
    /\ pc' = Loop("wait")
    /\ UNCHANGED <<ready, running, results, draws, submitted, count>>

\* Nothing to take back: the encoder blocks on the channel.
Block ==
    /\ pc.at = "wait" /\ InFlight /\ Stealable(enc, pc.tickets, pc.share) = <<>>
    /\ pc' = Loop("recv")
    /\ UNCHANGED <<enc, ready, running, results, draws, submitted, made, count>>

Recv ==
    /\ pc.at = "recv" /\ results # <<>>
    /\ enc' = install_compile(enc, Head(results)) /\ results' = Tail(results)
    /\ pc' = Loop("wait")
    /\ UNCHANGED <<ready, running, draws, submitted, made, count>>

Waited ==
    /\ pc.at = "wait" /\ ~InFlight
    /\ pc' = Loop("return")
    /\ UNCHANGED <<enc, ready, running, results, draws, submitted, made, count>>

\* The draw that waited resolves again.
WaitedDraw ==
    /\ pc.at = "return" /\ pc.then \in {"libs", "pipe"}
    /\ \/ /\ pc.then = "libs"
          /\ resolve_libraries_slow(enc, pc.draw, TRUE, results)
       \/ /\ pc.then = "pipe"
          /\ resolve_pipeline_slow(enc, pc.draw, TRUE) /\ UNCHANGED results
    /\ UNCHANGED <<ready, running, submitted, made, count>>

----------------------------------------------------------------------------
(* resolve_deferred_draws, Reset and teardown.                              *)

NoDraw == [p |-> "none", rt0 |-> FALSE, skip |-> FALSE]

\* The binds a submission hands on: a failed placeholder goes with its draw.
answer(s) ==
    LET kept == SelectSeq(draws, LAMBDA d : d.id = 0 \/ s.deferred[d.id].st = "ready")
    IN  [i \in DOMAIN kept |-> [p |-> kept[i].p,
            bind |-> IF kept[i].id = 0 THEN kept[i].bind ELSE s.deferred[kept[i].id].p]]

\* Called once per submission and after every wait: wait for what the
\* placeholders still name, else hand the real pipelines on.
ResolveDeferred(s) ==
    IF pending_tickets(s) # <<>>
    THEN /\ WaitFor(s, pending_tickets(s), TRUE, "submit", NoDraw)
         /\ UNCHANGED submitted
    ELSE LET Sibling(r, d) == IF d.st = "ready" THEN queue_no_color_sibling(r, d.p) ELSE r IN
         /\ submitted' = answer(s)
         /\ draws' = <<>>
         /\ Back([FoldLeft(Sibling, s, s.deferred) EXCEPT !.deferred = <<>>])

Submit ==
    /\ pc = Encode /\ draws # <<>> /\ count.submits < MaxSubmits
    /\ count' = [count EXCEPT !.submits = @ + 1]
    /\ ResolveDeferred(enc)
    /\ UNCHANGED <<ready, running, results, made>>

WaitedSubmit ==
    /\ pc.at = "return" /\ pc.then = "submit"
    /\ ResolveDeferred(enc)
    /\ UNCHANGED <<ready, running, results, made, count>>

Finish(cancel) ==
    /\ pc = Encode /\ draws = <<>>
    /\ pc' = [at |-> "finish", cancel |-> cancel]
    /\ UNCHANGED <<enc, ready, running, results, draws, submitted, made>>

reset_cleanup ==
    /\ count.resets < MaxResets /\ Finish(FALSE)
    /\ count' = [count EXCEPT !.resets = @ + 1]

shutdown_cleanup == Finish(TRUE) /\ UNCHANGED count

finish_compiles ==
    /\ pc.at = "finish" /\ enc.inFlight # {}
    /\ \/ /\ Queued(enc) # <<>>
          /\ LET job == Head(Queued(enc))
                 s == [enc EXCEPT !.urgent = Without(@, job.t), !.normal = Without(@, job.t),
                                  !.pipelines = Without(@, job.t)]
             IN  IF pc.cancel THEN enc' = [s EXCEPT !.inFlight = @ \ {job.t}] /\ UNCHANGED made
                 ELSE \E ok \in Outcomes(job.k) :
                        /\ enc' = install_compile(s, [t |-> job.t, k |-> job.k, ok |-> ok])
                        /\ Made(job.k, ok)
          /\ UNCHANGED results
       \/ /\ Queued(enc) = <<>> /\ results # <<>>
          /\ enc' = install_compile(enc, Head(results)) /\ results' = Tail(results)
          /\ UNCHANGED made
    /\ UNCHANGED <<ready, running, pc, draws, submitted, count>>

\* A Reset forgets the failures; a teardown closes the queue and joins.
Finished ==
    /\ pc.at = "finish" /\ enc.inFlight = {}
    /\ IF pc.cancel
       THEN /\ enc' = [enc EXCEPT !.closed = TRUE, !.woken = enc.idle]
            /\ pc' = [at |-> "join"]
       ELSE Back([enc EXCEPT !.built = [k \in Keys |-> IF @[k] = "failed" THEN "unknown" ELSE @[k]]])
    /\ UNCHANGED <<ready, running, results, draws, submitted, made, count>>

Joined ==
    /\ pc.at = "join" /\ NoWorkers
    /\ pc' = [at |-> "down"]
    /\ enc' = [enc EXCEPT !.pending = [k \in Keys |-> 0]]
    /\ UNCHANGED <<ready, running, results, draws, submitted, made, count>>

EncoderStep ==
    \/ Steal \/ BuildStolen \/ Block \/ Recv \/ Waited
    \/ WaitedDraw \/ WaitedSubmit \/ finish_compiles \/ Finished \/ Joined

Next ==
    \/ next_for_worker \/ SpuriousWake
    \/ \E job \in running : run_job(job)
    \/ \E p \in Pipelines : emit_draw(p)
    \/ begin_frame \/ Submit \/ reset_cleanup \/ shutdown_cleanup
    \/ EncoderStep

Spec == Init /\ [][Next]_vars

\* The workers and the encoder thread are scheduled and every build returns.
Fairness ==
    /\ WF_vars(next_for_worker)
    /\ WF_vars(\E job \in running : run_job(job))
    /\ WF_vars(EncoderStep)

FairSpec == Spec /\ Fairness

----------------------------------------------------------------------------
Places(t) ==
    Cardinality({i \in DOMAIN Queued(enc) : Queued(enc)[i].t = t})
    + Cardinality({job \in running : job.t = t})
    + Cardinality({i \in DOMAIN results : results[i].t = t})
    + (IF pc.at = "build" /\ pc.job.t = t THEN 1 ELSE 0)

\* A build in flight is in exactly one place: a lane, a worker, the channel or
\* the encoder's hands.  Nothing outside is still queued, running or reported, so a
\* job leaves the lanes exactly once and reports exactly once.  A pending key
\* names a build in flight until teardown cancels it.  Teardown leaves no Metal
\* object behind: every library and pipeline a build created is in the caches
\* it destroys (encoder.rs, shutdown_cleanup).
JobsAccounted ==
    /\ \A t \in 1..enc.tickets :
         Places(t) = IF t \in enc.inFlight THEN 1 ELSE 0
    /\ \A k \in Keys : enc.pending[k] # 0 /\ pc.at \notin {"finish", "join"} =>
         enc.pending[k] \in enc.inFlight /\ enc.built[k] = "unknown"
    /\ pc.at = "down" => \A k \in made : enc.built[k] = "ready"

\* A submission hands on no placeholder: a deferred draw goes out with its own
\* pipeline when that was built, and goes missing only because a build of its
\* own failed (compile.rs, resolve_deferred_draws).
SubmissionIsExact ==
    [][ draws # <<>> /\ draws' = <<>> =>
          LET kept == SelectSeq(draws, LAMBDA d : d.id = 0 \/ enc'.built[d.p] = "ready")
          IN  /\ submitted' = [i \in DOMAIN kept |->
                    [p |-> kept[i].p, bind |-> IF kept[i].id = 0 THEN kept[i].bind ELSE kept[i].p]]
              /\ \A i \in DOMAIN submitted' : enc'.built[submitted'[i].bind] = "ready"
              /\ \A i \in DOMAIN draws :
                    \/ enc'.built[draws[i].p] = "ready" \/ draws[i].id = 0
                    \/ \E k \in {VsOf[draws[i].p], PsOf[draws[i].p], draws[i].p} :
                          enc'.built[k] = "failed" ]_vars

\* The encoder is in a wait of a draw, a submission, a Reset or a teardown.
EncoderWaits == pc.at \notin {"encode", "down"}
====
