-------------------------- MODULE OcclusionQueries --------------------------
(***************************************************************************)
(* Occlusion queries from Issue to GetData: the mailbox the API and the    *)
(* encoder thread share, the slots a frame's passes count into, the spans  *)
(* cut where a frame or a buffer ends, and the pool of result buffers.     *)
(*                                                                         *)
(* A draw passes a number of samples no other draw passes, a power of two, *)
(* so a count tells which draws it holds and how often.  The render target *)
(* has the size the program was told, so no count is rescaled.  A frame    *)
(* handed to the GPU is never lost: the frame pipeline is a module of its  *)
(* own.                                                                    *)
(***************************************************************************)
EXTENDS Integers, Sequences, SequencesExt, FiniteSets

CONSTANTS
    Queries,
    MinSlots,      \* MIN_BUFFER_SLOTS
    BufferSlots,   \* the most slots a buffer holds on the device
    FreeCap,       \* free buffers the pool keeps
    PeakDecay,     \* the share of the peak a submission forgets
    MaxDraws, MaxIssues, MaxOther, MaxOps, MaxFrames,   \* bounds on what the program does
    MaxFailures    \* bound: buffer allocations that fail

ASSUME QueriesAssumption ==
    /\ MinSlots \in Nat \ {0} /\ BufferSlots >= MinSlots
    /\ FreeCap \in Nat /\ PeakDecay \in Nat \ {0}

Permissive == -1      \* u32::MAX
Off == -1             \* visibility result mode Disabled

VARIABLES
    box,        \* the mailbox of each query
    endSeq,     \* the frame each query was ended in
    open,       \* ghost: queries between BEGIN and END for the program
    truth,      \* ghost: the samples of the draws in the last span of each query
    released,   \* queries the program released
    frame,      \* the operations of the frame being recorded
    seq,        \* current_seq
    call,       \* the call the program waits in
    done,       \* what the program did so far
    channel,    \* messages to the encoder
    enc,        \* where the encoder thread is
    vis,        \* VisibilityQueryState, and the render pass it counts in
    gpu,        \* submitted frames the GPU has not finished
    coherent    \* coherent_seq

api == <<endSeq, open, truth, released, frame, seq, call, done>>
native == <<enc, vis, gpu, coherent>>
vars == <<box, api, channel, native>>

NewBox == [requested |-> 0, endRequested |-> FALSE, status |-> "never", issue |-> 0,
           result |-> 0, accumulated |-> 0, carried |-> 0, uncounted |-> FALSE,
           drawsAtBegin |-> 0, drawsInSpan |-> 0, offset |-> 0]
NoCall == [pc |-> "none", q |-> "none"]
NoPass == [open |-> FALSE, counting |-> FALSE, mode |-> Off, buffer |-> 0]
NoQueries ==
    [pass |-> NoPass, buffer |-> 0,        \* PassState: the pass, and the buffer of the next
     next |-> 0, capacity |-> 0,           \* the slot allocator
     bufs |-> <<>>,                        \* frame_buffers
     hits |-> {},                          \* what the frame's draws count: buffer, slot, samples
     active |-> {}, exhausted |-> FALSE, draws |-> 0,
     pending |-> {}, retired |-> {}, free |-> <<>>, peak |-> 0,
     failures |-> 0]                       \* allocations that failed
Idle == [pc |-> "idle", then |-> "idle", ops |-> <<>>, seq |-> 0, seen |-> 0, q |-> "none"]

Init ==
    /\ box = [q \in Queries |-> NewBox]
    /\ endSeq = [q \in Queries |-> 0] /\ open = {} /\ truth = [q \in Queries |-> 0]
    /\ released = {} /\ frame = <<>> /\ seq = 1 /\ call = NoCall
    /\ done = [draws |-> 0, issues |-> 0, other |-> 0]
    /\ channel = <<>> /\ enc = Idle
    /\ vis = NoQueries /\ gpu = <<>> /\ coherent = 0

----------------------------------------------------------------------------
(* The program: recording into the frame *)

Recording == call.pc = "none"
Room == done.draws + done.issues + done.other < MaxOps
Free == UNCHANGED <<channel, native>>

\* Issue with the flags given, under end_issue's rule for an END alone.
Issue(q, begin, end) ==
    LET b == box[q]
        keep == end /\ ~begin /\ b.requested # 0 /\ b.endRequested
        begins == begin \/ (end /\ b.requested = 0)
        armed == IF begins THEN [b EXCEPT !.requested = @ + 1, !.endRequested = FALSE,
                                          !.status = "pending"] ELSE b
        op(kind) == [op |-> kind, q |-> q, n |-> armed.requested]
    IN  /\ Recording /\ Room /\ q \notin released /\ done.issues < MaxIssues
        /\ done' = [done EXCEPT !.issues = @ + 1]
        /\ IF keep THEN UNCHANGED <<box, frame, endSeq, open, truth>>
           ELSE /\ box' = [box EXCEPT ![q] = [armed EXCEPT !.endRequested = @ \/ end]]
                /\ frame' = frame \o (IF begins THEN <<op("begin")>> ELSE <<>>)
                                  \o (IF end THEN <<op("end")>> ELSE <<>>)
                /\ endSeq' = IF end THEN [endSeq EXCEPT ![q] = seq] ELSE endSeq
                /\ open' = IF end THEN open \ {q} ELSE open \cup {q}
                /\ truth' = IF begins THEN [truth EXCEPT ![q] = 0] ELSE truth
        /\ UNCHANGED <<released, seq, call>> /\ Free

DrawPrimitive ==
    /\ Recording /\ Room /\ done.draws < MaxDraws
    /\ done' = [done EXCEPT !.draws = @ + 1]
    /\ frame' = Append(frame, [op |-> "draw", q |-> "none", n |-> 2^done.draws])
    /\ truth' = [q \in Queries |-> IF q \in open THEN truth[q] + 2^done.draws ELSE truth[q]]
    /\ UNCHANGED <<box, endSeq, open, released, seq, call>> /\ Free

\* A Clear, or a change of target, which ends the pass.
Other(kind) ==
    /\ Recording /\ Room /\ done.other < MaxOther
    /\ done' = [done EXCEPT !.other = @ + 1]
    /\ frame' = Append(frame, [op |-> kind, q |-> "none", n |-> 0])
    /\ UNCHANGED <<box, endSeq, open, truth, released, seq, call>> /\ Free

\* The last Release of a query: a span it left open is closed for it.
close_released_span(q) ==
    LET b == box[q] IN
    /\ Recording /\ Room /\ done.other < MaxOther /\ q \notin released
    /\ done' = [done EXCEPT !.other = @ + 1]
    /\ released' = released \cup {q} /\ open' = open \ {q}
    /\ IF b.requested # 0 /\ ~b.endRequested
       THEN /\ box' = [box EXCEPT ![q].endRequested = TRUE]
            /\ frame' = Append(frame, [op |-> "end", q |-> q, n |-> b.requested])
       ELSE UNCHANGED <<box, frame>>
    /\ UNCHANGED <<endSeq, truth, seq, call>> /\ Free

Message(kind, n, ops) == [kind |-> kind, seq |-> n, ops |-> ops]

\* stamp_and_swap and the send: a frame takes its number and recording goes on.
HandOver ==
    /\ seq <= MaxFrames /\ channel = <<>>
    /\ channel' = <<Message("frame", seq, frame)>>
    /\ frame' = <<>> /\ seq' = seq + 1

Present ==
    /\ Recording /\ HandOver
    /\ UNCHANGED <<box, endSeq, open, truth, released, call, done, native>>

\* Reset submits what was recorded and waits for the encoder's cleanup.
Reset ==
    /\ Recording /\ Room /\ done.other < MaxOther /\ HandOver
    /\ done' = [done EXCEPT !.other = @ + 1]
    /\ call' = [NoCall EXCEPT !.pc = "reset"]
    /\ UNCHANGED <<box, endSeq, open, truth, released, native>>

----------------------------------------------------------------------------
(* GetData.  Without D3DGETDATA_FLUSH it only reads the mailbox. *)

\* status(): the result is of the last bracket, or is still to come.
Issued(q) == box[q].status = "issued" /\ box[q].result = box[q].requested

\* GetData(FLUSH) on a pending query that was ended.
GetData(q) ==
    /\ Recording /\ q \notin released
    /\ box[q].requested # 0 /\ ~Issued(q) /\ box[q].endRequested
    /\ call' = [pc |-> IF endSeq[q] >= seq THEN "flush" ELSE "send", q |-> q]
    /\ UNCHANGED <<box, endSeq, open, truth, released, frame, seq, done, channel, native>>

\* flush_current_frame_blocking
Flush ==
    /\ call.pc = "flush" /\ HandOver
    /\ call' = [call EXCEPT !.pc = "send"]
    /\ UNCHANGED <<box, endSeq, open, truth, released, done, native>>

\* encoder_intake_visibility_for, and the request of a Reset.
Send ==
    /\ call.pc \in {"send", "reset"} /\ channel = <<>>
    /\ channel' = <<IF call.pc = "send" THEN Message("intake", endSeq[call.q], <<>>)
                                        ELSE Message("reset", seq - 1, <<>>)>>
    /\ call' = [call EXCEPT !.pc = "wait"]
    /\ UNCHANGED <<box, endSeq, open, truth, released, frame, seq, done, native>>

\* The second look at the status, and the return.
Return ==
    /\ call.pc = "recheck" /\ call' = NoCall
    /\ UNCHANGED <<box, endSeq, open, truth, released, frame, seq, done, channel, native>>

----------------------------------------------------------------------------
(* The result buffers.  The operators work on the encoder's state v, and on *)
(* w = [v, b]: that state and the mailboxes.                                *)

Least(S, Key(_)) == CHOOSE x \in S : \A y \in S : Key(x) <= Key(y)

RECURSIVE next_power_of_two(_, _)
next_power_of_two(n, p) == IF p >= n THEN p ELSE next_power_of_two(n, 2 * p)

AtLeast(a, b) == IF a >= b THEN a ELSE b
AtMost(a, b) == IF a <= b THEN a ELSE b

first_buffer_slots(v) ==
    AtMost(AtLeast(next_power_of_two(v.peak + v.peak \div 4, 1), MinSlots), BufferSlots)

\* buffer_need: what, and of how many slots.
buffer_need(v) ==
    CASE v.bufs = <<>> -> <<"first", first_buffer_slots(v)>>
      [] v.bufs # <<>> /\ v.next < v.capacity -> <<"ready", 0>>
      [] v.bufs # <<>> /\ v.next >= v.capacity /\ v.capacity < BufferSlots
           -> <<"grow", AtMost(2 * v.capacity, BufferSlots)>>
      [] OTHER -> <<"spill", BufferSlots>>

NewBuffer(slots) ==
    [slots |-> slots, counts |-> [s \in 0..slots - 1 |-> 0], reserved |-> 0, release |-> 0, index |-> 0]

\* Only the prefix the last frame reserved can hold a count.
clear_reserved(buf) ==
    [buf EXCEPT !.counts = [s \in DOMAIN @ |-> IF s < buf.reserved THEN 0 ELSE @[s]], !.reserved = 0]

\* provide_visibility_buffer: the smallest free buffer that will do, else a new
\* one, unless that fails.  The results are pairs of a state and a buffer.
provide_visibility_buffer(v, slots) ==
    LET fits == {i \in DOMAIN v.free : v.free[i].slots >= slots}
        best == Least(fits, LAMBDA i : v.free[i].slots)
    IN  IF fits # {}
        THEN {<<[v EXCEPT !.free = RemoveAt(@, best)], <<clear_reserved(v.free[best])>> >>}
        ELSE {<<v, <<NewBuffer(slots)>> >>}
             \cup IF v.failures < MaxFailures
                  THEN {<<[v EXCEPT !.failures = @ + 1], <<>> >>} ELSE {}

\* trim_free: the smallest go first.
RECURSIVE trim_free(_)
trim_free(free) ==
    IF Len(free) <= FreeCap THEN free
    ELSE trim_free(RemoveAt(free, Least(DOMAIN free, LAMBDA i : free[i].slots)))

Segment(v, b, q, n, span, closes) ==
    [seq |-> n, buffer |-> AtLeast(Len(v.bufs), 1) - 1, q |-> q, issue |-> b[q].issue,
     span |-> span, closes |-> closes]

Cut(v, b, n) == {Segment(v, b, q, n, <<b[q].offset, v.next>>, FALSE) : q \in v.active}
resume(v, b, offset) == [q \in Queries |-> IF q \in v.active THEN [b[q] EXCEPT !.offset = offset] ELSE b[q]]

install_first_buffer(w, buf) ==
    [w EXCEPT !.v.bufs = <<buf>>, !.v.next = 0, !.v.capacity = AtMost(buf.slots, BufferSlots)]

install_grown_buffer(w, buf) ==
    [w EXCEPT !.v.bufs = Append(Front(@), buf), !.v.capacity = AtMost(buf.slots, BufferSlots),
              !.v.free = trim_free(Append(@, Last(w.v.bufs)))]

\* spill_into, mutated: the open spans are not cut.
spill_mutated(w, buf) ==
    [v |-> [w.v EXCEPT !.pass.open = FALSE, !.buffer = @ + 1,
                       !.bufs = Append([@ EXCEPT ![Len(@)].reserved = w.v.next], buf),
                       !.next = 0, !.capacity = AtMost(buf.slots, BufferSlots)],
     b |-> resume(w.v, w.b, 0)]

\* spill_visibility_buffer: the pass ends, and every open span is cut at the end
\* of the full buffer and goes on at slot 0 of the next.
spill_visibility_buffer(w, buf) ==
    [v |-> [w.v EXCEPT !.pass.open = FALSE, !.buffer = @ + 1,
                       !.pending = @ \cup Cut(w.v, w.b, enc.seq),
                       !.bufs = Append([@ EXCEPT ![Len(@)].reserved = w.v.next], buf),
                       !.next = 0, !.capacity = AtMost(buf.slots, BufferSlots)],
     b |-> resume(w.v, w.b, 0)]

mark_exhausted(w) ==
    [v |-> [w.v EXCEPT !.exhausted = TRUE],
     b |-> [q \in Queries |-> [w.b[q] EXCEPT !.uncounted = @ \/ q \in w.v.active]]]

\* allocate_visibility_slot: the possible states, each with the slot or none.
allocate_visibility_slot(w) ==
    LET need == buffer_need(w.v)
        bump(x) == <<[x EXCEPT !.v.next = @ + 1], x.v.next>>
        installed(x, buf) ==
            CASE need[1] = "first" -> install_first_buffer(x, buf)
              [] need[1] = "grow" -> install_grown_buffer(x, buf)
              [] need[1] = "spill" -> spill_visibility_buffer(x, buf)
    IN  CASE w.v.exhausted -> {<<w, Off>>}
          [] ~w.v.exhausted /\ need[1] = "ready" -> {bump(w)}
          [] OTHER ->
               {LET x == [w EXCEPT !.v = p[1]] IN
                IF p[2] = <<>> THEN <<mark_exhausted(x), Off>> ELSE bump(installed(x, p[2][1]))
                : p \in provide_visibility_buffer(w.v, need[2])}

----------------------------------------------------------------------------
(* Recording a frame's operations into passes *)

ensure_pass_open(v) ==
    IF v.pass.open THEN v ELSE [v EXCEPT !.pass = [NoPass EXCEPT !.open = TRUE, !.buffer = v.buffer]]

set_visibility_result_mode(v, mode) ==
    LET u == ensure_pass_open(v) IN [u EXCEPT !.pass.mode = mode, !.pass.counting = @ \/ mode # Off]

Count(v, samples) ==
    IF v.pass.mode = Off THEN v
    ELSE [v EXCEPT !.hits = @ \cup {[buffer |-> v.pass.buffer, slot |-> v.pass.mode, samples |-> samples]}]

begin_visibility_query(w, q, generation) ==
    {LET x == p[1]
         slot == p[2]
         v == [x.v EXCEPT !.active = @ \cup {q}]
     IN  [v |-> IF slot = Off THEN v ELSE set_visibility_result_mode(v, slot),
          b |-> [x.b EXCEPT ![q] = [@ EXCEPT
                    !.issue = generation, !.offset = IF slot = Off THEN v.next ELSE slot,
                    !.drawsAtBegin = v.draws, !.drawsInSpan = 0, !.carried = 0,
                    !.uncounted = slot = Off, !.accumulated = 0, !.status = "pending"]]]
     : p \in allocate_visibility_slot(w)}

Close(x, slot, q, begin) ==
    LET b == [x.b EXCEPT ![q].drawsInSpan = x.v.draws - x.b[q].drawsAtBegin,
                         ![q].uncounted = @ \/ slot = Off]
        end == IF slot = Off THEN begin ELSE slot
        v == [x.v EXCEPT !.active = @ \ {q},
                         !.pending = @ \cup {Segment(x.v, b, q, enc.seq, <<begin, end>>, TRUE)}]
        mode == IF v.active = {} THEN Off ELSE slot
    IN  [v |-> IF slot = Off THEN v ELSE set_visibility_result_mode(v, mode), b |-> b]

\* The start of the span is read after the slot is reserved, which may move it.
end_visibility_query(w, q) ==
    {Close(p[1], p[2], q, p[1].b[q].offset) : p \in allocate_visibility_slot(w)}

\* begin_render_pass_if_needed, and the draw.  A pass opened inside a span is
\* armed here, after the slot: reserving it may end the pass.
begin_render_pass_if_needed(w, samples) ==
    LET armed == w.v.active = {} \/ (w.v.pass.open /\ w.v.pass.counting)
        reserved == IF armed THEN {<<w, Off>>} ELSE allocate_visibility_slot(w)
    IN  {LET v == [ensure_pass_open(p[1].v) EXCEPT !.draws = @ + 1]
             u == IF p[2] = Off THEN v ELSE set_visibility_result_mode(v, p[2])
         IN  [p[1] EXCEPT !.v = Count(u, samples)]
         : p \in reserved}

\* A Clear in a counting pass ends it; in another its quad is drawn, and with no
\* pass open it becomes a load action.
clear(v) ==
    IF v.pass.open /\ v.pass.counting THEN [v EXCEPT !.pass.open = FALSE]
    ELSE IF v.pass.open THEN Count(v, 2^MaxDraws) ELSE v

Replayed(w, op) ==
    CASE op.op = "begin" -> begin_visibility_query(w, op.q, op.n)
      [] op.op = "end" -> end_visibility_query(w, op.q)
      [] op.op = "draw" -> begin_render_pass_if_needed(w, op.n)
      [] op.op = "clear" -> {[w EXCEPT !.v = clear(@)]}
      [] op.op = "target" -> {[w EXCEPT !.v.pass.open = FALSE]}

RECURSIVE ReplayedAll(_, _)
ReplayedAll(ws, ops) ==
    IF ops = <<>> THEN ws ELSE ReplayedAll(UNION {Replayed(w, Head(ops)) : w \in ws}, Tail(ops))

----------------------------------------------------------------------------
(* The encoder thread *)

ApiWaits == UNCHANGED <<endSeq, open, truth, released, frame, seq, done>>

\* Take, mutated: the intake does not wait for the GPU.
Take_mutated ==
    /\ enc.pc = "idle" /\ channel # <<>>
    /\ LET m == Head(channel) IN
       enc' = [Idle EXCEPT !.pc = "intake", !.then = m.kind, !.ops = m.ops, !.seq = m.seq,
                           !.seen = coherent]
    /\ channel' = Tail(channel)
    /\ UNCHANGED <<box, call, vis, gpu, coherent>> /\ ApiWaits

\* A frame, an IntakeVisibilityFor or a Reset's cleanup: each begins with the
\* intake, the last two once the GPU has come far enough.
Take ==
    /\ enc.pc = "idle" /\ channel # <<>>
    /\ LET m == Head(channel) IN
       /\ m.kind = "frame" \/ coherent >= m.seq
       /\ enc' = [Idle EXCEPT !.pc = "intake", !.then = m.kind, !.ops = m.ops, !.seq = m.seq,
                              !.seen = coherent]
    /\ channel' = Tail(channel)
    /\ UNCHANGED <<box, call, vis, gpu, coherent>> /\ ApiWaits

\* Segments are queued in the order they were cut.
Before(s, t) ==
    \/ s.seq < t.seq
    \/ s.seq = t.seq /\ s.issue < t.issue
    \/ s.seq = t.seq /\ s.issue = t.issue /\ s.buffer < t.buffer
    \/ s.seq = t.seq /\ s.issue = t.issue /\ s.buffer = t.buffer /\ ~s.closes /\ t.closes

Ready == {s \in vis.pending : s.seq <= enc.seen}

Sum(buf, span) ==
    FoldFunctionOnSet(+, 0, buf.counts, {s \in DOMAIN buf.counts : span[1] <= s /\ s < span[2]})

\* publish_span's result
Published(b) == IF b.uncounted /\ b.drawsInSpan # 0 THEN Permissive ELSE b.carried

\* intake_completed, one segment: dropped when its bracket was begun anew, else
\* folded into its query; the closing one goes on to publish.
Intake ==
    /\ enc.pc = "intake"
    /\ \E s \in Ready :
        LET found == {buf \in vis.retired : buf.release = s.seq /\ buf.index = s.buffer}
            empty == s.span[1] >= s.span[2]
            sum == IF empty \/ found = {} THEN 0 ELSE Sum(CHOOSE buf \in found : TRUE, s.span)
            folded == [box[s.q] EXCEPT !.carried = @ + sum, !.uncounted = @ \/ (~empty /\ found = {})]
        IN  /\ \A t \in Ready : t.q = s.q => ~Before(t, s)
            /\ vis' = [vis EXCEPT !.pending = @ \ {s}]
            /\ IF s.issue # box[s.q].issue THEN UNCHANGED <<box, enc>>
               ELSE /\ box' = [box EXCEPT ![s.q] =
                                 IF s.closes THEN [folded EXCEPT !.accumulated = Published(folded)]
                                             ELSE folded]
                    /\ enc' = IF s.closes THEN [enc EXCEPT !.pc = "result", !.q = s.q] ELSE enc
    /\ UNCHANGED <<channel, call, gpu, coherent>> /\ ApiWaits

\* publish_span's store of the generation, and of the status.
StoreResult ==
    /\ enc.pc = "result"
    /\ box' = [box EXCEPT ![enc.q].result = box[enc.q].issue]
    /\ enc' = [enc EXCEPT !.pc = "status"]
    /\ UNCHANGED <<channel, call, vis, gpu, coherent>> /\ ApiWaits

StoreStatus ==
    /\ enc.pc = "status"
    /\ box' = [box EXCEPT ![enc.q].status = "issued"]
    /\ enc' = [enc EXCEPT !.pc = "intake", !.q = "none"]
    /\ UNCHANGED <<channel, call, vis, gpu, coherent>> /\ ApiWaits

release_up_to(v, n) ==
    LET over == {buf \in v.retired : buf.release <= n}
    IN  [v EXCEPT !.retired = @ \ over, !.free = trim_free(@ \o SetToSeq(over))]

reset_frame(v) ==
    [v EXCEPT !.next = 0, !.capacity = 0, !.exhausted = FALSE, !.pass = NoPass, !.buffer = 0]

retire_frame_buffers(v, n) ==
    LET last == Len(v.bufs)
        reserved(i) == IF i = last THEN v.next ELSE v.bufs[i].reserved
        total == FoldFunctionOnSet(+, 0, [i \in 1..last |-> reserved(i)], 1..last)
    IN  [v EXCEPT !.bufs = <<>>,
                  !.retired = @ \cup {[v.bufs[i] EXCEPT !.reserved = reserved(i), !.release = n,
                                                        !.index = i - 1] : i \in 1..last},
                  !.peak = AtLeast(total, @ - @ \div PeakDecay)]

\* finalize_submit: the open spans are cut, and the buffers retire.
finalize_submit(w) ==
    LET cut == [w.v EXCEPT !.pending = @ \cup Cut(w.v, w.b, enc.seq)]
    IN  [retire_frame_buffers(cut, enc.seq) EXCEPT !.hits = {}]

\* A frame after its intake: begin_frame goes on, the operations are replayed and
\* the frame goes to the GPU.  One step, since nothing replay stores in a mailbox
\* is read by the API before the generations agree.
EncodeFrame ==
    LET v == release_up_to(vis, enc.seen)
        begun == [v |-> reset_frame(v), b |-> resume(v, box, 0)]
    IN  /\ enc.pc = "intake" /\ Ready = {} /\ enc.then = "frame"
        /\ \E w \in ReplayedAll({begun}, enc.ops) :
              /\ vis' = finalize_submit(w) /\ box' = w.b
              /\ gpu' = Append(gpu, [seq |-> enc.seq, hits |-> w.v.hits])
        /\ enc' = Idle
        /\ UNCHANGED <<channel, call, coherent>> /\ ApiWaits

\* A request after its intake: it is acknowledged, or Reset's cleanup takes every buffer.
Acknowledge ==
    LET v == release_up_to(vis, enc.seen) IN
    /\ enc.pc = "intake" /\ Ready = {}
    /\ \/ enc.then = "intake" /\ vis' = v /\ call' = [call EXCEPT !.pc = "recheck"]
       \/ enc.then = "reset" /\ call' = NoCall
          /\ vis' = [v EXCEPT !.bufs = <<>>, !.retired = {}, !.free = <<>>]
    /\ enc' = Idle
    /\ UNCHANGED <<box, channel, gpu, coherent>> /\ ApiWaits

\* The GPU counts a frame's draws into its buffers and retires it.  A slot no
\* draw counted into keeps what it held.
GpuRetires ==
    /\ gpu # <<>>
    /\ LET f == Head(gpu)
           Of(buf, s) == {h.samples : h \in {x \in f.hits : x.buffer = buf.index /\ x.slot = s}}
           counted(buf) == [s \in DOMAIN buf.counts |->
               IF Of(buf, s) = {} THEN buf.counts[s]
               ELSE FoldFunctionOnSet(+, 0, [n \in Of(buf, s) |-> n], Of(buf, s))]
       IN  /\ vis' = [vis EXCEPT !.retired = {IF buf.release = f.seq THEN [buf EXCEPT !.counts = counted(buf)]
                                              ELSE buf : buf \in @}]
           /\ coherent' = f.seq
    /\ gpu' = Tail(gpu)
    /\ UNCHANGED <<box, channel, call, enc>> /\ ApiWaits

----------------------------------------------------------------------------
Program ==
    \/ \E q \in Queries :
          \/ \E be \in {<<TRUE, FALSE>>, <<FALSE, TRUE>>, <<TRUE, TRUE>>} : Issue(q, be[1], be[2])
          \/ close_released_span(q)
          \/ GetData(q)
    \/ DrawPrimitive \/ Other("clear") \/ Other("target") \/ Present \/ Reset

Waiting == Flush \/ Send \/ Return
Encoder == Take \/ Intake \/ StoreResult \/ StoreStatus \/ EncodeFrame \/ Acknowledge

Next == Program \/ Waiting \/ Encoder \/ GpuRetires
Spec == Init /\ [][Next]_vars

----------------------------------------------------------------------------
(* Properties *)

\* Once the result is of the bracket the program asked for last, the count to read
\* is the sum over the draws between its BEGIN and its END, each counted once,
\* however frames, buffers and passes cut the span, whatever a reused buffer held
\* and however the stores of the publication interleave with the read; only a span
\* that drew and lost an allocation answers permissively (publish_span, get_u64).
CountsAreExact ==
    \A q \in Queries :
        box[q].requested # 0 /\ box[q].result = box[q].requested =>
            \/ box[q].accumulated = truth[q]
            \/ box[q].accumulated = Permissive /\ vis.failures # 0 /\ truth[q] # 0

\* GetData(FLUSH) on an ended query comes back with the count: the frame its END
\* is in was handed over, waited for and taken in (query_get_data).
FlushIsAnswered == call.pc = "recheck" => Issued(call.q)
=============================================================================
