--------------------------- MODULE UploadRecovery ---------------------------
(***************************************************************************)
(* Replay of the uploads whose command buffer the GPU aborted              *)
(* (src/windows/core/src/upload_recovery.rs and its caller, the VB/IB half *)
(* of src/unix/unix/src/encoder.rs).                                       *)
(*                                                                         *)
(* The encoder puts a frame's copies into its upload buffer and keeps each *)
(* one's source in a queue until the GPU acknowledged it.  Acknowledgement *)
(* is read off three counters the completion handlers move meanwhile: draw *)
(* and upload retirement, and the newest aborted submission.  A copy whose *)
(* submission aborted goes again at the head of the next frame, with every *)
(* queued copy of the same buffer, in their order.                         *)
(*                                                                         *)
(* One Metal queue runs the buffers in commit order, each frame's upload   *)
(* buffer before its draw buffer; an aborted buffer leaves no trace.  The  *)
(* handlers observe the ended buffers of each counter in order, at any     *)
(* later time.                                                             *)
(***************************************************************************)
EXTENDS Naturals, Sequences, FiniteSets, SequencesExt

CONSTANTS
    MaxSeq,       \* bound on the frames of a behaviour
    MaxUploads,   \* bound on the game's uploads
    MaxReissue,   \* MAX_REISSUE_ATTEMPTS
    Keys,         \* the buffers uploaded to
    Ranges        \* the ranges of a buffer an upload may write

VARIABLES
    \* the encoder thread
    seq,         \* current_submit_seq
    encoder,     \* where it stands
    gate,        \* what upload_gate has loaded
    pending,     \* UploadRecoveryQueue.pending
    frame_blits, \* frame_blit_commands
    generation,  \* which device buffer each key has now
    gone,        \* the keys the game released
    uploads,     \* every upload of the game: its key and range
    fate,        \* what became of each upload's source
    \* the submitted buffers
    blits,       \* what each upload buffer copies
    up,          \* each upload buffer
    dr,          \* each draw buffer
    memory,      \* per key and device buffer, the upload each range holds, 0 none
    \* the PE counters
    coherent_seq, upload_coherent_seq, failed_seq

frameVars == <<seq, pending, frame_blits, generation, gone, uploads, fate>>
gpuVars == <<blits, up, dr, memory>>
counterVars == <<coherent_seq, upload_coherent_seq, failed_seq>>
vars == <<frameVars, encoder, gate, gpuVars, counterVars>>

Seqs == 1..MaxSeq
UploadIds == 1..MaxUploads
Generations == 0..MaxUploads
Status == {"none", "queued", "ok", "aborted"}
Empty == [r \in Ranges |-> 0]

Entry == [key : Keys, seq : Seqs, attempts : 0..MaxReissue, version : UploadIds]

\* A blit carries an upload into a device buffer, or, version 0, preserves what
\* the one before it holds.
Blit == [key : Keys, version : 0..MaxUploads, into : Generations]

TypeOK ==
    /\ seq \in 0..MaxSeq
    /\ encoder \in {"idle", "begin", "relief", "building", "closed"}
    /\ gate \in [loads : 0..2, settled : 0..MaxSeq]
    /\ pending \in Seq(Entry)
    /\ frame_blits \in Seq(Blit)
    /\ generation \in [Keys -> Generations]
    /\ gone \subseteq Keys
    /\ uploads \in Seq([key : Keys, range : Ranges])
    /\ fate \in [UploadIds -> {"none", "held", "acknowledged", "abandoned", "declined", "closed"}]
    /\ blits \in [Seqs -> Seq(Blit)]
    /\ up \in [Seqs -> Status]
    /\ dr \in [Seqs -> Status]
    /\ memory \in [Keys -> [Generations -> [Ranges -> 0..MaxUploads]]]
    /\ coherent_seq \in 0..MaxSeq
    /\ upload_coherent_seq \in 0..MaxSeq
    /\ failed_seq \in 0..MaxSeq

NoGate == [loads |-> 0, settled |-> 0]

Init ==
    /\ seq = 0
    /\ encoder = "idle"
    /\ gate = NoGate
    /\ pending = <<>>
    /\ frame_blits = <<>>
    /\ generation = [k \in Keys |-> 0]
    /\ gone = {}
    /\ uploads = <<>>
    /\ fate = [v \in UploadIds |-> "none"]
    /\ blits = [s \in Seqs |-> <<>>]
    /\ up = [s \in Seqs |-> "none"]
    /\ dr = [s \in Seqs |-> "none"]
    /\ memory = [k \in Keys |-> [g \in Generations |-> Empty]]
    /\ coherent_seq = 0
    /\ upload_coherent_seq = 0
    /\ failed_seq = 0

-----------------------------------------------------------------------------
(* The queue's operators. *)

push(k, v) ==
    Append(pending, [key |-> k, seq |-> seq, attempts |-> 0, version |-> v])

requeue(entry) ==
    [entry EXCEPT !.seq = seq, !.attempts = @ + 1]

\* The queue's longest prefix of entries seq-stamped within (after, through].
FrontRun(through, after) ==
    LET n == CHOOSE m \in 0..Len(pending) :
                /\ \A i \in 1..m : pending[i].seq <= through /\ pending[i].seq > after
                /\ m < Len(pending) => ~(/\ pending[m + 1].seq <= through
                                         /\ pending[m + 1].seq > after)
    IN  SubSeq(pending, 1, n)

\* Keys with at least one aborted entry.
poisoned_keys(failed) ==
    {e.key : e \in {e \in ToSet(pending) : failed # 0 /\ e.seq <= failed}}

\* owed, mutated: only the aborted entry replays, not its key's tail.
owed_alone(e, failed) == failed # 0 /\ e.seq <= failed

owed(e, failed) == e.key \in poisoned_keys(failed)

\* What settle takes out of the queue.
Drained(settled, failed) ==
    IF poisoned_keys(failed) = {}
    THEN FrontRun(settled, 0)
    ELSE SelectSeq(pending, LAMBDA e : owed(e, failed) \/ e.seq <= settled)

Kept(settled, failed) ==
    IF poisoned_keys(failed) = {}
    THEN SubSeq(pending, Len(Drained(settled, failed)) + 1, Len(pending))
    ELSE SelectSeq(pending, LAMBDA e : ~owed(e, failed) /\ e.seq > settled)

\* UploadFate, with reissue_stage_upload finding no buffer left as "declined".
Fate(e, failed) ==
    CASE ~owed(e, failed) -> "acknowledged"
      [] owed(e, failed) /\ e.attempts >= MaxReissue -> "abandoned"
      [] owed(e, failed) /\ e.attempts < MaxReissue /\ e.key \in gone -> "declined"
      [] OTHER -> "held"

Carry(e) == [key |-> e.key, version |-> e.version, into |-> generation[e.key]]

-----------------------------------------------------------------------------
(* The encoder thread. *)

Min2(a, b) == IF a < b THEN a ELSE b

\* upload_gate: the draw counter, then the upload counter, then the failures.
LoadCoherent(why) ==
    /\ gate' = [loads |-> 1, settled |-> coherent_seq]
    /\ encoder' = why

\* LoadUpload, mutated: the draw counter stands for the upload buffer too.
LoadUpload_skipped ==
    /\ gate.loads = 1
    /\ gate' = [gate EXCEPT !.loads = 2]
    /\ UNCHANGED <<frameVars, encoder, gpuVars, counterVars>>

LoadUpload ==
    /\ gate.loads = 1
    /\ gate' = [loads |-> 2, settled |-> Min2(gate.settled, upload_coherent_seq)]
    /\ UNCHANGED <<frameVars, encoder, gpuVars, counterVars>>

\* begin_frame reads the gate only when something is queued.
begin_frame ==
    /\ encoder = "idle" /\ seq < MaxSeq
    /\ seq' = seq + 1
    /\ IF pending = <<>>
       THEN encoder' = "building" /\ gate' = NoGate
       ELSE LoadCoherent("begin")
    /\ UNCHANGED <<pending, frame_blits, generation, gone, uploads, fate, gpuVars, counterVars>>

\* settle_stage_uploads, after the gate's last load.
settle_pending_uploads ==
    /\ encoder = "begin" /\ gate.loads = 2
    /\ LET drained == Drained(gate.settled, failed_seq)
           again == SelectSeq(drained, LAMBDA e : Fate(e, failed_seq) = "held")
       IN  /\ pending' = Kept(gate.settled, failed_seq)
                         \o [i \in 1..Len(again) |-> requeue(again[i])]
           /\ frame_blits' = [i \in 1..Len(again) |-> Carry(again[i])]
           /\ fate' = [v \in UploadIds |->
                         IF \E e \in ToSet(drained) : e.version = v
                         THEN Fate(CHOOSE e \in ToSet(drained) : e.version = v, failed_seq)
                         ELSE fate[v]]
    /\ encoder' = "building"
    /\ gate' = NoGate
    /\ UNCHANGED <<seq, generation, gone, uploads, gpuVars, counterVars>>

\* apply_stage_upload: renamed when a draw of this frame read the range already,
\* the rest of the buffer, if any, copied over from the one before.
apply_stage_upload(k, r, renamed) ==
    /\ encoder = "building"
    /\ Len(uploads) < MaxUploads
    /\ k \notin gone
    /\ LET v == Len(uploads) + 1
           g == IF renamed THEN generation[k] + 1 ELSE generation[k]
           preserve == [key |-> k, version |-> 0, into |-> g]
       IN  /\ uploads' = Append(uploads, [key |-> k, range |-> r])
           /\ generation' = [generation EXCEPT ![k] = g]
           /\ frame_blits' = frame_blits
                             \o (IF renamed /\ Cardinality(Ranges) > 1 THEN <<preserve>> ELSE <<>>)
                             \o <<[key |-> k, version |-> v, into |-> g]>>
           /\ pending' = push(k, v)
           /\ fate' = [fate EXCEPT ![v] = "held"]
    /\ UNCHANGED <<seq, encoder, gate, gone, gpuVars, counterVars>>

\* publish_idle_upload moves the counter only with no upload buffer in flight.
publish_idle_upload ==
    upload_coherent_seq' =
        IF \E s \in Seqs : up[s] # "none" /\ s > upload_coherent_seq
        THEN upload_coherent_seq
        ELSE seq

\* The op loop is over: the buffers the game released leave the cache, then the
\* frame's two buffers commit.
submit(released) ==
    /\ encoder = "building"
    /\ gone' = gone \cup released
    /\ blits' = [blits EXCEPT ![seq] = frame_blits]
    /\ frame_blits' = <<>>
    /\ dr' = [dr EXCEPT ![seq] = "queued"]
    /\ IF frame_blits = <<>>
       THEN publish_idle_upload /\ UNCHANGED up
       ELSE up' = [up EXCEPT ![seq] = "queued"] /\ UNCHANGED upload_coherent_seq
    /\ encoder' = "idle"
    /\ UNCHANGED <<seq, pending, generation, uploads, fate, gate, memory, coherent_seq, failed_seq>>

\* DrainRetiredNow and the other drains outside a frame.
relief ==
    /\ encoder = "idle" /\ pending # <<>>
    /\ LoadCoherent("relief")
    /\ UNCHANGED <<frameVars, gpuVars, counterVars>>

release_acknowledged(settled, failed) == FrontRun(settled, failed)

release_acknowledged_uploads ==
    /\ encoder = "relief" /\ gate.loads = 2
    /\ LET freed == release_acknowledged(gate.settled, failed_seq)
       IN  /\ pending' = SubSeq(pending, Len(freed) + 1, Len(pending))
           /\ fate' = [v \in UploadIds |->
                         IF \E e \in ToSet(freed) : e.version = v THEN "acknowledged" ELSE fate[v]]
    /\ encoder' = "idle"
    /\ gate' = NoGate
    /\ UNCHANGED <<seq, frame_blits, generation, gone, uploads, gpuVars, counterVars>>

\* shutdown_cleanup drains the queue once the GPU is idle.
shutdown_cleanup ==
    /\ encoder = "idle"
    /\ \A s \in Seqs : up[s] # "queued" /\ dr[s] # "queued"
    /\ pending' = <<>>
    /\ fate' = [v \in UploadIds |-> IF fate[v] = "held" THEN "closed" ELSE fate[v]]
    /\ encoder' = "closed"
    /\ UNCHANGED <<seq, frame_blits, generation, gone, uploads, gate, gpuVars, counterVars>>

-----------------------------------------------------------------------------
(* The GPU and the completion handlers. *)

\* What a buffer's copies leave in m.
Copied(m, b) ==
    [m EXCEPT ![b.key][b.into] =
        IF b.version = 0
        THEN m[b.key][b.into - 1]
        ELSE [@ EXCEPT ![uploads[b.version].range] = b.version]]

RunUpload(s, outcome) ==
    /\ up[s] = "queued"
    /\ \A t \in 1..(s - 1) : up[t] # "queued" /\ dr[t] # "queued"
    /\ up' = [up EXCEPT ![s] = outcome]
    /\ memory' = IF outcome = "ok" THEN FoldLeft(Copied, memory, blits[s]) ELSE memory
    /\ UNCHANGED <<frameVars, encoder, gate, blits, dr, counterVars>>

RunDraw(s, outcome) ==
    /\ dr[s] = "queued"
    /\ up[s] # "queued"
    /\ \A t \in 1..(s - 1) : dr[t] # "queued"
    /\ dr' = [dr EXCEPT ![s] = outcome]
    /\ UNCHANGED <<frameVars, encoder, gate, blits, up, memory, counterVars>>

\* The oldest buffer of a counter that its handlers have not retired.
Oldest(status, counter, s) ==
    /\ s > counter /\ status[s] \in {"ok", "aborted"}
    /\ \A t \in (counter + 1)..(s - 1) : status[t] = "none"

\* record_failed_submit comes before the counter's move.
record_failed_submit(s) ==
    /\ failed_seq < s
    /\ \/ Oldest(up, upload_coherent_seq, s) /\ up[s] = "aborted"
       \/ Oldest(dr, coherent_seq, s) /\ dr[s] = "aborted"
    /\ failed_seq' = s
    /\ UNCHANGED <<frameVars, encoder, gate, gpuVars, coherent_seq, upload_coherent_seq>>

retire_upload(s) ==
    /\ Oldest(up, upload_coherent_seq, s)
    /\ up[s] = "aborted" => failed_seq >= s
    /\ upload_coherent_seq' = s
    /\ UNCHANGED <<frameVars, encoder, gate, gpuVars, coherent_seq, failed_seq>>

retire_draw(s) ==
    /\ Oldest(dr, coherent_seq, s)
    /\ dr[s] = "aborted" => failed_seq >= s
    /\ coherent_seq' = s
    /\ UNCHANGED <<frameVars, encoder, gate, gpuVars, upload_coherent_seq, failed_seq>>

-----------------------------------------------------------------------------

\* A device that is gone takes no step.
Closed ==
    /\ encoder = "closed"
    /\ UNCHANGED vars

Next ==
    \/ begin_frame \/ LoadUpload \/ settle_pending_uploads
    \/ \E k \in Keys, r \in Ranges, renamed \in BOOLEAN : apply_stage_upload(k, r, renamed)
    \/ \E released \in SUBSET (Keys \ gone) : submit(released)
    \/ relief \/ release_acknowledged_uploads \/ shutdown_cleanup
    \/ \E s \in Seqs :
        \/ \E outcome \in {"ok", "aborted"} : RunUpload(s, outcome) \/ RunDraw(s, outcome)
        \/ record_failed_submit(s) \/ retire_upload(s) \/ retire_draw(s)
    \/ Closed

Spec == Init /\ [][Next]_vars

-----------------------------------------------------------------------------
(* Properties. *)

CarriedBy(v) == {s \in Seqs : \E b \in ToSet(blits[s]) : b.version = v}

\* An upload's source is freed as acknowledged only if a buffer that carried its
\* copy completed: an abort is never taken for a success, however the gate's
\* three loads fall between the handlers' stores (upload_recovery.rs:12-14).
\* No buffer still queued or running reads it then, replays beside it in flight
\* included (encoder.rs, upload_gate).
AcknowledgedHasLanded ==
    \A v \in UploadIds : fate[v] = "acknowledged" =>
        /\ \E s \in CarriedBy(v) : up[s] = "ok"
        /\ \A s \in CarriedBy(v) : up[s] # "queued"

\* A rename's preserving copy was aborted for this key.
Torn(k) ==
    \E s \in Seqs : up[s] = "aborted" /\ \E b \in ToSet(blits[s]) : b.key = k /\ b.version = 0

Newest(k, r) ==
    {v \in 1..Len(uploads) :
        /\ uploads[v] = [key |-> k, range |-> r]
        /\ \A w \in (v + 1)..Len(uploads) : uploads[w] # uploads[v]}

\* A copy into this key is recorded or submitted and has not run.
Underway(k) ==
    \/ \E b \in ToSet(frame_blits) : b.key = k
    \/ \E s \in Seqs : up[s] = "queued" /\ \E b \in ToSet(blits[s]) : b.key = k

\* A range whose newest upload is acknowledged holds that upload and no older
\* one, though older copies of the buffer were replayed around it: replays keep
\* the order of the writes (upload_recovery.rs:91-98).  Buffers whose rename
\* was itself aborted are excepted here.
NewestBytesWin ==
    \A k \in Keys, r \in Ranges : \A v \in Newest(k, r) :
        fate[v] = "acknowledged" /\ ~Torn(k) /\ ~Underway(k) => memory[k][generation[k]][r] = v

\* An upload's source stays until every buffer that reads it has ended
\* (docs/ARCHITECTURE.md:283-284).
SourceOutlivesReads ==
    \A v \in UploadIds :
        fate[v] \in {"acknowledged", "abandoned", "declined"} =>
            \A s \in CarriedBy(v) : up[s] # "queued"

\* Once every upload of a live buffer was acknowledged, each range holds its
\* newest one, the buffer renamed since or not: the fresh device buffer
\* preserves the bytes an upload leaves untouched (encoder.rs:2063-2066).
AcknowledgedBytesStay ==
    \A k \in Keys \ gone :
        /\ \A v \in 1..Len(uploads) : uploads[v].key = k => fate[v] = "acknowledged"
        /\ ~Underway(k)
        => \A r \in Ranges : \A v \in Newest(k, r) : memory[k][generation[k]][r] = v
=============================================================================
