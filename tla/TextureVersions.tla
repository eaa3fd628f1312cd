--------------------------- MODULE TextureVersions ---------------------------
(* The versions of one texture on the encoder: core/texture_versions.rs and    *)
(* its use in unix/encoder.rs.                                                 *)
(*                                                                             *)
(* Uploads are collected into the head of a submission and run before its      *)
(* draws, so an upload into a texture a draw of this submission sampled goes   *)
(* to another MTLTexture, a spare or a fresh one, which first receives what    *)
(* the upload leaves alone. A replaced version retires behind its submission   *)
(* and becomes a spare; the write history says which tiles a spare misses.     *)
(*                                                                             *)
(* The texture has two levels, the first of Columns tiles and the second of    *)
(* one; its texels are numbered by the write that put them there. It keeps a   *)
(* write history (records_every_write) and is no depth texture. A version is   *)
(* one unit of the pool's budget. Generated mips, the change of shape and the  *)
(* release of the texture are left out.                                        *)
EXTENDS Integers, FiniteSets, Sequences, SequencesExt

CONSTANTS
    Versions,        \* MTLTexture handles; an address is reused after a destroy
    Columns,         \* tiles of level 0
    Rects,           \* the rectangles uploads write, as sets of tiles of a level
    InFlight,        \* submissions the GPU has not ended, at most
    SpareCap,        \* VersionBudget.spare_cap, in versions
    SpareIdle,       \* SPARE_MAX_IDLE_SUBMITS
    StateIdle,       \* STATE_MAX_IDLE_SUBMITS
    MaxSeq, MaxOps, MaxFrameOps, MaxWrites,
    MaxExtras        \* copies, declined uploads, aborts and moments of pressure

ASSUME Bounds == {Columns, InFlight, SpareCap, SpareIdle, StateIdle, MaxSeq, MaxOps,
                  MaxFrameOps, MaxWrites, MaxExtras} \subseteq Nat

Tiles == 1 .. Columns + 1
Level(t) == IF t <= Columns THEN 1 .. Columns ELSE {Columns + 1}
Levels == {Level(t) : t \in Tiles}
Junk == -1           \* what no write put there
Unset == -2          \* texels nothing is promised of: a declined whole upload

VARIABLES
    seq, open,       \* current_submit_seq; whether a frame is being encoded
    head, body,      \* frame_blit_commands; the application's passes and copies
    sampled,         \* PassState::frame_sampled_textures
    written,         \* PassState::blit_written_rts
    live,            \* texture_cache[id].views
    state,           \* textures[id], an empty or one-element sequence
    epochs,          \* next_epoch
    retiring,        \* TextureVersions::retiring
    pressed,         \* TextureVersions::pressed
    pending,         \* pending_texture_uploads
    subs,            \* submissions the GPU has not ended
    settled, failed, \* upload_gate
    mem,             \* version -> tile -> write (the GPU's memory)
    truth,           \* the texels the application's calls ask for
    heals,           \* this submission replays the aborted uploads
    touched,         \* versions a copy of this submission names
    leapt,           \* an upload went ahead of a copy recorded before it
    lost,            \* an aborted submission carried preserve copies
    stale,           \* tiles whose write was aborted and not yet replayed
    wrong,           \* a reader of the last submission saw other texels
    used             \* the bounds' counters

gpu == <<subs, settled, failed, mem, lost, stale, wrong>>
frame == <<head, body, sampled, written, heals, touched>>
pool == <<live, state, epochs, retiring, pressed>>
vars == <<seq, open, frame, pool, pending, gpu, truth, leapt, used>>

NewState(epoch) ==
    [epoch |-> epoch, stamps |-> [t \in Tiles |-> 0], writes |-> 0,
     birth |-> 0, renamed |-> seq, idle |-> seq, spares |-> <<>>]

Init ==
    /\ seq = 0 /\ open = FALSE
    /\ head = <<>> /\ body = <<>> /\ sampled = {} /\ written = {} /\ heals = FALSE
    /\ touched = {} /\ live \in Versions
    /\ state = <<>> /\ epochs = 1 /\ retiring = <<>> /\ pressed = FALSE
    /\ pending = <<>> /\ subs = <<>> /\ settled = 0 /\ failed = 0
    /\ mem = [v \in Versions |-> [t \in Tiles |-> IF v = live THEN 0 ELSE Junk]]
    /\ truth = [t \in Tiles |-> 0]
    /\ leapt = FALSE /\ lost = FALSE /\ stale = {} /\ wrong = FALSE
    /\ used = [ops |-> 0, frame |-> 0, writes |-> 0, extras |-> 0]

\* One more command, which may be a write and may be out of the ordinary.
Use(writes, extras) ==
    /\ used.ops < MaxOps /\ used.frame < MaxFrameOps
    /\ used.writes + writes <= MaxWrites /\ used.extras + extras <= MaxExtras
    /\ used' = [ops |-> used.ops + 1, frame |-> used.frame + 1,
                writes |-> used.writes + writes, extras |-> used.extras + extras]

Spared(st) == {st[1].spares[i].v : i \in 1 .. (IF st = <<>> THEN 0 ELSE Len(st[1].spares))}
Retired == {retiring[i].v : i \in 1 .. Len(retiring)}

-----------------------------------------------------------------------------
(* The write history. *)

\* note_write: nothing before the first rename starts the history.
note_write(st, rect) ==
    IF st = <<>> THEN st
    ELSE <<[st[1] EXCEPT !.writes = @ + 1,
                         !.stamps = [t \in Tiles |-> IF t \in rect THEN st[1].writes + 1 ELSE @[t]]]>>

\* StampGrid::written_since: the box around the tiles of a level stamped later.
written_since(stamps, level, held) ==
    LET newer == {t \in level : stamps[t] > held}
    IN  {t \in level : \E a, b \in newer : a <= t /\ t <= b}

\* preserve_plan, mutated: off by one in the write counter.
preserve_plan_mutated(st, held, rect) ==
    LET kept == {t \in Tiles : rect # Level(t)}
    IN  IF held = Junk THEN kept
        ELSE kept \cap UNION {written_since(st[1].stamps, l, held + 1) : l \in Levels}

preserve_plan(st, held, rect) ==
    LET kept == {t \in Tiles : rect # Level(t)}
    IN  IF held = Junk THEN kept
        ELSE kept \cap UNION {written_since(st[1].stamps, l, held) : l \in Levels}

-----------------------------------------------------------------------------
(* A rename. *)

take_spare ==
    LET st == IF state = <<>> THEN NewState(epochs) ELSE state[1]
    IN  [st |-> [st EXCEPT !.renamed = seq,
                           !.spares = IF @ = <<>> THEN @ ELSE Front(@)],
         spares |-> st.spares]

\* A fresh texture's contents are undefined and its address is any free one.
batch_create_textures == Versions \ ({live} \cup Spared(state) \cup Retired)

\* The copies old -> new, in the head before the upload itself.
PreserveCopies(rect, v, held, st) ==
    LET plan == preserve_plan(<<st>>, held, rect)
    IN  IF plan = {} THEN <<>> ELSE <<[op |-> "copy", src |-> live, dst |-> v, tiles |-> plan]>>

rename_sampled_texture(v, st) ==
    /\ live' = v
    /\ retiring' = Append(retiring, [v |-> live, seq |-> seq, epoch |-> st.epoch,
                                     birth |-> st.birth, held |-> st.writes])
    /\ epochs' = IF state = <<>> THEN epochs + 1 ELSE epochs

Upload(v, rect, w) == [op |-> "upload", dst |-> v, tiles |-> rect, write |-> w]
Uploaded(rect, w) == [t \in Tiles |-> IF t \in rect THEN w ELSE truth[t]]

-----------------------------------------------------------------------------
(* The encoder's replay of a frame. *)

\* The upload reached the command stream: stamped, and kept for recovery.
Emitted(rect, st) ==
    LET w == used'.writes
    IN  /\ state' = note_write(st, rect)
        /\ pending' = Append(pending, [seq |-> seq, tiles |-> rect, write |-> w])
        /\ truth' = Uploaded(rect, w)

UploadInPlace(rect) ==
    /\ live \notin sampled
    /\ Use(1, 0)
    /\ head' = Append(head, Upload(live, rect, used'.writes))
    /\ Emitted(rect, state)
    /\ leapt' = (leapt \/ live \in touched)
    /\ UNCHANGED <<body, live, epochs, retiring, mem>>

UploadOrdered(rect) ==
    /\ live \in sampled \cap written
    /\ Use(1, 0)
    /\ body' = Append(body, Upload(live, rect, used'.writes))
    /\ Emitted(rect, state)
    /\ UNCHANGED <<head, live, epochs, retiring, mem, leapt>>

\* The blit path may decline after the rename: the old texels then stay, except
\* on a level the upload was to rewrite whole, which nothing carried over.
UploadRenamed(rect) ==
    /\ live \in sampled \ written
    /\ LET taken == take_spare
           reused == taken.spares # <<>>
           st == [taken.st EXCEPT !.birth = seq]
           whole == {t \in rect : rect = Level(t)}
       IN  \E declined \in BOOLEAN :
           \E v \in IF reused THEN {Last(taken.spares).v} ELSE batch_create_textures :
             /\ Use(1, IF declined THEN 1 ELSE 0)
             /\ rename_sampled_texture(v, taken.st)
             /\ head' = head \o PreserveCopies(rect, v, IF reused THEN Last(taken.spares).held ELSE Junk, taken.st)
                            \o (IF declined THEN <<>> ELSE <<Upload(v, rect, used'.writes)>>)
             /\ mem' = IF reused THEN mem ELSE [mem EXCEPT ![v] = [t \in Tiles |-> Junk]]
             /\ IF declined
                THEN state' = <<st>> /\ truth' = Uploaded(whole, Unset) /\ UNCHANGED pending
                ELSE Emitted(rect, <<st>>)
    /\ UNCHANGED <<body, leapt>>

\* emit_texture_upload.
emit_texture_upload ==
    /\ open
    /\ \E rect \in Rects : UploadInPlace(rect) \/ UploadOrdered(rect) \/ UploadRenamed(rect)
    /\ UNCHANGED <<seq, open, sampled, written, heals, touched, pressed, subs, settled, failed,
                   lost, stale, wrong>>

Read(v) == [op |-> "read", src |-> v, want |-> truth]

DrawPrimitive ==
    /\ open /\ Use(0, 0)
    /\ body # <<>> => Last(body) # Read(live)      \* one draw stands for several
    /\ body' = Append(body, Read(live))
    /\ sampled' = sampled \cup {live}
    /\ UNCHANGED <<seq, open, head, written, heals, touched, pool, pending, gpu, truth, leapt>>

\* StretchRect out of the texture, as a copy: note_texture_read marks no sampling.
StretchFrom ==
    /\ open /\ Use(0, 1)
    /\ body' = Append(body, Read(live))
    /\ touched' = touched \cup {live}
    /\ UNCHANGED <<seq, open, head, sampled, written, heals, pool, pending, gpu, truth, leapt>>

\* An extended device's StretchRect over a whole level: note_texture_blit_write.
StretchInto ==
    /\ open /\ Use(1, 1)
    /\ \E level \in Levels :
         /\ state' = note_write(state, level)
         /\ body' = Append(body, [op |-> "blit", dst |-> live, tiles |-> level, write |-> used'.writes])
         /\ truth' = Uploaded(level, used'.writes)
    /\ written' = written \cup {live} /\ touched' = touched \cup {live}
    /\ UNCHANGED <<seq, open, head, sampled, heals, live, epochs, retiring, pressed, pending, gpu, leapt>>

finalize_submit ==
    /\ open
    /\ open' = FALSE
    /\ subs' = Append(subs, [seq |-> seq, ops |-> head \o body, heals |-> heals])
    /\ head' = <<>> /\ body' = <<>> /\ heals' = FALSE /\ sampled' = {} /\ touched' = {}
    /\ UNCHANGED <<seq, written, pool, pending, settled, failed, mem, lost,
                   stale, wrong, truth, leapt, used>>

-----------------------------------------------------------------------------
(* begin_frame: the drain of retired versions, the reset, the replays. *)

\* pop_retired, mutated: a version is popped one submission early.
Popped_mutated == SelectSeq(retiring, LAMBDA e : e.seq <= settled + 1)

\* pop_retired: the versions whose submission the gate passed, oldest first.
Popped == SelectSeq(retiring, LAMBDA e : e.seq <= settled)

\* park; a version turned away is destroyed by this drain, as the queue of
\* doomed versions is shorter than MIN_DESTROYS_PER_DRAIN.
park(st, e, now, full) ==
    IF st = <<>> \/ full THEN st
    ELSE IF st[1].epoch # e.epoch \/ Len(st[1].spares) + 1 > SpareCap THEN st
    ELSE <<[st[1] EXCEPT !.spares = Append(@,
             [v |-> e.v, parked |-> now,
              held |-> IF failed # 0 /\ e.birth <= failed THEN Junk ELSE e.held])]>>

\* note_allocated gives the oldest spares back; trim those idle for too long,
\* and the state of a texture that holds none and was not renamed for longer.
Drop(st, n) == IF st = <<>> THEN st ELSE <<[st[1] EXCEPT !.spares = SubSeq(@, n + 1, Len(@))]>>

trim(st, now) ==
    IF st = <<>> THEN st
    ELSE LET s == st[1]
             kept == SelectSeq(s.spares, LAMBDA x : x.parked + SpareIdle >= now)
             aged(n) == n + StateIdle < now
         IN  IF ~aged(s.idle) THEN <<[s EXCEPT !.spares = kept]>>
             ELSE IF aged(s.renamed) /\ kept = <<>> THEN <<>>
             ELSE <<[s EXCEPT !.spares = kept, !.idle = IF aged(s.renamed) THEN now ELSE s.renamed]>>

\* How much is allocated decides whether the pool parks, with a hysteresis, and
\* past the pressure line how many of the oldest spares go back.
note_allocated(n) ==
    \E allocated \in {"low", "between", "high"} :
      /\ pressed' = (allocated = "high" \/ (allocated = "between" /\ pressed))
      /\ allocated = "between" => pressed
      /\ IF allocated = "high"
         THEN used.extras < MaxExtras /\ (n = 0 => Spared(state) = {})
         ELSE n = 0
      /\ used' = [used EXCEPT !.frame = 0, !.extras = @ + IF allocated = "high" THEN 1 ELSE 0]

reclaim_texture_versions(n, now) ==
    trim(FoldLeft(LAMBDA st, e : park(st, e, now, pressed'), Drop(state, n), Popped), now)

\* settle_texture_uploads: one key, so an aborted entry owes every entry.
Owed == \E i \in 1 .. Len(pending) : pending[i].seq <= failed

Replays == [i \in 1 .. Len(pending) |-> Upload(live, pending[i].tiles, pending[i].write)]

\* A replay would put an upload over a copy made since.
Reverts == \E i \in 1 .. Len(pending) : \E t \in pending[i].tiles :
             /\ truth[t] # Unset
             /\ \A j \in 1 .. Len(pending) : t \in pending[j].tiles => pending[j].write < truth[t]

\* reissue_texture_upload stamps what it writes again.
reissue_texture_upload(st) == FoldLeft(LAMBDA x, e : note_write(x, e.tiles), st, pending)

begin_frame ==
    /\ ~open /\ seq < MaxSeq /\ Len(subs) < InFlight
    /\ open' = TRUE
    /\ seq' = seq + 1
    /\ \E continues \in BOOLEAN :
         /\ continues => written # {}
         /\ written' = IF continues THEN written \ {Popped[i].v : i \in 1 .. Len(Popped)} ELSE {}
    /\ \E n \in 0 .. Cardinality(Spared(state)) :
         /\ note_allocated(n)
         /\ LET st == reclaim_texture_versions(n, seq')
            IN  state' = IF Owed THEN reissue_texture_upload(st) ELSE st
    /\ retiring' = SelectSeq(retiring, LAMBDA e : \A i \in 1 .. Len(Popped) : Popped[i] # e)
    /\ head' = IF Owed THEN Replays ELSE <<>>
    /\ heals' = Owed
    /\ leapt' = (leapt \/ (Owed /\ Reverts))
    /\ pending' = IF Owed THEN [i \in 1 .. Len(pending) |-> [pending[i] EXCEPT !.seq = seq']]
                  ELSE SelectSeq(pending, LAMBDA e : e.seq > settled)
    /\ UNCHANGED <<body, sampled, touched, live, epochs, gpu, truth>>

-----------------------------------------------------------------------------
(* The GPU (external): submissions in order, what aborts stops anywhere. An    *)
(* open frame reads nothing the GPU changes, so a submission that ends while   *)
(* one is encoded is taken to end right behind it.                             *)

Ran(m, op) ==
    CASE op.op = "copy" -> [m EXCEPT ![op.dst] = [t \in Tiles |->
                              IF t \in op.tiles THEN m[op.src][t] ELSE @[t]]]
      [] op.op \in {"upload", "blit"} -> [m EXCEPT ![op.dst] = [t \in Tiles |->
                              IF t \in op.tiles THEN op.write ELSE @[t]]]
      [] OTHER -> m

After(ops, k) == FoldLeft(Ran, mem, SubSeq(ops, 1, k))

Sees(m, op, exempt) ==
    \A t \in Tiles \ exempt : op.want[t] \in {Unset, m[op.src][t]}

Complete ==
    /\ ~open /\ subs # <<>>
    /\ LET s == Head(subs)
       IN  /\ settled' = s.seq
           /\ stale' = IF s.heals THEN {} ELSE stale
           /\ mem' = After(s.ops, Len(s.ops))
           /\ wrong' = \E k \in 1 .. Len(s.ops) :
                         /\ s.ops[k].op = "read"
                         /\ ~Sees(After(s.ops, k), s.ops[k], stale')
    /\ subs' = Tail(subs)
    /\ UNCHANGED <<seq, open, frame, pool, pending, failed, truth, leapt, lost, used>>

Abort ==
    /\ ~open /\ subs # <<>> /\ used.extras < MaxExtras
    /\ used' = [used EXCEPT !.extras = @ + 1]
    /\ LET s == Head(subs)
       IN  \E k \in 0 .. Len(s.ops) - 1 :
             LET cut == {s.ops[i] : i \in k + 1 .. Len(s.ops)}
             IN  /\ settled' = s.seq /\ failed' = s.seq
                 /\ mem' = After(s.ops, k)
                 /\ lost' = (lost \/ \E op \in cut : op.op \in {"copy", "blit"})
                 /\ stale' = stale \cup UNION {op.tiles : op \in {x \in cut : x.op = "upload"}}
    /\ wrong' = FALSE
    /\ subs' = Tail(subs)
    /\ UNCHANGED <<seq, open, frame, pool, pending, truth, leapt>>

Next ==
    \/ emit_texture_upload \/ DrawPrimitive \/ StretchFrom \/ StretchInto
    \/ finalize_submit \/ begin_frame \/ Complete \/ Abort

Spec == Init /\ [][Next]_vars

-----------------------------------------------------------------------------
(* A draw, and a copy out of the texture, see the texels of the calls before   *)
(* them and none of the calls after: renames keep what earlier draws of the    *)
(* submission sample (emit_texture_upload, rename_sampled_texture), spares are *)
(* brought up to date from the write history whatever was aborted and replayed *)
(* (preserve_plan, park), and no version is reused while a command names it    *)
(* (pop_retired). An aborted upload may be missing until its replay; an        *)
(* aborted preserve copy is not replayed, and an upload can overtake a copy.   *)
ReadersSeeTheirTexels == leapt \/ lost \/ ~wrong

(* Only the live version and the ones still retiring are named by a command    *)
(* the GPU has not ended: a spare and a destroyed version are in none, so a    *)
(* rename may write the one and Metal may give the other's address to another  *)
(* texture (pop_retired, reclaim_texture_versions).                            *)
VersionsOutliveCommands ==
    \A i \in 1 .. Len(subs) : \A op \in Range(subs[i].ops) :
      {op[f] : f \in {"src", "dst"} \cap DOMAIN op} \subseteq {live} \cup Retired

=============================================================================
