---------------------------- MODULE ClearHistory ----------------------------
(***************************************************************************)
(* ClearHistory of async_compile.rs and its users in encoder/compile.rs: the *)
(* pruned per-texture record of recent clears and kept reads, from which    *)
(* the encoder decides whether a draw may be left out of its frame.         *)
(***************************************************************************)
EXTENDS Integers, Sequences, FiniteSets, Functions, SequencesExt

CONSTANTS Planes, BackBuffer, FeedMemory, Passes,
          MaxFrame     \* bound on the frame index

VARIABLES frame,      \* starts at 1; 0 means never
          textures    \* per texture with a record: its clears and its last kept read

vars == <<frame, textures>>

Textures == {x[1] : x \in Planes}
Color(t) == <<t, "color">>
NoHistory == [clears |-> <<>>, fed |-> 0]     \* <<>> is also the empty function
Of(h, t) == IF t \in DOMAIN h THEN h[t] ELSE NoHistory
Put(h, t, r) == [u \in DOMAIN h \cup {t} |-> IF u = t THEN r ELSE h[u]]

fed_within(r, f) == r.fed # 0 /\ r.fed + FeedMemory >= f

record(h, x) ==
    LET r == Of(h, x[1])
        c == IF x[2] \in DOMAIN r.clears THEN r.clears[x[2]] ELSE [last |-> 0, before |-> 0]
        d == IF c.last = frame THEN c ELSE [last |-> frame, before |-> c.last]
    IN  Put(h, x[1], [r EXCEPT !.clears = Put(@, x[2], d)])

\* One clear is enough.
regenerated_mutated(h, x) ==
    x[2] \in DOMAIN Of(h, x[1]).clears /\ h[x[1]].clears[x[2]].last = frame

regenerated(h, x) ==
    /\ x[2] \in DOMAIN Of(h, x[1]).clears
    /\ LET c == h[x[1]].clears[x[2]] IN
       c.last = frame /\ c.before # 0 /\ c.before + 1 = frame

tracks(h, t) == DOMAIN Of(h, t).clears # {}
feeds_persistent(h, t) == fed_within(Of(h, t), frame)
mark_feeds_persistent(h, t) == Put(h, t, [Of(h, t) EXCEPT !.fed = frame])

plane_rebuilt(h, x) ==
    /\ x = Color(BackBuffer) \/ regenerated(h, x)
    /\ ~feeds_persistent(h, x[1])

pass_is_kept(h, pass) == \E x \in pass.writes : ~plane_rebuilt(h, x)

\* One round over the passes: each kept one marks the tracked textures it sampled.
Round(h, passes) ==
    LET Mark(g, pass) ==
            LET marked == {t \in pass.reads : tracks(g, t)} IN
            IF pass_is_kept(g, pass)
            THEN [t \in DOMAIN g |-> IF t \in marked THEN [g[t] EXCEPT !.fed = frame] ELSE g[t]]
            ELSE g
    IN  FoldLeft(Mark, h, passes)

\* A walk of a single round.
mark_kept_reads_mutated(h, passes) == Round(h, passes)

\* Rounds repeat until nothing new is marked; the number of reads bounds them.
mark_kept_reads(h, passes) ==
    LET reads == FoldLeft(LAMBDA n, pass : n + Cardinality(pass.reads), 0, passes)
        walk[n \in 0..reads + 1] == IF n = 0 THEN h ELSE LET g == walk[n - 1] IN Round(g, passes)
    IN  walk[reads + 1]

----------------------------------------------------------------------------
Init == frame = 1 /\ textures = <<>>

begin_frame ==
    /\ frame < MaxFrame
    /\ frame' = frame + 1
    /\ LET recent(r) == {p \in DOMAIN r.clears : r.clears[p].last + 1 >= frame'}
           kept == {t \in DOMAIN textures :
                      recent(textures[t]) # {} \/ fed_within(textures[t], frame')}
       IN  textures' = [t \in kept |->
               [textures[t] EXCEPT !.clears = Restrict(@, recent(textures[t]))]]

note_cleared(x) ==
    /\ textures' = record(textures, x) /\ UNCHANGED frame

note_stretch_copy(src, dst, whole) ==
    LET h == IF whole THEN record(textures, Color(dst)) ELSE textures IN
    /\ textures' = IF plane_rebuilt(h, Color(dst)) THEN h ELSE mark_feeds_persistent(h, src)
    /\ UNCHANGED frame

note_frame_reads(passes) ==
    /\ textures' = mark_kept_reads(textures, passes) /\ UNCHANGED frame

forget(t) ==
    /\ textures' = Restrict(textures, DOMAIN textures \ {t}) /\ UNCHANGED frame

clear == textures' = <<>> /\ UNCHANGED frame

\* may_skip_draw over what targets_rebuilt answers for the bound targets.
skip_pending_draw(planes) ==
    \A x \in planes : plane_rebuilt(textures, x)

Next ==
    \/ begin_frame \/ clear
    \/ \E x \in Planes : note_cleared(x)
    \/ \E s, d \in Textures : \E w \in {FALSE, Color(d) \in Planes} : note_stretch_copy(s, d, w)
    \/ \E passes \in Passes : note_frame_reads(passes)
    \/ \E t \in Textures : forget(t)

Spec == Init /\ [][Next]_vars

----------------------------------------------------------------------------
ClearedIn(f) ==
    {x \in Planes : x[2] \in DOMAIN Of(textures, x[1]).clears
                    /\ LET c == textures[x[1]].clears[x[2]] IN f \in {c.last, c.before} \ {0}}

AgeOf(t) == IF feeds_persistent(textures, t) THEN frame - Of(textures, t).fed ELSE FeedMemory + 1

Policy == INSTANCE SkipPolicy WITH now <- ClearedIn(frame), before <- ClearedIn(frame - 1),
                                   age <- [t \in Textures |-> AgeOf(t)]

\* The pruned records remember what the policy needs: every clear, copy, submitted
\* pass list, destroyed texture and Reset of the encoder is a step of the policy
\* stated over the last frames, and a copy or a submitted pass list is that very
\* copy or submission there (async_compile.rs, ClearHistory).
ImplementsPolicy ==
    /\ Policy!Spec
    /\ [][/\ \A passes \in Passes : note_frame_reads(passes) => Policy!Submit(passes)
          /\ \A s, d \in Textures : note_stretch_copy(s, d, FALSE) => Policy!Copy(s, d, FALSE)]_vars

\* A draw is left out exactly when the policy lets it be.
SkipsAgree == \A planes \in SUBSET Planes : skip_pending_draw(planes) <=> Policy!MaySkip(planes)
=============================================================================
