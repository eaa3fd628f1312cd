----------------------------- MODULE PassRules -----------------------------
(***************************************************************************)
(* The rules of passes.rs that rewrite a submission's recorded passes        *)
(* before they are encoded: which passes go, which are joined, and which    *)
(* loads and stores are left out.                                           *)
(***************************************************************************)
EXTENDS PassState

Later(ps, i, P(_)) == {j \in i + 1 .. Len(ps) : P(ps[j])}
Each(s, F(_)) == [s EXCEPT !.passes = [i \in DOMAIN @ |-> F(@[i])]]

blit_list_writes(p, t) == t # NoTex /\ \E b \in Range(p.blits) : b.dst = t
pass_samples_texture(s, p, t) ==
    t \in s.frameSampled /\ \E c \in Range(p.commands) : c.samples = t
pass_reads_texture(s, p, t) ==
    \/ pass_samples_texture(s, p, t)
    \/ t # NoTex /\ \E b \in Range(p.blits) : b.src = t
pass_attaches_texture(p, t) == t # NoTex /\ t \in {p.color, p.depth}

color_extent_covers_depth(p) ==
    NoTex \in {p.color, p.depth} \/ Extent[p.color] >= Extent[p.depth]
color_written_without_draws(p) == p.color # NoTex /\ Clears(p.load.color) /\ p.store.color
depth_written_without_draws(p) ==
    /\ p.depth # NoTex
    /\ \/ Clears(p.load.depth) /\ p.store.depth
       \/ StencilOf(p.depth) # NoTex /\ Clears(p.load.stencil) /\ p.store.stencil
clear_only(p) == p.commands = <<>> /\ p.blits = <<>>
drop_color_attachment(p) ==
    [p EXCEPT !.color = NoTex, !.load.color = DontCare, !.store.color = FALSE]

----------------------------------------------------------------------------
(* Rule I: a clear nothing reads before a copy overwrites it.                *)

dead_clear_targets(p) ==
    IF ~clear_only(p) \/ (p.depth # NoTex /\ Clears(p.load.stencil)) THEN {}
    ELSE {t \in {p.color, p.depth} \ {NoTex} :
             Clears(IF t = p.color THEN p.load.color ELSE p.load.depth)}

Overwrites(blit, t) == blit.src # t /\ blit.dst = t /\ blit.cells = Extent[t]

overwritten_before_read(s, ps, i, t) ==
    \E j \in i + 1 .. Len(ps) :
        \E k \in DOMAIN ps[j].blits :
            /\ Overwrites(ps[j].blits[k], t)
            /\ \A l \in 1 .. k - 1 : ps[j].blits[l].src # t
            /\ \A m \in i + 1 .. j - 1 :
                  ~pass_reads_texture(s, ps[m], t) /\ ~pass_attaches_texture(ps[m], t)

drop_overwritten_clear_only_passes(s) ==
    LET n == Len(s.passes)
        From[i \in 1 .. n + 1] ==      \* the list once passes i .. n were looked at
            IF i = n + 1 THEN s.passes
            ELSE LET ps == From[i + 1]
                     targets == dead_clear_targets(ps[i])
                 IN  IF /\ targets # {}
                        /\ \A t \in targets : overwritten_before_read(s, ps, i, t)
                     THEN RemoveAt(ps, i) ELSE ps
    IN  [s EXCEPT !.passes = From[1]]

----------------------------------------------------------------------------
(* Rule E: a clear-only pass becomes the load action of a later pass.        *)

\* The pass that may take over the clears of ps[i], or 0.  The first pass that
\* touches what is cleared decides.
find_clear_merge_target(s, ps, i) ==
    LET p == ps[i]
        color == Clears(p.load.color)
        depth == Clears(p.load.depth)
        stencil == p.depth # NoTex /\ Clears(p.load.stencil)
        At(c) == c.depth = p.depth
        Bails(c) ==
            \/ color /\ (pass_reads_texture(s, c, p.color) \/ blit_list_writes(c, p.color))
            \/ (depth \/ stencil)
               /\ (pass_reads_texture(s, c, p.depth) \/ blit_list_writes(c, p.depth))
            \/ color /\ c.color = p.color /\ Clears(c.load.color)
            \/ depth /\ At(c) /\ Clears(c.load.depth)
            \/ stencil /\ At(c) /\ Clears(c.load.stencil)
            \/ (depth \/ stencil) /\ At(c) /\ ~color_extent_covers_depth(c)
        Takes(c) ==
            /\ color => c.color = p.color /\ c.load.color = Load
            /\ depth => At(c) /\ c.load.depth = Load
            /\ stencil => At(c) /\ c.load.stencil = Load
        Consumes(c) ==
            \/ color /\ c.color = p.color
            \/ depth /\ At(c) /\ c.load.depth = Load
            \/ stencil /\ At(c) /\ c.load.stencil = Load
        Decides(c) == Bails(c) \/ Takes(c) \/ Consumes(c)
        first == Later(ps, i, Decides)
    IN  IF first = {} THEN 0
        ELSE IF Bails(ps[Min(first)]) \/ ~Takes(ps[Min(first)]) THEN 0 ELSE Min(first)

Fold(from, into) ==
    [into EXCEPT
        !.load.color = IF Clears(from.load.color) THEN from.load.color ELSE @,
        !.load.depth = IF Clears(from.load.depth) THEN from.load.depth ELSE @,
        !.load.stencil = IF from.depth # NoTex /\ Clears(from.load.stencil)
                         THEN from.load.stencil ELSE @]

coalesce_clear_only_passes(s) ==
    LET n == Len(s.passes)
        needs(p) ==
            /\ clear_only(p)
            /\ \/ Clears(p.load.color) \/ Clears(p.load.depth)
               \/ p.depth # NoTex /\ Clears(p.load.stencil)
        \* The list and the next index after k passes were looked at.
        After[k \in 0 .. n] ==
            IF k = 0 THEN [ps |-> s.passes, i |-> 1]
            ELSE LET a == After[k - 1]
                     t == IF needs(a.ps[a.i]) THEN find_clear_merge_target(s, a.ps, a.i) ELSE 0
                 IN  IF t = 0 THEN [a EXCEPT !.i = @ + 1]
                     ELSE [a EXCEPT !.ps = RemoveAt([@ EXCEPT ![t] = Fold(a.ps[a.i], @)], a.i)]
    IN  [s EXCEPT !.passes = After[n].ps]

----------------------------------------------------------------------------
(* Rule A's correction: what is ever sampled keeps its loads.                *)

finalize_load_actions(s) ==
    LET Fix(load, t) == IF load = DontCare /\ t \in s.everSampled THEN Load ELSE load
        Kept(p) == [p EXCEPT !.load.color = Fix(@, p.color),
                             !.load.depth = Fix(@, p.depth),
                             !.load.stencil = Fix(@, p.depth)]
    IN  Each(s, Kept)

----------------------------------------------------------------------------
(* Rules B and C: stores nothing needs.                                      *)

depth_touched_between(s, ps, first, next, t) ==
    \E j \in first + 1 .. next :
        pass_reads_texture(s, ps[j], t) \/ blit_list_writes(ps[j], t)

\* Rule B: after the last use before a Present, a depth surface no shader can sample.
discard_last_depth_stores(s) ==
    LET n == Len(s.passes)
        KeepsStore(p) == p.depth \in Sampleable \cup s.everSampled
        \* tail[t]: 0 before t's last pass, the first pass of its unused tail, or -1.
        From[i \in 1 .. n + 1] ==
            IF i = n + 1 THEN [ps |-> s.passes, tail |-> [t \in Depths |-> 0]]
            ELSE LET a == From[i + 1]
                     p == a.ps[i]
                     goes == /\ ~KeepsStore(p)
                             /\ \/ a.tail[p.depth] = 0
                                \/ /\ a.tail[p.depth] > 0
                                   /\ ~depth_touched_between(s, a.ps, i, a.tail[p.depth], p.depth)
                 IN  IF p.depth = NoTex THEN a
                     ELSE [ps |-> IF goes THEN [a.ps EXCEPT ![i].store.depth = FALSE,
                                                            ![i].store.stencil = FALSE]
                                          ELSE a.ps,
                           tail |-> [a.tail EXCEPT ![p.depth] =
                                         IF goes /\ ~p.used THEN i ELSE -1]]
    IN  [s EXCEPT !.passes = From[1].ps]

\* A colour discard that forgets that a shader or a copy may read the texture.
discard_color_stores_mutated(s) ==
    LET ps == s.passes
        Goes(i) ==
            LET uses == Later(ps, i, LAMBDA q : q.color = ps[i].color) IN
            ps[i].color # NoTex /\ uses # {} /\ Clears(ps[Min(uses)].load.color)
    IN  [s EXCEPT !.passes = [i \in DOMAIN ps |->
            IF Goes(i) THEN [ps[i] EXCEPT !.store.color = FALSE] ELSE ps[i]]]

\* Rule C, colour: the next pass on the target clears it.
discard_color_stores(s) ==
    LET ps == s.passes
        Goes(i) ==
            LET uses == Later(ps, i, LAMBDA q : q.color = ps[i].color) IN
            /\ ps[i].color \notin {NoTex} \cup s.everSampled
            /\ uses # {}
            /\ Clears(ps[Min(uses)].load.color)
    IN  [s EXCEPT !.passes = [i \in DOMAIN ps |->
            IF Goes(i) THEN [ps[i] EXCEPT !.store.color = FALSE] ELSE ps[i]]]

\* Rule C, depth: the next pass on the surface clears it, over all of it.
discard_depth_stores_before_clears(s) ==
    LET ps == s.passes
        uses(i) == Later(ps, i, LAMBDA q : q.depth = ps[i].depth)
        Goes(i) ==
            /\ ps[i].depth \notin {NoTex} \cup Sampleable \cup s.everSampled
            /\ uses(i) # {}
            /\ ~depth_touched_between(s, ps, i, Min(uses(i)), ps[i].depth)
            /\ color_extent_covers_depth(ps[Min(uses(i))])
        Cleared(i, x) == Goes(i) /\ Clears(ps[Min(uses(i))].load[x])
    IN  [s EXCEPT !.passes = [i \in DOMAIN ps |->
            [ps[i] EXCEPT
                !.store.depth = @ /\ ~Cleared(i, "depth"),
                !.store.stencil = @ /\ ~(StencilOf(ps[i].depth) # NoTex /\ Cleared(i, "stencil"))]]]

discard_unwritten_stencil(s) ==
    LET written == s.stencilWritten \cup
            {p.depth : p \in {q \in Range(s.passes) :
                 q.depth # NoTex /\ (q.stencilWritten \/ Clears(q.load.stencil))}}
        Never(p) ==
            IF StencilOf(p.depth) = NoTex \/ p.depth \in written THEN p
            ELSE [p EXCEPT !.load.stencil = IF @ = Load THEN DontCare ELSE @,
                           !.store.stencil = FALSE]
    IN  [Each(s, Never) EXCEPT !.stencilWritten = written]

discard_unused_depth_loads(s) ==
    LET Skip(load, store) == IF ~store /\ load = Load THEN DontCare ELSE load
        Unused(p) ==
            IF p.depth = NoTex \/ p.used THEN p
            ELSE [p EXCEPT !.load.depth = Skip(@, p.store.depth),
                           !.load.stencil = IF StencilOf(p.depth) = NoTex THEN @
                                            ELSE Skip(@, p.store.stencil)]
    IN  Each(s, Unused)

finalize_store_actions(s, frame_continues) ==
    discard_unused_depth_loads(discard_unwritten_stencil(discard_depth_stores_before_clears(
        discard_color_stores(IF frame_continues THEN s ELSE discard_last_depth_stores(s)))))

----------------------------------------------------------------------------
(* Rules G, H and F: attachments and passes that do nothing.                  *)

strip_dead_color_in_clear_only_passes(s) ==
    LET Strip(p) ==
            IF /\ clear_only(p)
               /\ NoTex \notin {p.color, p.depth}
               /\ ~color_written_without_draws(p)
            THEN drop_color_attachment(p) ELSE p
    IN  Each(s, Strip)

\* The pipelines of such passes all have a twin without a colour output.
strip_color_from_no_color_draw_passes(s) ==
    LET IsQuad(c) == c.kind = "ColorQuad"
        quads(p) == SelectSeq(p.commands, IsQuad) # <<>>
        Strips(p) ==
            /\ ~p.writesColor
            /\ NoTex \notin {p.color, p.depth}
            /\ color_extent_covers_depth(p)
            /\ ~color_written_without_draws(p)
            /\ \E c \in Range(p.commands) : ~IsQuad(c)
            /\ quads(p) => ~p.store.color
        Strip(p) ==
            IF Strips(p)
            THEN [drop_color_attachment(p) EXCEPT
                     !.commands = SelectSeq(@, LAMBDA c : ~IsQuad(c))]
            ELSE p
    IN  Each(s, Strip)

cull_dead_clear_only_passes(s) ==
    LET Keep(p) == \/ ~clear_only(p)
                   \/ color_written_without_draws(p)
                   \/ depth_written_without_draws(p)
    IN  [s EXCEPT !.passes = SelectSeq(@, Keep)]

----------------------------------------------------------------------------
(* Rules J and K.                                                           *)

carries_over(store, load) == load = DontCare \/ (load = Load /\ store)

merges(s, prev, next) ==
    /\ prev.color = next.color /\ prev.depth = next.depth
    /\ {prev.color, prev.depth} # {NoTex}
    /\ next.blits = <<>>
    /\ prev.color # NoTex => prev.store.color /\ next.load.color = Load
    /\ prev.depth # NoTex =>
          /\ carries_over(prev.store.depth, next.load.depth)
          /\ StencilOf(prev.depth) # NoTex => carries_over(prev.store.stencil, next.load.stencil)
    /\ \A t \in {prev.color, prev.depth} : ~pass_samples_texture(s, next, t)

absorb(prev, next) ==
    [prev EXCEPT !.commands = @ \o next.commands,
                 !.store = next.store,
                 !.used = @ \/ next.used,
                 !.stencilWritten = @ \/ next.stencilWritten,
                 !.writesColor = @ \/ next.writesColor]

merge_adjacent_identical_passes(s) ==
    LET Add(ps, p) ==
            IF ps # <<>> /\ merges(s, ps[Len(ps)], p)
            THEN [ps EXCEPT ![Len(ps)] = absorb(@, p)]
            ELSE Append(ps, p)
    IN  [s EXCEPT !.passes = FoldLeft(Add, <<>>, @)]

discard_covered_color_loads(s) ==
    LET Covered(p) ==
            IF p.covers /\ p.color # NoTex /\ p.load.color = Load
            THEN [p EXCEPT !.load.color = DontCare] ELSE p
    IN  Each(s, Covered)

apply_pass_rules(s, frame_continues) ==
    discard_covered_color_loads(
        merge_adjacent_identical_passes(
            cull_dead_clear_only_passes(
                strip_color_from_no_color_draw_passes(
                    strip_dead_color_in_clear_only_passes(
                        finalize_store_actions(
                            finalize_load_actions(
                                coalesce_clear_only_passes(
                                    drop_overwritten_clear_only_passes(s))),
                            frame_continues))))))
=============================================================================
