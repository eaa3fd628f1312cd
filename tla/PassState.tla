----------------------------- MODULE PassState -----------------------------
(***************************************************************************)
(* How PassState of passes.rs records a frame's draws, clears and copies    *)
(* as render passes with load actions.  Operators over the recorder's       *)
(* state s; RenderPasses makes actions of them.                             *)
(*                                                                         *)
(* Extents are one-dimensional.  The modelled frame has one render target   *)
(* at a time, single-sampled, level 0, unscaled, with no occlusion query.   *)
(***************************************************************************)
EXTENDS Integers, Sequences, FiniteSets, SequencesExt, FiniteSetsExt

CONSTANTS Colors, Depths,   \* textures by kind
          Extent,           \* texture -> its number of cells
          StencilPlane,     \* depth texture -> its stencil plane, or NoTex
          Sampleable,       \* the depth textures a shader may sample
          Backbuffer, FrameDepth,
          Discards          \* the back buffer is undefined after Present

NoTex == "none"

\* A load action is Load, DontCare or the number of the clear it performs.
Load == 0
DontCare == -1
Clears(load) == load > 0
NoClear == 0             \* no pending clear

StencilOf(t) == IF t = NoTex THEN NoTex ELSE StencilPlane[t]

FreshState ==
    [passes |-> <<>>, closed |-> TRUE, dropped |-> FALSE,
     color |-> Backbuffer, depth |-> FrameDepth, viewport |-> Extent[Backbuffer],
     pending |-> [color |-> NoClear, depth |-> NoClear, stencil |-> NoClear], blits |-> <<>>,
     seenColor |-> {}, seenDepth |-> {}, blitWritten |-> {},
     everSampled |-> {}, frameSampled |-> {}, stencilWritten |-> {}]

reset_frame(s, continues_frame) ==
    [FreshState EXCEPT
        !.seenColor = IF continues_frame THEN s.seenColor ELSE {},
        !.seenDepth = IF continues_frame THEN s.seenDepth ELSE {},
        !.blitWritten = IF continues_frame THEN s.blitWritten ELSE {},
        !.everSampled = s.everSampled,
        !.stencilWritten = s.stencilWritten]

pass_binds_depth(s) == s.depth # NoTex
pass_binds_color(s) == s.color # NoTex /\ ~s.dropped
pass_color_covers_depth(s) ==
    \/ ~pass_binds_color(s)
    \/ ~pass_binds_depth(s)
    \/ Extent[s.color] >= Extent[s.depth]
viewport_covers(s, t) == t = NoTex \/ s.viewport >= Extent[t]

rt0_drop_candidate(s) ==
    /\ Extent[s.color] = 1
    /\ pass_binds_depth(s)
    /\ Extent[s.depth] > 1

end_current_pass(s) == [s EXCEPT !.dropped = FALSE, !.closed = TRUE]

set_rt0_dropped(s, drop) ==
    IF s.dropped = drop THEN s ELSE [end_current_pass(s) EXCEPT !.dropped = drop]

LastPass(s) == s.passes[Len(s.passes)]
current_pass_has_work(s) == ~s.closed /\ LastPass(s).commands # <<>>

----------------------------------------------------------------------------
(* Opening a pass.                                                          *)

\* Rule A: the first use of the frame's undefined back buffer loads nothing.
color_load_for(s, viewport) ==
    IF Clears(s.pending.color) THEN s.pending.color
    ELSE IF /\ viewport = Extent[s.color]
            /\ s.color = Backbuffer
            /\ Discards
            /\ s.color \notin s.seenColor \cup s.everSampled \cup s.blitWritten
         THEN DontCare
         ELSE Load

depth_first_use(s) ==
    /\ viewport_covers(s, s.depth)
    /\ s.depth \notin Sampleable \cup s.seenDepth \cup s.everSampled \cup s.blitWritten

plane_load(s, pending) ==
    IF Clears(pending) THEN pending ELSE IF depth_first_use(s) THEN DontCare ELSE Load

NewPass(s, color, depth, load) ==
    [color |-> color, depth |-> depth, load |-> load,
     store |-> [color |-> color # NoTex, depth |-> TRUE, stencil |-> TRUE],
     blits |-> s.blits, commands |-> <<>>,
     writesColor |-> FALSE, used |-> FALSE, stencilWritten |-> FALSE, covers |-> FALSE]

push_pass(s, attach) ==
    LET color == IF attach = "DepthOnly" THEN NoTex ELSE s.color
        depth == IF attach = "ColorOnly" THEN NoTex ELSE s.depth
        viewport == IF attach = "ColorOnly" THEN Extent[s.color] ELSE s.viewport
        bound == depth # NoTex
        load == [color |-> IF color = NoTex THEN DontCare ELSE color_load_for(s, viewport),
                 depth |-> IF bound THEN plane_load(s, s.pending.depth) ELSE Load,
                 stencil |-> IF bound THEN plane_load(s, s.pending.stencil) ELSE Load]
    IN  [s EXCEPT
            !.passes = Append(@, NewPass(s, color, depth, load)),
            !.closed = FALSE,
            !.blits = <<>>,
            !.pending = [color |-> IF color = NoTex THEN @.color ELSE NoClear,
                         depth |-> IF bound THEN NoClear ELSE @.depth,
                         stencil |-> IF bound THEN NoClear ELSE @.stencil],
            !.seenColor = @ \cup ({color} \ {NoTex}),
            !.seenDepth = @ \cup ({depth} \ {NoTex})]

\* A depth-only pass that clears the whole depth surface, closed at once.
push_depth_clear_pass(s) ==
    LET t == [end_current_pass(s) EXCEPT
                 !.passes = Append(@, NewPass(s, NoTex, s.depth,
                                [s.pending EXCEPT !.color = DontCare])),
                 !.blits = <<>>,
                 !.seenDepth = @ \cup {s.depth}]
    IN  [(IF s.depth = NoTex THEN s ELSE t)
            EXCEPT !.pending.depth = NoClear, !.pending.stencil = NoClear]

depth_pending(s) == Clears(s.pending.depth) \/ Clears(s.pending.stencil)

\* An opening that leaves a depth clear to a pass smaller than the depth surface.
open_pass_mutated(s) ==
    IF s.dropped
    THEN push_pass(IF Clears(s.pending.color) THEN push_pass(s, "ColorOnly") ELSE s, "DepthOnly")
    ELSE push_pass(s, "Both")

open_pass(s) ==
    IF s.dropped
    THEN push_pass(IF Clears(s.pending.color) THEN push_pass(s, "ColorOnly") ELSE s, "DepthOnly")
    ELSE IF depth_pending(s) /\ ~pass_color_covers_depth(s)
         THEN push_pass([push_depth_clear_pass(s) EXCEPT !.pending = s.pending], "Both")
         ELSE push_pass(s, "Both")

ensure_pass_open(s) == IF s.closed THEN open_pass(s) ELSE s

flush_pending_clears(s) ==
    LET t == IF \/ Clears(s.pending.color)
                \/ depth_pending(s) /\ pass_binds_depth(s) /\ pass_color_covers_depth(s)
             THEN end_current_pass(ensure_pass_open(s))
             ELSE s
    IN  IF depth_pending(t) THEN push_depth_clear_pass(t) ELSE t

----------------------------------------------------------------------------
(* Bindings.                                                                *)

set_color_render_target(s, t) ==
    IF s.color = t THEN s
    ELSE [end_current_pass(IF Clears(s.pending.color) THEN flush_pending_clears(s) ELSE s)
             EXCEPT !.color = t]

set_depth_stencil_attachment(s, t) ==
    IF s.depth = t THEN s
    ELSE [end_current_pass(IF depth_pending(s) THEN flush_pending_clears(s) ELSE s)
             EXCEPT !.depth = t]

\* SetRenderTarget, SetDepthStencilSurface and SetViewport, as a frame emits them.
Bind(s, at) ==
    [set_depth_stencil_attachment(set_color_render_target(s, at.color), at.depth)
        EXCEPT !.viewport = at.viewport]

----------------------------------------------------------------------------
(* Commands.  Every command is a draw: "Draw", "Cover" (the quad of a        *)
(* scaled StretchRect), "ColorQuad" or "DepthQuad" (clears inside a pass).   *)

Command(kind, id, viewport, writes, tests, samples) ==
    [kind |-> kind, id |-> id, viewport |-> viewport, writes |-> writes, tests |-> tests,
     samples |-> samples]

emit_command(s, c) ==
    LET t == ensure_pass_open(s)
        texture == {c.samples} \ {NoTex}
    IN  [t EXCEPT
            !.passes[Len(t.passes)].commands = Append(@, c),
            !.everSampled = @ \cup texture,
            !.frameSampled = @ \cup texture]

note_depth_stencil_clear_quad(s, planes) ==
    [s EXCEPT !.passes[Len(s.passes)].used = TRUE,
              !.passes[Len(s.passes)].stencilWritten = @ \/ "stencil" \in planes]

DepthQuad(s, id, planes) ==
    note_depth_stencil_clear_quad(
        emit_command(s, Command("DepthQuad", id, s.viewport, planes, {}, NoTex)), planes)

ColorQuad(s, id) == emit_command(s, Command("ColorQuad", id, s.viewport, {"color"}, {}, NoTex))

target_planes(s) ==
    {"color"} \cup (IF pass_binds_depth(s) THEN {"depth"} ELSE {})
              \cup (IF StencilOf(s.depth) # NoTex THEN {"stencil"} ELSE {})

skip_dead_draw(s, writes) ==
    /\ writes = {}
    /\ ~(s.closed /\ (Clears(s.pending.color) \/ depth_pending(s)))

\* emit_draw from its target decision to its draw command.
emit_draw(s, d, id) ==
    LET planes == target_planes(s)
        writes == d.writes \cap planes
        tests == d.tests \cap planes
        rt0_drop == "color" \notin writes /\ pass_binds_depth(s) /\ rt0_drop_candidate(s)
        t == emit_command(set_rt0_dropped(s, rt0_drop),
                          Command("Draw", id, s.viewport, writes, tests, d.samples))
        n == Len(t.passes)
    IN  IF skip_dead_draw(s, writes) THEN s
        ELSE [t EXCEPT !.passes[n].writesColor = @ \/ "color" \in writes,
                       !.passes[n].used = @ \/ tests # {},
                       !.passes[n].stencilWritten = @ \/ "stencil" \in writes]

----------------------------------------------------------------------------
(* Clears, bounded to the viewport.                                         *)

clear_color(s, id) ==
    IF current_pass_has_work(s) THEN ColorQuad(s, id)
    ELSE IF ~s.closed THEN [s EXCEPT !.passes[Len(s.passes)].load.color = id,
                                     !.pending.color = NoClear]
    ELSE [s EXCEPT !.pending.color = id]

begin_region_color_clear(s) ==
    LET t == ensure_pass_open(s) IN
    IF s.closed /\ ~Clears(s.pending.color)
    THEN [t EXCEPT !.passes[Len(t.passes)].load.color = Load]
    ELSE t

clear_color_bounded_to_viewport(s, id) ==
    LET t == IF s.dropped THEN end_current_pass(s) ELSE s IN
    IF viewport_covers(t, t.color) THEN clear_color(t, id)
    ELSE ColorQuad(begin_region_color_clear(t), id)

\* A pass smaller than the depth surface cannot take a clear of all of it.
end_small_color_pass_for_depth_clear(s) ==
    IF ~s.closed /\ ~pass_color_covers_depth(s) THEN end_current_pass(s) ELSE s

\* clear_depth and clear_stencil, which take the same way for the planes they are given.
clear_depth_stencil(s, planes, id) ==
    LET t == end_small_color_pass_for_depth_clear(s)
        n == Len(t.passes)
        Set(load) == [x \in DOMAIN load |-> IF x \in planes THEN id ELSE load[x]]
    IN  IF ~pass_binds_depth(s) THEN s
        ELSE IF current_pass_has_work(t) THEN DepthQuad(t, id, planes)
        ELSE IF ~t.closed THEN [t EXCEPT !.passes[n].load = Set(@)]
        ELSE [t EXCEPT !.pending = Set(@)]

begin_region_depth_stencil_clear(s) ==
    LET past == ~pass_color_covers_depth(s) /\ s.viewport > Extent[s.color]
        t == IF past THEN set_rt0_dropped(s, TRUE) ELSE s
        u == ensure_pass_open(t)
        Keep(x, load) == IF t.closed /\ ~Clears(t.pending[x]) THEN Load ELSE load
    IN  [u EXCEPT !.passes[Len(u.passes)].load.depth = Keep("depth", @),
                  !.passes[Len(u.passes)].load.stencil = Keep("stencil", @)]

clear_depth_stencil_bounded_to_viewport(s, planes, id) ==
    IF viewport_covers(s, s.depth) THEN clear_depth_stencil(s, planes, id)
    ELSE DepthQuad(begin_region_depth_stencil_clear(s), id, planes)

----------------------------------------------------------------------------
(* Copies.                                                                  *)

push_leading_blit_after_clears(s, blit) ==
    [end_current_pass(flush_pending_clears(s)) EXCEPT
        !.blits = Append(@, blit),
        !.everSampled = @ \cup {blit.src},
        !.blitWritten = @ \cup {blit.dst},
        !.stencilWritten = @ \cup {blit.dst}]

open_pass_for_covering_draw(s) ==
    LET t == ensure_pass_open(s) IN
    IF s.closed THEN [t EXCEPT !.passes[Len(t.passes)].covers = TRUE] ELSE t

\* A StretchRect that scales: a pass of its own on the destination, then the old bindings.
stretch_blit_scaled(s, src, dst, id) ==
    LET target == [color |-> dst, depth |-> NoTex, viewport |-> Extent[dst]]
        open == open_pass_for_covering_draw(Bind(s, target))
        read == [open EXCEPT !.everSampled = @ \cup {dst}]
        drawn == end_current_pass(
                     emit_command(read, Command("Cover", id, Extent[dst], {"color"}, {}, src)))
    IN  Bind(drawn, [color |-> s.color, depth |-> s.depth, viewport |-> s.viewport])
=============================================================================
