---------------------------- MODULE RenderPasses ----------------------------
(***************************************************************************)
(* What the recorded and rewritten passes leave in memory, beside what       *)
(* executing each call at once would leave: the recorder (PassState), the    *)
(* rules (PassRules), a GPU that runs the passes, and the immediate D3D9     *)
(* device the game believes in.                                             *)
(*                                                                         *)
(* A cell's content names the operation that wrote it and what it was made   *)
(* from.  Undefined content is contagious and equals nothing the game may    *)
(* rely on.                                                                 *)
(***************************************************************************)
EXTENDS PassRules

CONSTANTS Draws, ClearOps, Copies, Stretches,   \* the calls a frame may make
          MaxWork,       \* bound on the calls of one submission
          MaxTotal       \* bound on the calls of a behaviour

VARIABLES s,         \* the encoder's PassState
          mem,       \* GPU memory as of the last submission
          ideal,     \* what the immediate device's memory holds
          work,      \* the calls made in this submission
          total,     \* and overall
          phase      \* "record", "flushed" or "presented"

vars == <<s, mem, ideal, work, total, phase>>

Stencils == {StencilPlane[t] : t \in Depths} \ {NoTex}
Planes == Colors \cup Depths \cup Stencils
Cells(q) == 1 .. (IF q \in Stencils
                  THEN Extent[CHOOSE t \in Depths : StencilPlane[t] = q] ELSE Extent[q])

Content(op, at, from) == [op |-> op, at |-> at, from |-> from]
Undefined == Content(0, <<NoTex, 0>>, <<>>)
Old(q, c) == Content(0, <<q, c>>, <<>>)
Made(op, from) ==
    IF Undefined \in Range(from) THEN Undefined ELSE Content(op, <<NoTex, 0>>, from)

----------------------------------------------------------------------------
(* The GPU.                                                                 *)

Copied(m, b) == [m EXCEPT ![b.dst] = [c \in DOMAIN @ |-> IF c <= b.cells THEN m[b.src][c] ELSE @[c]]]

\* The plane of the attachments a that x names.
PlaneOf(a, x) == CASE x = "color" -> a.color [] x = "depth" -> a.depth
                   [] x = "stencil" -> StencilOf(a.depth)
Attached(a) == {x \in {"color", "depth", "stencil"} : PlaneOf(a, x) # NoTex}

\* A pass covers the smallest of its attachments.
Area(a) == Min({Extent[t] : t \in {a.color, a.depth} \ {NoTex}})

\* A command on attachments a, over the first n cells.
Drawn(m, a, n, c) ==
    LET Inputs(x, i) ==
            IF c.kind \in {"ColorQuad", "DepthQuad"} THEN <<>>
            ELSE (IF c.kind = "Cover" THEN <<>> ELSE <<m[PlaneOf(a, x)][i]>>)
                 \o [k \in 1 .. Cardinality(c.tests) |->
                        m[PlaneOf(a, SetToSeq(c.tests)[k])][i]]
                 \o (IF c.samples = NoTex THEN <<>> ELSE m[c.samples])
        wrote == {PlaneOf(a, x) : x \in c.writes \cap Attached(a)}
        name(q) == CHOOSE x \in c.writes : PlaneOf(a, x) = q
    IN  [q \in Planes |->
            IF q \notin wrote THEN m[q]
            ELSE [i \in Cells(q) |->
                    IF i <= n /\ i <= c.viewport THEN Made(c.id, Inputs(name(q), i)) ELSE m[q][i]]]

Loaded(m, p) ==
    LET name(q) == CHOOSE x \in Attached(p) : PlaneOf(p, x) = q
        planes == {PlaneOf(p, x) : x \in Attached(p)}
    IN  [q \in Planes |->
            IF q \notin planes THEN m[q]
            ELSE [i \in Cells(q) |->
                    LET load == p.load[name(q)] IN
                    IF load = DontCare THEN Undefined
                    ELSE IF Clears(load) /\ i <= Area(p) THEN Made(load, <<>>) ELSE m[q][i]]]

Stored(m, p) ==
    [q \in Planes |->
        IF \E x \in Attached(p) : PlaneOf(p, x) = q /\ ~p.store[x]
        THEN [i \in Cells(q) |-> Undefined] ELSE m[q]]

Executed(m, p) ==
    LET Run(n, c) == Drawn(n, p, Area(p), c)
    IN  Stored(FoldLeft(Run, Loaded(FoldLeft(Copied, m, p.blits), p), p.commands), p)

\* The passes in order, then the copies no pass followed.
Replayed(m, t) == FoldLeft(Copied, FoldLeft(Executed, m, t.passes), t.blits)

----------------------------------------------------------------------------
(* The calls, with what each does to the immediate device.                  *)

\* A draw covers the smallest target, unless it leaves a 1x1 one unwritten.
ImmediateDraw(m, d, id) ==
    LET a == d.at
        writes == d.writes \cap Attached(a)
        area == IF "color" \notin writes /\ Extent[a.color] = 1 /\ a.depth # NoTex
                THEN Extent[a.depth] ELSE Area(a)
    IN  Drawn(m, a, area, Command("Draw", id, a.viewport, writes, d.tests \cap Attached(a), d.samples))

ImmediateClear(m, at, planes, id) ==
    [q \in Planes |->
        IF \E x \in planes \cap Attached(at) : PlaneOf(at, x) = q
        THEN [i \in Cells(q) |-> IF i <= at.viewport THEN Made(id, <<>>) ELSE m[q][i]]
        ELSE m[q]]

Records == phase = "record" /\ work < MaxWork /\ total < MaxTotal
Recorded(t, m) ==
    /\ s' = t
    /\ ideal' = m
    /\ work' = work + 1
    /\ total' = total + 1
    /\ UNCHANGED <<mem, phase>>

DrawPrimitive(d) ==
    /\ Records
    /\ Recorded(emit_draw(Bind(s, d.at), d, work + 1), ImmediateDraw(ideal, d, work + 1))

\* Clear: the colour, then the depth and stencil planes it names.
Clear(c) ==
    LET id == work + 1
        bound == Bind(s, c.at)
        colored == IF "color" \in c.planes
                   THEN clear_color_bounded_to_viewport(bound, id) ELSE bound
        planes == c.planes \ {"color"}
    IN  /\ Records
        /\ Recorded(IF planes = {} THEN colored
                    ELSE clear_depth_stencil_bounded_to_viewport(colored, planes, id),
                    ImmediateClear(ideal, c.at, c.planes, id))

\* A StretchRect the blit encoder can do, and a depth copy by RESZ.
Copy(b) ==
    /\ Records
    /\ Recorded(push_leading_blit_after_clears(s, b), Copied(ideal, b))

Stretch(x) ==
    LET target == [color |-> x.dst, depth |-> NoTex] IN
    /\ Records
    /\ Recorded(stretch_blit_scaled(s, x.src, x.dst, work + 1),
                Drawn(ideal, target, Extent[x.dst],
                      Command("Cover", work + 1, Extent[x.dst], {"color"}, {}, x.src)))

Lost(m, q) == [m EXCEPT ![q] = [i \in DOMAIN @ |-> Undefined]]

\* finalize_submit and the replay.  A Present gives up what no shader can sample of the
\* depth surfaces (the divergence passes.rs keeps).
Submit(frame_continues) ==
    LET closed == end_current_pass(flush_pending_clears(s))
        ruled == apply_pass_rules(closed, frame_continues)
        transient == UNION {{t, StencilOf(t)} \ {NoTex} : t \in Depths \ Sampleable}
    IN  /\ phase = "record"
        /\ work > 0
        /\ s' = ruled
        /\ mem' = Replayed(mem, ruled)
        /\ ideal' = IF frame_continues THEN ideal
                    ELSE [q \in Planes |-> IF q \in transient THEN Lost(ideal, q)[q] ELSE ideal[q]]
        /\ phase' = IF frame_continues THEN "flushed" ELSE "presented"
        /\ UNCHANGED <<work, total>>

\* The next frame.  Contents are renamed: only which cells are defined carries over.
begin_frame ==
    LET kept == IF phase = "presented" /\ Discards THEN Lost(ideal, Backbuffer) ELSE ideal
        renamed == [q \in Planes |-> [i \in Cells(q) |->
                       IF kept[q][i] = Undefined THEN Undefined ELSE Old(q, i)]]
    IN  /\ phase \in {"flushed", "presented"}
        /\ s' = reset_frame(s, phase = "flushed")
        /\ mem' = renamed
        /\ ideal' = renamed
        /\ work' = 0
        /\ phase' = "record"
        /\ UNCHANGED total

Init ==
    LET defined == (Colors \cup Sampleable) \ (IF Discards THEN {Backbuffer} ELSE {})
        fresh == [q \in Planes |-> [i \in Cells(q) |->
                     IF q \in defined THEN Old(q, i) ELSE Undefined]]
    IN  /\ s = FreshState
        /\ mem = fresh
        /\ ideal = fresh
        /\ work = 0
        /\ total = 0
        /\ phase = "record"

Next ==
    \/ \E d \in Draws : DrawPrimitive(d)
    \/ \E c \in ClearOps : Clear(c)
    \/ \E b \in Copies : Copy(b)
    \/ \E x \in Stretches : Stretch(x)
    \/ Submit(TRUE)
    \/ Submit(FALSE)
    \/ begin_frame

Spec == Init /\ [][Next]_vars

----------------------------------------------------------------------------
(* After every submission, memory holds what the calls, executed one by one, *)
(* would have left, wherever that is defined: no rule of passes.rs drops,    *)
(* reorders or confines a clear, a draw or a copy that anything sees.        *)
Faithful ==
    phase # "record" =>
        \A q \in Planes : \A i \in Cells(q) :
            ideal[q][i] = Undefined \/ mem[q][i] = ideal[q][i]

(* A pass whose colour target is smaller than its depth surface loads a       *)
(* depth or stencil clear only right after a depth-only pass that cleared     *)
(* all of the surface to the same value: the assertion of push_pass.         *)
ShortClearsRepeat ==
    phase = "record" =>
    \A i \in DOMAIN s.passes :
        LET p == s.passes[i] IN
        (Clears(p.load.depth) \/ Clears(p.load.stencil)) /\ ~color_extent_covers_depth(p) =>
            /\ i > 1
            /\ LET prev == s.passes[i - 1] IN
               /\ prev.color = NoTex /\ prev.commands = <<>> /\ prev.depth = p.depth
               /\ \A x \in {"depth", "stencil"} : Clears(p.load[x]) => prev.load[x] = p.load[x]
=============================================================================
